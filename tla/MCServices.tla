----------------------------- MODULE MCServices -----------------------------
(***************************************************************************)
(* The services around the wallet for TLC: the faucet, the guarded proxies *)
(* and sampler, the directory, its votes, the limiter and the event        *)
(* stream.  They share a host and a clock but no state, so one of them is  *)
(* the `part` of a behaviour and the others stay where they start.         *)
(***************************************************************************)
EXTENDS Faucet, ChainGuard, Directory, VoteStore, RateLimit, EventStream, TLC

CONSTANTS st1, st2, st3, i1, i2

\* Two streams from one address, one from another.
TheAddr == st1 :> i1 @@ st2 :> i1 @@ st3 :> i2

VARIABLE part

servicesVars == <<faucetVars, guardVars, dirVars, voteVars, rateVars, eventVars, part>>

\* Where the guard stands while it is not the part: its node is known to be right.
GuardConfirmed ==
    /\ node = Expected /\ swaps = 0 /\ actual = Expected /\ loop = "none"
    /\ sample = [s \in Samples |-> NoSample] /\ read = [r \in Reads |-> "none"]
    /\ series = <<>> /\ historyTmp = [n \in {} |-> Whole(<<>>)] /\ history = Whole(<<>>)
    /\ guardRestarts = 0

ServicesInit ==
    /\ part \in {"faucet", "guard", "directory", "votes", "limiter", "events"}
    /\ FaucetInit /\ DirInit /\ VoteInit /\ RateInit /\ EventInit
    /\ IF part = "guard" THEN GuardInit ELSE GuardConfirmed
    /\ part # "votes" => voteFile.votes = NoVotes

ServicesNext ==
    /\ UNCHANGED part
    /\ \/ /\ part = "faucet" /\ FaucetNext
          /\ UNCHANGED <<guardVars, dirVars, voteVars, rateVars, eventVars>>
       \/ /\ part = "guard" /\ GuardNext
          /\ UNCHANGED <<faucetVars, dirVars, voteVars, rateVars, eventVars>>
       \/ /\ part = "directory" /\ DirNext
          /\ UNCHANGED <<faucetVars, guardVars, voteVars, rateVars, eventVars>>
       \/ /\ part = "votes" /\ VoteNext
          /\ UNCHANGED <<faucetVars, guardVars, dirVars, rateVars, eventVars>>
       \/ /\ part = "limiter" /\ RateNext
          /\ UNCHANGED <<faucetVars, guardVars, dirVars, voteVars, eventVars>>
       \/ /\ part = "events" /\ EventNext
          /\ UNCHANGED <<faucetVars, guardVars, dirVars, voteVars, rateVars>>

\* The event stream owes no step before a stream is open; the guard owes its
\* first probe from the start.
ServicesSpec ==
    /\ ServicesInit /\ [][ServicesNext]_servicesVars
    /\ part = "guard" => GuardFairness
    /\ EventFairness
=============================================================================
