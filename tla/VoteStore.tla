----------------------------- MODULE VoteStore -----------------------------
(***************************************************************************)
(* The votes of the merchant directory (apps/wallet/server.js):            *)
(* createVoteStore() and handleDirectoryVote().  A vote is a toggle; the   *)
(* promise chain `writing` makes the toggles, with the file write each one *)
(* ends with, follow one another.                                          *)
(***************************************************************************)
EXTENDS Integers, Sequences, FiniteSets

CONSTANTS
    Ballots,     \* vote requests handled at one time
    Merchants,
    Voters,      \* voterKey() of each: a token, or an IP address
    MaxVotes,    \* bound: votes asked for
    MaxVoteFaults    \* bound: restarts, failed reads and failed writes

ASSUME VoteAssumption == MaxVotes \in Nat /\ MaxVoteFaults \in Nat

VARIABLES
    ballot,     \* per request: where it is and what it votes for
    writing,      \* the requests in `writing`, the running one first
    votes,      \* state.votes, NotLoaded before load()
    voteTmp, voteFile,  \* what votes.json.tmp and votes.json hold
    settled,    \* ghost: the last persist() succeeded
    blank,      \* ghost: votes.json could not be read, memory began empty
    voted, voteFaults

voteVars == <<ballot, writing, votes, voteTmp, voteFile, settled, blank, voted, voteFaults>>

Tallies == [Merchants -> SUBSET Voters]
NoVotes == [m \in Merchants |-> {}]
NotLoaded == [m \in {} |-> {}]
Files == [whole: BOOLEAN, votes: Tallies]
NoBallot == [at |-> "none"]

VoteTypeOK ==
    /\ ballot \in [Ballots -> {NoBallot} \union
            [at: {"list", "queued", "write", "rename"}, merchant: Merchants, voter: Voters]]
    /\ writing \in Seq(Ballots)
    /\ votes \in Tallies \union {NotLoaded}
    /\ voteTmp \in Files /\ voteFile \in Files
    /\ {settled, blank} \subseteq BOOLEAN
    /\ voted \in 0 .. MaxVotes /\ voteFaults \in 0 .. MaxVoteFaults

VoteInit ==
    /\ ballot = [b \in Ballots |-> NoBallot]
    /\ writing = <<>> /\ votes = NotLoaded
    /\ voteFile \in [whole: {TRUE}, votes: Tallies] /\ voteTmp = voteFile
    /\ settled = TRUE /\ blank = FALSE
    /\ voted = 0 /\ voteFaults = 0

-----------------------------------------------------------------------------

VoteFault == voteFaults < MaxVoteFaults /\ voteFaults' = voteFaults + 1

\* A vote comes in; the served list is awaited.
Vote(b, m, v) ==
    /\ ballot[b].at = "none" /\ voted < MaxVotes
    /\ ballot' = [ballot EXCEPT ![b] = [at |-> "list", merchant |-> m, voter |-> v]]
    /\ voted' = voted + 1
    /\ UNCHANGED <<writing, votes, voteTmp, voteFile, settled, blank, voteFaults>>

\* The list is there: a merchant it does not have is refused, else the toggle
\* joins the writing.
Join(b) ==
    /\ ballot[b].at = "list"
    /\ \/ ballot' = [ballot EXCEPT ![b] = NoBallot] /\ UNCHANGED writing
       \/ ballot' = [ballot EXCEPT ![b].at = "queued"] /\ writing' = Append(writing, b)
    /\ UNCHANGED <<votes, voteTmp, voteFile, settled, blank, voted, voteFaults>>

\* load(), awaited by the first use of the store: a vote or a listing.
Load ==
    /\ votes = NotLoaded
    /\ votes' = IF voteFile.whole THEN voteFile.votes ELSE NoVotes
    /\ UNCHANGED <<ballot, writing, voteTmp, voteFile, settled, blank, voted, voteFaults>>

\* votes.json is there but cannot be read: the store starts empty.
LoadFails ==
    /\ votes = NotLoaded
    /\ VoteFault
    /\ votes' = NoVotes
    /\ blank' = TRUE
    /\ UNCHANGED <<ballot, writing, voteTmp, voteFile, settled, voted>>

\* Mutant: there is no writing.
TurnAny(b) == TRUE

\* The links before this one have settled.
Turn(b) == writing[1] = b

Toggled(b) ==
    LET m == ballot[b].merchant
        v == ballot[b].voter
    IN IF v \in votes[m] THEN [votes EXCEPT ![m] = @ \ {v}] ELSE [votes EXCEPT ![m] = @ \union {v}]

\* The vote is toggled in memory and persist() begins to write the temporary file.
Toggle(b) ==
    /\ ballot[b].at = "queued" /\ Turn(b) /\ votes # NotLoaded
    /\ votes' = Toggled(b)
    /\ voteTmp' = [whole |-> FALSE, votes |-> votes']
    /\ ballot' = [ballot EXCEPT ![b].at = "write"]
    /\ UNCHANGED <<writing, voteFile, settled, blank, voted, voteFaults>>

VoteWritten(b) ==
    /\ ballot[b].at = "write"
    /\ voteTmp' = [voteTmp EXCEPT !.whole = TRUE]
    /\ ballot' = [ballot EXCEPT ![b].at = "rename"]
    /\ UNCHANGED <<writing, votes, voteFile, settled, blank, voted, voteFaults>>

\* The toggle is over: it was the first, and the next one of the writing may run.
Leave(b) ==
    /\ writing' = Tail(writing)
    /\ ballot' = [ballot EXCEPT ![b] = NoBallot]

VoteRenamed(b) ==
    /\ ballot[b].at = "rename"
    /\ voteFile' = voteTmp
    /\ settled' = TRUE
    /\ Leave(b)
    /\ UNCHANGED <<votes, voteTmp, blank, voted, voteFaults>>

\* The vote is kept in memory only.
PersistFails(b) ==
    /\ ballot[b].at \in {"write", "rename"}
    /\ VoteFault
    /\ settled' = FALSE
    /\ Leave(b)
    /\ UNCHANGED <<votes, voteTmp, voteFile, blank, voted>>

VoteRestart ==
    /\ VoteFault
    /\ ballot' = [b \in Ballots |-> NoBallot]
    /\ writing' = <<>>
    /\ votes' = NotLoaded
    /\ settled' = TRUE /\ blank' = FALSE
    /\ UNCHANGED <<voteTmp, voteFile, voted>>

VoteNext ==
    \/ \E b \in Ballots, m \in Merchants, v \in Voters : Vote(b, m, v)
    \/ Load \/ LoadFails \/ VoteRestart
    \/ \E b \in Ballots : Join(b) \/ Toggle(b) \/ VoteWritten(b) \/ VoteRenamed(b) \/ PersistFails(b)

VoteSpec == VoteInit /\ [][VoteNext]_voteVars

-----------------------------------------------------------------------------
(* Properties *)

\* votes.json always parses, and once the writing is empty it holds what memory
\* holds, unless the last write failed or memory began empty (persist).
VoteFileCurrent ==
    /\ voteFile.whole
    /\ writing = <<>> /\ votes # NotLoaded /\ settled /\ ~blank => voteFile.votes = votes
=============================================================================
