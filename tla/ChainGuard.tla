----------------------------- MODULE ChainGuard -----------------------------
(***************************************************************************)
(* The cross-wire guard of the wallet server and what it guards            *)
(* (apps/wallet/server.js): the RPC proxy, the indexer proxy and the price *)
(* sampler with its history file.  The node behind the configured URL may  *)
(* be swapped for one of another chain at any time; every call to it reads *)
(* the chain at one moment and is answered at a later one, or fails.       *)
(*                                                                         *)
(* Time is left out: the sampler's interval and the guard's 5 s or 60 s    *)
(* may expire at any moment, and which points of the series are too old is *)
(* left open, except that the point just taken is not.                     *)
(***************************************************************************)
EXTENDS Integers, Sequences

CONSTANTS
    Chains,      \* what a node can report
    Expected,    \* EXPECTED_CHAIN
    NoChain,     \* no answer: null, a failed call, a missing field
    Samples,     \* sample() calls that may overlap
    Reads,       \* requests of browsers
    MaxSwaps,    \* bound: swaps of the backend
    MaxPoints,   \* bound: length of the series
    MaxGuardRestarts  \* bound: restarts of the server

ASSUME GuardAssumption ==
    /\ Expected \in Chains
    /\ NoChain \notin Chains
    /\ Chains \intersect {"none", "asked"} = {}
    /\ MaxSwaps \in Nat /\ MaxPoints \in Nat \ {0} /\ MaxGuardRestarts \in Nat

VARIABLES
    node,      \* the chain of the node behind the URL
    swaps,
    actual,    \* guard.actual
    loop,      \* the probe of the guard's own loop
    sample,    \* per sample(): its stage and the call it waits for
    read,      \* per request: its stage and the call it waits for
    series,    \* the points in memory, each with the chain it came from
    historyTmp,       \* the temporary files that exist: name -> what is in it
    history,   \* the history file
    guardRestarts

guardVars == <<node, swaps, actual, loop, sample, read, series, historyTmp, history, guardRestarts>>

(***************************************************************************)
(* A call to the node: "none", "asked" (not answered yet), or the chain it *)
(* was answered for, on its way.  A call that fails tells nothing, so when *)
(* it failed does not matter: it fails as it is waited for.                *)
(***************************************************************************)
Calls == Chains \union {"none", "asked"}

\* A point remembers the chain it came from and, as a ghost, whether its sample
\* was exposed: the node was swapped under it, or its probe failed.
Points == [chain: Chains, exposed: BOOLEAN]
Partial(s) == [whole |-> FALSE, points |-> s]
Whole(s) == [whole |-> TRUE, points |-> s]
\* A file: complete, or with only a part of those points in it.
FileContents == [whole: BOOLEAN, points: UNION {[1 .. n -> Points] : n \in 0 .. MaxPoints}]

SampleStages == {"none", "probe", "price", "write", "rename"}

GuardTypeOK ==
    /\ node \in Chains
    /\ swaps \in 0 .. MaxSwaps
    /\ actual \in Chains \union {NoChain}
    /\ loop \in Calls
    /\ sample \in [Samples -> [at: SampleStages, call: Calls, exposed: BOOLEAN]]
    /\ read \in [Reads -> Calls]
    /\ series \in Seq(Points) /\ Len(series) <= MaxPoints
    /\ DOMAIN historyTmp \subseteq Samples /\ \A n \in DOMAIN historyTmp : historyTmp[n] \in FileContents
    /\ history \in FileContents
    /\ guardRestarts \in 0 .. MaxGuardRestarts

NoSample == [at |-> "none", call |-> "none", exposed |-> FALSE]

GuardInit ==
    /\ node \in Chains
    /\ swaps = 0
    /\ actual = NoChain
    /\ loop = "asked"
    /\ sample = [s \in Samples |-> NoSample]
    /\ read = [r \in Reads |-> "none"]
    /\ series = <<>>
    /\ historyTmp = [n \in {} |-> Whole(<<>>)]
    /\ history = Whole(<<>>)
    /\ guardRestarts = 0

-----------------------------------------------------------------------------
(* The guard *)

Mismatch == actual # NoChain /\ actual # Expected
Unconfirmed == actual = NoChain
Blocked == Mismatch \/ Unconfirmed

\* Mutant: the first answer is for ever.
SeenOnce(c) == IF actual # NoChain THEN actual ELSE c

\* seen()
Seen(c) == c

\* The node is replaced, or the URL starts to point elsewhere.
Swap(c) ==
    /\ swaps < MaxSwaps /\ c # node
    /\ node' = c
    /\ swaps' = swaps + 1
    /\ sample' = [s \in Samples |->
           IF sample[s].at \in {"probe", "price"} THEN [sample[s] EXCEPT !.exposed = TRUE] ELSE sample[s]]
    /\ UNCHANGED <<actual, loop, read, series, historyTmp, history, guardRestarts>>

LoopAnswered ==
    /\ loop = "asked"
    /\ loop' = node
    /\ UNCHANGED <<node, swaps, actual, sample, read, series, historyTmp, history, guardRestarts>>

\* The loop's probe is over, or failed and the last known answer is kept; the
\* timer is set, for any time ahead.
LoopSees ==
    /\ loop \in Chains
    /\ actual' = Seen(loop)
    /\ loop' = "none"
    /\ UNCHANGED <<node, swaps, sample, read, series, historyTmp, history, guardRestarts>>

LoopFails ==
    /\ loop = "asked"
    /\ loop' = "none"
    /\ UNCHANGED <<node, swaps, actual, sample, read, series, historyTmp, history, guardRestarts>>

LoopProbes ==
    /\ loop = "none"
    /\ loop' = "asked"
    /\ UNCHANGED <<node, swaps, actual, sample, read, series, historyTmp, history, guardRestarts>>

-----------------------------------------------------------------------------
(* handleRpc(): a getblockchaininfo tells the guard as well.  The other     *)
(* methods, and handleIndexer(), pass the same gate and change nothing.     *)

\* A blocked guard refuses every request; else the node is asked.
Forward(r) ==
    /\ read[r] = "none"
    /\ ~Blocked
    /\ read' = [read EXCEPT ![r] = "asked"]
    /\ UNCHANGED <<node, swaps, actual, loop, sample, series, historyTmp, history, guardRestarts>>

ReadAnswered(r) ==
    /\ read[r] = "asked"
    /\ read' = [read EXCEPT ![r] = node]
    /\ UNCHANGED <<node, swaps, actual, loop, sample, series, historyTmp, history, guardRestarts>>

Serve(r) ==
    /\ read[r] \in Chains
    /\ actual' = Seen(read[r])
    /\ read' = [read EXCEPT ![r] = "none"]
    /\ UNCHANGED <<node, swaps, loop, sample, series, historyTmp, history, guardRestarts>>

\* 502: the call failed.
ReadFails(r) ==
    /\ read[r] = "asked"
    /\ read' = [read EXCEPT ![r] = "none"]
    /\ UNCHANGED <<node, swaps, actual, loop, sample, series, historyTmp, history, guardRestarts>>

-----------------------------------------------------------------------------
(* startPriceSampler() *)

\* Mutant: sample() trusts what the loop found out.
SampleStartsUnprobed(s) ==
    /\ sample[s].at = "none"
    /\ ~Blocked
    /\ sample' = [sample EXCEPT ![s] = [at |-> "price", call |-> "asked", exposed |-> FALSE]]
    /\ UNCHANGED <<node, swaps, actual, loop, read, series, historyTmp, history, guardRestarts>>

\* sample() starts with a probe of its own.
SampleStarts(s) ==
    /\ sample[s].at = "none"
    /\ sample' = [sample EXCEPT ![s] = [at |-> "probe", call |-> "asked", exposed |-> FALSE]]
    /\ UNCHANGED <<node, swaps, actual, loop, read, series, historyTmp, history, guardRestarts>>

SampleAnswered(s) ==
    /\ sample[s].call = "asked"
    /\ sample' = [sample EXCEPT ![s].call = node]
    /\ UNCHANGED <<node, swaps, actual, loop, read, series, historyTmp, history, guardRestarts>>

\* The probe is over, or failed (c = NoChain): the price is asked for unless the
\* guard objects.
Probed(s, c) ==
    /\ sample[s].at = "probe"
    /\ \/ sample[s].call = c /\ actual' = Seen(c)
       \/ sample[s].call = "asked" /\ c = NoChain /\ UNCHANGED actual
    /\ sample' = [sample EXCEPT ![s] =
           IF actual' = Expected
           THEN [at |-> "price", call |-> "asked", exposed |-> sample[s].exposed \/ c = NoChain]
           ELSE NoSample]
    /\ UNCHANGED <<node, swaps, loop, read, series, historyTmp, history, guardRestarts>>

\* No price: the point is skipped.
Skip(s) ==
    /\ sample[s].at = "price" /\ sample[s].call = "asked"
    /\ sample' = [sample EXCEPT ![s] = NoSample]
    /\ UNCHANGED <<node, swaps, actual, loop, read, series, historyTmp, history, guardRestarts>>

\* The temporary name is unique per write.
TmpName(s) == s

Put(name, c) == [n \in DOMAIN historyTmp \union {name} |-> IF n = name THEN c ELSE historyTmp[n]]
Dropped(name) == [n \in DOMAIN historyTmp \ {name} |-> historyTmp[n]]

\* The price is there: push it, shift what is too old, open the temporary file.
Push(s) ==
    LET longer == Append(series, [chain |-> sample[s].call, exposed |-> sample[s].exposed])
    IN /\ sample[s].at = "price" /\ sample[s].call \in Chains
       /\ \E old \in 0 .. Len(series) :
             /\ Len(longer) - old <= MaxPoints
             /\ series' = SubSeq(longer, old + 1, Len(longer))
       /\ historyTmp' = Put(TmpName(s), Partial(series'))
       /\ sample' = [sample EXCEPT ![s] = [NoSample EXCEPT !.at = "write"]]
       /\ UNCHANGED <<node, swaps, actual, loop, read, history, guardRestarts>>

\* The temporary file holds all of what the series was when the write was called for.
HistoryWritten(s) ==
    /\ sample[s].at = "write"
    /\ historyTmp' = IF TmpName(s) \in DOMAIN historyTmp THEN Put(TmpName(s), Whole(historyTmp[TmpName(s)].points)) ELSE historyTmp
    /\ sample' = [sample EXCEPT ![s].at = "rename"]
    /\ UNCHANGED <<node, swaps, actual, loop, read, series, history, guardRestarts>>

\* rename() publishes whatever the name holds now, or fails when it holds nothing.
HistoryRenamed(s) ==
    /\ sample[s].at = "rename"
    /\ IF TmpName(s) \in DOMAIN historyTmp
       THEN history' = historyTmp[TmpName(s)] /\ historyTmp' = Dropped(TmpName(s))
       ELSE UNCHANGED <<history, historyTmp>>
    /\ sample' = [sample EXCEPT ![s] = NoSample]
    /\ UNCHANGED <<node, swaps, actual, loop, read, series, guardRestarts>>

\* The disk refuses: the temporary file is unlinked, the series stays in memory.
HistoryFails(s) ==
    /\ sample[s].at \in {"write", "rename"}
    /\ historyTmp' = Dropped(TmpName(s))
    /\ sample' = [sample EXCEPT ![s] = NoSample]
    /\ UNCHANGED <<node, swaps, actual, loop, read, series, history, guardRestarts>>

-----------------------------------------------------------------------------
(* Restart, the specification *)

\* The server is replaced.  A write in flight may still be finished by the
\* outgoing process; every other sample and request is gone.  The new process
\* reads the history, drops what is too old, and knows no chain.
GuardRestart(surviving) ==
    /\ guardRestarts < MaxGuardRestarts
    /\ guardRestarts' = guardRestarts + 1
    /\ surviving \subseteq {s \in Samples : sample[s].at \in {"write", "rename"}}
    /\ sample' = [s \in Samples |-> IF s \in surviving THEN sample[s] ELSE NoSample]
    /\ historyTmp' = [n \in DOMAIN historyTmp \cap {TmpName(s) : s \in surviving} |-> historyTmp[n]]
    /\ read' = [r \in Reads |-> "none"]
    /\ loop' = "asked"
    /\ actual' = NoChain
    /\ IF history.whole
       THEN \E old \in 0 .. Len(history.points) :
               series' = SubSeq(history.points, old + 1, Len(history.points))
       ELSE series' = <<>>
    /\ UNCHANGED <<node, swaps, history>>

GuardNext ==
    \/ \E c \in Chains : Swap(c)
    \/ LoopAnswered \/ LoopSees \/ LoopFails \/ LoopProbes
    \/ \E r \in Reads : Forward(r) \/ ReadAnswered(r) \/ Serve(r) \/ ReadFails(r)
    \/ \E s \in Samples : SampleStarts(s) \/ SampleAnswered(s) \/ Skip(s) \/ Push(s)
    \/ \E s \in Samples, c \in Chains \union {NoChain} : Probed(s, c)
    \/ \E s \in Samples : HistoryWritten(s) \/ HistoryRenamed(s) \/ HistoryFails(s)
    \/ \E surviving \in SUBSET Samples : GuardRestart(surviving)

\* The guard's timer fires and its answers are handled; a node that is asked
\* again and again answers some of the probes.  Nothing is needed of the rest.
GuardFairness ==
    WF_guardVars(LoopProbes) /\ SF_guardVars(LoopAnswered) /\ WF_guardVars(LoopSees)

GuardSpec == GuardInit /\ [][GuardNext]_guardVars
FairGuardSpec == GuardSpec /\ GuardFairness

-----------------------------------------------------------------------------
(* Properties *)

Remembered == {series[i] : i \in 1 .. Len(series)}
                  \union {history.points[i] : i \in 1 .. Len(history.points)}

\* A point of another chain gets into the series, or into the history file, only
\* through a sample whose node was swapped under it or whose own probe failed
\* (startPriceSampler).  The comment in sample() promises not even that one.
WrongPointNeedsSwap == \A p \in Remembered : p.chain = Expected \/ p.exposed

\* What the history file's name leads to is always a complete series.
HistoryWhole == history.whole

\* Whatever answers come late or from before a swap, the guard ends up with the
\* chain of the node once that stays the same: a cross-wired server refuses
\* again, a repaired one serves again without a restart.
GuardConverges == \A c \in Chains : <>[](node = c) => <>[](actual = c)
=============================================================================
