--------------------------- MODULE ServicesProofs ---------------------------
(***************************************************************************)
(* What holds of the services of the wallet server, for any node, any      *)
(* number of clients and any crashes: the price history (ChainGuard), the  *)
(* merchant directory (Directory), the votes (VoteStore), the event        *)
(* streams (EventStream), the faucet (Faucet) and the rate limiter         *)
(* (RateLimit).                                                            *)
(*                                                                         *)
(* A point is excused when it is of the chain asked for or its sample saw  *)
(* the node change (GuardInv); a refresh that is alone writes an inode the *)
(* snapshot does not lead to (Alone); the one vote that is being written is *)
(* the first of the queue, and what it writes is what memory holds         *)
(* (VoteInv).                                                              *)
(*                                                                         *)
(* Why a second payment of the faucet waits: what was paid and not         *)
(* forgotten is either in the ledger or still held by the claim that made  *)
(* it (PaidKnown), and a claim on its way to the node found its keys       *)
(* cooled down, which no other claim can change while it holds them        *)
(* (Cooled).                                                               *)
(*                                                                         *)
(* A client is within its allowance in the window of its bucket, and was   *)
(* within it over the window's length before (Running); without a bucket   *)
(* it was within it over the last one (Quiet): any span of one window      *)
(* falls into two such parts.                                              *)
(***************************************************************************)
EXTENDS ChainGuard, Directory, VoteStore, EventStream, Faucet, RateLimit,
        FiniteSetTheorems, SequenceTheorems, TLAPS

-----------------------------------------------------------------------------
(* The guard and the sampler                                               *)

Sampled == [at : SampleStages, call : Calls, exposed : BOOLEAN]

\* A point may be remembered.
Excused(p) == p.chain = Expected \/ p.exposed
AllExcused(s) == \A i \in 1 .. Len(s) : s[i] \in Points /\ Excused(s[i])
HistoryFile(f) == f.whole \in BOOLEAN /\ f.points \in Seq(Points) /\ AllExcused(f.points)

\* A sample nothing happened to has its answers from the node as it is, and asks for a
\* price only where that is the right one.
SampleSound(x) ==
    /\ x.at = "probe" /\ ~x.exposed /\ x.call \in Chains => x.call = node
    /\ x.at = "price" /\ ~x.exposed => node = Expected /\ (x.call \in Chains => x.call = Expected)

GuardInv ==
    /\ node \in Chains
    /\ sample \in [Samples -> Sampled]
    /\ \A s \in Samples : SampleSound(sample[s])
    /\ series \in Seq(Points) /\ AllExcused(series)
    /\ \A n \in DOMAIN historyTmp : HistoryFile(historyTmp[n])
    /\ HistoryFile(history) /\ history.whole
    /\ \A s \in Samples : sample[s].at = "rename" /\ s \in DOMAIN historyTmp => historyTmp[s].whole

LEMMA NoSampleSound == NoSample \in Sampled /\ SampleSound(NoSample) /\ NoSample.at = "none"
    BY DEF NoSample, Sampled, SampleStages, Calls, SampleSound

LEMMA EmptySeries == <<>> \in Seq(Points) /\ AllExcused(<<>>)
    BY DEF AllExcused

LEMMA GuardInvInit == GuardInit => GuardInv
<1> SUFFICES ASSUME GuardInit PROVE GuardInv
    OBVIOUS
<1>1. sample \in [Samples -> Sampled] /\ \A s \in Samples : SampleSound(sample[s]) /\ sample[s].at = "none"
    BY NoSampleSound DEF GuardInit
<1>2. HistoryFile(history) /\ history.whole
    BY EmptySeries DEF GuardInit, Whole, HistoryFile
<1>3. DOMAIN historyTmp = {}
    BY DEF GuardInit
<1> QED
    BY <1>1, <1>2, <1>3, EmptySeries DEF GuardInit, GuardInv

\* What is left of excused points is excused.
LEMMA SubExcused ==
    ASSUME NEW s \in Seq(Points), AllExcused(s), NEW k \in 0 .. Len(s)
    PROVE  SubSeq(s, k + 1, Len(s)) \in Seq(Points) /\ AllExcused(SubSeq(s, k + 1, Len(s)))
<1>1. PICK n \in Nat : n = Len(s) - k
    OBVIOUS
<1>2. PICK t : t = SubSeq(s, k + 1, Len(s))
    OBVIOUS
<1>3. t \in Seq(Points) /\ Len(t) = n /\ \A i \in 1 .. n : t[i] = s[k + i]
    BY <1>1, <1>2
<1>4. Len(s) \in Nat /\ \A i \in 1 .. n : k + i \in 1 .. Len(s)
    BY <1>1
<1>5. \A i \in 1 .. n : t[i] \in Points /\ Excused(t[i])
    BY <1>3, <1>4 DEF AllExcused
<1>6. AllExcused(t)
    BY <1>3, <1>5 DEF AllExcused
<1> QED
    BY <1>2, <1>3, <1>6

\* A sample moves on while the points stay.
LEMMA GuardInvSample ==
    ASSUME GuardInv, NEW s \in Samples, NEW x \in Sampled, SampleSound(x), x.at # "rename",
           sample' = [sample EXCEPT ![s] = x], UNCHANGED <<node, series, historyTmp, history>>
    PROVE  GuardInv'
<1>1. sample' \in [Samples -> Sampled] /\ \A u \in Samples : sample'[u] = IF u = s THEN x ELSE sample[u]
    BY DEF GuardInv
<1>2. ASSUME NEW u \in Samples PROVE SampleSound(sample[u])'
    BY <1>1 DEF GuardInv, SampleSound
<1>3. \A u \in Samples : sample'[u].at = "rename" /\ u \in DOMAIN historyTmp => historyTmp[u].whole
    BY <1>1 DEF GuardInv
<1> QED
    BY <1>1, <1>2, <1>3 DEF GuardInv, AllExcused, HistoryFile, Excused

\* A sample moves on and the files change: whatever they hold is excused.
LEMMA GuardInvFiles ==
    ASSUME GuardInv, NEW s \in Samples, NEW x \in Sampled, x.at \in {"none", "write", "rename"},
           sample' = [sample EXCEPT ![s] = x], UNCHANGED node,
           series' \in Seq(Points), AllExcused(series'), HistoryFile(history'), history'.whole,
           \A n \in DOMAIN historyTmp' : HistoryFile(historyTmp'[n]),
           \A n \in DOMAIN historyTmp' \ {s} : n \in DOMAIN historyTmp /\ historyTmp'[n] = historyTmp[n],
           x.at = "rename" /\ s \in DOMAIN historyTmp' => historyTmp'[s].whole
    PROVE  GuardInv'
<1>1. sample' \in [Samples -> Sampled] /\ \A u \in Samples : sample'[u] = IF u = s THEN x ELSE sample[u]
    BY DEF GuardInv
<1>2. ASSUME NEW u \in Samples PROVE SampleSound(sample[u])'
    BY <1>1 DEF GuardInv, SampleSound
<1>3. \A u \in Samples : sample'[u].at = "rename" /\ u \in DOMAIN historyTmp' => historyTmp'[u].whole
    BY <1>1 DEF GuardInv
<1>4. AllExcused(series)' /\ HistoryFile(history)' /\ \A n \in DOMAIN historyTmp' : HistoryFile(historyTmp[n])'
    BY DEF AllExcused, HistoryFile, Excused
<1> QED
    BY <1>1, <1>2, <1>3, <1>4 DEF GuardInv

LEMMA GuardInvSwap == ASSUME GuardInv, NEW c \in Chains, Swap(c) PROVE GuardInv'
<1>1. /\ node' = c /\ UNCHANGED <<series, historyTmp, history>>
      /\ sample' = [s \in Samples |->
           IF sample[s].at \in {"probe", "price"} THEN [sample[s] EXCEPT !.exposed = TRUE] ELSE sample[s]]
    BY DEF Swap
<1>2. ASSUME NEW s \in Samples
      PROVE  /\ sample'[s] \in Sampled /\ sample'[s].at = sample[s].at
             /\ sample'[s].at \in {"probe", "price"} => sample'[s].exposed
    <2>1. PICK old \in Sampled : old = sample[s]
        BY DEF GuardInv
    <2>2. sample'[s] = IF old.at \in {"probe", "price"} THEN [old EXCEPT !.exposed = TRUE] ELSE old
        BY <1>1, <2>1
    <2> QED
        BY <2>1, <2>2 DEF Sampled
<1>3. ASSUME NEW s \in Samples PROVE SampleSound(sample[s])'
    BY <1>2 DEF SampleSound
<1>4. sample' \in [Samples -> Sampled]
    BY <1>1, <1>2
<1>5. \A s \in Samples : sample'[s].at = "rename" /\ s \in DOMAIN historyTmp => historyTmp[s].whole
    BY <1>2 DEF GuardInv
<1> QED
    BY <1>1, <1>3, <1>4, <1>5 DEF GuardInv, AllExcused, HistoryFile, Excused

LEMMA GuardInvAsks ==
    ASSUME GuardInv, NEW s \in Samples, SampleStarts(s) \/ SampleAnswered(s) \/ Skip(s)
                                            \/ \E c \in Chains \union {NoChain} : Probed(s, c)
    PROVE  GuardInv'
<1>1. UNCHANGED <<node, series, historyTmp, history>>
    BY DEF SampleStarts, SampleAnswered, Skip, Probed
<1>2. PICK old \in Sampled : old = sample[s] /\ SampleSound(old)
    BY DEF GuardInv
<1>3. "asked" \notin Chains /\ "none" \notin Chains /\ node \in Chains
    BY GuardAssumption DEF GuardInv
<1>4. CASE SampleStarts(s)
    <2>1. PICK x : x = [at |-> "probe", call |-> "asked", exposed |-> FALSE]
        OBVIOUS
    <2>2. x \in Sampled /\ SampleSound(x) /\ x.at = "probe"
        BY <1>3, <2>1 DEF Sampled, SampleStages, Calls, SampleSound
    <2> QED
        BY <1>1, <1>4, <2>1, <2>2, GuardInvSample DEF SampleStarts
<1>5. CASE SampleAnswered(s)
    <2>1. PICK x : x = [old EXCEPT !.call = node]
        OBVIOUS
    <2>2. x \in Sampled /\ x.at = old.at /\ x.exposed = old.exposed /\ x.call = node /\ sample' = [sample EXCEPT ![s] = x]
        BY <1>2, <1>3, <1>5, <2>1 DEF SampleAnswered, Sampled, Calls
    <2>3. SampleSound(x)
        BY <1>2, <2>2 DEF SampleSound
    <2>4. CASE old.at # "rename"
        BY <1>1, <2>2, <2>3, <2>4, GuardInvSample
    <2>5. CASE old.at = "rename"
        BY <1>1, <1>2, <2>2, <2>5, GuardInvFiles DEF GuardInv
    <2> QED
        BY <2>4, <2>5
<1>6. CASE Skip(s)
    BY <1>1, <1>6, NoSampleSound, GuardInvSample DEF Skip
<1>7. ASSUME NEW c \in Chains \union {NoChain}, Probed(s, c) PROVE GuardInv'
    <2>1. PICK seen : seen = actual'
        OBVIOUS
    <2>2. CASE seen = Expected
        <3>1. PICK x : x = [at |-> "price", call |-> "asked", exposed |-> old.exposed \/ c = NoChain]
            OBVIOUS
        <3>2. old.at = "probe" /\ sample' = [sample EXCEPT ![s] = x]
            BY <1>2, <1>7, <2>1, <2>2, <3>1 DEF Probed
        <3>3. x \in Sampled /\ x.at = "price" /\ x.call = "asked" /\ (x.exposed <=> old.exposed \/ c = NoChain)
            BY <1>2, <3>1 DEF Sampled, SampleStages, Calls
        <3>4. ASSUME ~x.exposed PROVE node = Expected
            <4>1. ~old.exposed /\ c # NoChain /\ c \in Chains
                BY <3>3, <3>4
            <4>2. old.call = c /\ seen = c
                BY <1>2, <1>7, <2>1, <4>1 DEF Probed, Seen
            <4> QED
                BY <1>2, <2>2, <3>2, <4>1, <4>2 DEF SampleSound
        <3>5. SampleSound(x)
            BY <1>3, <3>3, <3>4 DEF SampleSound
        <3> QED
            BY <1>1, <3>2, <3>3, <3>5, GuardInvSample
    <2>3. CASE seen # Expected
        <3>1. sample' = [sample EXCEPT ![s] = NoSample]
            BY <1>7, <2>1, <2>3 DEF Probed
        <3> QED
            BY <1>1, <3>1, NoSampleSound, GuardInvSample
    <2> QED
        BY <2>2, <2>3
<1> QED
    BY <1>4, <1>5, <1>6, <1>7

\* The point is pushed: its sample answers for it.
LEMMA GuardInvPush == ASSUME GuardInv, NEW s \in Samples, Push(s) PROVE GuardInv'
<1>1. PICK old \in Sampled : old = sample[s] /\ SampleSound(old) /\ old.at = "price" /\ old.call \in Chains
    BY DEF GuardInv, Push
<1>2. PICK p : p = [chain |-> old.call, exposed |-> old.exposed]
    OBVIOUS
<1>3. p \in Points /\ Excused(p)
    BY <1>1, <1>2 DEF Points, Excused, SampleSound, Sampled
<1>4. PICK longer : longer = Append(series, p)
    OBVIOUS
<1>5. longer \in Seq(Points) /\ AllExcused(longer) /\ Len(longer) = Len(series) + 1
    BY <1>3, <1>4 DEF GuardInv, AllExcused
<1>6. PICK k \in 0 .. Len(series) : series' = SubSeq(longer, k + 1, Len(longer))
    BY <1>1, <1>2, <1>4 DEF Push
<1>7. series' \in Seq(Points) /\ AllExcused(series')
    <2>1. Len(series) \in Nat /\ k \in 0 .. Len(longer)
        BY <1>5 DEF GuardInv
    <2> QED
        BY <1>5, <1>6, <2>1, SubExcused
<1>8. PICK x : x = [NoSample EXCEPT !.at = "write"]
    OBVIOUS
<1>9. x \in Sampled /\ x.at = "write" /\ sample' = [sample EXCEPT ![s] = x] /\ UNCHANGED <<node, history>>
    BY <1>8 DEF Push, NoSample, Sampled, SampleStages, Calls
<1>10. PICK f : f = Partial(series')
    OBVIOUS
<1>11. HistoryFile(f) /\ historyTmp' = [n \in DOMAIN historyTmp \union {s} |-> IF n = s THEN f ELSE historyTmp[n]]
    BY <1>7, <1>10 DEF Push, Put, TmpName, HistoryFile, Partial
<1>12. /\ \A n \in DOMAIN historyTmp' : HistoryFile(historyTmp'[n])
       /\ \A n \in DOMAIN historyTmp' \ {s} : n \in DOMAIN historyTmp /\ historyTmp'[n] = historyTmp[n]
    BY <1>11 DEF GuardInv
<1>13. HistoryFile(history') /\ history'.whole
    BY <1>9 DEF GuardInv
<1> QED
    BY <1>7, <1>9, <1>12, <1>13, GuardInvFiles

LEMMA GuardInvHistory ==
    ASSUME GuardInv, NEW s \in Samples, HistoryWritten(s) \/ HistoryRenamed(s) \/ HistoryFails(s)
    PROVE  GuardInv'
<1>1. UNCHANGED <<node, series>>
    BY DEF HistoryWritten, HistoryRenamed, HistoryFails
<1>2. PICK old \in Sampled : old = sample[s]
    BY DEF GuardInv
<1>3. series' \in Seq(Points) /\ AllExcused(series')
    BY <1>1 DEF GuardInv
<1>4. CASE HistoryWritten(s)
    <2>1. PICK x : x = [old EXCEPT !.at = "rename"]
        OBVIOUS
    <2>2. x \in Sampled /\ x.at = "rename" /\ sample' = [sample EXCEPT ![s] = x] /\ UNCHANGED history
        BY <1>2, <1>4, <2>1 DEF HistoryWritten, Sampled, SampleStages
    <2>3. HistoryFile(history') /\ history'.whole
        BY <2>2 DEF GuardInv
    <2>4. CASE s \notin DOMAIN historyTmp
        <3>1. historyTmp' = historyTmp
            BY <1>4, <2>4 DEF HistoryWritten, TmpName
        <3> QED
            BY <1>1, <1>3, <2>2, <2>3, <2>4, <3>1, GuardInvFiles DEF GuardInv
    <2>5. CASE s \in DOMAIN historyTmp
        <3>1. PICK f : f = Whole(historyTmp[s].points)
            OBVIOUS
        <3>2. HistoryFile(f) /\ f.whole
            BY <2>5, <3>1 DEF GuardInv, HistoryFile, Whole
        <3>3. historyTmp' = [n \in DOMAIN historyTmp \union {s} |-> IF n = s THEN f ELSE historyTmp[n]]
            BY <1>4, <2>5, <3>1 DEF HistoryWritten, TmpName, Put
        <3>4. /\ \A n \in DOMAIN historyTmp' : HistoryFile(historyTmp'[n])
              /\ \A n \in DOMAIN historyTmp' \ {s} : n \in DOMAIN historyTmp /\ historyTmp'[n] = historyTmp[n]
              /\ historyTmp'[s].whole
            BY <3>2, <3>3 DEF GuardInv
        <3> QED
            BY <1>1, <1>3, <2>2, <2>3, <3>4, GuardInvFiles
    <2> QED
        BY <2>4, <2>5
<1>5. CASE HistoryRenamed(s) \/ HistoryFails(s)
    <2>1. sample' = [sample EXCEPT ![s] = NoSample]
        BY <1>5 DEF HistoryRenamed, HistoryFails
    <2>2. historyTmp' = historyTmp \/ historyTmp' = [n \in DOMAIN historyTmp \ {s} |-> historyTmp[n]]
        BY <1>5 DEF HistoryRenamed, HistoryFails, Dropped, TmpName
    <2>3. history' = history
            \/ (s \in DOMAIN historyTmp /\ sample[s].at = "rename" /\ history' = historyTmp[s])
        BY <1>5 DEF HistoryRenamed, HistoryFails, TmpName
    <2>4. HistoryFile(history') /\ history'.whole
        BY <2>3 DEF GuardInv
    <2>5. /\ \A n \in DOMAIN historyTmp' : HistoryFile(historyTmp'[n])
          /\ \A n \in DOMAIN historyTmp' \ {s} : n \in DOMAIN historyTmp /\ historyTmp'[n] = historyTmp[n]
        BY <2>2 DEF GuardInv
    <2> QED
        BY <1>1, <1>3, <2>1, <2>4, <2>5, NoSampleSound, GuardInvFiles
<1> QED
    BY <1>4, <1>5

LEMMA GuardInvRestart ==
    ASSUME GuardInv, NEW surviving \in SUBSET Samples, GuardRestart(surviving)
    PROVE  GuardInv'
<1>1. UNCHANGED <<node, history>>
    BY DEF GuardRestart
<1>2. \A s \in Samples : sample'[s] = IF s \in surviving THEN sample[s] ELSE NoSample
    BY DEF GuardRestart
<1>3. sample' \in [Samples -> Sampled]
    BY NoSampleSound DEF GuardRestart, GuardInv
<1>4. ASSUME NEW s \in Samples PROVE SampleSound(sample[s])'
    BY <1>1, <1>2, NoSampleSound DEF GuardInv, SampleSound
<1>5. \A n \in DOMAIN historyTmp' : n \in DOMAIN historyTmp /\ historyTmp'[n] = historyTmp[n]
    BY DEF GuardRestart
<1>6. \A s \in Samples : sample'[s].at = "rename" /\ s \in DOMAIN historyTmp' => historyTmp'[s].whole
    BY <1>2, <1>5, NoSampleSound DEF GuardInv
<1>7. series' \in Seq(Points) /\ AllExcused(series')
    <2>1. PICK points \in Seq(Points) : points = history.points /\ AllExcused(points)
        BY DEF GuardInv, HistoryFile
    <2>2. PICK k \in 0 .. Len(points) : series' = SubSeq(points, k + 1, Len(points))
        BY <2>1 DEF GuardRestart, GuardInv
    <2> QED
        BY <2>1, <2>2, SubExcused
<1>8. AllExcused(series)' /\ HistoryFile(history)' /\ \A n \in DOMAIN historyTmp' : HistoryFile(historyTmp[n])'
    BY <1>1, <1>5, <1>7 DEF GuardInv, AllExcused, HistoryFile, Excused
<1> QED
    BY <1>1, <1>3, <1>4, <1>6, <1>7, <1>8 DEF GuardInv

LEMMA GuardInvNext == GuardInv /\ [GuardNext]_guardVars => GuardInv'
<1> SUFFICES ASSUME GuardInv, [GuardNext]_guardVars PROVE GuardInv'
    OBVIOUS
<1>1. CASE UNCHANGED <<node, sample, series, historyTmp, history>>
    BY <1>1 DEF GuardInv, SampleSound, AllExcused, HistoryFile, Excused
<1>2. CASE LoopAnswered \/ LoopSees \/ LoopFails \/ LoopProbes
             \/ \E r \in Reads : Forward(r) \/ ReadAnswered(r) \/ Serve(r) \/ ReadFails(r)
    BY <1>1, <1>2 DEF LoopAnswered, LoopSees, LoopFails, LoopProbes, Forward, ReadAnswered, Serve, ReadFails
<1>3. CASE UNCHANGED guardVars
    BY <1>1, <1>3 DEF guardVars
<1> QED
    BY <1>2, <1>3, GuardInvSwap, GuardInvAsks, GuardInvPush, GuardInvHistory, GuardInvRestart DEF GuardNext

\* The price history is of the right chain but for samples the node was swapped under
\* (startPriceSampler() in server.js), for any chains, samples, swaps and restarts.
THEOREM PointsOfTheChain == GuardSpec => []WrongPointNeedsSwap
<1>1. GuardInv => WrongPointNeedsSwap
    BY DEF GuardInv, WrongPointNeedsSwap, Remembered, AllExcused, HistoryFile, Excused
<1> QED
    BY GuardInvInit, GuardInvNext, <1>1, PTL DEF GuardSpec

\* And its file always parses: the temporary names are unique.
THEOREM HistoryParses == GuardSpec => []HistoryWhole
<1>1. GuardInv => HistoryWhole
    BY DEF GuardInv, HistoryWhole
<1> QED
    BY GuardInvInit, GuardInvNext, <1>1, PTL DEF GuardSpec

-----------------------------------------------------------------------------
(* The directory                                                           *)

DirTypes ==
    /\ remote \in 1 .. Versions
    /\ inode \in [Inodes -> Contents] /\ snapTmp \in Inodes \union {0} /\ snap \in Inodes \union {0}
    /\ req \in [Gets -> {NoReq} \union RefreshStates]

\* Alone, a refresh writes the inode the temporary name leads to, which is not the
\* snapshot's, and renames it when it is whole.
Alone ==
    /\ \A g, h \in Gets : Refreshing(g) /\ Refreshing(h) => g = h
    /\ snapTmp # 0 => snapTmp # snap
    /\ snap # 0 => inode[snap].whole
    /\ \A g \in Gets : req[g].at \in {"write", "rename"} =>
          /\ snapTmp # 0 /\ req[g].fd = snapTmp
          /\ inode[snapTmp].whole <=> req[g].at = "rename"

DirInv == DirTypes /\ (~overlapped => Alone)

LEMMA InodesAreNot0 == Inodes \subseteq Nat /\ 0 \notin Inodes
    BY DirectoryAssumption, FS_CardinalityType DEF Inodes

LEMMA DirInvInit == DirInit => DirInv
<1> SUFFICES ASSUME DirInit PROVE DirInv
    OBVIOUS
<1>1. \A g \in Gets : req[g] = NoReq /\ req[g].at = "none"
    BY DEF DirInit, NoReq
<1>2. DirTypes
    BY DirectoryAssumption DEF DirInit, DirTypes, Contents
<1> QED
    BY <1>1, <1>2 DEF DirInit, DirInv, Alone, Refreshing

\* A request moves on beside the files.
LEMMA DirInvRequest ==
    ASSUME DirInv, NEW g \in Gets, NEW x \in {NoReq} \union RefreshStates,
           req' = [req EXCEPT ![g] = x], UNCHANGED <<remote, inode, snapTmp, snap>>,
           x.at \notin {"write", "rename"},
           \/ overlapped' = overlapped /\ (Refreshing(g) \/ x.at = "none")
           \/ overlapped' = (overlapped \/ \E h \in Gets : Refreshing(h))
    PROVE  DirInv'
<1>1. req' \in [Gets -> {NoReq} \union RefreshStates] /\ \A h \in Gets : req'[h] = IF h = g THEN x ELSE req[h]
    BY DEF DirInv, DirTypes
<1>2. ASSUME ~overlapped' PROVE Alone'
    <2>1. Alone
        BY <1>2 DEF DirInv
    <2>2. \A h, k \in Gets : Refreshing(h)' /\ Refreshing(k)' => h = k
        BY <1>1, <1>2, <2>1 DEF Refreshing, Alone
    <2> QED
        BY <1>1, <2>1, <2>2 DEF Alone
<1> QED
    BY <1>1, <1>2 DEF DirInv, DirTypes

LEMMA NoReqIdle == NoReq.at = "none"
    BY DEF NoReq

LEMMA DirInvNext == DirInv /\ [DirNext]_dirVars => DirInv'
<1> SUFFICES ASSUME DirInv, [DirNext]_dirVars PROVE DirInv'
    OBVIOUS
<1>1. ASSUME NEW g \in Gets, Get(g) PROVE DirInv'
    <2>1. CASE cache # 0 /\ fresh
        BY <1>1, <2>1, NoReqIdle, DirInvRequest DEF Get, ListAnswered
    <2>2. CASE ~(cache # 0 /\ fresh)
        <3>1. PICK x : x = [NoReq EXCEPT !.at = "fetch"]
            OBVIOUS
        <3>2. x \in RefreshStates /\ x.at = "fetch"
            BY <3>1, DirectoryAssumption DEF NoReq, RefreshStates
        <3> QED
            BY <1>1, <2>2, <3>1, <3>2, DirInvRequest DEF Get
    <2> QED
        BY <2>1, <2>2
<1>2. ASSUME NEW g \in Gets, Fetched(g) PROVE DirInv'
    <2>1. PICK old \in RefreshStates : old = req[g] /\ old.at = "fetch"
        BY <1>2, NoReqIdle DEF Fetched, DirInv, DirTypes
    <2>2. PICK x : x = [old EXCEPT !.at = "arrive", !.version = remote]
        OBVIOUS
    <2>a. remote \in 0 .. Versions
        BY DirectoryAssumption DEF DirInv, DirTypes
    <2>3. x \in RefreshStates /\ x.at = "arrive"
        BY <2>1, <2>2, <2>a DEF RefreshStates
    <2>4. req' = [req EXCEPT ![g] = x]
        BY <1>2, <2>1, <2>2 DEF Fetched, DirInv, DirTypes
    <2> QED
        BY <1>2, <2>1, <2>3, <2>4, DirInvRequest DEF Fetched, Refreshing
<1>3. ASSUME NEW g \in Gets, FetchFails(g) \/ SnapshotFails(g) PROVE DirInv'
    BY <1>3, NoReqIdle, DirInvRequest DEF FetchFails, SnapshotFails, ListAnswered
<1>4. ASSUME NEW g \in Gets, Arrives(g) PROVE DirInv'
    <2>1. PICK old \in RefreshStates : old = req[g] /\ old.at = "arrive"
        BY <1>4, NoReqIdle DEF Arrives, DirInv, DirTypes
    <2>2. PICK i \in Inodes :
              /\ snapTmp # 0 => i = snapTmp
              /\ snapTmp = 0 => i # snap
              /\ snapTmp' = i
              /\ inode' = [inode EXCEPT ![i] = [version |-> 0, whole |-> FALSE]]
              /\ req' = [req EXCEPT ![g].at = "write", ![g].fd = i]
        BY <1>4 DEF Arrives, OpenInode
    <2>3. PICK x : x = [old EXCEPT !.at = "write", !.fd = i]
        OBVIOUS
    <2>4. x \in RefreshStates /\ x.at = "write" /\ x.fd = i
        BY <2>1, <2>3 DEF RefreshStates
    <2>5. req' = [req EXCEPT ![g] = x]
        BY <2>1, <2>2, <2>3 DEF DirInv, DirTypes
    <2>6. req' \in [Gets -> {NoReq} \union RefreshStates] /\ \A h \in Gets : req'[h] = IF h = g THEN x ELSE req[h]
        BY <2>4, <2>5 DEF DirInv, DirTypes
    <2>7. PICK blankFile \in Contents : blankFile = [version |-> 0, whole |-> FALSE]
        <3>1. 0 \in 0 .. Versions
            BY DirectoryAssumption
        <3> QED
            BY <3>1 DEF Contents
    <2>8. inode' \in [Inodes -> Contents] /\ ~inode'[i].whole /\ \A j \in Inodes \ {i} : inode'[j] = inode[j]
        BY <2>2, <2>7 DEF DirInv, DirTypes
    <2>9. UNCHANGED <<remote, snap, overlapped>>
        BY <1>4 DEF Arrives
    <2>10. ASSUME ~overlapped' PROVE Alone'
        <3>1. Alone
            BY <2>9, <2>10 DEF DirInv
        <3>2. \A h \in Gets : Refreshing(h) => h = g
            BY <2>1, <3>1 DEF Alone, Refreshing
        <3>3. i # snap
            BY <2>2, <3>1 DEF Alone
        <3>4. \A h, k \in Gets : Refreshing(h)' /\ Refreshing(k)' => h = k
            BY <2>6, <3>2 DEF Refreshing
        <3>5. snap' # 0 => inode'[snap'].whole
            BY <2>8, <2>9, <3>1, <3>3 DEF Alone, DirInv, DirTypes
        <3>6. ASSUME NEW h \in Gets, req'[h].at \in {"write", "rename"} PROVE req'[h] = x
            BY <2>6, <3>2, <3>6 DEF Refreshing
        <3> QED
            BY <2>2, <2>4, <2>8, <2>9, <3>3, <3>4, <3>5, <3>6, InodesAreNot0 DEF Alone
    <2> QED
        BY <2>2, <2>6, <2>8, <2>9, <2>10 DEF DirInv, DirTypes
<1>5. ASSUME NEW g \in Gets, SnapshotWritten(g) PROVE DirInv'
    <2>1. PICK old \in RefreshStates : old = req[g] /\ old.at = "write"
        BY <1>5, NoReqIdle DEF SnapshotWritten, DirInv, DirTypes
    <2>a. PICK i : i = old.fd
        OBVIOUS
    <2>2. PICK clean \in BOOLEAN :
              /\ ~clean => inode[i].whole
              /\ inode' = [inode EXCEPT ![i] = [version |-> old.version, whole |-> clean]]
        BY <1>5, <2>1, <2>a DEF SnapshotWritten
    <2>3. PICK f \in Contents : f = [version |-> old.version, whole |-> clean]
        BY DEF Contents, RefreshStates
    <2>4. PICK x : x = [old EXCEPT !.at = "rename"]
        OBVIOUS
    <2>5. x \in RefreshStates /\ x.at = "rename" /\ x.fd = i
        BY <2>a, <2>4 DEF RefreshStates
    <2>6. req' = [req EXCEPT ![g] = x] /\ UNCHANGED <<remote, snapTmp, snap, overlapped>>
        BY <1>5, <2>1, <2>4 DEF SnapshotWritten
    <2>7. req' \in [Gets -> {NoReq} \union RefreshStates] /\ \A h \in Gets : req'[h] = IF h = g THEN x ELSE req[h]
        BY <2>5, <2>6 DEF DirInv, DirTypes
    <2>8. inode' \in [Inodes -> Contents] /\ \A j \in Inodes : inode'[j] = IF j = i THEN f ELSE inode[j]
        BY <2>2, <2>3 DEF DirInv, DirTypes
    <2>9. ASSUME ~overlapped' PROVE Alone'
        <3>1. Alone
            BY <2>6, <2>9 DEF DirInv
        <3>2. \A h \in Gets : Refreshing(h) => h = g
            BY <2>1, <3>1 DEF Alone, Refreshing
        <3>3. snapTmp # 0 /\ i = snapTmp /\ i # snap /\ ~inode[i].whole
            BY <2>1, <2>a, <3>1 DEF Alone
        <3>4. i \in Inodes /\ clean /\ inode'[i].whole
            BY <2>2, <2>3, <2>8, <3>3 DEF DirInv, DirTypes
        <3>5. \A h, k \in Gets : Refreshing(h)' /\ Refreshing(k)' => h = k
            BY <2>7, <3>2 DEF Refreshing
        <3>6. snap' # 0 => inode'[snap'].whole
            BY <2>6, <2>8, <3>1, <3>3 DEF Alone, DirInv, DirTypes
        <3>7. ASSUME NEW h \in Gets, req'[h].at \in {"write", "rename"} PROVE req'[h] = x
            BY <2>7, <3>2, <3>7 DEF Refreshing
        <3> QED
            BY <2>5, <2>6, <3>3, <3>4, <3>5, <3>6, <3>7 DEF Alone
    <2> QED
        BY <2>6, <2>7, <2>8, <2>9 DEF DirInv, DirTypes
<1>6. ASSUME NEW g \in Gets, SnapshotRenamed(g) PROVE DirInv'
    <2>1. req' = [req EXCEPT ![g] = NoReq] /\ UNCHANGED <<remote, inode, overlapped>> /\ req[g].at = "rename"
        BY <1>6 DEF SnapshotRenamed, ListAnswered
    <2>2. req' \in [Gets -> {NoReq} \union RefreshStates] /\ \A h \in Gets : req'[h] = IF h = g THEN NoReq ELSE req[h]
        BY <2>1 DEF DirInv, DirTypes
    <2>3. \/ snapTmp # 0 /\ snap' = snapTmp /\ snapTmp' = 0
          \/ snapTmp = 0 /\ UNCHANGED <<snap, snapTmp>>
        BY <1>6 DEF SnapshotRenamed
    <2>4. ASSUME ~overlapped' PROVE Alone'
        <3>1. Alone
            BY <2>1, <2>4 DEF DirInv
        <3>2. \A h \in Gets : ~Refreshing(h)' /\ req'[h].at \notin {"write", "rename"}
            BY <2>1, <2>2, <3>1, NoReqIdle DEF Alone, Refreshing
        <3>3. snapTmp # 0 /\ inode[snapTmp].whole
            BY <2>1, <3>1 DEF Alone
        <3> QED
            BY <2>1, <2>3, <3>2, <3>3 DEF Alone
    <2> QED
        BY <2>1, <2>2, <2>3, <2>4 DEF DirInv, DirTypes
<1>7. CASE Edit
    <2>1. remote' \in 1 .. Versions
        BY <1>7, DirectoryAssumption DEF Edit, DirInv, DirTypes
    <2> QED
        BY <1>7, <2>1 DEF Edit, DirInv, DirTypes, Alone, Refreshing
<1>8. CASE Expire \/ UNCHANGED dirVars
    BY <1>8 DEF Expire, dirVars, DirInv, DirTypes, Alone, Refreshing
<1>9. CASE Restarted
    <2>1. \A g \in Gets : req'[g] = NoReq /\ req'[g].at = "none"
        BY <1>9, NoReqIdle DEF Restarted
    <2> QED
        BY <1>9, <2>1 DEF Restarted, DirInv, DirTypes, Alone, Refreshing
<1> QED
    BY <1>1, <1>2, <1>3, <1>4, <1>5, <1>6, <1>7, <1>8, <1>9 DEF DirNext

\* A snapshot that does not parse takes two refreshes at one time (saveSnapshot() in
\* server.js), for any number of requests, versions and restarts.
THEOREM SnapshotsParse == DirSpec => []SnapshotWholeAlone
<1>1. DirInv => SnapshotWholeAlone
    BY DEF DirInv, Alone, SnapshotWholeAlone
<1> QED
    BY DirInvInit, DirInvNext, <1>1, PTL DEF DirSpec

-----------------------------------------------------------------------------
(* The votes                                                               *)

Working(b) == ballot[b].at \in {"write", "rename"}

Ballotings ==
    {NoBallot} \union [at : {"list", "queued", "write", "rename"}, merchant : Merchants, voter : Voters]

VoteTypes ==
    /\ ballot \in [Ballots -> Ballotings]
    /\ writing \in Seq(Ballots)
    /\ votes \in Tallies \union {NotLoaded}
    /\ voteTmp \in Files /\ voteFile \in Files

\* The one that writes is the first, what it writes is what memory holds; while nobody
\* writes, the file holds that.
VoteInv ==
    /\ VoteTypes
    /\ voteFile.whole
    /\ \A b \in Ballots : ballot[b].at = "queued" => \E i \in 1 .. Len(writing) : writing[i] = b
    /\ \A b \in Ballots : Working(b) =>
          /\ writing # <<>> /\ writing[1] = b
          /\ votes # NotLoaded /\ voteTmp.votes = votes
          /\ ballot[b].at = "rename" => voteTmp.whole
    /\ (\A b \in Ballots : ~Working(b)) /\ votes # NotLoaded /\ settled /\ ~blank => voteFile.votes = votes

LEMMA VoteInvInit == VoteInit => VoteInv
<1> SUFFICES ASSUME VoteInit PROVE VoteInv
    OBVIOUS
<1>1. voteFile \in Files /\ voteFile.whole /\ voteTmp \in Files
    BY DEF VoteInit, Files
<1>2. \A b \in Ballots : ballot[b] = NoBallot /\ ballot[b].at = "none"
    BY DEF VoteInit, NoBallot
<1>3. ballot \in [Ballots -> Ballotings] /\ writing \in Seq(Ballots) /\ votes = NotLoaded
    BY DEF VoteInit, Ballotings
<1> QED
    BY <1>1, <1>2, <1>3 DEF VoteInv, VoteTypes, Working

\* A request that is not writing goes on; the writing may get longer.
LEMMA VoteInvRequest ==
    ASSUME VoteInv, NEW b \in Ballots, ~Working(b), NEW x \in Ballotings, x.at \in {"none", "list", "queued"},
           ballot' = [ballot EXCEPT ![b] = x],
           (writing' = writing /\ x.at # "queued") \/ writing' = Append(writing, b),
           UNCHANGED <<votes, voteTmp, voteFile, settled, blank>>
    PROVE  VoteInv'
<1>1. ballot' \in [Ballots -> Ballotings] /\ \A c \in Ballots : ballot'[c] = IF c = b THEN x ELSE ballot[c]
    BY DEF VoteInv, VoteTypes
<1>2. /\ writing' \in Seq(Ballots) /\ Len(writing') >= Len(writing)
      /\ \A i \in 1 .. Len(writing) : writing'[i] = writing[i]
      /\ x.at = "queued" => \E i \in 1 .. Len(writing') : writing'[i] = b
    BY SMTT(30) DEF VoteInv, VoteTypes
<1>3. writing # <<>> => writing' # <<>> /\ writing'[1] = writing[1]
    BY <1>2 DEF VoteInv, VoteTypes
<1>4. \A c \in Ballots : Working(c)' <=> Working(c)
    BY <1>1 DEF Working
<1>5. \A c \in Ballots : ballot'[c].at = "queued" => \E i \in 1 .. Len(writing') : writing'[i] = c
    BY <1>1, <1>2 DEF VoteInv, VoteTypes
<1>6. \A c \in Ballots : Working(c)' =>
          /\ writing' # <<>> /\ writing'[1] = c
          /\ votes' # NotLoaded /\ voteTmp'.votes = votes'
          /\ ballot'[c].at = "rename" => voteTmp'.whole
    BY <1>1, <1>3, <1>4 DEF VoteInv, Working
<1> QED
    BY <1>1, <1>2, <1>4, <1>5, <1>6 DEF VoteInv, VoteTypes

LEMMA OneWrites == VoteInv => \A b, c \in Ballots : Working(b) /\ Working(c) => b = c
    BY DEF VoteInv

\* The first is done, with or without a file.
LEMMA VoteInvLeave ==
    ASSUME VoteInv, NEW b \in Ballots, Working(b), Leave(b), UNCHANGED <<votes, voteTmp, blank>>,
           \/ ballot[b].at = "rename" /\ voteFile' = voteTmp
           \/ settled' = FALSE /\ UNCHANGED voteFile
    PROVE  VoteInv'
<1>1. /\ ballot' \in [Ballots -> Ballotings]
      /\ \A c \in Ballots : ballot'[c] = IF c = b THEN NoBallot ELSE ballot[c]
    BY DEF VoteInv, VoteTypes, Leave, Ballotings
<1>2. writing # <<>> /\ writing[1] = b /\ voteTmp.votes = votes
    BY DEF VoteInv
<1>3. /\ writing' \in Seq(Ballots) /\ Len(writing') = Len(writing) - 1 /\ Len(writing) \in Nat \ {0}
      /\ \A i \in 1 .. Len(writing) - 1 : writing'[i] = writing[i + 1]
    BY <1>2 DEF VoteInv, VoteTypes, Leave
<1>4. \A c \in Ballots : ~Working(c)'
    BY <1>1, OneWrites DEF Working, NoBallot
<1>5. ASSUME NEW c \in Ballots, ballot'[c].at = "queued"
      PROVE  \E i \in 1 .. Len(writing') : writing'[i] = c
    <2>1. c # b /\ ballot[c].at = "queued"
        BY <1>1, <1>5 DEF NoBallot
    <2>2. PICK i \in 1 .. Len(writing) : writing[i] = c
        BY <2>1 DEF VoteInv
    <2>3. i # 1
        BY <1>2, <2>1, <2>2
    <2>4. i - 1 \in 1 .. Len(writing') /\ writing'[i - 1] = c
        BY <1>3, <2>2, <2>3
    <2> QED
        BY <2>4
<1>6. voteFile'.whole /\ voteFile' \in Files /\ (settled' => voteFile'.votes = votes')
    BY <1>2 DEF VoteInv, VoteTypes
<1> QED
    BY <1>1, <1>3, <1>4, <1>5, <1>6 DEF VoteInv, VoteTypes

LEMMA VoteInvNext == VoteInv /\ [VoteNext]_voteVars => VoteInv'
<1> SUFFICES ASSUME VoteInv, [VoteNext]_voteVars PROVE VoteInv'
    OBVIOUS
<1>1. ASSUME NEW b \in Ballots, NEW m \in Merchants, NEW v \in Voters, Vote(b, m, v) PROVE VoteInv'
    <2>1. PICK x : x = [at |-> "list", merchant |-> m, voter |-> v]
        OBVIOUS
    <2>2. x \in Ballotings /\ x.at = "list"
        BY <2>1 DEF Ballotings
    <2>3. ~Working(b)
        BY <1>1 DEF Vote, Working
    <2> QED
        BY <1>1, <2>1, <2>2, <2>3, VoteInvRequest DEF Vote
<1>2. ASSUME NEW b \in Ballots, Join(b) PROVE VoteInv'
    <2>1. ~Working(b) /\ ballot[b].at = "list"
        BY <1>2 DEF Join, Working
    <2>2. CASE ballot' = [ballot EXCEPT ![b] = NoBallot] /\ UNCHANGED writing
        <3>1. NoBallot \in Ballotings /\ NoBallot.at = "none"
            BY DEF NoBallot, Ballotings
        <3> QED
            BY <1>2, <2>1, <2>2, <3>1, VoteInvRequest DEF Join
    <2>3. CASE ballot' = [ballot EXCEPT ![b].at = "queued"] /\ writing' = Append(writing, b)
        <3>1. PICK old \in Ballotings : old = ballot[b]
            BY DEF VoteInv, VoteTypes
        <3>2. PICK x : x = [old EXCEPT !.at = "queued"]
            OBVIOUS
        <3>3. x \in Ballotings /\ x.at = "queued"
            BY <2>1, <3>1, <3>2 DEF Ballotings, NoBallot
        <3>4. ballot' = [ballot EXCEPT ![b] = x]
            BY <2>3, <3>1, <3>2
        <3> QED
            BY <1>2, <2>1, <2>3, <3>3, <3>4, VoteInvRequest DEF Join
    <2> QED
        BY <1>2, <2>2, <2>3 DEF Join
<1>3. CASE Load \/ LoadFails
    <2>1. /\ votes = NotLoaded /\ UNCHANGED <<ballot, writing, voteTmp, voteFile>>
          /\ \/ votes' = voteFile.votes
             \/ blank' = TRUE /\ votes' = NoVotes
        BY <1>3 DEF Load, LoadFails, VoteInv
    <2>2. votes' \in Tallies
        BY <2>1 DEF VoteInv, VoteTypes, Files, NoVotes, Tallies
    <2>3. \A b \in Ballots : ~Working(b)
        BY <2>1 DEF VoteInv
    <2> QED
        BY <2>1, <2>2, <2>3 DEF VoteInv, VoteTypes, Working
<1>4. CASE VoteRestart
    <2>1. \A b \in Ballots : ballot'[b] = NoBallot /\ ballot'[b].at = "none"
        BY <1>4 DEF VoteRestart, NoBallot
    <2>2. ballot' \in [Ballots -> Ballotings] /\ writing' \in Seq(Ballots) /\ votes' = NotLoaded
          /\ UNCHANGED <<voteTmp, voteFile>>
        BY <1>4 DEF VoteRestart, Ballotings
    <2> QED
        BY <2>1, <2>2 DEF VoteInv, VoteTypes, Working
<1>5. ASSUME NEW b \in Ballots, Toggle(b) PROVE VoteInv'
    <2>1. ballot[b].at = "queued" /\ writing # <<>> /\ writing[1] = b
        <3>1. PICK i \in 1 .. Len(writing) : writing[i] = b
            BY <1>5 DEF Toggle, VoteInv
        <3> QED
            BY <1>5, <3>1 DEF Toggle, Turn, VoteInv, VoteTypes
    <2>2. \A c \in Ballots : ~Working(c)
        BY <2>1 DEF VoteInv, Working
    <2>3. votes \in Tallies
        BY <1>5 DEF Toggle, VoteInv, VoteTypes
    <2>4. PICK old \in Ballotings : old = ballot[b] /\ old.at = "queued"
        BY <2>1 DEF VoteInv, VoteTypes
    <2>5. PICK x : x = [old EXCEPT !.at = "write"]
        OBVIOUS
    <2>6. x \in Ballotings /\ x.at = "write"
        BY <2>4, <2>5 DEF Ballotings, NoBallot
    <2>7. /\ ballot' = [ballot EXCEPT ![b] = x]
          /\ \A c \in Ballots : ballot'[c] = IF c = b THEN x ELSE ballot[c]
        BY <1>5, <2>4, <2>5 DEF Toggle, VoteInv, VoteTypes
    <2>8. old.merchant \in Merchants /\ old.voter \in Voters
        BY <2>4 DEF Ballotings, NoBallot
    <2>9. Toggled(b) \in Tallies
        <3>1. PICK mm \in Merchants, v \in Voters : mm = ballot[b].merchant /\ v = ballot[b].voter
            BY <2>4, <2>8
        <3> QED
            BY <2>3, <3>1 DEF Toggled, Tallies
    <2>10. votes' \in Tallies /\ voteTmp' \in Files /\ voteTmp'.votes = votes'
        BY <1>5, <2>9 DEF Toggle, Files
    <2>11. votes' # NotLoaded
        BY <1>5, <2>3, <2>10 DEF Toggle, Tallies, NotLoaded
    <2>12. ballot' \in [Ballots -> Ballotings] /\ UNCHANGED <<writing, voteFile>>
        BY <1>5, <2>6, <2>7 DEF Toggle, VoteInv, VoteTypes
    <2>13. \A c \in Ballots : Working(c)' <=> c = b
        BY <2>2, <2>6, <2>7 DEF Working
    <2>14. \A c \in Ballots : ballot'[c].at = "queued" => \E i \in 1 .. Len(writing) : writing[i] = c
        BY <2>6, <2>7 DEF VoteInv
    <2> QED
        BY <2>1, <2>6, <2>7, <2>10, <2>11, <2>12, <2>13, <2>14 DEF VoteInv, VoteTypes
<1>6. ASSUME NEW b \in Ballots, VoteWritten(b) PROVE VoteInv'
    <2>1. PICK old \in Ballotings : old = ballot[b] /\ old.at = "write"
        BY <1>6 DEF VoteInv, VoteTypes, VoteWritten
    <2>2. PICK x : x = [old EXCEPT !.at = "rename"]
        OBVIOUS
    <2>3. x \in Ballotings /\ x.at = "rename"
        BY <2>1, <2>2 DEF Ballotings, NoBallot
    <2>4. /\ ballot' = [ballot EXCEPT ![b] = x]
          /\ \A c \in Ballots : ballot'[c] = IF c = b THEN x ELSE ballot[c]
        BY <1>6, <2>1, <2>2 DEF VoteWritten, VoteInv, VoteTypes
    <2>5. Working(b)
        BY <2>1 DEF Working
    <2>6. voteTmp' \in Files /\ voteTmp'.whole /\ voteTmp'.votes = voteTmp.votes
        BY <1>6 DEF VoteWritten, VoteInv, VoteTypes, Files
    <2>7. \A c \in Ballots : Working(c)' <=> Working(c)
        BY <2>3, <2>4, <2>5 DEF Working
    <2>8. ballot' \in [Ballots -> Ballotings] /\ UNCHANGED <<writing, votes, voteFile>>
        BY <1>6, <2>3, <2>4 DEF VoteWritten, VoteInv, VoteTypes
    <2>9. \A c \in Ballots : ballot'[c].at = "queued" => \E i \in 1 .. Len(writing) : writing[i] = c
        BY <2>3, <2>4 DEF VoteInv
    <2> QED
        BY <1>6, <2>5, <2>6, <2>7, <2>8, <2>9 DEF VoteInv, VoteTypes, VoteWritten
<1>7. ASSUME NEW b \in Ballots, VoteRenamed(b) \/ PersistFails(b) PROVE VoteInv'
    BY <1>7, VoteInvLeave DEF VoteRenamed, PersistFails, Working
<1>8. CASE UNCHANGED voteVars
    BY <1>8 DEF voteVars, VoteInv, VoteTypes, Working
<1> QED
    BY <1>1, <1>2, <1>3, <1>4, <1>5, <1>6, <1>7, <1>8 DEF VoteNext

\* votes.json always parses, and once no toggle is under way it holds what memory holds
\* unless the last write failed (createVoteStore() in server.js), for any number of
\* requests, merchants and voters.
THEOREM VotesKept == VoteSpec => []VoteFileCurrent
<1>1. VoteInv => VoteFileCurrent
    BY DEF VoteInv, VoteFileCurrent
<1> QED
    BY VoteInvInit, VoteInvNext, <1>1, PTL DEF VoteSpec

-----------------------------------------------------------------------------
(* The event streams                                                       *)

From(a) == {s \in open : Addr[s] = a}

EventInv ==
    /\ open \subseteq Streams
    /\ byAddr \in [Addrs -> Nat]
    /\ \A a \in Addrs : byAddr[a] = Cardinality(From(a))
    /\ watching = (open # {})

LEMMA FromFinite == ASSUME EventInv, NEW a PROVE IsFiniteSet(From(a))
<1>1. From(a) \subseteq Streams /\ IsFiniteSet(Streams)
    BY EventAssumption DEF EventInv, From
<1> QED
    BY <1>1, FS_Subset

LEMMA EventInvOpens == ASSUME EventInv, NEW s \in Streams, OpenStream(s) PROVE EventInv'
<1>1. Addr[s] \in Addrs /\ s \notin open /\ open' = open \union {s} /\ watching' = TRUE
      /\ byAddr' = [byAddr EXCEPT ![Addr[s]] = @ + 1]
    BY DEF OpenStream, Addrs
<1>2. byAddr' \in [Addrs -> Nat] /\ open' \subseteq Streams
    BY <1>1 DEF EventInv
<1>3. ASSUME NEW a \in Addrs PROVE byAddr'[a] = Cardinality(From(a)')
    <2>1. CASE a = Addr[s]
        <3>1. From(a)' = From(a) \union {s} /\ s \notin From(a)
            BY <1>1, <2>1 DEF From
        <3>2. Cardinality(From(a)') = Cardinality(From(a)) + 1
            BY <3>1, FromFinite, FS_AddElement
        <3> QED
            BY <1>1, <2>1, <3>2 DEF EventInv
    <2>2. CASE a # Addr[s]
        <3>1. From(a)' = From(a)
            BY <1>1, <2>2 DEF From
        <3> QED
            BY <1>1, <2>2, <3>1 DEF EventInv
    <2> QED
        BY <2>1, <2>2
<1> QED
    BY <1>1, <1>2, <1>3 DEF EventInv

LEMMA EventInvCloses == ASSUME EventInv, NEW s \in Streams, CloseStream(s) PROVE EventInv'
<1>1. Addr[s] \in Addrs /\ s \in open /\ open' = open \ {s} /\ watching' = (open' # {})
      /\ byAddr' = [byAddr EXCEPT ![Addr[s]] = @ - 1]
    BY DEF CloseStream, Addrs
<1>2. \A a \in Addrs : Cardinality(From(a)) \in Nat
    BY FromFinite, FS_CardinalityType
<1>3. ASSUME NEW a \in Addrs PROVE byAddr'[a] = Cardinality(From(a)') /\ byAddr'[a] \in Nat
    <2>1. CASE a = Addr[s]
        <3>1. From(a)' = From(a) \ {s} /\ s \in From(a)
            BY <1>1, <2>1 DEF From
        <3>2. Cardinality(From(a)') = Cardinality(From(a)) - 1 /\ IsFiniteSet(From(a)')
            BY <3>1, FromFinite, FS_RemoveElement
        <3>3. Cardinality(From(a)') \in Nat
            BY <3>2, FS_CardinalityType
        <3> QED
            BY <1>1, <2>1, <3>2, <3>3 DEF EventInv
    <2>2. CASE a # Addr[s]
        <3>1. From(a)' = From(a)
            BY <1>1, <2>2 DEF From
        <3> QED
            BY <1>1, <1>2, <2>2, <3>1 DEF EventInv
    <2> QED
        BY <2>1, <2>2
<1>4. byAddr' \in [Addrs -> Nat]
    BY <1>1, <1>3 DEF EventInv
<1> QED
    BY <1>1, <1>3, <1>4 DEF EventInv

\* The counts of the addresses are those of the open streams, so nobody is locked out by
\* streams that are gone, and the timer runs exactly while there is a stream
\* (handleEvents() in server.js), for any streams and addresses.
THEOREM CountsOfStreams == EventSpec => []CountsAreStreams
<1>1. EventInit => EventInv
    <2> SUFFICES ASSUME EventInit PROVE EventInv
        OBVIOUS
    <2>1. \A a \in Addrs : From(a) = {}
        BY DEF EventInit, From
    <2>2. \A a \in Addrs : Cardinality(From(a)) = 0
        BY <2>1, FS_EmptySet, Zenon
    <2> QED
        BY <2>2 DEF EventInit, EventInv
<1>2. EventInv /\ [EventNext]_eventVars => EventInv'
    <2> SUFFICES ASSUME EventInv, [EventNext]_eventVars PROVE EventInv'
        OBVIOUS
    <2>1. CASE UNCHANGED <<open, byAddr, watching>>
        BY <2>1 DEF EventInv, From
    <2>2. CASE UNCHANGED eventVars \/ Block
               \/ \E t \in Ticks : AskHeight(t) \/ TellHeight(t) \/ BroadcastHeight(t) \/ AskHeightFails(t)
        BY <2>1, <2>2 DEF eventVars, Block, AskHeight, TellHeight, BroadcastHeight, AskHeightFails
    <2> QED
        BY <2>2, EventInvOpens, EventInvCloses DEF EventNext
<1>3. EventInv => CountsAreStreams
    BY DEF EventInv, CountsAreStreams, From
<1> QED
    BY <1>1, <1>2, <1>3, PTL DEF EventSpec

-----------------------------------------------------------------------------
(* The faucet                                                              *)

LEMMA Clock == Cooldown \in Nat \ {0} /\ MaxClock \in Nat /\ MaxClock >= Cooldown
  BY FaucetAssumption

LEMMA Counts == MaxPayments \in Nat /\ MaxCuts \in Nat
  BY FaucetAssumption

-----------------------------------------------------------------------------
(* Type correctness.                                                       *)

InProgress == [stage: {"price", "pay", "answer"}, form: Forms, pos: 0 .. MaxPayments]

LEMMA KnownForm == \A q \in ClaimRequests : Known(q) \in Forms /\ Known(q).ip = q.source /\ Known(q).source = q.source
<1> SUFFICES ASSUME NEW q \in ClaimRequests
             PROVE  Known(q) \in Forms /\ Known(q).ip = q.source /\ Known(q).source = q.source
  OBVIOUS
<1>1. /\ q.spelled \in Addresses \X {"lower", "upper"} /\ q.source \in Ips
      /\ q.via \in {"direct", "proxy"} /\ (q.via = "direct" \/ q.header = q.source)
  BY DEF ClaimRequests
<1>2. FaucetIp(q) = q.source
  BY <1>1, FaucetAssumption DEF FaucetIp, Peer
<1>3. q.spelled[1] \in Addresses
  BY <1>1
<1> QED  BY <1>1, <1>2, <1>3 DEF Known, Forms

LEMMA ClaimIs ==
    ASSUME FaucetTypeOK, NEW c \in Claims, Processing(c)
    PROVE  claim[c] \in InProgress /\ claim[c].form \in Forms
  BY DEF FaucetTypeOK, Processing, NoClaim, InProgress

LEMMA LockKeys == \A f \in Forms : Locks(f) \subseteq ClaimKeys
  BY DEF Locks, Forms, ClaimKeys

LEMMA FaucetInitType == FaucetInit => FaucetTypeOK
<1>1. NoClaims \in [ClaimKeys -> 0 .. MaxClock] /\ NoClaim.stage = "none"
  BY Clock DEF NoClaims, NoClaim
<1> QED  BY <1>1, Clock, Counts DEF FaucetInit, FaucetTypeOK

(* The claim ends.                                                         *)
LEMMA EndsType ==
    ASSUME FaucetTypeOK, NEW c \in Claims, Ends(c)
    PROVE  /\ claim' \in [Claims -> {NoClaim} \union InProgress] /\ inFlight' \subseteq ClaimKeys
           /\ \A d \in Claims : claim'[d].stage = "answer" => claim'[d].pos \in 1 .. Len(paid)
  BY DEF FaucetTypeOK, Ends, InProgress, NoClaim

LEMMA StampedType ==
    ASSUME FaucetTypeOK, NEW f PROVE Stamped(f) \in [ClaimKeys -> 0 .. MaxClock]
  BY Clock DEF FaucetTypeOK, Stamped

LEMMA OrphanedType == ASSUME FaucetTypeOK PROVE Orphaned \subseteq [address: Addresses, source: Ips]
  BY ClaimIs DEF Orphaned, PayOrder, Processing, Forms

LEMMA FaucetStepType == FaucetTypeOK /\ [FaucetNext]_faucetVars => FaucetTypeOK'
<1> SUFFICES ASSUME FaucetTypeOK, [FaucetNext]_faucetVars PROVE FaucetTypeOK'
  OBVIOUS
<1> USE Clock, Counts
<1>1. CASE UNCHANGED faucetVars
  BY <1>1 DEF faucetVars, FaucetTypeOK
<1>2. ASSUME NEW c \in Claims, NEW q \in ClaimRequests, Claim(c, q) PROVE FaucetTypeOK'
  <2>1. Known(q) \in Forms /\ Locks(Known(q)) \subseteq ClaimKeys
    BY KnownForm, LockKeys
  <2>2. [stage |-> "price", form |-> Known(q), pos |-> 0] \in InProgress
    BY <2>1 DEF InProgress
  <2> QED  BY <1>2, <2>1, <2>2 DEF Claim, FaucetTypeOK, InProgress
<1>3. ASSUME NEW c \in Claims, Price(c) PROVE FaucetTypeOK'
  <2>1. [claim[c] EXCEPT !.stage = "pay"] \in InProgress
    BY <1>3, ClaimIs DEF Price, Processing, InProgress
  <2> QED  BY <1>3, <2>1 DEF Price, FaucetTypeOK, InProgress
<1>4. ASSUME NEW c \in Claims, ClaimGivesUp(c) PROVE FaucetTypeOK'
  BY <1>4, EndsType DEF ClaimGivesUp, FaucetTypeOK, InProgress
<1>5. ASSUME NEW c \in Claims, NodePays(c) PROVE FaucetTypeOK'
  <2>1. claim[c] \in InProgress /\ claim[c].form \in Forms
    BY <1>5, ClaimIs DEF NodePays, Processing
  <2>2. Len(paid) + 1 \in 0 .. MaxPayments
    BY <1>5 DEF NodePays, FaucetTypeOK
  <2>3. [claim[c] EXCEPT !.stage = "answer", !.pos = Len(paid) + 1] \in InProgress
    BY <2>1, <2>2 DEF InProgress
  <2>4. Payment(PayOrder(claim[c].form), FALSE) \in Payments
    BY <2>1 DEF Payment, PayOrder, Forms, FaucetTypeOK, Payments
  <2>5. paid' \in Seq(Payments)
        /\ Len(paid') = Len(paid) + 1
    BY <1>5, <2>4, AppendProperties DEF NodePays, FaucetTypeOK
  <2>6. claim' = [claim EXCEPT ![c] = [claim[c] EXCEPT !.stage = "answer", !.pos = Len(paid) + 1]]
    BY <1>5 DEF NodePays
  <2>7. \A d \in Claims : claim'[d].stage = "answer" => claim'[d].pos \in 1 .. Len(paid')
    BY <1>5, <2>1, <2>2, <2>5 DEF NodePays, FaucetTypeOK, InProgress
  <2>8. claim' \in [Claims -> {NoClaim} \union InProgress]
    BY <2>3, <2>6 DEF FaucetTypeOK, InProgress
  <2>9. Len(paid') <= MaxPayments /\ forgotten' \subseteq 1 .. Len(paid')
    BY <1>5, <2>2, <2>5 DEF NodePays, FaucetTypeOK
  <2> QED  BY <1>5, <2>5, <2>7, <2>8, <2>9 DEF NodePays, FaucetTypeOK, InProgress
<1>6. ASSUME NEW c \in Claims, Record(c) \/ RecordUnsaved(c) PROVE FaucetTypeOK'
  <2>1. NoClaims \in [ClaimKeys -> 0 .. MaxClock]
    BY DEF NoClaims
  <2>2. CASE Record(c)
    BY <2>2, EndsType, StampedType DEF Record, FaucetTypeOK, InProgress
  <2>3. CASE RecordUnsaved(c)
    <3>1. Ends(c) /\ ledger' \in [ClaimKeys -> 0 .. MaxClock] /\ file' \in [ClaimKeys -> 0 .. MaxClock]
      BY <2>1, <2>3, StampedType DEF RecordUnsaved, FaucetTypeOK
    <3>2. cuts' \in 0 .. MaxCuts
      BY <2>3 DEF RecordUnsaved, FaucetCut, FaucetTypeOK
    <3> QED  BY <2>3, <3>1, <3>2, EndsType DEF RecordUnsaved, FaucetTypeOK, InProgress
  <2> QED  BY <1>6, <2>2, <2>3
<1>7. ASSUME NEW c \in Claims, Abandon(c) PROVE FaucetTypeOK'
  <2>1. PayOrder(claim[c].form) \in [address: Addresses, source: Ips]
    BY <1>7, ClaimIs DEF Abandon, Processing, PayOrder, Forms
  <2> QED  BY <1>7, <2>1, EndsType DEF Abandon, FaucetCut, FaucetTypeOK, InProgress
<1>8. ASSUME NEW c \in Claims, LoseAnswer(c) PROVE FaucetTypeOK'
  <2>1. claim[c].pos \in 1 .. Len(paid)
    BY <1>8 DEF LoseAnswer, FaucetTypeOK
  <2>2. cuts' \in 0 .. MaxCuts /\ Ends(c)
    BY <1>8 DEF LoseAnswer, FaucetCut, FaucetTypeOK
  <2> QED  BY <1>8, <2>1, <2>2, EndsType DEF LoseAnswer, FaucetTypeOK, InProgress
<1>9. ASSUME NEW c \in Claims, DieWriting(c) PROVE FaucetTypeOK'
  <2>1. cuts' \in 0 .. MaxCuts /\ orders' \subseteq [address: Addresses, source: Ips]
    BY <1>9, OrphanedType DEF DieWriting, FaucetCut, FaucetTypeOK
  <2>2. claim' = [d \in Claims |-> NoClaim] /\ NoClaim.stage = "none"
    BY <1>9 DEF DieWriting, NoClaim
  <2>3. NoClaims \in [ClaimKeys -> 0 .. MaxClock]
    BY DEF NoClaims
  <2> QED  BY <1>9, <2>1, <2>2, <2>3 DEF DieWriting, FaucetTypeOK
<1>10. ASSUME NEW o \in orders, NodePaysLate(o) PROVE FaucetTypeOK'
  <2>1. Payment(o, TRUE) \in Payments
    BY DEF Payment, FaucetTypeOK, Payments
  <2>2. paid' \in Seq(Payments)
        /\ Len(paid') = Len(paid) + 1 /\ Len(paid) \in Nat
    <3>1. paid' = Append(paid, Payment(o, TRUE)) /\ paid \in Seq(Payments)
      BY <1>10 DEF NodePaysLate, FaucetTypeOK
    <3> QED  BY <2>1, <3>1, AppendProperties, LenProperties
  <2>3. Len(paid') <= MaxPayments
    BY <1>10, <2>2 DEF NodePaysLate, FaucetTypeOK
  <2>5. forgotten \subseteq 1 .. Len(paid) /\ forgotten' = forgotten \union {Len(paid) + 1}
    BY <1>10 DEF NodePaysLate, FaucetTypeOK
  <2>6. forgotten' \subseteq 1 .. Len(paid')
    <3> DEFINE n == Len(paid)
    <3>1. n \in Nat /\ Len(paid') = n + 1 /\ forgotten \subseteq 1 .. n /\ forgotten' = forgotten \union {n + 1}
      BY <2>2, <2>5
    <3> HIDE DEF n
    <3>2. 1 .. n \subseteq 1 .. n + 1 /\ n + 1 \in 1 .. n + 1
      BY <3>1
    <3> QED  BY <3>1, <3>2
  <2>4. \A d \in Claims : claim'[d].stage = "answer" => claim'[d].pos \in 1 .. Len(paid')
    BY <1>10, <2>2 DEF NodePaysLate, FaucetTypeOK
  <2> QED  BY <1>10, <2>2, <2>3, <2>4, <2>6 DEF NodePaysLate, FaucetTypeOK
<1>11. CASE FaucetRestart
  <2>1. cuts' \in 0 .. MaxCuts /\ orders' \subseteq [address: Addresses, source: Ips]
    BY <1>11, OrphanedType DEF FaucetRestart, FaucetCut, FaucetTypeOK
  <2>2. forgotten' \subseteq 1 .. Len(paid')
    BY <1>11 DEF FaucetRestart, Unknown, FaucetTypeOK
  <2>3. claim' = [c \in Claims |-> NoClaim] /\ NoClaim.stage = "none"
    BY <1>11 DEF FaucetRestart, NoClaim
  <2> QED  BY <1>11, <2>1, <2>2, <2>3 DEF FaucetRestart, FaucetTypeOK
<1>12. CASE FaucetTick
  BY <1>12 DEF FaucetTick, FaucetTypeOK
<1> QED  BY <1>1, <1>2, <1>3, <1>4, <1>5, <1>6, <1>7, <1>8, <1>9, <1>10, <1>11, <1>12 DEF FaucetNext

(* Every reachable state of the faucet has the types of the code's values. *)
THEOREM FaucetTypeCorrect == FaucetSpec => []FaucetTypeOK
<1> QED  BY FaucetInitType, FaucetStepType, PTL DEF FaucetSpec

-----------------------------------------------------------------------------
(* The held keys.                                                          *)

Holds(c, k) == Processing(c) /\ k \in Locks(claim[c].form)

Holding ==
    /\ \A k : k \in inFlight <=> \E c \in Claims : Holds(c, k)
    /\ \A c, d \in Claims, k \in ClaimKeys : Holds(c, k) /\ Holds(d, k) => c = d

(* A claim that ends takes its keys along, and no others.                  *)
LEMMA EndsHolding ==
    ASSUME FaucetTypeOK, Holding, NEW c \in Claims, Processing(c), Ends(c) PROVE Holding'
<1>1. \A d \in Claims : \A k : Holds(d, k)' <=> Holds(d, k) /\ d # c
  BY DEF FaucetTypeOK, Ends, Holds, Processing, NoClaim
<1>2. \A k : Holds(c, k) => k \in ClaimKeys
  BY ClaimIs, LockKeys DEF Holds
<1>3. \A k : Holds(c, k) <=> k \in Locks(claim[c].form)
  BY DEF Holds
<1> QED  BY <1>1, <1>2, <1>3 DEF Holding, Ends

LEMMA NobodyHolds ==
    ASSUME claim' = [d \in Claims |-> NoClaim], inFlight' = {} PROVE Holding'
  BY DEF Holding, Holds, Processing, NoClaim

(* Steps in which the claims keep their forms.                             *)
LEMMA SameForms ==
    ASSUME Holding, UNCHANGED inFlight,
           \A d \in Claims : claim'[d] = claim[d]
                          \/ (claim[d].stage # "none" /\ claim'[d].stage # "none" /\ claim'[d].form = claim[d].form)
    PROVE  Holding'
<1>1. \A d \in Claims : \A k : Holds(d, k)' <=> Holds(d, k)
  BY DEF Holds, Processing
<1> QED  BY <1>1 DEF Holding

LEMMA HoldingStep == FaucetTypeOK /\ Holding /\ [FaucetNext]_faucetVars => Holding'
<1> SUFFICES ASSUME FaucetTypeOK, Holding, [FaucetNext]_faucetVars PROVE Holding'
  OBVIOUS
<1>1. CASE UNCHANGED faucetVars
  BY <1>1, SameForms DEF faucetVars
<1>2. ASSUME NEW c \in Claims, NEW q \in ClaimRequests, Claim(c, q) PROVE Holding'
  <2>1. \A d \in Claims : \A k : Holds(d, k)' <=> IF d = c THEN k \in Locks(Known(q)) ELSE Holds(d, k)
    BY <1>2 DEF Claim, Holds, Processing, FaucetTypeOK
  <2>2. \A k : ~Holds(c, k)
    BY <1>2 DEF Claim, Holds, Processing
  <2>3. /\ inFlight' = inFlight \union Locks(Known(q))
        /\ \A k \in Locks(Known(q)) : k \notin inFlight
    BY <1>2 DEF Claim
  <2> QED  BY <2>1, <2>2, <2>3 DEF Holding
<1>3. ASSUME NEW c \in Claims, Price(c) \/ NodePays(c) PROVE Holding'
  <2>1. claim[c] \in InProgress /\ claim[c].stage # "none"
    BY <1>3, ClaimIs DEF Price, NodePays, Processing
  <2>2. claim'[c].stage # "none" /\ claim'[c].form = claim[c].form
    <3>1. CASE Price(c)
      BY <2>1, <3>1 DEF Price, FaucetTypeOK, InProgress
    <3>2. CASE NodePays(c)
      <4>1. claim'[c] = [claim[c] EXCEPT !.stage = "answer", !.pos = Len(paid) + 1]
        BY <3>2 DEF NodePays, FaucetTypeOK
      <4> QED  BY <2>1, <4>1 DEF InProgress
    <3> QED  BY <1>3, <3>1, <3>2
  <2>3. UNCHANGED inFlight /\ \A d \in Claims \ {c} : claim'[d] = claim[d]
    BY <1>3 DEF Price, NodePays, FaucetTypeOK
  <2> QED  BY <2>1, <2>2, <2>3, SameForms
<1>4. ASSUME NEW c \in Claims,
             ClaimGivesUp(c) \/ Record(c) \/ RecordUnsaved(c) \/ Abandon(c) \/ LoseAnswer(c)
      PROVE  Holding'
  <2>1. Processing(c) /\ Ends(c)
    BY <1>4 DEF ClaimGivesUp, Record, RecordUnsaved, Abandon, LoseAnswer, Processing
  <2> QED  BY <2>1, EndsHolding
<1>5. ASSUME NEW c \in Claims, DieWriting(c) PROVE Holding'
  BY <1>5, NobodyHolds DEF DieWriting
<1>6. CASE FaucetRestart
  BY <1>6, NobodyHolds DEF FaucetRestart
<1>7. CASE FaucetTick \/ \E o \in orders : NodePaysLate(o)
  BY <1>7, SameForms DEF FaucetTick, NodePaysLate
<1> QED  BY <1>1, <1>2, <1>3, <1>4, <1>5, <1>6, <1>7 DEF FaucetNext

(* The keys held are those of the claims in progress, and each is held by  *)
(* one of them only: ctx.inFlight in handleClaim().                        *)
THEOREM HeldKeys == FaucetSpec => []KeysOfTheLiving
<1>1. FaucetInit => Holding
  BY DEF FaucetInit, Holding, Holds, Processing, NoClaim
<1>2. FaucetTypeOK /\ Holding => KeysOfTheLiving
  <2> SUFFICES ASSUME FaucetTypeOK, Holding PROVE KeysOfTheLiving
    OBVIOUS
  <2>1. inFlight = UNION {Locks(claim[c].form) : c \in {d \in Claims : Processing(d)}}
    BY DEF Holding, Holds
  <2>2. \A c, d \in Claims :
           c # d /\ Processing(c) /\ Processing(d) => Locks(claim[c].form) \cap Locks(claim[d].form) = {}
    BY ClaimIs, LockKeys DEF Holding, Holds
  <2> QED  BY <2>1, <2>2 DEF KeysOfTheLiving
<1> QED  BY <1>1, <1>2, HoldingStep, FaucetTypeCorrect, PTL DEF FaucetSpec

-----------------------------------------------------------------------------
(* One payment per period.                                                 *)

LockA(p) == <<"a", p.address>>
LockI(p) == <<"i", p.source>>

(* The claim's keys are the address and the real source.                   *)
Sourced == \A c \in Claims : Processing(c) => claim[c].form.ip = claim[c].form.source

(* A claim that has not been paid found its keys cooled down, and since it *)
(* holds them nobody stamped them.                                         *)
Cooled ==
    \A c \in Claims, k \in ClaimKeys :
        claim[c].stage \in {"price", "pay"} /\ Holds(c, k) => ledger[k] <= now - Cooldown

(* A claim that waits for the node's answer knows its payment.             *)
Matches ==
    \A c \in Claims : claim[c].stage = "answer" =>
        /\ paid[claim[c].pos].address = claim[c].form.address
        /\ paid[claim[c].pos].source = claim[c].form.source

InLedger(i) == ledger[LockA(paid[i])] >= paid[i].at /\ ledger[LockI(paid[i])] >= paid[i].at
Answering(i) == \E c \in Claims : claim[c].stage = "answer" /\ claim[c].pos = i

PaidKnown == \A i \in 1 .. Len(paid) : i \notin forgotten => InLedger(i) \/ Answering(i)

Timely == \A i \in 1 .. Len(paid) : paid[i].at <= now

Paying == Sourced /\ Cooled /\ Matches /\ PaidKnown /\ Timely /\ OnePayPerPeriod

LEMMA PaidIs ==
    ASSUME FaucetTypeOK, NEW i \in 1 .. Len(paid)
    PROVE  /\ paid[i].address \in Addresses /\ paid[i].source \in Ips /\ paid[i].at \in Nat
           /\ LockA(paid[i]) \in ClaimKeys /\ LockI(paid[i]) \in ClaimKeys
           /\ ledger[LockA(paid[i])] \in Nat /\ ledger[LockI(paid[i])] \in Nat
<1>1. paid[i] \in Payments
  BY ElementOfSeq DEF FaucetTypeOK
<1>2. /\ paid[i].address \in Addresses /\ paid[i].source \in Ips /\ paid[i].at \in Nat
  BY <1>1, Clock DEF Payments
<1> QED  BY <1>2, Clock DEF LockA, LockI, ClaimKeys, FaucetTypeOK

(* Once the process is gone, only the ledger remembers.                    *)
LEMMA RestartPays ==
    ASSUME FaucetTypeOK, Paying, claim' = [d \in Claims |-> NoClaim], UNCHANGED <<paid, now>>,
           \A i \in 1 .. Len(paid) : i \notin forgotten' => i \notin forgotten /\ InLedger(i)'
    PROVE  Paying'
<1>1. \A d \in Claims : claim'[d].stage = "none" /\ ~Processing(d)'
  BY DEF Processing, NoClaim
<1> QED  BY <1>1 DEF Paying, Sourced, Cooled, Matches, PaidKnown, Timely, OnePayPerPeriod, Rivals, InLedger

(* A claim ends without a stamp; if it was paid, the payment is forgotten. *)
LEMMA EndsPays ==
    ASSUME FaucetTypeOK, Paying, NEW c \in Claims, Ends(c), UNCHANGED <<ledger, paid, now>>,
           forgotten \subseteq forgotten',
           claim[c].stage = "answer" => claim[c].pos \in forgotten'
    PROVE  Paying'
<1>1. \A d \in Claims : claim'[d] = IF d = c THEN NoClaim ELSE claim[d]
  BY DEF Ends, FaucetTypeOK
<1>2. \A d \in Claims : claim'[d].stage # "none" => claim'[d] = claim[d] /\ d # c
  BY <1>1 DEF NoClaim
<1>3. Sourced' /\ Cooled' /\ Matches' /\ Timely' /\ OnePayPerPeriod'
  BY <1>2 DEF Paying, Sourced, Cooled, Matches, Timely, OnePayPerPeriod, Rivals, Processing, Holds
<1>4. \A i \in 1 .. Len(paid) : i \notin forgotten' /\ Answering(i) => Answering(i)'
  BY <1>1 DEF Answering
<1>5. PaidKnown'
  BY <1>4 DEF Paying, PaidKnown, InLedger
<1> QED  BY <1>3, <1>5 DEF Paying

(* The stamp.                                                              *)
LEMMA StampPays ==
    ASSUME FaucetTypeOK, Holding, Paying, NEW c \in Claims, claim[c].stage = "answer", Ends(c),
           ledger' = Stamped(claim[c].form), UNCHANGED <<paid, forgotten, now>>
    PROVE  Paying'
<1>0. /\ \A d \in Claims : claim'[d] = IF d = c THEN NoClaim ELSE claim[d]
      /\ now \in Nat /\ Processing(c)
  BY Clock DEF Ends, FaucetTypeOK, Processing
<1>1. \A d \in Claims : claim'[d].stage # "none" => claim'[d] = claim[d] /\ d # c
  BY <1>0 DEF NoClaim
<1>2. \A k \in ClaimKeys : ledger'[k] = IF Holds(c, k) THEN now ELSE ledger[k]
  BY <1>0 DEF Stamped, Holds
<1>3. Cooled'
  BY <1>0, <1>1, <1>2 DEF Cooled, Paying, Holding, Holds, Processing
<1>4. \A i \in 1 .. Len(paid) : InLedger(i) => InLedger(i)'
  BY <1>0, <1>2, PaidIs DEF InLedger, Paying, Timely
<1>5. \A i \in 1 .. Len(paid) : Answering(i) => Answering(i)' \/ i = claim[c].pos
  BY <1>0 DEF Answering
<1>6. ASSUME NEW i \in 1 .. Len(paid), i = claim[c].pos PROVE InLedger(i)'
  <2>1. Holds(c, LockA(paid[i])) /\ Holds(c, LockI(paid[i]))
    BY <1>0, <1>6 DEF Holds, Locks, LockA, LockI, Paying, Matches, Sourced
  <2>2. LockA(paid[i]) \in ClaimKeys /\ LockI(paid[i]) \in ClaimKeys /\ paid[i].at <= now
    BY PaidIs DEF Paying, Timely
  <2> QED  BY <1>0, <1>2, <2>1, <2>2 DEF InLedger
<1>7. PaidKnown'
  BY <1>4, <1>5, <1>6 DEF Paying, PaidKnown
<1> QED  BY <1>1, <1>3, <1>7 DEF Paying, Sourced, Matches, Timely, OnePayPerPeriod, Rivals, Processing

(* A new payment j of a claim that was waited for: its rivals among those  *)
(* that are remembered are a cooldown away.                                *)
LEMMA PayPays ==
    ASSUME FaucetTypeOK, Holding, Paying, NEW c \in Claims, NodePays(c) PROVE Paying'
<1> DEFINE new == Payment(PayOrder(claim[c].form), FALSE)
<1> PICK n : n = Len(paid) + 1
  OBVIOUS
<1>0. /\ Processing(c) /\ claim[c] \in InProgress /\ claim[c].form \in Forms /\ claim[c].stage = "pay"
      /\ now \in Nat /\ Len(paid) \in Nat
  BY ClaimIs, Clock, LenProperties DEF NodePays, Processing, FaucetTypeOK
<1>1. /\ new \in Payments /\ new.address = claim[c].form.address /\ new.source = claim[c].form.source
      /\ new.at = now /\ ~new.late
  BY <1>0 DEF Payment, PayOrder, Payments, Forms, FaucetTypeOK
<1>2. paid' = Append(paid, new) /\ UNCHANGED <<ledger, now, forgotten>>
  BY DEF NodePays
<1> HIDE DEF new
<1>3. Len(paid') = n /\ paid'[n] = new /\ \A i \in 1 .. Len(paid) : paid'[i] = paid[i]
  BY <1>1, <1>2, AppendProperties DEF FaucetTypeOK
<1>4. claim'[c] = [claim[c] EXCEPT !.stage = "answer", !.pos = n]
      /\ \A d \in Claims \ {c} : claim'[d] = claim[d]
  BY DEF NodePays, FaucetTypeOK
<1>5. claim'[c].stage = "answer" /\ claim'[c].pos = n /\ claim'[c].form = claim[c].form
  BY <1>0, <1>4 DEF InProgress
<1>6. /\ \A d \in Claims : Processing(d)' <=> Processing(d)
      /\ \A d \in Claims, k \in ClaimKeys : Holds(d, k)' <=> Holds(d, k)
      /\ \A d \in Claims : claim'[d].form = claim[d].form
      /\ \A d \in Claims : claim'[d].stage \in {"price", "pay"} => claim[d].stage \in {"price", "pay"}
  BY <1>0, <1>4, <1>5 DEF Holds, Processing
<1>7. Sourced' /\ Cooled'
  <2>1. Sourced'
    BY <1>6 DEF Paying, Sourced
  <2>2. Cooled'
    BY <1>2, <1>6 DEF Paying, Cooled
  <2> QED  BY <2>1, <2>2
<1>8. \A d \in Claims : claim[d].stage = "answer" => claim[d].pos \in 1 .. Len(paid)
  BY DEF FaucetTypeOK
<1>9. Matches'
  <2>1. \A d \in Claims \ {c} : claim'[d].stage = "answer" =>
            /\ paid'[claim'[d].pos].address = claim'[d].form.address
            /\ paid'[claim'[d].pos].source = claim'[d].form.source
    BY <1>3, <1>4, <1>8 DEF Paying, Matches
  <2>2. /\ paid'[claim'[c].pos].address = claim'[c].form.address
        /\ paid'[claim'[c].pos].source = claim'[c].form.source
    BY <1>1, <1>3, <1>5
  <2> QED  BY <2>1, <2>2 DEF Matches
<1>10. \A i \in 1 .. n : i \in 1 .. Len(paid) \/ i = n
  BY <1>0
<1>11. Timely'
  BY <1>0, <1>1, <1>2, <1>3, <1>10 DEF Paying, Timely
<1>12. PaidKnown'
  <2>1. ASSUME NEW i \in 1 .. Len(paid), i \notin forgotten PROVE InLedger(i)' \/ Answering(i)'
    <3>1. InLedger(i) => InLedger(i)'
      BY <1>2, <1>3 DEF InLedger
    <3>2. Answering(i) => Answering(i)'
      BY <1>0, <1>4 DEF Answering
    <3> QED  BY <2>1, <3>1, <3>2 DEF Paying, PaidKnown
  <2>2. Answering(n)'
    BY <1>5 DEF Answering
  <2> QED  BY <1>2, <1>3, <1>10, <2>1, <2>2 DEF PaidKnown
<1>13. ASSUME NEW i \in 1 .. Len(paid), i \notin forgotten,
              paid[i].address = new.address \/ paid[i].source = new.source
       PROVE  now - paid[i].at >= Cooldown
  <2>1. PICK k \in {LockA(paid[i]), LockI(paid[i])} : Holds(c, k)
    BY <1>0, <1>1, <1>13 DEF Holds, Locks, LockA, LockI, Paying, Sourced
  <2>2. k \in ClaimKeys /\ ledger[k] <= now - Cooldown /\ ledger[k] \in Nat /\ paid[i].at \in Nat
    BY <1>0, <2>1, PaidIs DEF Paying, Cooled
  <2>3. ~Answering(i)
    <3> SUFFICES ASSUME NEW d \in Claims, claim[d].stage = "answer", claim[d].pos = i PROVE FALSE
      BY DEF Answering
    <3>1. Holds(d, LockA(paid[i])) /\ Holds(d, LockI(paid[i]))
      BY DEF Holds, Processing, Locks, LockA, LockI, Paying, Matches, Sourced
    <3>2. d = c
      BY <2>1, <2>2, <3>1 DEF Holding
    <3> QED  BY <1>0, <3>2
  <2>4. ledger[k] >= paid[i].at
    BY <1>13, <2>1, <2>3 DEF Paying, PaidKnown, InLedger
  <2> QED  BY <1>0, <2>2, <2>4, Clock
<1>14. OnePayPerPeriod'
  <2> SUFFICES ASSUME NEW i \in 1 .. n, NEW j \in 1 .. n, i < j, Rivals(i, j)', i \notin forgotten,
                      ~paid'[j].late
               PROVE  paid'[j].at - paid'[i].at >= Cooldown
    BY <1>2, <1>3 DEF OnePayPerPeriod
  <2>1. i \in 1 .. Len(paid)
    BY <1>0
  <2>2. CASE j = n
    <3>1. paid[i].address = new.address \/ paid[i].source = new.source
      BY <1>3, <2>1, <2>2 DEF Rivals
    <3> QED  BY <1>1, <1>3, <1>13, <2>1, <2>2, <3>1
  <2>3. CASE j \in 1 .. Len(paid)
    BY <1>3, <2>1, <2>3 DEF Paying, OnePayPerPeriod, Rivals
  <2> QED  BY <1>10, <2>2, <2>3
<1> QED  BY <1>7, <1>9, <1>11, <1>12, <1>14 DEF Paying

(* A late payment is nobody's any more, and forgotten at once.             *)
LEMMA LatePays ==
    ASSUME FaucetTypeOK, Paying, NEW o \in orders, NodePaysLate(o) PROVE Paying'
<1> DEFINE n == Len(paid) + 1
           new == Payment(o, TRUE)
<1>1. new \in Payments /\ new.at = now /\ new.late /\ now \in Nat /\ Len(paid) \in Nat
  BY Clock, LenProperties DEF Payment, Payments, FaucetTypeOK
<1>2. paid' = Append(paid, new) /\ forgotten' = forgotten \union {n} /\ UNCHANGED <<claim, ledger, now>>
  BY DEF NodePaysLate
<1> HIDE DEF new
<1>3. Len(paid') = n /\ paid'[n] = new /\ \A i \in 1 .. Len(paid) : paid'[i] = paid[i]
  BY <1>1, <1>2, AppendProperties DEF FaucetTypeOK
<1>4. \A i \in 1 .. n : i \in 1 .. Len(paid) \/ i = n
  BY <1>1
<1>5. Sourced' /\ Cooled'
  BY <1>2 DEF Paying, Sourced, Cooled, Holds, Processing
<1>6. Matches'
  BY <1>2, <1>3 DEF Paying, Matches, FaucetTypeOK
<1>7. Timely'
  BY <1>1, <1>2, <1>3, <1>4 DEF Paying, Timely
<1>8. PaidKnown'
  BY <1>2, <1>3, <1>4 DEF Paying, PaidKnown, InLedger, Answering
<1>9. OnePayPerPeriod'
  BY <1>1, <1>2, <1>3, <1>4 DEF Paying, OnePayPerPeriod, Rivals
<1> QED  BY <1>5, <1>6, <1>7, <1>8, <1>9 DEF Paying

LEMMA PayingStep == FaucetTypeOK /\ Holding /\ Paying /\ [FaucetNext]_faucetVars => Paying'
<1> SUFFICES ASSUME FaucetTypeOK, Holding, Paying, [FaucetNext]_faucetVars PROVE Paying'
  OBVIOUS
<1> USE DEF Paying
<1>1. CASE UNCHANGED faucetVars
  BY <1>1 DEF faucetVars, Sourced, Cooled, Matches, PaidKnown, Timely, OnePayPerPeriod, Rivals, InLedger,
              Answering, Holds, Processing
<1>2. ASSUME NEW c \in Claims, NEW q \in ClaimRequests, Claim(c, q) PROVE Paying'
  <2> DEFINE f == Known(q)
             new == [stage |-> "price", form |-> f, pos |-> 0]
  <2>1. /\ f \in Forms /\ f.ip = f.source
        /\ claim[c].stage = "none" /\ ~CoolingDown(f) /\ UNCHANGED <<ledger, paid, forgotten, now>>
        /\ claim' = [claim EXCEPT ![c] = new]
    BY <1>2, KnownForm DEF Claim
  <2> HIDE DEF f
  <2>2. new.stage = "price" /\ new.form = f
    OBVIOUS
  <2> HIDE DEF new
  <2>3. \A d \in Claims : claim'[d] = IF d = c THEN new ELSE claim[d]
    BY <2>1 DEF FaucetTypeOK
  <2>4. \A k \in Locks(f) : ledger[k] <= now - Cooldown
    <3>1. \A k \in Locks(f) : ~(ledger[k] > now - Cooldown)
      BY <2>1 DEF CoolingDown, Locks
    <3>2. \A k \in Locks(f) : ledger[k] \in Nat
      BY <2>1, LockKeys, Clock DEF FaucetTypeOK
    <3> QED  BY <3>1, <3>2, Clock DEF FaucetTypeOK
  <2>5. Sourced' /\ Cooled' /\ Matches'
    BY <2>1, <2>2, <2>3, <2>4 DEF Sourced, Cooled, Matches, Holds, Processing
  <2>6. PaidKnown' /\ Timely' /\ OnePayPerPeriod'
    BY <2>1, <2>3 DEF PaidKnown, Timely, OnePayPerPeriod, Rivals, InLedger, Answering
  <2> QED  BY <2>5, <2>6
<1>3. ASSUME NEW c \in Claims, Price(c) PROVE Paying'
  <2>1. claim[c] \in InProgress
    BY <1>3, ClaimIs DEF Price, Processing
  <2>2. /\ \A d \in Claims : claim'[d] = IF d = c THEN [claim[c] EXCEPT !.stage = "pay"] ELSE claim[d]
        /\ claim[c].stage = "price" /\ UNCHANGED <<ledger, paid, forgotten, now>>
    BY <1>3 DEF Price, FaucetTypeOK
  <2>3. claim'[c].stage = "pay" /\ claim'[c].form = claim[c].form
    BY <2>1, <2>2 DEF InProgress
  <2>4. Sourced' /\ Cooled' /\ Matches'
    BY <2>2, <2>3 DEF Sourced, Cooled, Matches, Holds, Processing
  <2>5. PaidKnown' /\ Timely' /\ OnePayPerPeriod'
    BY <2>2 DEF PaidKnown, Timely, OnePayPerPeriod, Rivals, InLedger, Answering
  <2> QED  BY <2>4, <2>5
<1>4. ASSUME NEW c \in Claims, ClaimGivesUp(c) \/ Abandon(c) \/ LoseAnswer(c) PROVE Paying'
  BY <1>4, EndsPays DEF ClaimGivesUp, Abandon, LoseAnswer
<1>5. ASSUME NEW c \in Claims, Record(c) \/ RecordUnsaved(c) PROVE Paying'
  BY <1>5, StampPays DEF Record, RecordUnsaved
<1>6. ASSUME NEW c \in Claims, DieWriting(c) PROVE Paying'
  BY <1>6, RestartPays DEF DieWriting
<1>7. CASE FaucetRestart
  <2>1. ASSUME NEW i \in 1 .. Len(paid), i \notin forgotten' PROVE i \notin forgotten /\ InLedger(i)'
    <3>1. i \notin forgotten /\ i \notin Unknown(file)
      BY <1>7, <2>1 DEF FaucetRestart
    <3>2. file[LockA(paid[i])] \in Nat /\ file[LockI(paid[i])] \in Nat /\ paid[i].at \in Nat
      <4>1. paid[i].at \in Nat /\ LockA(paid[i]) \in ClaimKeys /\ LockI(paid[i]) \in ClaimKeys
        BY PaidIs
      <4>2. file \in [ClaimKeys -> 0 .. MaxClock]
        BY DEF FaucetTypeOK
      <4> QED BY <4>1, <4>2, Clock
    <3>3. file[LockA(paid[i])] >= paid[i].at /\ file[LockI(paid[i])] >= paid[i].at
      BY <3>1, <3>2 DEF Unknown, LockA, LockI
    <3> QED  BY <1>7, <3>1, <3>3 DEF FaucetRestart, InLedger
  <2> QED  BY <1>7, <2>1, RestartPays DEF FaucetRestart
<1>8. CASE FaucetTick
  <2>1. now \in Nat /\ now' = now + 1 /\ UNCHANGED <<claim, ledger, paid, forgotten>>
    BY <1>8, Clock DEF FaucetTick, FaucetTypeOK
  <2>2. Timely'
    BY <2>1, PaidIs DEF Timely
  <2>3. Cooled'
    BY <2>1, Clock DEF Cooled, Holds, Processing, FaucetTypeOK
  <2> QED  BY <2>1, <2>2, <2>3 DEF Sourced, Matches, PaidKnown, OnePayPerPeriod, Rivals, InLedger, Answering,
                                    Processing
<1>9. CASE \E o \in orders : NodePaysLate(o)
  BY <1>9, LatePays
<1> QED  BY <1>1, <1>2, <1>3, <1>4, <1>5, <1>6, <1>7, <1>8, <1>9, PayPays DEF FaucetNext

(* Nobody is paid twice within a period, however requests overlap and      *)
(* whatever the caller claims to be: handleClaim() of the faucet.          *)
THEOREM PaidOncePerPeriod == FaucetSpec => []OnePayPerPeriod
<1>1. FaucetInit => Holding
  BY DEF FaucetInit, Holding, Holds, Processing, NoClaim
<1>2. FaucetInit => Paying
  <2> SUFFICES ASSUME FaucetInit PROVE Paying
    OBVIOUS
  <2>1. Len(paid) = 0 /\ \A c \in Claims : claim[c].stage = "none"
    BY DEF FaucetInit, NoClaim
  <2> QED  BY <2>1 DEF Paying, Sourced, Cooled, Matches, PaidKnown, Timely, OnePayPerPeriod, Processing
<1>3. Paying => OnePayPerPeriod
  BY DEF Paying
<1> QED  BY <1>1, <1>2, <1>3, HoldingStep, PayingStep, FaucetTypeCorrect, PTL DEF FaucetSpec

-----------------------------------------------------------------------------
(* The rate limiter *)

\* Whatever a client writes into the header, its requests count against its own address.
LEMMA KeyIsTheClient ==
    ASSUME RateAssumption, NEW c \in Clients, NEW forged \in Forgeries
    PROVE  ClientAddress(Forwarded(c, forged)) = c
<1> DEFINE T == PeerIps \union {Junk}
           tail == IF Hops = 1 THEN <<c>> ELSE <<c, Proxy>>
<1>1. c \in PeerIps /\ c \in T /\ Proxy \in T /\ Hops \in {1, 2}
  BY DEF PeerIps, RateAssumption
<1>2. forged \in Seq(T)
  <2>1. <<>> \in Seq(T)
    OBVIOUS
  <2>2. ASSUME NEW x \in Clients \union {Junk} PROVE <<x>> \in Seq(T)
    <3>1. x \in T
      BY DEF PeerIps
    <3> HIDE DEF T
    <3> QED BY <3>1
  <2> QED BY <2>1, <2>2 DEF Forgeries
<1>3. tail \in Seq(T) /\ Len(tail) = Hops /\ tail[1] = c
  <2> HIDE DEF T
  <2>1. CASE Hops = 1
    BY <2>1, <1>1
  <2>2. CASE Hops = 2
    BY <2>2, <1>1
  <2> QED BY <2>1, <2>2, <1>1
<1>4. Forwarded(c, forged) = forged \o tail
  BY DEF Forwarded
<1> HIDE DEF tail
<1>5. /\ Len(forged \o tail) = Len(forged) + Hops
      /\ (forged \o tail)[Len(forged) + 1] = c
  BY <1>1, <1>2, <1>3
<1>6. Len(forged) \in Nat /\ Len(forged) + Hops - Hops + 1 = Len(forged) + 1 /\ Len(forged) + Hops >= Hops
  BY <1>1, <1>2
<1>7. PICK parts : parts = Forwarded(c, forged)
  OBVIOUS
<1>8. Len(parts) = Len(forged) + Hops /\ parts[Len(forged) + 1] = c
  BY <1>4, <1>5, <1>7
<1>9. Len(parts) >= Hops /\ Len(parts) - Hops + 1 = Len(forged) + 1
  BY <1>6, <1>8
<1>10. ClientAddress(parts) = c
  BY <1>1, <1>8, <1>9 DEF ClientAddress
<1> QED BY <1>7, <1>10

\* The tokens of a client add up, and no span of one window holds more than twice the
\* allowance.
Sums(f, T) ==
    /\ f \in [0 .. MaxTime -> Nat]
    /\ \A s \in -1 .. MaxTime : \A t \in s .. MaxTime : Until(f, s) <= Until(f, t)
    /\ \A t \in T .. MaxTime : Until(f, t) = Until(f, T)
    /\ \A t \in -1 .. MaxTime - Window : Until(f, t + Window) - Until(f, t) <= 2 * Allowance

\* With a bucket since b that counts n: the tokens of its window are counted and within
\* the allowance, and so are those of any window's length before it.
Running(f, T, b, n) ==
    /\ Until(f, T) - Until(f, b - 1) <= Allowance
    /\ Until(f, T) - Until(f, b - 1) <= n
    /\ \A t \in -1 .. b - 1 : t >= b - Window => Until(f, b - 1) - Until(f, t) <= Allowance

\* Without one: nothing was admitted now, and no more than the allowance in the last
\* window's length.
Quiet(f, T) ==
    /\ Until(f, T) = Until(f, T - 1)
    /\ \A t \in -1 .. T : t >= T - Window => Until(f, T) - Until(f, t) <= Allowance

LEMMA UntilType ==
    ASSUME RateAssumption, NEW f \in [0 .. MaxTime -> Nat], NEW t \in -1 .. MaxTime
    PROVE  Until(f, t) \in Nat
<1>1. MaxTime \in Nat
  BY DEF RateAssumption
<1> QED BY <1>1 DEF Until

LEMMA TickSums ==
    ASSUME RateAssumption, NEW T \in 0 .. MaxTime, T < MaxTime, NEW f, Sums(f, T)
    PROVE  Sums(f, T + 1) /\ Until(f, T + 1) = Until(f, T)
<1>1. MaxTime \in Nat
  BY DEF RateAssumption
<1>2. Until(f, T + 1) = Until(f, T)
  BY <1>1 DEF Sums
<1>3. \A t \in T + 1 .. MaxTime : Until(f, t) = Until(f, T + 1)
  BY <1>1, <1>2 DEF Sums
<1> QED BY <1>2, <1>3 DEF Sums

LEMMA TickRunning ==
    ASSUME RateAssumption, NEW T \in 0 .. MaxTime, T < MaxTime, NEW f, Sums(f, T),
           NEW b, NEW n, Running(f, T, b, n)
    PROVE  Running(f, T + 1, b, n)
BY TickSums DEF Running

LEMMA TickQuiet ==
    ASSUME RateAssumption, NEW T \in 0 .. MaxTime, T < MaxTime, NEW f, Sums(f, T), Quiet(f, T)
    PROVE  Quiet(f, T + 1)
<1>0. MaxTime \in Nat /\ Window \in Nat \ {0} /\ Allowance \in Nat
  BY DEF RateAssumption
<1>1. Until(f, T + 1) = Until(f, T) /\ T + 1 - 1 = T
  BY TickSums
<1>2. ASSUME NEW t \in -1 .. T + 1, t >= T + 1 - Window PROVE Until(f, T + 1) - Until(f, t) <= Allowance
  <2>1. CASE t = T + 1
    <3>1. Until(f, T + 1) \in Nat
      BY <1>0, UntilType DEF Sums
    <3> QED BY <3>1, <2>1, <1>0
  <2>2. CASE t # T + 1
    <3>1. t \in -1 .. T /\ t >= T - Window
      BY <2>2, <1>2, <1>0
    <3> QED BY <3>1, <1>1 DEF Quiet
  <2> QED BY <2>1, <2>2
<1> QED BY <1>1, <1>2 DEF Quiet

LEMMA TickExpired ==
    ASSUME RateAssumption, NEW T \in 0 .. MaxTime, T < MaxTime, NEW f, Sums(f, T),
           NEW b \in 0 .. T, NEW n, Running(f, T, b, n), T + 1 = b + Window
    PROVE  Quiet(f, T + 1)
<1>0. MaxTime \in Nat /\ Window \in Nat \ {0} /\ Allowance \in Nat
  BY DEF RateAssumption
<1>1. Until(f, T + 1) = Until(f, T) /\ T + 1 - 1 = T
  BY TickSums
<1>2. ASSUME NEW t \in -1 .. T + 1, t >= T + 1 - Window PROVE Until(f, T + 1) - Until(f, t) <= Allowance
  <2>1. b - 1 \in -1 .. MaxTime /\ t \in b - 1 .. MaxTime /\ t \in -1 .. MaxTime
    BY <1>0, <1>2
  <2>2. Until(f, b - 1) <= Until(f, t)
    BY <2>1 DEF Sums
  <2>3. Until(f, T) \in Nat /\ Until(f, b - 1) \in Nat /\ Until(f, t) \in Nat
    <3>1. f \in [0 .. MaxTime -> Nat] /\ T \in -1 .. MaxTime
      BY <1>0 DEF Sums
    <3> QED BY <3>1, <2>1, UntilType
  <2>4. Until(f, T) - Until(f, b - 1) <= Allowance
    BY DEF Running
  <2> QED BY <2>2, <2>3, <2>4, <1>0, <1>1
<1> QED BY <1>1, <1>2 DEF Quiet

LEMMA OpensRunning ==
    ASSUME RateAssumption, NEW T \in 0 .. MaxTime, NEW f, Sums(f, T), Quiet(f, T)
    PROVE  Running(f, T, T, 0)
<1>0. MaxTime \in Nat /\ Window \in Nat \ {0} /\ Allowance \in Nat
  BY DEF RateAssumption
<1>1. T - 1 \in -1 .. MaxTime /\ T \in -1 .. MaxTime
  BY <1>0
<1>2. Until(f, T) = Until(f, T - 1) /\ Until(f, T) \in Nat
  BY <1>1, UntilType DEF Quiet, Sums
<1>3. ASSUME NEW t \in -1 .. T - 1, t >= T - Window PROVE Until(f, T - 1) - Until(f, t) <= Allowance
  <2>1. t \in -1 .. T
    BY <1>3
  <2> QED BY <2>1, <1>2, <1>3 DEF Quiet
<1> QED BY <1>0, <1>2, <1>3 DEF Running

\* Tokens admitted at T count from then on.
Admits(f, T, cost) == [t \in 0 .. MaxTime |-> f[t] + (IF t < T THEN 0 ELSE cost)]

LEMMA AdmitsRunning ==
    ASSUME RateAssumption, NEW T \in 0 .. MaxTime, NEW f, Sums(f, T), NEW b \in 0 .. T, T < b + Window,
           NEW n \in Nat, Running(f, T, b, n), NEW cost \in Nat \ {0}, n + cost <= Allowance
    PROVE  Sums(Admits(f, T, cost), T) /\ Running(Admits(f, T, cost), T, b, n + cost)
<1> DEFINE g == Admits(f, T, cost)
<1>0. MaxTime \in Nat /\ Window \in Nat \ {0} /\ Allowance \in Nat
  BY DEF RateAssumption
<1>1. f \in [0 .. MaxTime -> Nat] /\ \A t \in -1 .. MaxTime : Until(f, t) \in Nat
  BY UntilType DEF Sums
<1>2. g \in [0 .. MaxTime -> Nat]
  BY <1>0, <1>1 DEF Admits
<1>3. \A t \in -1 .. MaxTime : Until(g, t) = Until(f, t) + (IF t < T THEN 0 ELSE cost)
  BY <1>0, <1>1 DEF Until, Admits
<1> HIDE DEF g
<1>4. \A t \in -1 .. MaxTime : /\ t < T => Until(g, t) = Until(f, t)
                               /\ t >= T => Until(g, t) = Until(f, t) + cost
  <2>1. TAKE t \in -1 .. MaxTime
  <2>2. Until(g, t) = Until(f, t) + (IF t < T THEN 0 ELSE cost) /\ Until(f, t) \in Nat /\ t \in Int /\ T \in Int
    BY <1>0, <1>1, <1>3
  <2> QED BY <2>2
<1>5. b - 1 \in -1 .. MaxTime /\ b - 1 < T /\ T \in -1 .. MaxTime
  BY <1>0
<1>6. Running(g, T, b, n + cost)
  <2>1. Until(g, T) = Until(f, T) + cost /\ Until(g, b - 1) = Until(f, b - 1)
    BY <1>4, <1>5
  <2>2. Until(f, T) - Until(f, b - 1) <= n /\ Until(f, T) \in Nat /\ Until(f, b - 1) \in Nat
    BY <1>1, <1>5 DEF Running
  <2>3. \A t \in -1 .. b - 1 : Until(g, t) = Until(f, t)
    BY <1>4, <1>5, <1>0
  <2>4. \A t \in -1 .. b - 1 : t >= b - Window => Until(f, b - 1) - Until(f, t) <= Allowance
    BY DEF Running
  <2>5. Until(g, T) - Until(g, b - 1) <= n + cost /\ Until(g, T) - Until(g, b - 1) <= Allowance
    BY <2>1, <2>2, <1>0
  <2> QED BY <2>1, <2>3, <2>4, <2>5 DEF Running
<1>7. ASSUME NEW s \in -1 .. MaxTime, NEW t \in s .. MaxTime PROVE Until(g, s) <= Until(g, t)
  <2>1. t \in -1 .. MaxTime /\ s <= t
    BY <1>0
  <2>2. Until(f, s) <= Until(f, t) /\ Until(f, s) \in Nat /\ Until(f, t) \in Nat
    BY <2>1, <1>1 DEF Sums
  <2> QED BY <2>1, <2>2, <1>4, <1>0
<1>8. ASSUME NEW t \in T .. MaxTime PROVE Until(g, t) = Until(g, T)
  <2>1. t \in -1 .. MaxTime /\ t >= T
    BY <1>0
  <2>2. Until(f, t) = Until(f, T)
    BY DEF Sums
  <2> QED BY <2>1, <2>2, <1>4, <1>5
<1>9. ASSUME NEW t \in -1 .. MaxTime - Window PROVE Until(g, t + Window) - Until(g, t) <= 2 * Allowance
  <2>1. t \in -1 .. MaxTime /\ t + Window \in -1 .. MaxTime
    BY <1>0
  <2>2. Until(f, t + Window) - Until(f, t) <= 2 * Allowance
    BY DEF Sums
  <2>3. CASE t + Window < T
    BY <2>1, <2>2, <2>3, <1>4, <1>0
  <2>4. CASE t >= T
    <3>1. Until(g, t) = Until(g, T) /\ Until(g, t + Window) = Until(g, T)
      BY <2>4, <2>1, <1>8, <1>0
    <3>2. Until(g, T) \in Nat
      BY <1>2, <1>5, UntilType
    <3> QED BY <3>1, <3>2, <1>0
  <2>5. CASE t + Window >= T /\ t < T
    <3>1. Until(g, t + Window) = Until(g, T)
      BY <2>5, <2>1, <1>8, <1>0
    <3>2. Until(g, T) - Until(g, b - 1) <= Allowance
      BY <1>6 DEF Running
    <3>3. Until(g, T) \in Nat /\ Until(g, b - 1) \in Nat /\ Until(g, t) \in Nat
      BY <1>2, <1>5, <2>1, UntilType
    <3>4. CASE t >= b - 1
      <4>1. Until(g, b - 1) <= Until(g, t)
        BY <3>4, <1>5, <1>7, <2>1, <1>0
      <4> QED BY <3>1, <3>2, <3>3, <4>1, <1>0
    <3>5. CASE t < b - 1
      <4>1. t \in -1 .. b - 1 /\ t >= b - Window
        BY <3>5, <2>5, <2>1, <1>0
      <4>2. Until(g, b - 1) - Until(g, t) <= Allowance
        BY <4>1, <1>6 DEF Running
      <4> QED BY <3>1, <3>2, <3>3, <4>2, <1>0
    <3> QED BY <3>4, <3>5, <2>1, <1>0
  <2> QED BY <2>3, <2>4, <2>5, <2>1, <1>0
<1> QED BY <1>2, <1>6, <1>7, <1>8, <1>9 DEF Sums, g

\* The buckets: finitely many, within the bound, of windows that began.
BucketsInv ==
    /\ RateTypeOK
    /\ IsFiniteSet(DOMAIN hits) /\ Cardinality(DOMAIN hits) <= MaxBuckets
    /\ \A k \in DOMAIN hits : hits[k].resetAt - Window \in 0 .. time
    /\ shed => \A k \in DOMAIN hits : Live(k)

ClientInv(c) ==
    /\ Sums(tally[c], time)
    /\ Live(c) => Running(tally[c], time, hits[c].resetAt - Window, hits[c].count)
    /\ ~Live(c) => Quiet(tally[c], time)

RateInv == BucketsInv /\ \A c \in Clients : ClientInv(c)

LEMMA RateInitInv == ASSUME RateAssumption, RateInit PROVE RateInv
<1>0. Window \in Nat \ {0} /\ Allowance \in Nat \ {0} /\ MaxBuckets \in Nat \ {0} /\ MaxTime \in Nat
  BY DEF RateAssumption
<1>1. DOMAIN hits = {} /\ time = 0 /\ shed = FALSE /\ tally = [c \in Clients |-> [t \in 0 .. MaxTime |-> 0]]
  BY DEF RateInit
<1>2. IsFiniteSet({}) /\ Cardinality({}) = 0
  BY FS_EmptySet
<1>4. BucketsInv
  <2>1. tally \in [Clients -> [0 .. MaxTime -> Nat]]
    BY <1>1
  <2>2. time \in 0 .. MaxTime
    BY <1>0, <1>1
  <2>3. RateTypeOK
    BY <1>1, <2>1, <2>2 DEF RateTypeOK
  <2> QED BY <2>3, <1>0, <1>1, <1>2 DEF BucketsInv
<1>5. ASSUME NEW c \in Clients PROVE ClientInv(c)
  <2> DEFINE f == tally[c]
  <2>1. f = [t \in 0 .. MaxTime |-> 0]
    BY <1>1
  <2> HIDE DEF f
  <2>2. \A t \in -1 .. MaxTime : Until(f, t) = 0
    BY <2>1, <1>0 DEF Until
  <2>3. Sums(f, 0)
    <3>1. f \in [0 .. MaxTime -> Nat]
      BY <2>1
    <3>2. \A t \in -1 .. MaxTime - Window : t \in -1 .. MaxTime /\ t + Window \in -1 .. MaxTime
      BY <1>0
    <3>3. \A t \in -1 .. MaxTime - Window : Until(f, t + Window) - Until(f, t) <= 2 * Allowance
      BY <3>2, <2>2, <1>0
    <3> QED BY <3>1, <3>3, <2>2, <1>0 DEF Sums
  <2>4. Quiet(f, 0)
    BY <2>2, <1>0 DEF Quiet
  <2>5. ~Live(c)
    BY <1>1 DEF Live
  <2> QED BY <2>3, <2>4, <2>5, <1>1 DEF ClientInv, f
<1> QED BY <1>4, <1>5 DEF RateInv

LEMMA SweptFits ==
    ASSUME RateAssumption, BucketsInv
    PROVE  /\ Swept \subseteq DOMAIN hits /\ IsFiniteSet(Swept)
           /\ Cardinality(Swept) <= Cardinality(DOMAIN hits) /\ Cardinality(Swept) \in Nat
           /\ Cardinality(DOMAIN hits) \in Nat
           /\ \A k \in DOMAIN hits : Live(k) => k \in Swept
<1>1. Swept \subseteq DOMAIN hits /\ \A k \in DOMAIN hits : Live(k) => k \in Swept
  BY DEF Swept
<1>2. IsFiniteSet(DOMAIN hits)
  BY DEF BucketsInv
<1> QED BY <1>1, <1>2, FS_Subset, FS_CardinalityType

LEMMA TickInv == ASSUME RateAssumption, RateInv, RateTick PROVE RateInv'
<1>0. Window \in Nat \ {0} /\ Allowance \in Nat \ {0} /\ MaxBuckets \in Nat \ {0} /\ MaxTime \in Nat
  BY DEF RateAssumption
<1>1. time \in 0 .. MaxTime /\ time < MaxTime /\ time' = time + 1 /\ shed' = FALSE /\ hits' = hits /\ tally' = tally
  BY DEF RateTick, RateInv, BucketsInv, RateTypeOK
<1>2. \A k \in DOMAIN hits : hits[k].resetAt - Window \in 0 .. time /\ hits[k] \in Buckets
  BY DEF RateInv, BucketsInv, RateTypeOK
<1>3. BucketsInv'
  <2>1. \A k \in DOMAIN hits : hits[k].resetAt - Window \in 0 .. time + 1
    BY <1>1, <1>2
  <2>2. time' \in 0 .. MaxTime
    BY <1>1, <1>0
  <2> QED BY <2>1, <2>2, <1>1 DEF RateInv, BucketsInv, RateTypeOK
<1>4. ASSUME NEW c \in Clients PROVE ClientInv(c)'
  <2> DEFINE f == tally[c]
             b == hits[c].resetAt - Window
             n == hits[c].count
  <2>1. Sums(f, time) /\ (Live(c) => Running(f, time, b, n)) /\ (~Live(c) => Quiet(f, time))
    BY DEF RateInv, ClientInv
  <2>2. Sums(f, time + 1)
    BY <2>1, <1>1, TickSums
  <2>3. CASE Live(c) /\ time + 1 < hits[c].resetAt
    <3>1. Running(f, time + 1, b, n)
      BY <2>1, <2>3, <1>1, TickRunning
    <3>2. Live(c)'
      BY <2>3, <1>1 DEF Live
    <3> QED BY <2>2, <3>1, <3>2, <1>1 DEF ClientInv
  <2>4. CASE Live(c) /\ ~(time + 1 < hits[c].resetAt)
    <3>1. b \in 0 .. time /\ time + 1 = b + Window
      BY <2>4, <1>0, <1>1, <1>2 DEF Live, Buckets
    <3>2. Quiet(f, time + 1)
      <4> HIDE DEF f, b, n
      <4> QED BY <2>1, <2>4, <3>1, <1>1, TickExpired
    <3>3. ~Live(c)'
      BY <2>4, <1>1 DEF Live
    <3> QED BY <2>2, <3>2, <3>3, <1>1 DEF ClientInv
  <2>5. CASE ~Live(c)
    <3>1. Quiet(f, time + 1)
      BY <2>1, <2>5, <1>1, TickQuiet
    <3>2. ~Live(c)'
      BY <2>5, <1>1, <1>2 DEF Live, Buckets
    <3> QED BY <2>2, <3>1, <3>2, <1>1 DEF ClientInv
  <2> QED BY <2>3, <2>4, <2>5
<1> QED BY <1>3, <1>4, <1>1 DEF RateInv

LEMMA CheckInv ==
    ASSUME RateAssumption, RateInv, NEW c \in Clients, NEW forged \in Forgeries, NEW cost \in Costs,
           Check(c, forged, cost)
    PROVE  RateInv'
<1>0. /\ Window \in Nat \ {0} /\ Allowance \in Nat \ {0} /\ MaxBuckets \in Nat \ {0} /\ MaxTime \in Nat
      /\ cost \in Nat \ {0}
  BY DEF RateAssumption
<1>1. time \in 0 .. MaxTime /\ tally \in [Clients -> [0 .. MaxTime -> Nat]] /\ DOMAIN hits \subseteq PeerIps
  BY DEF RateInv, BucketsInv, RateTypeOK
<1>2. \A k \in DOMAIN hits : hits[k].resetAt - Window \in 0 .. time /\ hits[k] \in Buckets
  BY DEF RateInv, BucketsInv, RateTypeOK
<1>3. /\ Swept \subseteq DOMAIN hits /\ IsFiniteSet(Swept)
      /\ Cardinality(Swept) <= Cardinality(DOMAIN hits) /\ Cardinality(Swept) \in Nat
      /\ Cardinality(DOMAIN hits) \in Nat
      /\ \A k \in DOMAIN hits : Live(k) => k \in Swept
  BY SweptFits DEF RateInv
<1>4. IsFiniteSet(DOMAIN hits) /\ Cardinality(DOMAIN hits) <= MaxBuckets
  BY DEF RateInv, BucketsInv
<1>5. c \in PeerIps
  BY DEF PeerIps
<1> DEFINE entry == IF Live(c) THEN hits[c] ELSE [count |-> 0, resetAt |-> time + Window]
           kept == IF Live(c) THEN DOMAIN hits ELSE Swept
           count == entry.count + cost
<1>6. IF ~Live(c) /\ ~Room(c)
       THEN /\ hits' = [j \in Swept |-> hits[j]]
            /\ shed' = TRUE
            /\ UNCHANGED <<time, tally>>
       ELSE /\ hits' = [j \in kept \union {c} |->
                   IF j = c THEN [entry EXCEPT !.count = count] ELSE hits[j]]
            /\ tally' = IF count > Allowance THEN tally
                        ELSE [tally EXCEPT ![c] = [t \in 0 .. MaxTime |->
                                  tally[c][t] + (IF t < time THEN 0 ELSE cost)]]
            /\ shed' = FALSE
            /\ UNCHANGED time
  BY KeyIsTheClient DEF Check
<1>7. \A d \in Clients : ClientInv(d)
  BY DEF RateInv
\* Turned away: the map is full of live buckets.
<1>8. CASE ~Live(c) /\ ~Room(c)
  <2>1. hits' = [j \in Swept |-> hits[j]] /\ shed' = TRUE /\ time' = time /\ tally' = tally
    BY <1>6, <1>8
  <2>2. DOMAIN hits' = Swept /\ \A j \in Swept : hits'[j] = hits[j]
    BY <2>1
  <2>3. \A j \in Swept : Live(j)
    BY <1>8, <1>0, <1>3 DEF Room, Swept
  <2>4. BucketsInv'
    <3>1. RateTypeOK'
      BY <2>1, <2>2, <1>1, <1>2, <1>3 DEF RateTypeOK
    <3>2. \A k \in DOMAIN hits' : Live(k)'
      BY <2>1, <2>2, <2>3, <1>3 DEF Live
    <3>3. Cardinality(DOMAIN hits') <= MaxBuckets
      BY <2>2, <1>3, <1>4, <1>0
    <3>4. \A k \in DOMAIN hits' : hits'[k].resetAt - Window \in 0 .. time'
      BY <2>1, <2>2, <1>2, <1>3
    <3> QED BY <3>1, <3>2, <3>3, <3>4, <2>2, <1>3 DEF BucketsInv
  <2>5. \A d \in Clients : (Live(d)' <=> Live(d)) /\ (Live(d) => hits'[d] = hits[d])
    BY <2>1, <2>2, <1>3 DEF Live
  <2>6. \A d \in Clients : ClientInv(d)'
    BY <2>1, <2>5, <1>7 DEF ClientInv
  <2> QED BY <2>4, <2>6 DEF RateInv
\* Counted.
<1>9. CASE ~(~Live(c) /\ ~Room(c))
  <2>1. /\ hits' = [j \in kept \union {c} |-> IF j = c THEN [entry EXCEPT !.count = count] ELSE hits[j]]
        /\ tally' = IF count > Allowance THEN tally ELSE [tally EXCEPT ![c] = Admits(tally[c], time, cost)]
        /\ shed' = FALSE /\ time' = time
    BY <1>6, <1>9 DEF Admits
  <2>2. /\ entry \in [count: Nat, resetAt: 0 .. MaxTime + Window] /\ entry.resetAt - Window \in 0 .. time
        /\ time < entry.resetAt
    <3>1. CASE Live(c)
      BY <3>1, <1>2 DEF Live, Buckets
    <3>2. CASE ~Live(c)
      BY <3>2, <1>0, <1>1
    <3> QED BY <3>1, <3>2
  <2>3. kept \subseteq DOMAIN hits /\ IsFiniteSet(kept) /\ \A k \in DOMAIN hits : Live(k) => k \in kept
    BY <1>3, <1>4
  <2> DEFINE new == [entry EXCEPT !.count = count]
  <2>4. /\ new \in Buckets /\ new.count = count /\ new.resetAt = entry.resetAt /\ count \in Nat
    <3> HIDE DEF entry
    <3>1. count \in Nat
      BY <2>2, <1>0
    <3> HIDE DEF count
    <3> QED BY <2>2, <3>1 DEF Buckets
  <2>5. DOMAIN hits' = kept \union {c} /\ hits'[c] = new /\ \A j \in kept : j # c => hits'[j] = hits[j]
    BY <2>1
  <2>6. IsFiniteSet(kept \union {c}) /\ Cardinality(kept \union {c}) <= MaxBuckets
    <3>1. CASE c \in DOMAIN hits
      <4>1. kept \union {c} \subseteq DOMAIN hits
        BY <3>1, <2>3
      <4>2. Cardinality(kept \union {c}) <= Cardinality(DOMAIN hits) /\ IsFiniteSet(kept \union {c})
        BY <4>1, <1>4, FS_Subset
      <4>3. Cardinality(kept \union {c}) \in Nat
        BY <4>2, FS_CardinalityType
      <4> QED BY <4>2, <4>3, <1>3, <1>4, <1>0
    <3>2. CASE c \notin DOMAIN hits
      <4>1. kept = Swept /\ Cardinality(Swept) < MaxBuckets /\ c \notin Swept
        BY <3>2, <1>3, <1>9 DEF Live, Room
      <4>2. IsFiniteSet(Swept \union {c}) /\ Cardinality(Swept \union {c}) = Cardinality(Swept) + 1
        BY <4>1, <1>3, FS_AddElement
      <4> QED BY <4>1, <4>2, <1>3, <1>0
    <3> QED BY <3>1, <3>2
  <2>7. Sums(tally'[c], time) /\ Running(tally'[c], time, entry.resetAt - Window, count)
    <3> DEFINE f == tally[c]
               b == entry.resetAt - Window
               n == entry.count
    <3>1. Sums(f, time)
      BY <1>7 DEF ClientInv
    <3>2. Running(f, time, b, n)
      <4>1. CASE Live(c)
        BY <4>1, <1>7 DEF ClientInv
      <4>2. CASE ~Live(c)
        <5>1. Quiet(f, time)
          BY <4>2, <1>7 DEF ClientInv
        <5>2. b = time /\ n = 0
          BY <4>2, <1>0, <1>1
        <5>3. Running(f, time, time, 0)
          <6> HIDE DEF f
          <6> QED BY <3>1, <5>1, <1>1, OpensRunning
        <5> QED BY <5>2, <5>3
      <4> QED BY <4>1, <4>2
    <3>3. b \in 0 .. time /\ n \in Nat /\ time < b + Window /\ count = n + cost
      BY <2>2, <1>0
    <3>4. CASE count > Allowance
      <4>1. tally'[c] = f
        BY <3>4, <2>1
      <4>2. Running(f, time, b, count)
        <5>1. Until(f, time) \in Nat /\ Until(f, b - 1) \in Nat
          <6>1. b - 1 \in -1 .. MaxTime /\ time \in -1 .. MaxTime /\ f \in [0 .. MaxTime -> Nat]
            <7>1. f \in [0 .. MaxTime -> Nat]
              BY <1>1
            <7> HIDE DEF f, b
            <7>2. b - 1 \in -1 .. MaxTime /\ time \in -1 .. MaxTime
              BY <3>3, <1>0, <1>1
            <7> QED BY <7>1, <7>2
          <6> QED BY <6>1, UntilType
        <5> HIDE DEF f, b, n, count
        <5> QED BY <3>2, <3>3, <5>1, <1>0 DEF Running
      <4> QED BY <3>1, <4>1, <4>2
    <3>5. CASE ~(count > Allowance)
      <4>1. tally'[c] = Admits(f, time, cost)
        BY <3>5, <2>1, <1>1
      <4>2. n + cost <= Allowance
        BY <3>5, <3>3, <1>0
      <4> HIDE DEF f, b, n
      <4>3. Sums(Admits(f, time, cost), time) /\ Running(Admits(f, time, cost), time, b, n + cost)
        BY <3>1, <3>2, <3>3, <4>2, <1>0, <1>1, AdmitsRunning
      <4> QED BY <4>1, <4>3, <3>3 DEF b
    <3> QED BY <3>4, <3>5
  <2> HIDE DEF new, kept
  <2>8. BucketsInv'
    <3>1. RateTypeOK'
      <4>1. tally' \in [Clients -> [0 .. MaxTime -> Nat]]
        <5>1. tally'[c] \in [0 .. MaxTime -> Nat]
          BY <2>7 DEF Sums
        <5> QED BY <5>1, <2>1, <1>1
      <4>2. \A k \in DOMAIN hits' : hits'[k] \in Buckets
        BY <2>3, <2>4, <2>5, <1>2
      <4> QED BY <4>1, <4>2, <2>1, <2>3, <2>5, <1>1, <1>5 DEF RateTypeOK
    <3>2. \A k \in DOMAIN hits' : hits'[k].resetAt - Window \in 0 .. time'
      BY <2>1, <2>2, <2>3, <2>4, <2>5, <1>2
    <3> QED BY <3>1, <3>2, <2>1, <2>5, <2>6 DEF BucketsInv
  <2>9. ClientInv(c)'
    <3>1. Live(c)'
      BY <2>1, <2>2, <2>4, <2>5 DEF Live
    <3>2. hits'[c].resetAt - Window = entry.resetAt - Window /\ hits'[c].count = count
      BY <2>4, <2>5
    <3> HIDE DEF entry, count
    <3> QED BY <3>1, <3>2, <2>1, <2>7 DEF ClientInv
  <2>10. ASSUME NEW d \in Clients, d # c PROVE ClientInv(d)'
    <3>1. (Live(d)' <=> Live(d)) /\ (Live(d) => hits'[d] = hits[d])
      BY <2>1, <2>3, <2>5, <2>10 DEF Live
    <3>2. tally'[d] = tally[d]
      BY <2>1, <2>10, <1>1
    <3> QED BY <3>1, <3>2, <2>1, <1>7 DEF ClientInv
  <2> QED BY <2>8, <2>9, <2>10 DEF RateInv
<1> QED BY <1>8, <1>9

\* The invariant, whatever clients ask for and write into the header.
THEOREM RateInvariant == RateSpec => []RateInv
<1>1. RateInit => RateInv
  BY RateAssumption, RateInitInv
<1>2. RateInv /\ [RateNext]_rateVars => RateInv'
  <2>1. ASSUME RateInv, UNCHANGED rateVars PROVE RateInv'
    BY <2>1 DEF rateVars, RateInv, BucketsInv, RateTypeOK, ClientInv, Live
  <2> QED BY <2>1, RateAssumption, TickInv, CheckInv DEF RateNext
<1> QED BY <1>1, <1>2, PTL DEF RateSpec

\* For any clients, costs, windows and headers (createRateLimiter(), makeClientAddress()):
\* over any span of one window a client is admitted for at most twice its allowance, the
\* map keeps its bound, and nobody is turned away while a bucket has expired.
THEOREM AllowanceKept == RateSpec => []AllowancePerClient
<1>1. ASSUME RateInv PROVE AllowancePerClient
  <2>0. Window \in Nat \ {0} /\ MaxTime \in Nat
    BY RateAssumption DEF RateAssumption
  <2>1. ASSUME NEW c \in Clients, NEW t \in 0 .. MaxTime - Window + 1
        PROVE Admitted(c, t, t + Window - 1) <= 2 * Allowance
    <3>1. t - 1 \in -1 .. MaxTime - Window /\ t - 1 + Window = t + Window - 1
      BY <2>0
    <3>2. \A s \in -1 .. MaxTime - Window : Until(tally[c], s + Window) - Until(tally[c], s) <= 2 * Allowance
      BY <1>1 DEF RateInv, ClientInv, Sums
    <3> QED BY <3>1, <3>2 DEF Admitted
  <2>2. ASSUME NEW c \in Clients, Live(c)
        PROVE Admitted(c, hits[c].resetAt - Window, time) <= Allowance
    BY <1>1, <2>2 DEF RateInv, ClientInv, Running, Admitted
  <2> QED BY <1>1, <2>1, <2>2 DEF AllowancePerClient, RateInv, BucketsInv
<1> QED BY <1>1, RateInvariant, PTL
============================================================================
