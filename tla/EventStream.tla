---------------------------- MODULE EventStream ----------------------------
(***************************************************************************)
(* /api/events of the wallet server (apps/wallet/server.js): browsers hold *)
(* streams open, at most SSE_PER_IP from one address; while there is one,  *)
(* a timer asks the node for its height and a new height is pushed to all  *)
(* streams.  Ticks may overlap: one is sent every 2 s and may take 5 s.    *)
(***************************************************************************)
EXTENDS Integers, FiniteSets

CONSTANTS
    Streams,     \* streams that can be open
    Addr,        \* stream -> the client address it comes from
    PerIp,       \* SSE_PER_IP
    Ticks,       \* watch ticks that can be under way at one time
    MaxHeight    \* bound: height of the chain

ASSUME EventAssumption ==
    /\ PerIp \in Nat \ {0} /\ MaxHeight \in Nat \ {0}
    /\ DOMAIN Addr = Streams /\ IsFiniteSet(Streams)

VARIABLES
    open,       \* sseClients
    byAddr,     \* sseByAddr; an address without an entry has 0
    watching,   \* sseWatchTimer is set
    last,       \* sseLastHeight, 0 for null
    height,     \* the height of the node's chain
    tick,       \* per tick: "none", "asked", or the height it is being told
    told        \* per stream: the height of its last block event, 0 for none

eventVars == <<open, byAddr, watching, last, height, tick, told>>

Addrs == {Addr[s] : s \in Streams}
Heights == 1 .. MaxHeight

EventTypeOK ==
    /\ open \subseteq Streams
    /\ byAddr \in [Addrs -> 0 .. PerIp]
    /\ watching \in BOOLEAN
    /\ last \in {0} \union Heights
    /\ height \in Heights
    /\ \A t \in Ticks : tick[t].at \in {"none", "asked", "told"} /\ tick[t].height \in {0} \union Heights
    /\ told \in [Streams -> {0} \union Heights]

NoTick == [at |-> "none", height |-> 0]

EventInit ==
    /\ open = {}
    /\ byAddr = [a \in Addrs |-> 0]
    /\ watching = FALSE
    /\ last = 0
    /\ height = 1
    /\ tick = [t \in Ticks |-> NoTick]
    /\ told = [s \in Streams |-> 0]

\* A browser opens a stream; past the cap of its address it gets a 429.  The
\* first stream starts the timer, whose first tick runs at once.
OpenStream(s) ==
    /\ s \notin open
    /\ byAddr[Addr[s]] < PerIp
    /\ open' = open \union {s}
    /\ byAddr' = [byAddr EXCEPT ![Addr[s]] = @ + 1]
    /\ watching' = TRUE
    /\ told' = [told EXCEPT ![s] = 0]
    /\ UNCHANGED <<last, height, tick>>

\* Mutant: every stream that closes stops the timer.
CloseStreamStops(s) ==
    /\ s \in open
    /\ open' = open \ {s}
    /\ byAddr' = [byAddr EXCEPT ![Addr[s]] = @ - 1]
    /\ watching' = FALSE
    /\ UNCHANGED <<last, height, tick, told>>

\* A stream closes; the last one stops the timer, not the ticks under way.
CloseStream(s) ==
    /\ s \in open
    /\ open' = open \ {s}
    /\ byAddr' = [byAddr EXCEPT ![Addr[s]] = @ - 1]
    /\ watching' = (open' # {})
    /\ UNCHANGED <<last, height, tick, told>>

\* sseWatchTick() asks for the height ...
AskHeight(t) ==
    /\ watching /\ tick[t].at = "none"
    /\ tick' = [tick EXCEPT ![t] = [at |-> "asked", height |-> 0]]
    /\ UNCHANGED <<open, byAddr, watching, last, height, told>>

\* ... the node tells the one it has now ...
TellHeight(t) ==
    /\ tick[t].at = "asked"
    /\ tick' = [tick EXCEPT ![t] = [at |-> "told", height |-> height]]
    /\ UNCHANGED <<open, byAddr, watching, last, height, told>>

\* ... and a height unlike the last one is pushed, if there was a last one.
BroadcastHeight(t) ==
    LET h == tick[t].height
    IN /\ tick[t].at = "told"
       /\ told' = [s \in Streams |-> IF s \in open /\ h # last /\ last # 0 THEN h ELSE told[s]]
       /\ last' = h
       /\ tick' = [tick EXCEPT ![t] = NoTick]
       /\ UNCHANGED <<open, byAddr, watching, height>>

\* No answer within 5 s.
AskHeightFails(t) ==
    /\ tick[t].at = "asked"
    /\ tick' = [tick EXCEPT ![t] = NoTick]
    /\ UNCHANGED <<open, byAddr, watching, last, height, told>>

Block ==
    /\ height < MaxHeight
    /\ height' = height + 1
    /\ UNCHANGED <<open, byAddr, watching, last, tick, told>>

EventNext ==
    \/ \E s \in Streams : OpenStream(s) \/ CloseStream(s)
    \/ \E t \in Ticks : AskHeight(t) \/ TellHeight(t) \/ BroadcastHeight(t) \/ AskHeightFails(t)
    \/ Block

\* The interval fires again and again, what was told is handled, and a node that
\* is asked again and again tells its height sometimes.
EventFairness ==
    \A t \in Ticks : WF_eventVars(AskHeight(t)) /\ SF_eventVars(TellHeight(t)) /\ WF_eventVars(BroadcastHeight(t))

EventSpec == EventInit /\ [][EventNext]_eventVars /\ EventFairness

-----------------------------------------------------------------------------
(* Properties *)

\* The counts are those of the open streams, so nobody is locked out by streams
\* that are gone, and the timer runs exactly while there is a stream.
CountsAreStreams ==
    /\ \A a \in Addrs : byAddr[a] = Cardinality({s \in open : Addr[s] = a})
    /\ watching = (open # {})

\* A block that the watcher has not seen yet is announced to every stream that
\* stays open (a late answer may first announce an older one again).
BlocksAnnounced ==
    \A s \in Streams, h \in Heights \ {1} :
        (s \in open /\ last # 0 /\ last < h /\ h <= height) ~> (s \notin open \/ told[s] >= h)
=============================================================================
