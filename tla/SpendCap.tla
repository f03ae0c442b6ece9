------------------------------ MODULE SpendCap ------------------------------
(***************************************************************************)
(* The ceiling for one transaction (apps/wallet/public/txcap.js) and the   *)
(* ceremony that raises it (app.js), in the tabs of one device.  A ceiling *)
(* is in dollars; what is stored is a text.                                *)
(***************************************************************************)
EXTENDS Integers

CONSTANTS
    CapTabs,     \* the tabs
    Leftovers,   \* texts that were stored by hand or by another build, as numbers
    MaxChoices   \* bound: how often a ceiling is chosen

ASSUME SpendCapAssumption == Leftovers \subseteq Int /\ MaxChoices \in Nat

VARIABLES
    raw,      \* the stored text
    pendingCap,  \* per tab: pendingCapChoice
    asking,    \* per tab: the ceremony is on the page
    phrase,   \* per tab: what the input of the ceremony holds is CAP_ACK_PHRASE
    read,     \* per tab: the ceiling the ceremony named when that was typed
    choices

capVars == <<raw, pendingCap, asking, phrase, read, choices>>

NoLimit == -1       \* null
Default == 500      \* TXCAP_DEFAULT_USD
Ladder == {500, 2000, 10000, NoLimit}

Absent == [kind |-> "absent"]
Text(n) == [kind |-> "text", value |-> n]
Unlimited == [kind |-> "unlimited"]

\* txCapUsd(): only the ladder is honoured.
CapOf(text) ==
    CASE text = Unlimited -> NoLimit
      [] text.kind = "text" -> IF text.value > 0 /\ text.value \in Ladder THEN text.value ELSE Default
      [] text = Absent -> Default

\* txCapStorageValue()
StorageValue(cap) == IF cap = NoLimit THEN Unlimited ELSE Text(cap)

IsRaise(current, next) ==
    IF next = NoLimit THEN current # NoLimit ELSE current # NoLimit /\ next > current

-----------------------------------------------------------------------------
CapInit ==
    /\ raw \in {Absent} \union {Text(n) : n \in Leftovers}
    /\ pendingCap = [t \in CapTabs |-> NoLimit]   \* null: no choice, or no limit
    /\ asking = [t \in CapTabs |-> FALSE]
    /\ phrase = [t \in CapTabs |-> FALSE]
    /\ read = [t \in CapTabs |-> NoLimit]
    /\ choices = 0

\* The select: a ceiling that is not higher applies at once, unless the browser refuses
\* to store it; a higher one opens the ceremony.
Choose(t, next) ==
    /\ ~asking[t] /\ choices < MaxChoices /\ choices' = choices + 1
    /\ IF IsRaise(CapOf(raw), next)
       THEN /\ pendingCap' = [pendingCap EXCEPT ![t] = next]
            /\ asking' = [asking EXCEPT ![t] = TRUE]
            /\ UNCHANGED raw
       ELSE /\ raw' \in {raw, StorageValue(next)}
            /\ UNCHANGED <<pendingCap, asking>>
    /\ UNCHANGED <<phrase, read>>

TypePhrase(t) ==
    /\ asking[t] /\ ~phrase[t]
    /\ phrase' = [phrase EXCEPT ![t] = TRUE]
    /\ read' = [read EXCEPT ![t] = pendingCap[t]]
    /\ UNCHANGED <<raw, pendingCap, asking, choices>>

\* Mutant: the phrase stays in the input.
CloseKeepsPhrase(t) ==
    /\ pendingCap' = [pendingCap EXCEPT ![t] = NoLimit]
    /\ asking' = [asking EXCEPT ![t] = FALSE]
    /\ UNCHANGED phrase

\* closeCapCeremony()
Close(t) ==
    /\ pendingCap' = [pendingCap EXCEPT ![t] = NoLimit]
    /\ asking' = [asking EXCEPT ![t] = FALSE]
    /\ phrase' = [phrase EXCEPT ![t] = FALSE]

Cancelled(t) == asking[t] /\ Close(t) /\ UNCHANGED <<raw, read, choices>>

\* The click that accepts; where the browser refuses to store, the ceremony stays.
Accept(t) ==
    /\ asking[t] /\ phrase[t]
    /\ \/ raw' = StorageValue(pendingCap[t]) /\ Close(t)
       \/ UNCHANGED <<raw, pendingCap, asking, phrase>>
    /\ UNCHANGED <<read, choices>>

CapNext ==
    \E t \in CapTabs :
        TypePhrase(t) \/ Cancelled(t) \/ Accept(t) \/ \E next \in Ladder : Choose(t, next)

CapSpec == CapInit /\ [][CapNext]_capVars

-----------------------------------------------------------------------------
(* Properties *)

\* The ceiling rises only to what a ceremony named while the phrase was typed into it,
\* whatever was stored before and whatever other tabs choose meanwhile.
CapAcknowledged ==
    [][IsRaise(CapOf(raw), CapOf(raw')) =>
          \E t \in CapTabs : asking[t] /\ phrase[t] /\ read[t] = CapOf(raw')]_capVars
=============================================================================
