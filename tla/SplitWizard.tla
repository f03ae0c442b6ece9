---------------------------- MODULE SplitWizard -----------------------------
(***************************************************************************)
(* "Split into treasury wallets" (apps/wallet/public/treasury-ui.js): the  *)
(* settings, the plan that is computed from them while the user may change *)
(* them again, the review, the password prompt, and the batch that is made *)
(* of what the wizard holds then.  The plan reads the settings after its   *)
(* first answers, and the lock period once more after its last one.        *)
(*                                                                         *)
(* The runner of a batch is in TreasuryBatch; here it is whether one runs. *)
(***************************************************************************)
EXTENDS Integers, Sequences

CONSTANTS
    Payers,       \* the wallets that may be on display
    Balance,      \* payer -> what it holds
    Settings,     \* the settings of a treasury: its dollars and its lock
    NeedOf,       \* settings -> what one treasury takes at the live price
    Budgets,      \* the budgets that can be entered
    MostPerBatch,
    MaxPlans,     \* bound: plans started
    MaxBatches,   \* bound: batches created
    None          \* nothing yet

ASSUME WizardAssumption ==
    /\ Balance \in [Payers -> Nat] /\ NeedOf \in [Settings -> Nat \ {0}]
    /\ Budgets \subseteq Nat /\ None \notin Settings
    /\ MostPerBatch \in Nat \ {0} /\ MaxPlans \in Nat /\ MaxBatches \in Nat

VARIABLES
    wizard,     \* the step, the settings and what the last plan left
    plans,      \* the plans under way: where each is
    planned,    \* how many there were
    prompted,   \* is the password asked for
    batches,    \* the batches, and what the user was told of each
    runner,     \* the batch that is run, 0: none
    payer,      \* the wallet on display
    disturbed   \* did a plan begin beside another, or the wallet change since

wizVars == <<wizard, plans, planned, prompted, batches, runner, payer, disturbed>>

Lesser(a, b) == IF a < b THEN a ELSE b

\* What the last plan left, as step 4 puts it.
Offer == [choice |-> wizard.choice, need |-> wizard.need, count |-> wizard.count, until |-> wizard.until]

Running == {i \in DOMAIN batches : batches[i].state = "running"}
FirstRunning == CHOOSE i \in Running : \A j \in Running : i <= j

-----------------------------------------------------------------------------
(* The steps *)

At(step) == wizard.step = step /\ ~prompted

\* openSplitWizard(): a batch that runs is offered for resuming.
OpenWizard ==
    /\ ~prompted
    /\ wizard' = [wizard EXCEPT !.step = IF Running # {} THEN "resume" ELSE "budget"]
    /\ UNCHANGED <<plans, planned, prompted, batches, runner, payer, disturbed>>

\* Mutant: the way on stays open while a new plan is made.
PlanningOpenly(w) ==
    /\ planned < MaxPlans /\ planned' = planned + 1
    /\ wizard' = w
    /\ plans' = Append(plans, "asked")
    /\ disturbed' = (plans # <<>>)

\* A plan begins: until one has been made there is no way on.
Planning(w) ==
    /\ planned < MaxPlans /\ planned' = planned + 1
    /\ wizard' = [w EXCEPT !.next = FALSE]
    /\ plans' = Append(plans, "asked")
    /\ disturbed' = (plans # <<>>)

\* sp-next-1: the budget is entered; it is kept where the fee pocket is refused.
EnterBudget(b) ==
    /\ At("budget")
    /\ \/ Planning([wizard EXCEPT !.step = "settings", !.budget = b])
       \/ wizard' = [wizard EXCEPT !.budget = b] /\ UNCHANGED <<plans, planned, disturbed>>
    /\ UNCHANGED <<prompted, batches, runner, payer>>

\* sp-dd, sp-tier: the settings change.
ChangeSettings(c) ==
    /\ At("settings")
    /\ Planning([wizard EXCEPT !.choice = c])
    /\ UNCHANGED <<prompted, batches, runner, payer>>

Done(i) == [j \in 1 .. Len(plans) - 1 |-> IF j < i THEN plans[j] ELSE plans[j + 1]]

\* computePlan(), the price and the multiplier known: what fits the budget and the
\* balance; less than one ends it, though what it found stays.
PlanCounts(i) ==
    /\ plans[i] = "asked"
    /\ LET need == NeedOf[wizard.choice]
           count == Lesser(Lesser(wizard.budget, Balance[payer]) \div need, MostPerBatch)
       IN /\ wizard' = [wizard EXCEPT !.need = need, !.count = count]
          /\ plans' = IF count < 1 THEN Done(i) ELSE [plans EXCEPT ![i] = "tip"]
    /\ UNCHANGED <<planned, prompted, batches, runner, payer, disturbed>>

\* The height known: the day it unlocks, and the way on.
PlanReturns(i) ==
    /\ plans[i] = "tip"
    /\ wizard' = [wizard EXCEPT !.until = wizard.choice, !.next = TRUE]
    /\ plans' = Done(i)
    /\ UNCHANGED <<planned, prompted, batches, runner, payer, disturbed>>

\* The node does not answer: the error is shown.
PlanFails(i) ==
    /\ plans' = Done(i)
    /\ UNCHANGED <<wizard, planned, prompted, batches, runner, payer, disturbed>>

\* sp-next-2, sp-next-3: as many names as the plan counted, then the review.
Advance ==
    /\ \/ At("settings") /\ wizard.next
          /\ wizard' = [wizard EXCEPT !.step = "names", !.names = wizard.count]
       \/ At("names")
          /\ wizard' = [wizard EXCEPT !.step = "review", !.told = Offer]
    /\ UNCHANGED <<plans, planned, prompted, batches, runner, payer, disturbed>>

StepBack ==
    /\ \E back \in {<<"settings", "budget">>, <<"names", "settings">>, <<"review", "names">>} :
          At(back[1]) /\ wizard' = [wizard EXCEPT !.step = back[2]]
    /\ UNCHANGED <<plans, planned, prompted, batches, runner, payer, disturbed>>

\* sp-create: the password first.
Create ==
    /\ At("review") /\ Len(batches) < MaxBatches
    /\ prompted' = TRUE
    /\ UNCHANGED <<wizard, plans, planned, batches, runner, payer, disturbed>>

Declines == prompted /\ prompted' = FALSE /\ UNCHANGED <<wizard, plans, planned, batches, runner, payer, disturbed>>

\* startBatch(): of what the wizard holds by now; a batch that already runs goes on alone.
Started ==
    /\ prompted /\ prompted' = FALSE
    /\ batches' = Append(batches,
          [choice |-> wizard.choice, need |-> wizard.need, count |-> wizard.names, until |-> wizard.until,
           told |-> wizard.told, budget |-> wizard.budget, payer |-> payer,
           disturbed |-> disturbed, state |-> "running"])
    /\ runner' = IF runner = 0 THEN Len(batches) + 1 ELSE runner
    /\ wizard' = [wizard EXCEPT !.step = "progress"]
    /\ UNCHANGED <<plans, planned, payer, disturbed>>

\* sp-resume-go, and opening the dashboard: the first batch that runs is taken up, unless
\* one is.
Resume ==
    /\ Running # {} /\ ~prompted
    /\ \/ At("resume") /\ wizard' = [wizard EXCEPT !.step = "progress"]
       \/ runner = 0 /\ UNCHANGED wizard
    /\ runner' = IF runner = 0 THEN FirstRunning ELSE runner
    /\ UNCHANGED <<plans, planned, prompted, batches, payer, disturbed>>

\* sp-resume-discard: it is no longer offered.
StartOver ==
    /\ At("resume") /\ Running # {}
    /\ batches' = [batches EXCEPT ![FirstRunning].state = "aborted"]
    /\ wizard' = [wizard EXCEPT !.step = "budget"]
    /\ UNCHANGED <<plans, planned, prompted, runner, payer, disturbed>>

\* The runner ends: the batch is done, or it was paused or discarded.
RunnerEnds ==
    /\ runner # 0 /\ runner' = 0
    /\ \/ UNCHANGED batches
       \/ runner \in Running /\ batches' = [batches EXCEPT ![runner].state = "done"]
    /\ UNCHANGED <<wizard, plans, planned, prompted, payer, disturbed>>

\* Another tab switches wallets: the prompt goes, the wizard stays.
WalletSwitches(w) ==
    /\ w # payer /\ payer' = w
    /\ prompted' = FALSE /\ disturbed' = TRUE
    /\ UNCHANGED <<wizard, plans, planned, batches, runner>>

WizardInit ==
    /\ \E c \in Settings :
          wizard = [step |-> "closed", budget |-> 0, choice |-> c, need |-> 0, count |-> 0,
                    until |-> None, names |-> 0, next |-> FALSE, told |-> None]
    /\ plans = <<>> /\ planned = 0 /\ prompted = FALSE /\ batches = <<>> /\ runner = 0
    /\ payer \in Payers /\ disturbed = FALSE

WizardNext ==
    \/ OpenWizard \/ Advance \/ StepBack \/ Create \/ Declines \/ Started
    \/ Resume \/ StartOver \/ RunnerEnds
    \/ \E b \in Budgets : EnterBudget(b)
    \/ \E c \in Settings : ChangeSettings(c)
    \/ \E i \in DOMAIN plans : PlanCounts(i) \/ PlanReturns(i) \/ PlanFails(i)
    \/ \E w \in Payers : WalletSwitches(w)

WizardSpec == WizardInit /\ [][WizardNext]_wizVars

-----------------------------------------------------------------------------
(* Properties *)

\* What the password confirmed is what the review said: as many treasuries, of those
\* dollars and that lock, each given what one of them takes, and together within the
\* budget and the balance.  Plans that overlap, and a wallet that changes underneath, are
\* the only ways around it.
CreatedAsReviewed ==
    \A i \in DOMAIN batches :
        LET b == batches[i]
        IN ~b.disturbed =>
              /\ b.told = [choice |-> b.choice, need |-> b.need, count |-> b.count, until |-> b.until]
              /\ b.need = NeedOf[b.choice] /\ b.until = b.choice
              /\ b.count \in 1 .. MostPerBatch
              /\ b.count * b.need <= Lesser(b.budget, Balance[b.payer])
=============================================================================
