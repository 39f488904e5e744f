-------------------------- MODULE WorkflowAbstract --------------------------
(***************************************************************************)
(* What the orchestrator promises (spec 4.1): the phases run in the order  *)
(* Analysis, Implementation, Validation, PRCreation; a phase either        *)
(* succeeds and hands over to the next, or fails, is charged to one global *)
(* budget and is tried again; the run succeeds right after PRCreation      *)
(* succeeds and fails once the budget is spent.                            *)
(***************************************************************************)
EXTENDS Naturals

CONSTANT MaxRetries

VARIABLES phase, failures, result

absVars == <<phase, failures, result>>

Order == <<"Analysis", "Implementation", "Validation", "PRCreation">>
Following(p) == Order[(CHOOSE i \in 1..3 : Order[i] = p) + 1]

Init ==
  /\ phase = "Analysis"
  /\ failures = 0
  /\ result = "running"

Trying == result = "running" /\ failures < MaxRetries

PhaseSucceeds ==
  /\ Trying
  /\ IF phase = "PRCreation"
     THEN result' = "success" /\ UNCHANGED phase
     ELSE phase' = Following(phase) /\ UNCHANGED result
  /\ UNCHANGED failures

PhaseFails ==
  /\ Trying
  /\ failures' = failures + 1
  /\ UNCHANGED <<phase, result>>

BudgetSpent ==
  /\ result = "running"
  /\ failures = MaxRetries
  /\ result' = "failed"
  /\ UNCHANGED <<phase, failures>>

Next == PhaseSucceeds \/ PhaseFails \/ BudgetSpent

Spec == Init /\ [][Next]_absVars /\ WF_absVars(Next)

=============================================================================
