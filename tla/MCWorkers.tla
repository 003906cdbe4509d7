------------------------------ MODULE MCWorkers ------------------------------
(***************************************************************************)
(* The two parts of the system that have a worker process of their own: the *)
(* review outbox, and the token budget with its reaper (module LlmBudget).  *)
(* They share no row; so each specification here runs one of them and      *)
(* leaves the other as it is.                                              *)
(***************************************************************************)
EXTENDS Outbox

CONSTANTS Calls, Budget, Estimate, Usages, ReapSize

(* Drafts that are asked for on a day are finitely many.                    *)
ASSUME LlmAssumption ==
  /\ IsFiniteSet(Calls)
  /\ Budget \in Nat /\ Estimate \in Nat \ {0} /\ Usages \subseteq Nat
  /\ ReapSize \in Nat \ {0}

VARIABLES row, call, reading

llm == <<row, call, reading>>

Llm == INSTANCE LlmBudget WITH BatchSize <- ReapSize

WorkersInit == Init /\ Llm!Init

OutboxSpec ==
  WorkersInit /\ [][Next /\ UNCHANGED llm]_<<vars, llm>> /\ Fairness

BudgetSpec ==
  WorkersInit /\ [][Llm!Next /\ UNCHANGED vars]_<<vars, llm>> /\ Llm!Fairness

-----------------------------------------------------------------------------
(* Properties of the component that is an instance here *)

(* What a call used is what the day counts for it, also when its            *)
(* reservation lapsed or was reaped before its answer came; a row that is   *)
(* settled has no expiry (LlmBudget).                                      *)
RowTellsOutcome == Llm!RowTellsOutcome

(* No reservation holds part of the budget for ever (LlmBudget).            *)
ReservationsEnd == Llm!ReservationsEnd
=============================================================================
