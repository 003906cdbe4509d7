---------------------------- MODULE SprintLedger ----------------------------
(***************************************************************************)
(* What sprint plans promise a wordbook (ADR-0041), whatever requests,     *)
(* retries and devices do: one plan at a time; a plan is completed by its  *)
(* last round, once all its rounds were worked through, or abandoned, and  *)
(* neither is ever taken back; and the words it suspended are given back   *)
(* once, at its end.  HuluPlan refines it.                                 *)
(***************************************************************************)
EXTENDS Naturals

CONSTANTS Plans, Target

VARIABLES
  phase,  \* per plan: "none", "active", "completed" or "abandoned"
  todo,   \* per plan: the rounds it takes, round 0 introducing the new words
  work,   \* per plan: the rounds worked through
  owed,   \* per plan: whether it keeps words to give back
  given   \* per plan: how often it gave words back

ledger == <<phase, todo, work, owed, given>>

Schemes == {0..Target, 1..Target}

LedgerInit ==
  /\ \/ phase = [p \in Plans |-> "none"]
     \/ \E old \in Plans : phase = [[p \in Plans |-> "none"] EXCEPT ![old] = "active"]
  /\ todo = [p \in Plans |-> 1..Target]
  /\ work \in [Plans -> SUBSET (1..Target)]
  /\ \A p \in Plans : phase[p] = "none" => work[p] = {}
  /\ owed \in [Plans -> BOOLEAN]
  /\ given = [p \in Plans |-> 0]

Create(p) ==
  /\ \A other \in Plans : phase[other] # "active"
  /\ phase[p] = "none"
  /\ phase' = [phase EXCEPT ![p] = "active"]
  /\ \E rounds \in Schemes : todo' = [todo EXCEPT ![p] = rounds]
  /\ \E suspends \in BOOLEAN : owed' = [owed EXCEPT ![p] = suspends]
  /\ UNCHANGED <<work, given>>

WorkThrough(p, no) == work' = [work EXCEPT ![p] = @ \cup {no}]

Round(p, no) ==
  /\ phase[p] # "none"
  /\ WorkThrough(p, no)
  /\ UNCHANGED <<phase, todo, owed, given>>

End(p, how) ==
  /\ phase[p] = "active"
  /\ phase' = [phase EXCEPT ![p] = how]
  /\ given' = [given EXCEPT ![p] = IF owed[p] THEN @ + 1 ELSE @]
  /\ owed' = [owed EXCEPT ![p] = FALSE]
  /\ UNCHANGED todo

Complete(p) ==
  /\ End(p, "completed")
  /\ WorkThrough(p, Target)
  /\ todo[p] \subseteq work'[p]

Abandon(p) == End(p, "abandoned") /\ UNCHANGED work

LedgerNext ==
  \E p \in Plans : Create(p) \/ Complete(p) \/ Abandon(p) \/ \E no \in 0..Target : Round(p, no)

LedgerSpec == LedgerInit /\ [][LedgerNext]_ledger
=============================================================================
