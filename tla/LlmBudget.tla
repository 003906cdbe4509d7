------------------------------ MODULE LlmBudget ------------------------------
(***************************************************************************)
(* The daily token budget of the language model: a call reserves an        *)
(* estimate, keeps the reservation alive while it waits for the provider,  *)
(* and replaces it by what it used, or releases it.  Reservations whose    *)
(* owner went away lapse and are reaped by a worker of their own.          *)
(*                                                                         *)
(* A reservation is made by one statement that takes an advisory lock,     *)
(* adds up the day's usage and inserts.  The statement sees the snapshot   *)
(* it had when it began, before it waited for the lock, so that it is      *)
(* split there.  The reaper is split between its snapshot and the rows it  *)
(* then locks, which are checked again as they are by then.                *)
(*                                                                         *)
(* One day; prompts, the cap on calls in flight and the retention of old   *)
(* rows are left out.  The values of the constants that make sense are an  *)
(* assumption of MCWorkers.                                                *)
(***************************************************************************)
EXTENDS Naturals, FiniteSets, FiniteSetsExt

CONSTANTS
  Calls,      \* drafts that are asked for on the day
  Budget,     \* LLM_DAILY_TOKEN_LIMIT
  Estimate,   \* LLM_TOKEN_RESERVATION
  Usages,     \* what a call may turn out to use
  BatchSize   \* of the reaper

VARIABLES
  row,      \* per call: its row of llm_usage
  call,     \* per call: where generateDraft is, the usage it read, what it used
  reading   \* the rows the reaper's statement found in its snapshot

vars == <<row, call, reading>>

NoRow == [status |-> "none", tokens |-> 0, lapsed |-> FALSE]

Counts(c) == row[c].status = "settled" \/ (row[c].status = "pending" /\ ~row[c].lapsed)

(* getDailyUsage *)
Usage == MapThenSumSet(LAMBDA c : row[c].tokens, {c \in Calls : Counts(c)})

Init ==
  /\ row = [c \in Calls |-> NoRow]
  /\ call = [c \in Calls |-> [at |-> "idle", seen |-> 0, used |-> 0]]
  /\ reading = {}

Goes(c, at) == call' = [call EXCEPT ![c].at = at]

-----------------------------------------------------------------------------
(* reserveDailyTokens: snapshot, advisory lock, INSERT ... SELECT *)

Reserve(c) ==
  /\ call[c].at = "idle"
  /\ call' = [call EXCEPT ![c] = [at |-> "reserving", seen |-> Usage, used |-> 0]]
  /\ UNCHANGED <<row, reading>>

LockDay(c) ==
  /\ call[c].at = "reserving"
  /\ \A other \in Calls : call[other].at # "locked"
  /\ Goes(c, "locked")
  /\ UNCHANGED <<row, reading>>

Fits(c) == call[c].seen + Estimate <= Budget

(* COMMIT; the call goes to the provider, its heartbeat begins. *)
Admit(c) ==
  /\ call[c].at = "locked"
  /\ IF Fits(c)
       THEN /\ row' = [row EXCEPT ![c] = [status |-> "pending", tokens |-> Estimate,
                                          lapsed |-> FALSE]]
            /\ Goes(c, "calling")
       ELSE Goes(c, "refused") /\ UNCHANGED row
  /\ UNCHANGED reading

-----------------------------------------------------------------------------
(* The provider answers or fails, by its time-out at the latest. *)

Answers(c) ==
  /\ call[c].at = "calling"
  /\ \E used \in Usages :
       call' = [call EXCEPT ![c] = [at |-> "answered", seen |-> call[c].seen, used |-> used]]
  /\ UNCHANGED <<row, reading>>

Fails(c) ==
  /\ call[c].at = "calling"
  /\ Goes(c, "failed")
  /\ UNCHANGED <<row, reading>>

Beating_NeverCleared(c) == call[c].at \in {"calling", "lost"}
Beating(c) == call[c].at = "calling"

(* renewDailyTokens; a reservation that was reaped is not renewed. *)
Renew(c) ==
  /\ Beating(c) /\ row[c].status = "pending"
  /\ row' = [row EXCEPT ![c].lapsed = FALSE]
  /\ UNCHANGED <<call, reading>>

Settleable(c) == row[c].status \in {"pending", "expired"}

Settled_KeepsExpiry(c) == [row[c] EXCEPT !.status = "settled", !.tokens = call[c].used]
Settled(c) == [status |-> "settled", tokens |-> call[c].used, lapsed |-> FALSE]

Settle(c) ==
  /\ call[c].at = "answered"
  /\ row' = IF Settleable(c) THEN [row EXCEPT ![c] = Settled(c)] ELSE row
  /\ Goes(c, "settled")
  /\ UNCHANGED reading

Release(c) ==
  /\ call[c].at = "failed"
  /\ row' = IF row[c].status = "pending" THEN [row EXCEPT ![c].status = "released"] ELSE row
  /\ Goes(c, "released")
  /\ UNCHANGED reading

(* settle or release fails and is only logged, or the process dies. *)
Loses(c) ==
  /\ call[c].at \in {"reserving", "locked", "calling", "answered", "failed"}
  /\ Goes(c, "lost")
  /\ UNCHANGED <<row, reading>>

-----------------------------------------------------------------------------
(* The row's expires_at passes. *)
Lapses(c) ==
  /\ row[c].status = "pending" /\ ~row[c].lapsed
  /\ row' = [row EXCEPT ![c].lapsed = TRUE]
  /\ UNCHANGED <<call, reading>>

Overdue == {c \in Calls : row[c].status = "pending" /\ row[c].lapsed}

(* expireReservations: LIMIT from the snapshot; FOR UPDATE SKIP LOCKED     *)
(* looks at the newest version of each row.                                *)
ReapRead ==
  /\ reading = {} /\ Overdue # {}
  /\ \E batch \in SUBSET Overdue :
       /\ batch # {} /\ Cardinality(batch) <= BatchSize
       /\ reading' = batch
  /\ UNCHANGED <<row, call>>

Reaped_AsRead == reading
Reaped == reading \cap Overdue

ReapWrite ==
  /\ reading # {}
  /\ row' = [c \in Calls |-> IF c \in Reaped THEN [row[c] EXCEPT !.status = "expired"] ELSE row[c]]
  /\ reading' = {}
  /\ UNCHANGED call

-----------------------------------------------------------------------------

Ends(c) == Answers(c) \/ Fails(c) \/ Settle(c) \/ Release(c)

Next ==
  \/ \E c \in Calls : Reserve(c) \/ LockDay(c) \/ Admit(c) \/ Ends(c) \/ Renew(c) \/ Loses(c)
                      \/ Lapses(c)
  \/ ReapRead \/ ReapWrite

Spec == Init /\ [][Next]_vars

(* Time passes, providers time out, and the reaper is kept running. *)
Fairness ==
  /\ \A c \in Calls : WF_vars(Ends(c)) /\ WF_vars(Lapses(c))
  /\ WF_vars(ReapRead) /\ WF_vars(ReapWrite)

FairSpec == Spec /\ Fairness

-----------------------------------------------------------------------------

(* With the CHECK llm_usage_reservation_lifecycle_check. *)
TypeOK ==
  /\ row \in [Calls -> [status : {"none", "pending", "settled", "released", "expired"},
                        tokens : Usages \cup {0, Estimate}, lapsed : BOOLEAN]]
  /\ \A c \in Calls : row[c].status = "settled" => ~row[c].lapsed
  /\ call \in [Calls -> [at : {"idle", "reserving", "locked", "refused", "calling", "answered",
                               "failed", "settled", "released", "lost"},
                         seen : Nat, used : Usages \cup {0}]]
  /\ reading \subseteq Calls

OutcomeTold ==
  \A c \in Calls :
    /\ call[c].at = "settled" => row[c].status = "settled" /\ row[c].tokens = call[c].used
    /\ call[c].at = "released" => row[c].status \in {"released", "expired"}
    /\ call[c].at = "lost" => row[c].status \in {"none", "pending", "expired"}
    /\ call[c].at \in {"idle", "reserving", "locked", "refused"} => row[c] = NoRow

(* The row, of the types the table's CHECK gives it, tells how its call    *)
(* ended: what a call used is what the day counts for it, also when the    *)
(* reservation lapsed or was reaped before the answer came, and the reaper *)
(* never takes back a usage that was recorded or brings back one that was  *)
(* released; a call that failed or lost its outcome counts for nothing     *)
(* once its reservation has lapsed.                                        *)
RowTellsOutcome == TypeOK /\ OutcomeTold

(* No reservation holds part of the budget for ever, whichever process     *)
(* died or failed to record its outcome.                                   *)
ReservationsEnd ==
  \A c \in Calls : row[c].status = "pending" ~> row[c].status # "pending"
=============================================================================
