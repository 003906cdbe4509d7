------------------------------- MODULE Outbox -------------------------------
(***************************************************************************)
(* The transactional outbox between an answer and its downstream effects:  *)
(* rows of outbox_events (OutboxRepository), the polling workers that      *)
(* claim them under a lease (ReviewOutboxWorker and its runner), the       *)
(* operator's replay and the retention job's purge.                        *)
(*                                                                         *)
(* One action per SQL statement or transaction.  A worker's effect         *)
(* transaction is three steps, because other sessions run between them:    *)
(* BEGIN (which freezes now()), the first beginEffect (which locks the     *)
(* row), and COMMIT (which publishes effects, receipts and status at       *)
(* once).  The clock is abstracted to two facts about a row: its lease has *)
(* run out (expired), its available_at has come (it is in ready, which     *)
(* keeps the rows in the order of available_at).                           *)
(***************************************************************************)
EXTENDS Naturals, Sequences, FiniteSets

CONSTANTS
  Events, L2Events,  \* see EffectLedger
  Workers,           \* worker processes, by worker id
  MaxAttempts,       \* outbox_events.max_attempts (8 in the code)
  BatchSize,         \* claims per processBatch (20 in the code)
  NoEvent, NoWorker

ASSUME OutboxAssumption ==
  /\ IsFiniteSet(Events)
  /\ MaxAttempts \in Nat \ {0}
  /\ BatchSize \in Nat \ {0}
  /\ NoEvent \notin Events
  /\ NoWorker \notin Workers

VARIABLES
  \* rows of outbox_events and outbox_effect_receipts
  status, attempts, holder, expired, ready, receipts,
  \* committed executions of each effect: what the rest of the system sees
  applied,
  \* per worker: where it is, the event it claimed, whether that event's
  \* lease was still running when its transaction began, claims left
  pc, cur, fresh, budget

rowVars == <<status, attempts, holder, expired, ready>>
effectVars == <<receipts, applied>>
workerVars == <<pc, cur, fresh, budget>>
vars == <<rowVars, effectVars, workerVars>>

(* An event is queued until it is settled, whoever works on it. *)
LedgerView ==
  [e \in Events |-> IF status[e] = "processed" THEN "applied"
                    ELSE IF status[e] = "dead_letter" THEN "dead"
                    ELSE IF status[e] \in {"absent", "purged"} THEN status[e]
                    ELSE "queued"]

Ledger == INSTANCE EffectLedger WITH ledger <- LedgerView, count <- applied

EffectsOf(e) == Ledger!EffectsOf(e)
Effects == Ledger!Effects

Waiting == {"pending", "retry"}
Statuses == Waiting \cup {"absent", "processing", "processed", "dead_letter", "purged"}
PCs == {"down", "idle", "polling", "claimed", "tx", "effects", "failed"}

-----------------------------------------------------------------------------

Init ==
  /\ status = [e \in Events |-> "absent"]
  /\ attempts = [e \in Events |-> 0]
  /\ holder = [e \in Events |-> NoWorker]
  /\ expired = [e \in Events |-> FALSE]
  /\ ready = <<>>
  /\ receipts = [e \in Events |-> {}]
  /\ applied = [e \in Events |-> [f \in Effects |-> 0]]
  /\ pc = [w \in Workers |-> "down"]
  /\ cur = [w \in Workers |-> NoEvent]
  /\ fresh = [w \in Workers |-> FALSE]
  /\ budget = [w \in Workers |-> 0]

(* The row of e is locked by a transaction that passed beginEffect. *)
RowLocked(e) == \E w \in Workers : pc[w] = "effects" /\ cur[w] = e

(* WHERE id = e AND status = 'processing' AND locked_by = w *)
OwnsRow(w, e) == status[e] = "processing" /\ holder[e] = w

(* Where a failed or abandoned attempt sends the row. *)
AfterAttempt_UnknownStatus(e) == IF attempts[e] >= MaxAttempts THEN "dead_letter" ELSE "failed"
AfterAttempt(e) == IF attempts[e] >= MaxAttempts THEN "dead_letter" ELSE "retry"

MoveTo(w, where) == pc' = [pc EXCEPT ![w] = where]

(* All sequences that list the elements of S once each. *)
Orderings(S) ==
  {s \in [1..Cardinality(S) -> S] : \A i, j \in DOMAIN s : s[i] = s[j] => i = j}

-----------------------------------------------------------------------------
(* The answering transaction inserts the event; a dedupe key that is       *)
(* already there changes nothing.                                          *)
DedupeKeyFree_Never(e) == status[e] \notin Waiting \cup {"processing"}
DedupeKeyFree(e) == status[e] = "absent"

Enqueue(e) ==
  /\ DedupeKeyFree(e)
  /\ status' = [status EXCEPT ![e] = "pending"]
  /\ attempts' = [attempts EXCEPT ![e] = 0]
  /\ ready' = Append(ready, e)
  /\ UNCHANGED <<holder, expired, effectVars, workerVars>>

(* now() passes locked_until, or the available_at of a retried row. *)
LeaseExpires(e) ==
  /\ status[e] = "processing" /\ ~expired[e]
  /\ expired' = [expired EXCEPT ![e] = TRUE]
  /\ UNCHANGED <<status, attempts, holder, ready, effectVars, workerVars>>

BecomesAvailable(e) ==
  /\ status[e] = "retry"
  /\ \A i \in DOMAIN ready : ready[i] # e
  /\ ready' = Append(ready, e)
  /\ UNCHANGED <<status, attempts, holder, expired, effectVars, workerVars>>

(* processBatch begins by returning every lapsed lease to the queue.  The  *)
(* UPDATE waits for a row that a running effect transaction has locked.    *)
Lapsed_SparesLastAttempt ==
  {e \in Events : status[e] = "processing" /\ expired[e] /\ attempts[e] < MaxAttempts}
Lapsed == {e \in Events : status[e] = "processing" /\ expired[e]}

RecoveryMayRun == \A e \in Lapsed : ~RowLocked(e)

RecoverExpiredLeases(w) ==
  /\ pc[w] = "idle"
  /\ RecoveryMayRun
  /\ status' = [e \in Events |-> IF e \in Lapsed THEN AfterAttempt(e) ELSE status[e]]
  /\ \E s \in Orderings({e \in Lapsed : AfterAttempt(e) = "retry"}) : ready' = ready \o s
  /\ holder' = [e \in Events |-> IF e \in Lapsed THEN NoWorker ELSE holder[e]]
  /\ expired' = [e \in Events |-> expired[e] /\ e \notin Lapsed]
  /\ MoveTo(w, "polling")
  /\ budget' = [budget EXCEPT ![w] = BatchSize]
  /\ UNCHANGED <<attempts, effectVars, cur, fresh>>

(* claimBatch(workerId, 1, lease): the row that has been available longest *)
ClaimBatch(w) ==
  /\ pc[w] = "polling" /\ budget[w] > 0 /\ ready # <<>>
  /\ LET e == Head(ready) IN
       /\ status[e] \in Waiting
       /\ status' = [status EXCEPT ![e] = "processing"]
       /\ attempts' = [attempts EXCEPT ![e] = @ + 1]
       /\ holder' = [holder EXCEPT ![e] = w]
       /\ expired' = [expired EXCEPT ![e] = FALSE]
       /\ cur' = [cur EXCEPT ![w] = e]
  /\ ready' = Tail(ready)
  /\ budget' = [budget EXCEPT ![w] = @ - 1]
  /\ MoveTo(w, "claimed")
  /\ UNCHANGED <<effectVars, fresh>>

EndBatch(w) ==
  /\ pc[w] = "polling"
  /\ budget[w] = 0 \/ ready = <<>>
  /\ MoveTo(w, "idle")
  /\ UNCHANGED <<rowVars, effectVars, cur, fresh, budget>>

(* BEGIN: every later now() of this transaction is this moment. *)
BeginTransaction(w) ==
  /\ pc[w] = "claimed"
  /\ fresh' = [fresh EXCEPT ![w] = ~expired[cur[w]]]
  /\ MoveTo(w, "tx")
  /\ UNCHANGED <<rowVars, effectVars, cur, budget>>

(* beginEffect: SELECT ... FOR UPDATE of a row this worker still leases;   *)
(* when there is none it throws, and only Fail is left to the worker.      *)
BeginEffect(w) ==
  /\ pc[w] = "tx"
  /\ OwnsRow(w, cur[w])
  /\ fresh[w]
  /\ MoveTo(w, "effects")
  /\ UNCHANGED <<rowVars, effectVars, cur, fresh, budget>>

(* The effects that still have no receipt, all of them, then markProcessed *)
(* and COMMIT.  The acknowledgement of COMMIT may be lost: the worker then *)
(* takes the error path for an event that was processed.                   *)
Unreceipted_SkipsCascade(e) == (EffectsOf(e) \ receipts[e]) \ {"l1_cascade"}
Unreceipted(e) == EffectsOf(e) \ receipts[e]

CommitEffects(w) ==
  /\ pc[w] = "effects"
  /\ OwnsRow(w, cur[w])
  /\ LET e == cur[w] IN
       /\ applied' = [applied EXCEPT ![e] =
                        [f \in Effects |-> IF f \in Unreceipted(e) THEN @[f] + 1 ELSE @[f]]]
       /\ receipts' = [receipts EXCEPT ![e] = @ \cup Unreceipted(e)]
       /\ status' = [status EXCEPT ![e] = "processed"]
       /\ holder' = [holder EXCEPT ![e] = NoWorker]
       /\ expired' = [expired EXCEPT ![e] = FALSE]
  /\ \E next \in {"polling", "failed"} :
       /\ MoveTo(w, next)
       /\ cur' = [cur EXCEPT ![w] = IF next = "failed" THEN @ ELSE NoEvent]
  /\ UNCHANGED <<attempts, ready, fresh, budget>>

(* Any throw: an unknown event type or payload, a progress row that is     *)
(* gone, a lost lease, a failing effect or COMMIT.  ROLLBACK, then catch.  *)
Fail(w) ==
  /\ pc[w] \in {"claimed", "tx", "effects"}
  /\ MoveTo(w, "failed")
  /\ UNCHANGED <<rowVars, effectVars, cur, fresh, budget>>

(* markFailed releases the row; its own acknowledgement may be lost, which *)
(* ends the batch with the exception the runner catches.                   *)
MarkFailed(w) ==
  /\ pc[w] = "failed"
  /\ OwnsRow(w, cur[w])
  /\ status' = [status EXCEPT ![cur[w]] = AfterAttempt(cur[w])]
  /\ holder' = [holder EXCEPT ![cur[w]] = NoWorker]
  /\ expired' = [expired EXCEPT ![cur[w]] = FALSE]
  /\ \E next \in {"polling", "idle"} : MoveTo(w, next)
  /\ cur' = [cur EXCEPT ![w] = NoEvent]
  /\ UNCHANGED <<attempts, ready, effectVars, fresh, budget>>

(* markFailed changes nothing: the row is not this worker's any more, or   *)
(* the statement itself fails.  The runner catches and polls again.        *)
MarkFailedThrows(w) ==
  /\ pc[w] = "failed"
  /\ MoveTo(w, "idle")
  /\ cur' = [cur EXCEPT ![w] = NoEvent]
  /\ UNCHANGED <<rowVars, effectVars, fresh, budget>>

(* The process dies, or stops between two claims on SIGTERM; its open      *)
(* transaction is rolled back.  The service manager starts it again.       *)
Crash(w) ==
  /\ pc[w] # "down"
  /\ MoveTo(w, "down")
  /\ cur' = [cur EXCEPT ![w] = NoEvent]
  /\ UNCHANGED <<rowVars, effectVars, fresh, budget>>

Restart(w) ==
  /\ pc[w] = "down"
  /\ MoveTo(w, "idle")
  /\ UNCHANGED <<rowVars, effectVars, cur, fresh, budget>>

(* review-outbox-admin replay: a fresh set of attempts, old receipts kept. *)
ReplayDeadLetter(e) ==
  /\ status[e] = "dead_letter"
  /\ status' = [status EXCEPT ![e] = "pending"]
  /\ attempts' = [attempts EXCEPT ![e] = 0]
  /\ ready' = Append(ready, e)
  /\ UNCHANGED <<holder, expired, effectVars, workerVars>>

(* Retention deletes processed rows; their receipts go with them. *)
PurgeProcessed(e) ==
  /\ status[e] = "processed"
  /\ status' = [status EXCEPT ![e] = "purged"]
  /\ receipts' = [receipts EXCEPT ![e] = {}]
  /\ UNCHANGED <<attempts, holder, expired, ready, applied, workerVars>>

-----------------------------------------------------------------------------

WorkerStep(w) ==
  \/ EndBatch(w) \/ BeginTransaction(w) \/ BeginEffect(w)
  \/ CommitEffects(w) \/ Fail(w) \/ MarkFailed(w) \/ MarkFailedThrows(w)

RowStep(e) ==
  \/ Enqueue(e) \/ LeaseExpires(e) \/ BecomesAvailable(e)
  \/ ReplayDeadLetter(e) \/ PurgeProcessed(e)

Next ==
  \/ \E e \in Events : RowStep(e)
  \/ \E w \in Workers :
       RecoverExpiredLeases(w) \/ ClaimBatch(w) \/ WorkerStep(w) \/ Crash(w) \/ Restart(w)

Spec == Init /\ [][Next]_vars

(***************************************************************************)
(* Time passes, a started worker keeps running its loop, and a dead one is *)
(* restarted.  Crashes are not bounded: strong fairness says only that     *)
(* the workers are not killed for ever before their first claim.           *)
(***************************************************************************)
Fairness ==
  /\ \A e \in Events : WF_vars(LeaseExpires(e)) /\ WF_vars(BecomesAvailable(e))
  /\ \A w \in Workers :
       /\ WF_vars(Restart(w)) /\ WF_vars(WorkerStep(w))
       /\ SF_vars(RecoverExpiredLeases(w)) /\ SF_vars(ClaimBatch(w))

FairSpec == Spec /\ Fairness

-----------------------------------------------------------------------------

TypeOK ==
  /\ status \in [Events -> Statuses]
  /\ attempts \in [Events -> Nat]
  /\ holder \in [Events -> Workers \cup {NoWorker}]
  /\ expired \in [Events -> BOOLEAN]
  /\ ready \in Seq(Events)
  /\ receipts \in [Events -> SUBSET Effects]
  /\ applied \in [Events -> [Effects -> Nat]]
  /\ pc \in [Workers -> PCs]
  /\ cur \in [Workers -> Events \cup {NoEvent}]
  /\ fresh \in [Workers -> BOOLEAN]
  /\ budget \in [Workers -> Nat]

(* An effect of an answer (promotion to L2, cascade, cards_seen) is        *)
(* committed at most once, whatever crashes, lost acknowledgements, lapsed *)
(* leases, replays and purges happen; and an event is marked processed     *)
(* exactly when all its effects are in.                                    *)
AppliedOnce ==
  \A e \in Events : \A f \in Effects :
    applied[e][f] = IF status[e] \in {"processed", "purged"} /\ f \in EffectsOf(e) THEN 1 ELSE 0

(* Every value has its type, and whatever lapses, crashes or is replayed,  *)
(* the effects of an answer are committed once, with its event (worker).   *)
EffectsExactlyOnce == TypeOK /\ AppliedOnce

(* The worker that is about to commit effects still holds the row, however *)
(* long ago its lease ran out: nobody can recover the row from under it.   *)
RowHeldWhileApplying ==
  \A w \in Workers : pc[w] = "effects" => OwnsRow(w, cur[w])

(* Claiming never trips CHECK (attempts <= max_attempts), and an event is  *)
(* dead-lettered only after its whole allowance of attempts.               *)
AttemptsWithinAllowance ==
  \A e \in Events :
    /\ attempts[e] <= MaxAttempts
    /\ status[e] \in Waiting => attempts[e] < MaxAttempts
    /\ status[e] = "dead_letter" => attempts[e] = MaxAttempts

(* An attempt is taken away from a running worker only after its lease ran *)
(* out: while the lease runs, only the worker that holds the row ends the  *)
(* attempt, after it failed or when it commits.                            *)
LeaseProtectsAttempt ==
  [][\A e \in Events :
       (status[e] = "processing" /\ status'[e] # "processing") =>
         \/ expired[e]
         \/ /\ pc[holder[e]] \in {"failed", "effects"} /\ cur[holder[e]] = e
            /\ pc'[holder[e]] # pc[holder[e]]]_vars

(* Every recorded answer is eventually processed or dead-lettered, even if *)
(* its processing kills the worker every time.                             *)
EventuallySettled ==
  \A e \in Events :
    status[e] = "pending" ~> status[e] \in {"processed", "dead_letter", "purged"}

(* The outbox implements the ledger it promises. *)
ImplementsLedger == Ledger!LedgerSpec
=============================================================================
