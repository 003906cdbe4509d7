---------------------------- MODULE WorkersProofs ----------------------------
(***************************************************************************)
(* Theorems about the two models that MCWorkers runs, each of its own      *)
(* specification: the review outbox (EXTENDed), for any finite set of      *)
(* events, any set of workers, any allowance of attempts and any batch     *)
(* size; and the token budget (Llm), for any number of calls, any budget   *)
(* and any usages: a row tells how its call ended.                         *)
(***************************************************************************)
EXTENDS MCWorkers, FiniteSetsExt, FiniteSetTheorems, SequenceTheorems, WellFoundedInduction, TLAPS

(* A worker that is processing has an event in hand. *)
Busy == {"claimed", "tx", "effects", "failed"}
HandsFull == \A w \in Workers : pc[w] \in Busy => cur[w] \in Events

(* The queue lists waiting rows, each once. *)
ReadyIsWaiting ==
  /\ \A i \in 1..Len(ready) : status[ready[i]] \in Waiting
  /\ \A i, j \in 1..Len(ready) : ready[i] = ready[j] => i = j

(* A receipt exists only next to the processed status it committed with.   *)
(* This is what carries exactly-once: no event that is still to be         *)
(* processed has a receipt, so no replay or retry can skip an effect.      *)
ReceiptsWithStatus ==
  \A e \in Events :
    receipts[e] = IF status[e] = "processed" THEN EffectsOf(e) ELSE {}

Core == TypeOK /\ HandsFull /\ ReadyIsWaiting

Inv ==
  /\ Core
  /\ RowHeldWhileApplying
  /\ AttemptsWithinAllowance
  /\ ReceiptsWithStatus
  /\ AppliedOnce

USE DEF Waiting, Statuses, PCs, MoveTo

LEMMA OrderingIsSeq ==
  ASSUME NEW S, S \subseteq Events, NEW s \in Orderings(S)
  PROVE  /\ s \in Seq(S)
         /\ \A i \in 1..Len(s) : s[i] \in S
         /\ \A i, j \in 1..Len(s) : s[i] = s[j] => i = j
  <1>1. IsFiniteSet(S)
    BY FS_Subset, OutboxAssumption
  <1>2. Cardinality(S) \in Nat
    BY <1>1, FS_CardinalityType
  <1>3. s \in [1..Cardinality(S) -> S]
    BY DEF Orderings
  <1>4. s \in Seq(S)
    BY <1>2, <1>3, SeqDef
  <1> QED
    BY <1>2, <1>3, <1>4, LenProperties DEF Orderings

-----------------------------------------------------------------------------
(* Type correctness: every state of the outbox is a row the table's CHECKs *)
(* admit and a worker the loop of review-outbox.worker.ts can be in.       *)

LEMMA CoreInit == Init => Core
  BY OutboxAssumption DEF Init, Core, TypeOK, HandsFull, ReadyIsWaiting, Busy

LEMMA CoreAppend ==
  ASSUME Core, NEW e \in Events,
         ready' = Append(ready, e),
         \A i \in 1..Len(ready) : ready[i] # e,
         status'[e] \in Waiting,
         \A d \in Events \ {e} : status'[d] = status[d]
  PROVE  ready' \in Seq(Events) /\ ReadyIsWaiting'
  <1>1. ready \in Seq(Events)
    BY DEF Core, TypeOK
  <1>2. /\ ready' \in Seq(Events)
        /\ Len(ready') = Len(ready) + 1
        /\ Len(ready) \in Nat
        /\ \A i \in 1..Len(ready) : ready'[i] = ready[i] /\ ready[i] \in Events
        /\ ready'[Len(ready) + 1] = e
    BY <1>1, AppendProperties, LenProperties, ElementOfSeq
  <1>3. ASSUME NEW i \in 1..Len(ready')
        PROVE  status'[ready'[i]] \in Waiting
    BY <1>2 DEF Core, ReadyIsWaiting
  <1>4. ASSUME NEW i \in 1..Len(ready'), NEW j \in 1..Len(ready'), ready'[i] = ready'[j]
        PROVE  i = j
    BY <1>2, <1>4 DEF Core, ReadyIsWaiting
  <1> QED
    BY <1>2, <1>3, <1>4 DEF ReadyIsWaiting

LEMMA CoreKeepsReady ==
  ASSUME Core, ready' = ready,
         \A e \in Events : status[e] \in Waiting => status'[e] \in Waiting
  PROVE  ReadyIsWaiting'
  <1>1. \A i \in 1..Len(ready) : ready[i] \in Events
    BY ElementOfSeq DEF Core, TypeOK
  <1> QED
    BY <1>1 DEF Core, ReadyIsWaiting

LEMMA CoreRow ==
  ASSUME Core, NEW e \in Events, RowStep(e)
  PROVE  Core'
  <1> USE DEF RowStep, effectVars, workerVars
  <1>1. CASE Enqueue(e) \/ ReplayDeadLetter(e)
    <2>1. /\ ready' = Append(ready, e) /\ status'[e] = "pending"
          /\ \A i \in 1..Len(ready) : ready[i] # e
          /\ \A d \in Events \ {e} : status'[d] = status[d]
      BY <1>1 DEF Enqueue, DedupeKeyFree, ReplayDeadLetter, Core, TypeOK, ReadyIsWaiting
    <2>2. ready' \in Seq(Events) /\ ReadyIsWaiting'
      BY <2>1, CoreAppend
    <2>3. TypeOK'
      <3>1. status' \in [Events -> Statuses] /\ attempts' \in [Events -> Nat]
        <4>1. /\ status' = [status EXCEPT ![e] = "pending"]
              /\ attempts' = [attempts EXCEPT ![e] = 0]
          BY <1>1 DEF Enqueue, ReplayDeadLetter
        <4> QED
          BY <4>1 DEF Core, TypeOK
      <3>2. UNCHANGED <<holder, expired, effectVars, workerVars>>
        BY <1>1 DEF Enqueue, ReplayDeadLetter
      <3> QED
        BY <2>2, <3>1, <3>2 DEF Core, TypeOK
    <2>4. HandsFull'
      BY <1>1 DEF Enqueue, ReplayDeadLetter, Core, HandsFull
    <2> QED
      BY <2>2, <2>3, <2>4 DEF Core
  <1>2. CASE BecomesAvailable(e)
    <2>1. DOMAIN ready = 1..Len(ready)
      BY LenProperties DEF Core, TypeOK
    <2>2. ready' \in Seq(Events) /\ ReadyIsWaiting'
      BY <1>2, <2>1, CoreAppend DEF BecomesAvailable
    <2> QED
      BY <1>2, <2>2 DEF BecomesAvailable, Core, TypeOK, HandsFull
  <1>3. CASE LeaseExpires(e)
    <2>1. ReadyIsWaiting'
      BY <1>3, CoreKeepsReady DEF LeaseExpires
    <2> QED
      BY <1>3, <2>1 DEF LeaseExpires, Core, TypeOK, HandsFull
  <1>4. CASE PurgeProcessed(e)
    <2>1. ReadyIsWaiting'
      BY <1>4, CoreKeepsReady DEF PurgeProcessed, Core, TypeOK
    <2> QED
      BY <1>4, <2>1 DEF PurgeProcessed, Core, TypeOK, HandsFull
  <1> QED
    BY <1>1, <1>2, <1>3, <1>4

LEMMA CoreRecover ==
  ASSUME Core, NEW w \in Workers, RecoverExpiredLeases(w)
  PROVE  Core'
  <1> DEFINE S == {e \in Lapsed : AfterAttempt(e) = "retry"}
  <1>1. PICK s \in Orderings(S) : ready' = ready \o s
    BY DEF RecoverExpiredLeases
  <1>2. S \subseteq Events /\ \A e \in S : status[e] = "processing" /\ status'[e] = "retry"
    BY DEF RecoverExpiredLeases, Lapsed, Core, TypeOK
  <1>3. s \in Seq(S) /\ (\A i \in 1..Len(s) : s[i] \in S)
        /\ (\A i, j \in 1..Len(s) : s[i] = s[j] => i = j)
    BY <1>2, OrderingIsSeq
  <1>4. s \in Seq(Events) /\ ready \in Seq(Events)
    BY <1>2, <1>3, SeqMonotonic DEF Core, TypeOK
  <1>5. /\ ready' \in Seq(Events)
        /\ Len(ready') = Len(ready) + Len(s)
        /\ \A i \in 1..Len(ready) + Len(s) :
             ready'[i] = IF i <= Len(ready) THEN ready[i] ELSE s[i - Len(ready)]
    BY <1>1, <1>4, ConcatProperties
  <1>6. /\ Len(ready) \in Nat /\ Len(s) \in Nat
        /\ \A i \in 1..Len(ready) : ready[i] \in Events /\ status[ready[i]] \in Waiting
    BY <1>4, LenProperties, ElementOfSeq DEF Core, ReadyIsWaiting
  <1>7. \A e \in Events : status[e] \in Waiting => status'[e] = status[e]
    BY DEF RecoverExpiredLeases, Lapsed, Core, TypeOK
  <1> HIDE DEF S
  <1>8. ReadyIsWaiting'
    <2>1. \A i \in 1..Len(ready') : status'[ready'[i]] \in Waiting
      BY <1>2, <1>3, <1>5, <1>6, <1>7
    <2>2. ASSUME NEW i \in 1..Len(ready'), NEW j \in 1..Len(ready'), ready'[i] = ready'[j]
          PROVE  i = j
      <3> DEFINE n == Len(ready)
      <3>1. ASSUME NEW k \in 1..Len(ready'), k \notin 1..n
            PROVE  k - n \in 1..Len(s) /\ ready'[k] = s[k - n] /\ status[ready'[k]] \notin Waiting
        <4>1. k - n \in 1..Len(s) /\ ready'[k] = s[k - n]
          BY <3>1, <1>5, <1>6
        <4> QED
          BY <4>1, <1>2, <1>3
      <3>2. \A k \in 1..n : ready'[k] = ready[k] /\ status[ready'[k]] \in Waiting
        BY <1>5, <1>6
      <3>3. CASE i \in 1..n /\ j \in 1..n
        BY <2>2, <3>2, <3>3 DEF Core, ReadyIsWaiting
      <3>4. CASE i \notin 1..n /\ j \notin 1..n
        <4>1. i - n = j - n
          BY <2>2, <3>1, <3>4, <1>3
        <4> QED
          BY <4>1, <1>5, <1>6
      <3>5. CASE ~(i \in 1..n <=> j \in 1..n)
        BY <2>2, <3>1, <3>2, <3>5
      <3> QED
        BY <3>3, <3>4, <3>5
    <2> QED
      BY <2>1, <2>2 DEF ReadyIsWaiting
  <1>9. TypeOK' /\ HandsFull'
    BY <1>5, OutboxAssumption DEF RecoverExpiredLeases, AfterAttempt, effectVars, Core, TypeOK, HandsFull, Busy
  <1> QED
    BY <1>8, <1>9 DEF Core

LEMMA CoreClaim ==
  ASSUME Core, NEW w \in Workers, ClaimBatch(w)
  PROVE  Core'
  <1> DEFINE e == Head(ready)
  <1>1. ready \in Seq(Events) /\ ready # <<>>
    BY DEF ClaimBatch, Core, TypeOK
  <1>2. /\ e \in Events /\ ready' \in Seq(Events) /\ e = ready[1]
        /\ Len(ready) \in Nat \ {0} /\ Len(ready') = Len(ready) - 1
        /\ \A i \in 1..Len(ready') : ready'[i] = ready[i + 1]
        /\ \A i \in 1..Len(ready) : ready[i] \in Events
    BY <1>1, HeadTailProperties, EmptySeq, ElementOfSeq DEF ClaimBatch
  <1> HIDE DEF e
  <1>3. /\ status' = [status EXCEPT ![e] = "processing"]
        /\ attempts' = [attempts EXCEPT ![e] = @ + 1]
        /\ cur' = [cur EXCEPT ![w] = e]
    BY DEF ClaimBatch, e
  <1>4. ReadyIsWaiting'
    <2>1. ASSUME NEW i \in 1..Len(ready')
          PROVE  /\ i + 1 \in 1..Len(ready) /\ 1 \in 1..Len(ready) /\ i + 1 # 1
                 /\ ready'[i] = ready[i + 1]
      BY <1>2
    <2>2. ASSUME NEW i \in 1..Len(ready')
          PROVE  status'[ready'[i]] \in Waiting
      <3>1. ready[i + 1] # e /\ status[ready[i + 1]] \in Waiting
        BY <1>2, <2>1 DEF Core, ReadyIsWaiting
      <3> QED
        BY <1>2, <1>3, <2>1, <3>1 DEF Core, TypeOK
    <2>3. ASSUME NEW i \in 1..Len(ready'), NEW j \in 1..Len(ready'), ready'[i] = ready'[j]
          PROVE  i = j
      <3>1. i + 1 = j + 1
        BY <2>1, <2>3 DEF Core, ReadyIsWaiting
      <3> QED
        BY <1>2, <3>1
    <2> QED
      BY <2>2, <2>3 DEF ReadyIsWaiting
  <1>5. TypeOK'
    BY <1>2, <1>3 DEF ClaimBatch, e, effectVars, Core, TypeOK
  <1>6. HandsFull'
    BY <1>2, <1>3 DEF ClaimBatch, Core, TypeOK, HandsFull
  <1> QED
    BY <1>4, <1>5, <1>6 DEF Core

LEMMA CoreWorker ==
  ASSUME Core, NEW w \in Workers, WorkerStep(w) \/ Crash(w) \/ Restart(w)
  PROVE  Core'
  <1> USE DEF Core, TypeOK, HandsFull, Busy
  <1>1. ready' = ready /\ \A e \in Events : status[e] \in Waiting => status'[e] \in Waiting
    BY DEF WorkerStep, EndBatch, BeginTransaction, BeginEffect, CommitEffects, Fail,
           MarkFailed, MarkFailedThrows, Crash, Restart, OwnsRow, rowVars
  <1>2. ReadyIsWaiting'
    BY <1>1, CoreKeepsReady
  <1>3. CASE EndBatch(w) \/ BeginTransaction(w) \/ BeginEffect(w) \/ Fail(w) \/ MarkFailedThrows(w)
             \/ Crash(w) \/ Restart(w)
    BY ZenonT(60), <1>2, <1>3 DEF EndBatch, BeginTransaction, BeginEffect, Fail, MarkFailedThrows, Crash,
                      Restart, rowVars, effectVars
  <1>4. CASE CommitEffects(w)
    <2>1. Unreceipted(cur[w]) \subseteq Effects
      BY DEF Unreceipted, EffectsOf, Effects, Ledger!EffectsOf, Ledger!Effects
    <2>2. cur[w] \in Events
      BY <1>4 DEF CommitEffects
    <2>3. receipts' \in [Events -> SUBSET Effects]
      BY <1>4, <2>1, <2>2 DEF CommitEffects
    <2>4. applied' \in [Events -> [Effects -> Nat]]
      <3>1. [f \in Effects |-> IF f \in Unreceipted(cur[w]) THEN applied[cur[w]][f] + 1
                                                            ELSE applied[cur[w]][f]]
              \in [Effects -> Nat]
        BY <2>2
      <3> QED
        BY <1>4, <2>2, <3>1 DEF CommitEffects
    <2> QED
      BY <1>2, <1>4, <2>3, <2>4 DEF CommitEffects
  <1>5. CASE MarkFailed(w)
    BY <1>2, <1>5 DEF MarkFailed, AfterAttempt, effectVars
  <1> QED
    BY <1>3, <1>4, <1>5 DEF WorkerStep

LEMMA CoreNext == Core /\ [Next]_vars => Core'
  <1> SUFFICES ASSUME Core, [Next]_vars PROVE Core'
    OBVIOUS
  <1>1. CASE UNCHANGED vars
    BY <1>1 DEF Core, TypeOK, HandsFull, ReadyIsWaiting, vars, rowVars, effectVars, workerVars
  <1> QED
    BY <1>1, CoreRow, CoreRecover, CoreClaim, CoreWorker DEF Next

(* Every reachable row is one the CHECKs of outbox_events admit, and every *)
(* worker is at a point of its loop.                                       *)
THEOREM TypeCorrect == Spec => []TypeOK
  <1>1. Spec => []Core
    BY CoreInit, CoreNext, PTL DEF Spec
  <1>2. Core => TypeOK
    BY DEF Core
  <1> QED
    BY <1>1, <1>2, PTL

-----------------------------------------------------------------------------
(***************************************************************************)
(* Exactly-once.  The invariant is Inv: TypeOK alone says nothing of which *)
(* worker may write, so RowHeldWhileApplying is needed for CommitEffects,  *)
(* and ReceiptsWithStatus for what CommitEffects adds to applied.          *)
(***************************************************************************)

LEMMA InvInit == Init => Inv
  <1>1. Init => Core
    BY CoreInit
  <1>2. Init => RowHeldWhileApplying /\ AttemptsWithinAllowance /\ ReceiptsWithStatus /\ AppliedOnce
    BY OutboxAssumption
    DEF Init, RowHeldWhileApplying, AttemptsWithinAllowance, ReceiptsWithStatus, AppliedOnce
  <1> QED
    BY <1>1, <1>2 DEF Inv

(* No step other than a commit takes the row of an applying worker: the    *)
(* recovery statement waits for the lock, every other statement names a    *)
(* status or a holder that this row does not have.                         *)
LEMMA HeldNext == Inv /\ [Next]_vars => RowHeldWhileApplying'
  <1> SUFFICES ASSUME Inv, [Next]_vars, NEW v \in Workers, pc'[v] = "effects"
               PROVE  OwnsRow(v, cur[v])'
    BY DEF RowHeldWhileApplying
  <1> USE DEF Inv, Core, TypeOK, OwnsRow, rowVars, effectVars, workerVars
  <1>1. CASE UNCHANGED vars
    BY <1>1 DEF vars, RowHeldWhileApplying
  <1>2. ASSUME NEW e \in Events, RowStep(e)
        PROVE  OwnsRow(v, cur[v])'
    <2>1. status[cur[v]] = "processing" /\ holder[cur[v]] = v /\ cur[v] \in Events
      BY <1>2 DEF RowStep, Enqueue, LeaseExpires, BecomesAvailable, ReplayDeadLetter,
                  PurgeProcessed, RowHeldWhileApplying, HandsFull, Busy
    <2> QED
      BY <1>2, <2>1 DEF RowStep, Enqueue, DedupeKeyFree, LeaseExpires, BecomesAvailable,
                        ReplayDeadLetter, PurgeProcessed
  <1>3. ASSUME NEW w \in Workers, RecoverExpiredLeases(w)
        PROVE  OwnsRow(v, cur[v])'
    <2>1. pc[v] = "effects" /\ cur'[v] = cur[v]
      BY <1>3 DEF RecoverExpiredLeases
    <2>2. status[cur[v]] = "processing" /\ holder[cur[v]] = v /\ cur[v] \in Events
      BY <2>1 DEF RowHeldWhileApplying, HandsFull, Busy
    <2>3. cur[v] \notin Lapsed
      BY <1>3, <2>1 DEF RecoverExpiredLeases, RecoveryMayRun, RowLocked
    <2> QED
      BY <1>3, <2>1, <2>2, <2>3 DEF RecoverExpiredLeases
  <1>4. ASSUME NEW w \in Workers, ClaimBatch(w)
        PROVE  OwnsRow(v, cur[v])'
    <2>1. v # w /\ pc[v] = "effects" /\ cur'[v] = cur[v]
      BY <1>4 DEF ClaimBatch
    <2>2. status[cur[v]] = "processing" /\ holder[cur[v]] = v /\ cur[v] \in Events
      BY <2>1 DEF RowHeldWhileApplying, HandsFull, Busy
    <2>3. cur[v] # Head(ready)
      BY <1>4, <2>2 DEF ClaimBatch
    <2> QED
      BY <1>4, <2>1, <2>2, <2>3 DEF ClaimBatch
  <1>5. ASSUME NEW w \in Workers, WorkerStep(w) \/ Crash(w) \/ Restart(w)
        PROVE  OwnsRow(v, cur[v])'
    <2>1. CASE BeginEffect(w)
      BY <2>1 DEF BeginEffect, RowHeldWhileApplying
    <2>2. CASE CommitEffects(w)
      <3>1. v # w /\ pc[v] = "effects" /\ cur'[v] = cur[v] /\ pc[w] = "effects"
        BY <2>2 DEF CommitEffects
      <3>2. cur[v] # cur[w] /\ cur[v] \in Events /\ status[cur[v]] = "processing" /\ holder[cur[v]] = v
        BY <3>1 DEF RowHeldWhileApplying, HandsFull, Busy
      <3> QED
        BY <2>2, <3>1, <3>2 DEF CommitEffects
    <2>3. CASE MarkFailed(w)
      <3>1. v # w /\ pc[v] = "effects" /\ cur'[v] = cur[v] /\ holder[cur[w]] = w
        BY <2>3 DEF MarkFailed
      <3>2. cur[v] # cur[w] /\ cur[v] \in Events /\ status[cur[v]] = "processing" /\ holder[cur[v]] = v
        BY <3>1 DEF RowHeldWhileApplying, HandsFull, Busy
      <3> QED
        BY <2>3, <3>1, <3>2 DEF MarkFailed
    <2>4. CASE EndBatch(w) \/ BeginTransaction(w) \/ Fail(w) \/ MarkFailedThrows(w) \/ Crash(w) \/ Restart(w)
      <3>1. pc[v] = "effects" /\ cur'[v] = cur[v] /\ status' = status /\ holder' = holder
        BY <2>4 DEF EndBatch, BeginTransaction, Fail, MarkFailedThrows, Crash, Restart
      <3> QED
        BY <3>1 DEF RowHeldWhileApplying
    <2> QED
      BY <1>5, <2>1, <2>2, <2>3, <2>4 DEF WorkerStep
  <1> QED
    BY <1>1, <1>2, <1>3, <1>4, <1>5 DEF Next

LEMMA AttemptsNext == Inv /\ [Next]_vars => AttemptsWithinAllowance'
  <1> SUFFICES ASSUME Inv, [Next]_vars, NEW d \in Events
               PROVE  /\ attempts'[d] <= MaxAttempts
                      /\ status'[d] \in Waiting => attempts'[d] < MaxAttempts
                      /\ status'[d] = "dead_letter" => attempts'[d] = MaxAttempts
    BY DEF AttemptsWithinAllowance
  <1> USE OutboxAssumption DEF Inv, Core, TypeOK, AttemptsWithinAllowance, rowVars, effectVars, workerVars
  <1>1. CASE UNCHANGED vars
    BY <1>1 DEF vars
  <1>2. ASSUME NEW e \in Events, RowStep(e)
        PROVE  AttemptsWithinAllowance'
    BY <1>2 DEF RowStep, Enqueue, DedupeKeyFree, LeaseExpires, BecomesAvailable,
                ReplayDeadLetter, PurgeProcessed
  <1>3. ASSUME NEW w \in Workers, RecoverExpiredLeases(w)
        PROVE  AttemptsWithinAllowance'
    BY <1>3 DEF RecoverExpiredLeases, AfterAttempt
  <1>4. ASSUME NEW w \in Workers, ClaimBatch(w)
        PROVE  AttemptsWithinAllowance'
    <2>1. /\ Head(ready) \in Events /\ status[Head(ready)] \in Waiting
          /\ status' = [status EXCEPT ![Head(ready)] = "processing"]
          /\ attempts' = [attempts EXCEPT ![Head(ready)] = @ + 1]
      BY <1>4, HeadTailProperties DEF ClaimBatch
    <2> QED
      BY <2>1
  <1>5. ASSUME NEW w \in Workers, WorkerStep(w) \/ Crash(w) \/ Restart(w)
        PROVE  AttemptsWithinAllowance'
    <2>1. attempts' = attempts
      BY <1>5 DEF WorkerStep, EndBatch, BeginTransaction, BeginEffect, CommitEffects, Fail,
                  MarkFailed, MarkFailedThrows, Crash, Restart
    <2>2. \A e \in Events : status'[e] \in {status[e], "processed", AfterAttempt(e)}
      BY <1>5 DEF WorkerStep, EndBatch, BeginTransaction, BeginEffect, CommitEffects, Fail,
                  MarkFailed, MarkFailedThrows, Crash, Restart
    <2> SUFFICES ASSUME NEW e \in Events
                 PROVE  /\ attempts'[e] <= MaxAttempts
                        /\ status'[e] \in Waiting => attempts'[e] < MaxAttempts
                        /\ status'[e] = "dead_letter" => attempts'[e] = MaxAttempts
      OBVIOUS
    <2>3. /\ attempts[e] \in Nat /\ attempts[e] <= MaxAttempts /\ MaxAttempts \in Nat
          /\ status[e] \in Waiting => attempts[e] < MaxAttempts
          /\ status[e] = "dead_letter" => attempts[e] = MaxAttempts
      OBVIOUS
    <2>4. CASE status'[e] = status[e]
      BY <2>1, <2>3, <2>4
    <2>5. CASE status'[e] = "processed"
      BY <2>1, <2>3, <2>5
    <2>6. CASE status'[e] = AfterAttempt(e)
      BY <2>1, <2>3, <2>6 DEF AfterAttempt
    <2> QED
      BY <2>2, <2>4, <2>5, <2>6
  <1> QED
    BY <1>1, <1>2, <1>3, <1>4, <1>5 DEF Next

LEMMA OnceNext == Inv /\ [Next]_vars => ReceiptsWithStatus' /\ AppliedOnce'
  <1> SUFFICES ASSUME Inv, [Next]_vars
               PROVE  ReceiptsWithStatus' /\ AppliedOnce'
    OBVIOUS
  <1> DEFINE Done == {"processed", "purged"}
  <1> USE DEF Inv, Core, TypeOK, rowVars, effectVars, workerVars
  <1>1. ASSUME receipts' = receipts, applied' = applied,
               \A e \in Events : (status'[e] = "processed" <=> status[e] = "processed")
                                 /\ (status'[e] = "purged" <=> status[e] = "purged")
        PROVE  ReceiptsWithStatus' /\ AppliedOnce'
    BY <1>1 DEF ReceiptsWithStatus, AppliedOnce
  <1>2. CASE UNCHANGED vars
    BY <1>1, <1>2 DEF vars
  <1>3. ASSUME NEW e \in Events, RowStep(e)
        PROVE  ReceiptsWithStatus' /\ AppliedOnce'
    <2>1. CASE PurgeProcessed(e)
      BY <2>1 DEF PurgeProcessed, ReceiptsWithStatus, AppliedOnce
    <2>2. CASE Enqueue(e) \/ LeaseExpires(e) \/ BecomesAvailable(e) \/ ReplayDeadLetter(e)
      BY <1>1, <2>2 DEF Enqueue, DedupeKeyFree, LeaseExpires, BecomesAvailable, ReplayDeadLetter
    <2> QED
      BY <1>3, <2>1, <2>2 DEF RowStep
  <1>4. ASSUME NEW w \in Workers, RecoverExpiredLeases(w)
        PROVE  ReceiptsWithStatus' /\ AppliedOnce'
    BY <1>1, <1>4 DEF RecoverExpiredLeases, AfterAttempt, Lapsed
  <1>5. ASSUME NEW w \in Workers, ClaimBatch(w)
        PROVE  ReceiptsWithStatus' /\ AppliedOnce'
    BY <1>1, <1>5 DEF ClaimBatch
  <1>6. ASSUME NEW w \in Workers, WorkerStep(w) \/ Crash(w) \/ Restart(w)
        PROVE  ReceiptsWithStatus' /\ AppliedOnce'
    <2>1. CASE CommitEffects(w)
      <3> DEFINE e == cur[w]
      <3>1. e \in Events /\ status[e] = "processing"
        BY <2>1 DEF CommitEffects, HandsFull, Busy, OwnsRow
      <3>2. Unreceipted(e) = EffectsOf(e)
        BY <3>1 DEF Unreceipted, ReceiptsWithStatus
      <3>3. /\ receipts' = [receipts EXCEPT ![e] = @ \cup Unreceipted(e)]
            /\ receipts[e] = {}
            /\ status' = [status EXCEPT ![e] = "processed"]
            /\ applied' = [applied EXCEPT ![e] =
                 [f \in Effects |-> IF f \in Unreceipted(e) THEN @[f] + 1 ELSE @[f]]]
        BY <2>1, <3>1 DEF CommitEffects, ReceiptsWithStatus
      <3>4. \A f \in Effects : applied[e][f] = 0
        BY <3>1 DEF AppliedOnce
      <3>5. \A f \in Effects : applied'[e][f] = IF f \in EffectsOf(e) THEN 1 ELSE 0
        BY <3>1, <3>2, <3>3, <3>4
      <3>6. AppliedOnce'
        BY <3>1, <3>3, <3>5 DEF AppliedOnce
      <3>7. ReceiptsWithStatus'
        <4>1. receipts'[e] = EffectsOf(e)
          BY <3>1, <3>2, <3>3
        <4> QED
          BY <3>1, <3>3, <4>1 DEF ReceiptsWithStatus
      <3> QED
        BY <3>6, <3>7
    <2>2. CASE MarkFailed(w)
      BY <1>1, <2>2 DEF MarkFailed, AfterAttempt, OwnsRow
    <2>3. CASE EndBatch(w) \/ BeginTransaction(w) \/ BeginEffect(w) \/ Fail(w)
               \/ MarkFailedThrows(w) \/ Crash(w) \/ Restart(w)
      BY <1>1, <2>3 DEF EndBatch, BeginTransaction, BeginEffect, Fail, MarkFailedThrows, Crash, Restart
    <2> QED
      BY <1>6, <2>1, <2>2, <2>3 DEF WorkerStep
  <1> QED
    BY <1>2, <1>3, <1>4, <1>5, <1>6 DEF Next

LEMMA InvNext == Inv /\ [Next]_vars => Inv'
  BY CoreNext, HeldNext, AttemptsNext, OnceNext DEF Inv

LEMMA Invariance == Spec => []Inv
  BY InvInit, InvNext, PTL DEF Spec

(* The downstream effects of an answer are committed exactly once, with    *)
(* the processed status, for any number of workers, crashes and replays.   *)
THEOREM ExactlyOnce == Spec => []EffectsExactlyOnce
  <1>1. Inv => EffectsExactlyOnce
    BY DEF Inv, Core, EffectsExactlyOnce
  <1> QED
    BY <1>1, Invariance, PTL

(* beginEffect's row lock is enough to keep the row until COMMIT, although *)
(* neither markProcessed nor COMMIT looks at the lease again.              *)
THEOREM RowHeld == Spec => []RowHeldWhileApplying
  <1>1. Inv => RowHeldWhileApplying
    BY DEF Inv
  <1> QED
    BY <1>1, Invariance, PTL

(* The CHECK attempts <= max_attempts of outbox_events never fires, and    *)
(* only an exhausted event is dead-lettered.                               *)
THEOREM AttemptsBounded == Spec => []AttemptsWithinAllowance
  <1>1. Inv => AttemptsWithinAllowance
    BY DEF Inv
  <1> QED
    BY <1>1, Invariance, PTL

(* A running worker's attempt is never taken over inside its lease. *)
THEOREM LeaseRespected == Spec => LeaseProtectsAttempt
  <1> DEFINE Protected ==
        \A e \in Events :
          (status[e] = "processing" /\ status'[e] # "processing") =>
            \/ expired[e]
            \/ /\ pc[holder[e]] \in {"failed", "effects"} /\ cur[holder[e]] = e
               /\ pc'[holder[e]] # pc[holder[e]]
  <1>1. Inv /\ [Next]_vars => [Protected]_vars
    <2> SUFFICES ASSUME Inv, Next, NEW e \in Events,
                        status[e] = "processing", status'[e] # "processing"
                 PROVE  \/ expired[e]
                        \/ /\ pc[holder[e]] \in {"failed", "effects"} /\ cur[holder[e]] = e
                           /\ pc'[holder[e]] # pc[holder[e]]
      OBVIOUS
    <2> USE DEF Inv, Core, TypeOK, rowVars, effectVars, workerVars
    <2>1. ASSUME NEW d \in Events, RowStep(d)
          PROVE  FALSE
      BY <2>1 DEF RowStep, Enqueue, DedupeKeyFree, LeaseExpires, BecomesAvailable,
                  ReplayDeadLetter, PurgeProcessed
    <2>2. ASSUME NEW w \in Workers, RecoverExpiredLeases(w)
          PROVE  expired[e]
      BY <2>2 DEF RecoverExpiredLeases, Lapsed
    <2>3. ASSUME NEW w \in Workers, ClaimBatch(w)
          PROVE  FALSE
      BY <2>3 DEF ClaimBatch
    <2>4. ASSUME NEW w \in Workers, WorkerStep(w) \/ Crash(w) \/ Restart(w)
          PROVE  /\ pc[holder[e]] \in {"failed", "effects"} /\ cur[holder[e]] = e
                 /\ pc'[holder[e]] # pc[holder[e]]
      <3>1. CommitEffects(w) \/ MarkFailed(w)
        BY <2>4 DEF WorkerStep, EndBatch, BeginTransaction, BeginEffect, Fail,
                    MarkFailedThrows, Crash, Restart
      <3>2. cur[w] = e /\ holder[e] = w
        BY <3>1 DEF CommitEffects, MarkFailed, OwnsRow
      <3> QED
        BY <3>1, <3>2 DEF CommitEffects, MarkFailed
    <2> QED
      BY <2>1, <2>2, <2>3, <2>4 DEF Next
  <1> QED
    BY <1>1, Invariance, PTL DEF Spec, LeaseProtectsAttempt

-----------------------------------------------------------------------------
(***************************************************************************)
(* Refinement: leases, retries, crashes and receipts are invisible from    *)
(* outside; all that is seen is the ledger.                                *)
(***************************************************************************)

LEMMA SameView ==
  ASSUME status' = status, applied' = applied
  PROVE  UNCHANGED Ledger!ledgerVars
  BY DEF LedgerView, Ledger!ledgerVars

LEMMA ViewStep ==
  ASSUME Inv, Next
  PROVE  [Ledger!LedgerNext]_(Ledger!ledgerVars)
  <1> USE DEF Inv, Core, TypeOK, rowVars, effectVars, workerVars, LedgerView
  <1>1. ASSUME NEW e \in Events, RowStep(e)
        PROVE  [Ledger!LedgerNext]_(Ledger!ledgerVars)
    <2>1. CASE Enqueue(e)
      <3>1. Ledger!Record(e)
        BY <2>1 DEF Enqueue, DedupeKeyFree, Ledger!Record
      <3> QED
        BY <3>1 DEF Ledger!LedgerNext
    <2>2. CASE ReplayDeadLetter(e)
      <3>1. Ledger!Replay(e)
        BY <2>2 DEF ReplayDeadLetter, Ledger!Replay
      <3> QED
        BY <3>1 DEF Ledger!LedgerNext
    <2>3. CASE PurgeProcessed(e)
      <3>1. Ledger!Purge(e)
        BY <2>3 DEF PurgeProcessed, Ledger!Purge
      <3> QED
        BY <3>1 DEF Ledger!LedgerNext
    <2>4. CASE LeaseExpires(e) \/ BecomesAvailable(e)
      BY <2>4, SameView DEF LeaseExpires, BecomesAvailable
    <2> QED
      BY <1>1, <2>1, <2>2, <2>3, <2>4 DEF RowStep
  <1>2. ASSUME NEW w \in Workers, RecoverExpiredLeases(w)
        PROVE  [Ledger!LedgerNext]_(Ledger!ledgerVars)
    <2> DEFINE S == {e \in Lapsed : AfterAttempt(e) = "dead_letter"}
    <2>1. S \subseteq Events /\ \A e \in Lapsed : e \in Events /\ status[e] = "processing"
      BY DEF Lapsed
    <2>2. \A e \in S : LedgerView[e] = "queued"
      BY <2>1
    <2>3. LedgerView' = [e \in Events |-> IF e \in S THEN "dead" ELSE LedgerView[e]]
      BY <1>2, <2>1 DEF RecoverExpiredLeases, AfterAttempt
    <2>4. \E T \in SUBSET Events : Ledger!GiveUp(T)
      BY <1>2, <2>1, <2>2, <2>3 DEF RecoverExpiredLeases, Ledger!GiveUp
    <2> QED
      BY <2>4 DEF Ledger!LedgerNext
  <1>3. ASSUME NEW w \in Workers, ClaimBatch(w)
        PROVE  [Ledger!LedgerNext]_(Ledger!ledgerVars)
    <2>1. UNCHANGED Ledger!ledgerVars
      BY <1>3 DEF ClaimBatch, Ledger!ledgerVars
    <2> QED
      BY <2>1
  <1>4. ASSUME NEW w \in Workers, WorkerStep(w) \/ Crash(w) \/ Restart(w)
        PROVE  [Ledger!LedgerNext]_(Ledger!ledgerVars)
    <2>1. CASE CommitEffects(w)
      <3> DEFINE e == cur[w]
      <3>1. e \in Events /\ status[e] = "processing"
        BY <2>1 DEF CommitEffects, HandsFull, Busy, OwnsRow
      <3>2. Unreceipted(e) = Ledger!EffectsOf(e)
        BY <3>1 DEF Unreceipted, EffectsOf, ReceiptsWithStatus
      <3>3. [f \in Effects |-> IF f \in Unreceipted(e) THEN applied[e][f] + 1 ELSE applied[e][f]]
              = [f \in Ledger!Effects |-> IF f \in Ledger!EffectsOf(e) THEN applied[e][f] + 1
                                                                      ELSE applied[e][f]]
        BY <3>2 DEF Effects
      <3>4. /\ applied' = [applied EXCEPT ![e] =
                 [f \in Effects |-> IF f \in Unreceipted(e) THEN @[f] + 1 ELSE @[f]]]
            /\ status' = [status EXCEPT ![e] = "processed"]
        BY <2>1 DEF CommitEffects
      <3>5. applied' = [applied EXCEPT ![e] =
                 [f \in Ledger!Effects |-> IF f \in Ledger!EffectsOf(e) THEN @[f] + 1 ELSE @[f]]]
        BY <3>3, <3>4
      <3>6. \E d \in Events : Ledger!Apply(d)
        <4>1. LedgerView[e] = "queued" /\ LedgerView' = [LedgerView EXCEPT ![e] = "applied"]
          BY <3>1, <3>4
        <4> QED
          BY <3>1, <3>5, <4>1 DEF Ledger!Apply
      <3> QED
        BY <3>6 DEF Ledger!LedgerNext
    <2>2. CASE MarkFailed(w)
      <3>1. cur[w] \in Events /\ status[cur[w]] = "processing"
        BY <2>2 DEF MarkFailed, HandsFull, Busy, OwnsRow
      <3>2. CASE AfterAttempt(cur[w]) = "dead_letter"
        <4>1. LedgerView[cur[w]] = "queued"
              /\ LedgerView' = [e \in Events |-> IF e \in {cur[w]} THEN "dead" ELSE LedgerView[e]]
          BY <2>2, <3>1, <3>2 DEF MarkFailed
        <4>2. UNCHANGED applied /\ {cur[w]} \in SUBSET Events
          BY <2>2, <3>1 DEF MarkFailed
        <4>3. \A e \in {cur[w]} : LedgerView[e] = "queued"
          BY <4>1
        <4> HIDE DEF LedgerView
        <4>4. \E T \in SUBSET Events : Ledger!GiveUp(T)
          BY <4>1, <4>2, <4>3 DEF Ledger!GiveUp
        <4> QED
          BY <4>4 DEF Ledger!LedgerNext
      <3>3. CASE AfterAttempt(cur[w]) = "retry"
        BY <2>2, <3>1, <3>3 DEF MarkFailed, Ledger!ledgerVars
      <3> QED
        BY <3>2, <3>3 DEF AfterAttempt
    <2>3. CASE EndBatch(w) \/ BeginTransaction(w) \/ BeginEffect(w) \/ Fail(w)
               \/ MarkFailedThrows(w) \/ Crash(w) \/ Restart(w)
      BY <2>3, SameView DEF EndBatch, BeginTransaction, BeginEffect, Fail, MarkFailedThrows, Crash, Restart
    <2> QED
      BY <1>4, <2>1, <2>2, <2>3 DEF WorkerStep
  <1> QED
    BY <1>1, <1>2, <1>3, <1>4 DEF Next

(* The lease-and-retry outbox implements the ledger. *)
THEOREM Refinement == Spec => ImplementsLedger
  <1>1. Init => Ledger!LedgerInit
    BY DEF Init, LedgerView, Effects, Ledger!LedgerInit
  <1>2. Inv /\ [Next]_vars => [Ledger!LedgerNext]_(Ledger!ledgerVars)
    <2>1. CASE UNCHANGED vars
      BY <2>1, SameView DEF vars, rowVars, effectVars
    <2> QED
      BY <2>1, ViewStep
  <1> QED
    BY <1>1, <1>2, Invariance, PTL DEF Spec, ImplementsLedger, Ledger!LedgerSpec

-----------------------------------------------------------------------------
(* The token budget                                                         *)

(* How rows and calls are made up.  Nothing is said of the usage a call    *)
(* read, which no row depends on once it is there.                         *)
CallShape ==
  /\ row = [c \in Calls |-> [status |-> row[c].status, tokens |-> row[c].tokens,
                             lapsed |-> row[c].lapsed]]
  /\ call = [c \in Calls |-> [at |-> call[c].at, seen |-> call[c].seen,
                              used |-> call[c].used]]

(* Until its outcome is written, the reservation of a call in flight can   *)
(* only have been taken by the reaper.                                     *)
CallsInFlight ==
  \A c \in Calls : call[c].at \in {"calling", "answered", "failed"} =>
    row[c].status \in {"pending", "expired"}

BudgetInv == CallShape /\ CallsInFlight /\ Llm!OutcomeTold

-----------------------------------------------------------------------------

LEMMA BudgetInvInit == Llm!Init => BudgetInv
  BY DEF Llm!Init, BudgetInv, CallShape, CallsInFlight, Llm!OutcomeTold, Llm!NoRow

(* One call moves on, or its row changes, and the others stay. *)
LEMMA OneCallStep ==
  ASSUME BudgetInv, NEW c \in Calls, CallShape',
         \A d \in Calls \ {c} : call'[d] = call[d] /\ row'[d] = row[d],
         call'[c].at \in {"calling", "answered", "failed"} =>
           row'[c].status \in {"pending", "expired"},
         call'[c].at = "settled" => row'[c].status = "settled" /\ row'[c].tokens = call'[c].used,
         call'[c].at = "released" => row'[c].status \in {"released", "expired"},
         call'[c].at = "lost" => row'[c].status \in {"none", "pending", "expired"},
         call'[c].at \in {"idle", "reserving", "locked", "refused"} => row'[c] = Llm!NoRow
  PROVE  BudgetInv'
  <1>1. CallsInFlight'
    BY DEF BudgetInv, CallsInFlight
  <1>2. Llm!OutcomeTold'
    BY DEF BudgetInv, Llm!OutcomeTold
  <1> QED
    BY <1>1, <1>2 DEF BudgetInv

(* What an action that moves one call does to the two functions. *)
LEMMA OneCall ==
  ASSUME CallShape, NEW c \in Calls, NEW at, Llm!Goes(c, at)
  PROVE  /\ call' = [d \in Calls |-> [at |-> call'[d].at, seen |-> call'[d].seen,
                                     used |-> call'[d].used]]
         /\ call'[c].at = at /\ call'[c].used = call[c].used
         /\ \A d \in Calls \ {c} : call'[d] = call[d]
  BY DEF CallShape, Llm!Goes

LEMMA Released ==
  ASSUME CallShape, NEW c \in Calls, row' = [row EXCEPT ![c].status = "released"]
  PROVE  row' = [d \in Calls |-> [status |-> row'[d].status, tokens |-> row'[d].tokens,
                                 lapsed |-> row'[d].lapsed]]
  BY DEF CallShape

LEMMA SameRow ==
  ASSUME CallShape, UNCHANGED row
  PROVE  row' = [d \in Calls |-> [status |-> row'[d].status, tokens |-> row'[d].tokens,
                                 lapsed |-> row'[d].lapsed]]
  BY DEF CallShape

LEMMA BudgetInvNext == BudgetInv /\ [Llm!Next]_Llm!vars => BudgetInv'
  <1> SUFFICES ASSUME BudgetInv, [Llm!Next]_Llm!vars PROVE BudgetInv'
    OBVIOUS
  <1>0. CallShape
    BY DEF BudgetInv
  <1>1. ASSUME NEW c \in Calls, Llm!Reserve(c) PROVE BudgetInv'
    <2>1. call' = [call EXCEPT ![c] = [at |-> "reserving", seen |-> Llm!Usage, used |-> 0]] /\ UNCHANGED row
      BY <1>1 DEF Llm!Reserve
    <2>2. row[c] = Llm!NoRow
      BY <1>1 DEF Llm!Reserve, BudgetInv, Llm!OutcomeTold
    <2>3. CallShape'
      BY <1>0, <2>1, SameRow DEF CallShape
    <2>4. call'[c].at = "reserving" /\ \A d \in Calls \ {c} : call'[d] = call[d]
      BY <1>0, <2>1 DEF CallShape
    <2> QED
      BY <2>1, <2>2, <2>3, <2>4, OneCallStep
  <1>2. ASSUME NEW c \in Calls, Llm!LockDay(c) PROVE BudgetInv'
    <2>1. Llm!Goes(c, "locked") /\ UNCHANGED row
      BY <1>2 DEF Llm!LockDay
    <2>2. row[c] = Llm!NoRow
      BY <1>2 DEF Llm!LockDay, BudgetInv, Llm!OutcomeTold
    <2>3. CallShape'
      BY <1>0, <2>1, OneCall, SameRow DEF CallShape
    <2>4. call'[c].at = "locked" /\ \A d \in Calls \ {c} : call'[d] = call[d]
      BY <1>0, <2>1, OneCall
    <2> QED
      BY <2>1, <2>2, <2>3, <2>4, OneCallStep
  <1>3. ASSUME NEW c \in Calls, Llm!Admit(c) PROVE BudgetInv'
    <2>0. row[c] = Llm!NoRow
      BY <1>3 DEF Llm!Admit, BudgetInv, Llm!OutcomeTold
    <2>1. CASE Llm!Fits(c)
      <3>1. /\ row' = [row EXCEPT ![c] = [status |-> "pending", tokens |-> Estimate, lapsed |-> FALSE]]
            /\ Llm!Goes(c, "calling")
        BY <1>3, <2>1 DEF Llm!Admit
      <3>2. CallShape'
        BY <1>0, <3>1, OneCall DEF CallShape
      <3>3. call'[c].at = "calling" /\ row'[c].status = "pending"
        BY <1>0, <3>1, OneCall DEF CallShape
      <3>4. \A d \in Calls \ {c} : call'[d] = call[d] /\ row'[d] = row[d]
        BY <1>0, <3>1, OneCall DEF CallShape
      <3> QED
        BY <3>2, <3>3, <3>4, OneCallStep
    <2>2. CASE ~Llm!Fits(c)
      <3>1. Llm!Goes(c, "refused") /\ UNCHANGED row
        BY <1>3, <2>2 DEF Llm!Admit
      <3>2. CallShape'
        BY <1>0, <3>1, OneCall, SameRow DEF CallShape
      <3>3. call'[c].at = "refused" /\ \A d \in Calls \ {c} : call'[d] = call[d]
        BY <1>0, <3>1, OneCall
      <3> QED
        BY <2>0, <3>1, <3>2, <3>3, OneCallStep
    <2> QED
      BY <2>1, <2>2
  <1>4. ASSUME NEW c \in Calls, Llm!Answers(c) PROVE BudgetInv'
    <2>1. PICK used \in Usages :
                 call' = [call EXCEPT ![c] = [at |-> "answered", seen |-> call[c].seen, used |-> used]]
      BY <1>4 DEF Llm!Answers
    <2>2. row[c].status \in {"pending", "expired"} /\ UNCHANGED row
      BY <1>4 DEF Llm!Answers, BudgetInv, CallsInFlight
    <2>3. CallShape'
      BY <1>0, <2>1, <2>2, SameRow DEF CallShape
    <2>4. call'[c].at = "answered" /\ \A d \in Calls \ {c} : call'[d] = call[d]
      BY <1>0, <2>1 DEF CallShape
    <2> QED
      BY <2>2, <2>3, <2>4, OneCallStep
  <1>5. ASSUME NEW c \in Calls, Llm!Fails(c) PROVE BudgetInv'
    <2>1. Llm!Goes(c, "failed") /\ UNCHANGED row
      BY <1>5 DEF Llm!Fails
    <2>2. row[c].status \in {"pending", "expired"}
      BY <1>5 DEF Llm!Fails, BudgetInv, CallsInFlight
    <2>3. CallShape'
      BY <1>0, <2>1, OneCall, SameRow DEF CallShape
    <2>4. call'[c].at = "failed" /\ \A d \in Calls \ {c} : call'[d] = call[d]
      BY <1>0, <2>1, OneCall
    <2> QED
      BY <2>1, <2>2, <2>3, <2>4, OneCallStep
  <1>6. ASSUME NEW c \in Calls, Llm!Settle(c) PROVE BudgetInv'
    <2>0. row[c].status \in {"pending", "expired"}
      BY <1>6 DEF Llm!Settle, BudgetInv, CallsInFlight
    <2>1. /\ row' = [row EXCEPT ![c] = [status |-> "settled", tokens |-> call[c].used, lapsed |-> FALSE]]
          /\ Llm!Goes(c, "settled")
      BY <1>6, <2>0 DEF Llm!Settle, Llm!Settleable, Llm!Settled
    <2>2. CallShape'
      BY <1>0, <2>1, OneCall DEF CallShape
    <2>3. /\ call'[c].at = "settled" /\ call'[c].used = call[c].used
          /\ \A d \in Calls \ {c} : call'[d] = call[d]
      BY <1>0, <2>1, OneCall
    <2>4. /\ row'[c].status = "settled" /\ row'[c].tokens = call[c].used
          /\ \A d \in Calls \ {c} : row'[d] = row[d]
      BY <1>0, <2>1 DEF CallShape
    <2> QED
      BY <2>2, <2>3, <2>4, OneCallStep
  <1>7. ASSUME NEW c \in Calls, Llm!Release(c) PROVE BudgetInv'
    <2>0. row[c].status \in {"pending", "expired"}
      BY <1>7 DEF Llm!Release, BudgetInv, CallsInFlight
    <2>1. /\ row' = IF row[c].status = "pending" THEN [row EXCEPT ![c].status = "released"] ELSE row
          /\ Llm!Goes(c, "released")
      BY <1>7 DEF Llm!Release
    <2>2. CallShape'
      <3>1. CASE row[c].status = "pending"
        BY <1>0, <2>1, <3>1, OneCall, Released DEF CallShape
      <3>2. CASE row[c].status # "pending"
        BY <1>0, <2>1, <3>2, OneCall, SameRow DEF CallShape
      <3> QED
        BY <3>1, <3>2
    <2>3. call'[c].at = "released" /\ \A d \in Calls \ {c} : call'[d] = call[d]
      BY <1>0, <2>1, OneCall
    <2>4. /\ row'[c].status \in {"released", "expired"}
          /\ \A d \in Calls \ {c} : row'[d] = row[d]
      BY <1>0, <2>0, <2>1 DEF CallShape
    <2> QED
      BY <2>2, <2>3, <2>4, OneCallStep
  <1>8. ASSUME NEW c \in Calls, Llm!Loses(c) PROVE BudgetInv'
    <2>1. Llm!Goes(c, "lost") /\ UNCHANGED row
      BY <1>8 DEF Llm!Loses
    <2>2. row[c].status \in {"none", "pending", "expired"}
      BY <1>8 DEF Llm!Loses, BudgetInv, CallsInFlight, Llm!OutcomeTold, Llm!NoRow
    <2>3. CallShape'
      BY <1>0, <2>1, OneCall, SameRow DEF CallShape
    <2>4. call'[c].at = "lost" /\ \A d \in Calls \ {c} : call'[d] = call[d]
      BY <1>0, <2>1, OneCall
    <2> QED
      BY <2>1, <2>2, <2>3, <2>4, OneCallStep
  <1>9. ASSUME NEW c \in Calls, Llm!Renew(c) \/ Llm!Lapses(c) PROVE BudgetInv'
    <2>0. row[c].status = "pending" /\ UNCHANGED call
      BY <1>9 DEF Llm!Renew, Llm!Lapses
    <2>1. PICK lapsed \in BOOLEAN : row' = [row EXCEPT ![c].lapsed = lapsed]
      BY <1>9 DEF Llm!Renew, Llm!Lapses
    <2>2. CallShape'
      BY <1>0, <2>0, <2>1 DEF CallShape
    <2>3. row'[c].status = "pending" /\ \A d \in Calls \ {c} : row'[d] = row[d]
      BY <1>0, <2>0, <2>1 DEF CallShape
    <2>4. call[c].at \notin {"settled", "released", "idle", "reserving", "locked", "refused"}
      BY <2>0 DEF BudgetInv, Llm!OutcomeTold, Llm!NoRow
    <2> QED
      BY <2>0, <2>2, <2>3, <2>4, OneCallStep
  <1>10. ASSUME Llm!ReapRead PROVE BudgetInv'
    BY <1>10 DEF Llm!ReapRead, BudgetInv, CallShape, CallsInFlight, Llm!OutcomeTold
  <1>11. ASSUME Llm!ReapWrite PROVE BudgetInv'
    <2>1. CallShape'
      BY <1>11 DEF Llm!ReapWrite, BudgetInv, CallShape
    <2>2. \A c \in Calls : \/ row'[c] = row[c]
                           \/ row[c].status = "pending" /\ row'[c].status = "expired"
      BY <1>0, <1>11 DEF Llm!ReapWrite, Llm!Reaped, Llm!Overdue, CallShape
    <2>3. CallsInFlight'
      BY <1>11, <2>2 DEF Llm!ReapWrite, BudgetInv, CallsInFlight
    <2>4. Llm!OutcomeTold'
      <3> SUFFICES ASSUME NEW c \in Calls
                   PROVE  /\ call[c].at = "settled" => row'[c].status = "settled"
                                                       /\ row'[c].tokens = call[c].used
                          /\ call[c].at = "released" => row'[c].status \in {"released", "expired"}
                          /\ call[c].at = "lost" => row'[c].status \in {"none", "pending", "expired"}
                          /\ call[c].at \in {"idle", "reserving", "locked", "refused"} =>
                               row'[c] = Llm!NoRow
        BY <1>11 DEF Llm!ReapWrite, Llm!OutcomeTold
      <3>1. CASE row'[c] = row[c]
        BY <3>1 DEF BudgetInv, Llm!OutcomeTold
      <3>2. CASE row[c].status = "pending" /\ row'[c].status = "expired"
        <4>1. call[c].at \notin {"settled", "released", "idle", "reserving", "locked", "refused"}
          BY <3>2 DEF BudgetInv, Llm!OutcomeTold, Llm!NoRow
        <4> QED
          BY <3>2, <4>1
      <3> QED
        BY <2>2, <3>1, <3>2
    <2> QED
      BY <2>1, <2>3, <2>4 DEF BudgetInv
  <1>12. CASE UNCHANGED Llm!vars
    BY <1>12 DEF Llm!vars, BudgetInv, CallShape, CallsInFlight, Llm!OutcomeTold
  <1> QED
    BY <1>1, <1>2, <1>3, <1>4, <1>5, <1>6, <1>7, <1>8, <1>9, <1>10, <1>11, <1>12 DEF Llm!Next, Llm!Ends

-----------------------------------------------------------------------------
(* Sums.  MapThenSumSet is a fold over a set of calls: a recursion, which   *)
(* has a solution because strict subsets of a finite set are well founded.  *)

(* A set of subsets of a finite set has one without smaller ones.           *)
LEMMA SmallestIn ==
  ASSUME NEW S, IsFiniteSet(S), NEW D, D \subseteq SUBSET S, D # {}
  PROVE  \E m \in D : \A t \in D : t \subseteq m => t = m
<1>1. FiniteSubsetsOf(S) = SUBSET S BY FS_FiniteSubsetsOfFinite
<1>2. IsWellFoundedOn(StrictSubsetOrdering(S), SUBSET S) BY <1>1, FS_StrictSubsetOrderingWellFounded
<1>3. PICK m \in D : \A t \in D : ~(<<t, m>> \in StrictSubsetOrdering(S)) BY <1>2, WFMin
<1>4. ASSUME NEW t \in D, t \subseteq m PROVE t = m
  BY <1>3, <1>4 DEF StrictSubsetOrdering
<1> QED BY <1>4

(* What MapThenSumSet takes from a set first, and the sums of the subsets.  *)
Picked(s) == CHOOSE x \in s : TRUE
IsSum(T, g) ==
  g = [s \in SUBSET T |-> IF s = {} THEN 0 ELSE row[Picked(s)].tokens + g[s \ {Picked(s)}]]

LEMMA SumsAt ==
  ASSUME NEW T, NEW g, IsSum(T, g), NEW s \in SUBSET T
  PROVE  g[s] = IF s = {} THEN 0 ELSE row[Picked(s)].tokens + g[s \ {Picked(s)}]
BY DEF IsSum

LEMMA PickedIn == ASSUME NEW s, s # {} PROVE Picked(s) \in s
BY DEF Picked

(* Sums of the subsets of two sets agree on the subsets they share.         *)
LEMMA SumsAgree ==
  ASSUME NEW A, NEW B, NEW g, NEW h, IsFiniteSet(A), IsSum(A, g), IsSum(B, h)
  PROVE  \A s \in (SUBSET A) \cap (SUBSET B) : g[s] = h[s]
<1> DEFINE D == {s \in (SUBSET A) \cap (SUBSET B) : g[s] # h[s]}
<1>1. SUFFICES ASSUME D # {} PROVE FALSE OBVIOUS
<1>2. D \subseteq SUBSET A OBVIOUS
<1>3. PICK m \in D : \A t \in D : t \subseteq m => t = m
  <2> HIDE DEF D
  <2> QED BY <1>1, <1>2, SmallestIn
<1>4. m \in SUBSET A /\ m \in SUBSET B /\ g[m] # h[m] OBVIOUS
<1>5. m # {} BY <1>4, SumsAt
<1>6. PICK t : t = m \ {Picked(m)} OBVIOUS
<1>7. t \subseteq m /\ t # m BY <1>5, <1>6, PickedIn
<1>8. g[t] = h[t] BY <1>3, <1>4, <1>7
<1> HIDE DEF D
<1>9. g[m] = row[Picked(m)].tokens + g[t] /\ h[m] = row[Picked(m)].tokens + h[t]
  BY <1>4, <1>5, <1>6, SumsAt
<1> QED BY <1>4, <1>8, <1>9

(* There are such sums: by the sums of smaller sets.                        *)
LEMMA SumExists == ASSUME NEW S, IsFiniteSet(S) PROVE \E g : IsSum(S, g)
<1> DEFINE D == {T \in SUBSET S : ~\E g : IsSum(T, g)}
           F(T) == CHOOSE g : IsSum(T, g)
<1>1. SUFFICES ASSUME D # {} PROVE FALSE OBVIOUS
<1>2. PICK m \in D : \A t \in D : t \subseteq m => t = m
  <2>1. D \subseteq SUBSET S OBVIOUS
  <2> HIDE DEF D
  <2> QED BY <1>1, <2>1, SmallestIn
<1>3. m \in SUBSET S /\ ~\E g : IsSum(m, g) OBVIOUS
<1>4. ASSUME NEW t, t \subseteq m, t # m PROVE IsSum(t, F(t)) /\ IsFiniteSet(t)
  <2>1. \E g : IsSum(t, g) BY <1>2, <1>3, <1>4
  <2>2. IsFiniteSet(t) BY <1>3, <1>4, FS_Subset
  <2> QED BY <2>1, <2>2
<1> DEFINE G == [s \in SUBSET m |-> IF s = {} THEN 0 ELSE
                   row[Picked(s)].tokens + F(s \ {Picked(s)})[s \ {Picked(s)}]]
<1>5. ASSUME NEW t, t \subseteq m, t # m PROVE G[t] = F(t)[t]
  <2>1. CASE t = {} 
    <3>1. F(t)[t] = 0 BY <1>4, <1>5, <2>1, SumsAt
    <3> QED BY <2>1, <3>1
  <2>2. CASE t # {}
    <3>1. PICK y : y = Picked(t) OBVIOUS
    <3>2. PICK u : u = t \ {y} OBVIOUS
    <3>3. y \in t /\ u \subseteq t /\ u \subseteq m /\ u # m BY <1>5, <2>2, <3>1, <3>2, PickedIn
    <3>4. PICK f, k : f = F(t) /\ k = F(u) OBVIOUS
    <3>5. IsSum(t, f) /\ IsSum(u, k) /\ IsFiniteSet(t)
      <4>1. IsSum(t, F(t)) /\ IsSum(u, F(u)) /\ IsFiniteSet(t) BY <1>4, <1>5, <3>3
      <4> HIDE DEF F
      <4> QED BY <3>4, <4>1
    <3>6. f[t] = row[y].tokens + f[u]
      <4> HIDE DEF F, G
      <4> QED BY <2>2, <3>1, <3>2, <3>5, SumsAt
    <3>7. f[u] = k[u]
      <4> HIDE DEF F, G
      <4> QED BY <3>3, <3>5, SumsAgree
    <3>8. G[t] = row[y].tokens + F(u)[u] BY <1>5, <2>2, <3>1, <3>2
    <3> HIDE DEF F, G
    <3> QED BY <3>4, <3>6, <3>7, <3>8
  <2> QED BY <2>1, <2>2
<1>6. ASSUME NEW s \in SUBSET m
      PROVE  G[s] = IF s = {} THEN 0 ELSE row[Picked(s)].tokens + G[s \ {Picked(s)}]
  <2>1. CASE s = {} BY <2>1
  <2>2. CASE s # {}
    <3>1. PICK t : t = s \ {Picked(s)} OBVIOUS
    <3>2. t \subseteq m /\ t # m BY <2>2, <3>1, PickedIn
    <3>3. G[t] = F(t)[t] BY <1>5, <3>2
    <3>4. G[s] = row[Picked(s)].tokens + F(t)[t] BY <2>2, <3>1
    <3> HIDE DEF G, F
    <3> QED BY <2>2, <3>1, <3>3, <3>4
  <2> QED BY <2>1, <2>2
<1>7. IsSum(m, G)
  <2>1. G = [s \in SUBSET m |-> G[s]] OBVIOUS
  <2> HIDE DEF G
  <2> QED BY <1>6, <2>1 DEF IsSum
<1> QED BY <1>3, <1>7

(* Finitely many numbers have a number as their sum.                        *)
LEMMA SumIsNat ==
  ASSUME NEW S, IsFiniteSet(S), \A c \in S : row[c].tokens \in Nat
  PROVE  MapThenSumSet(LAMBDA c : row[c].tokens, S) \in Nat
<1>1. PICK h : h = CHOOSE g : IsSum(S, g) OBVIOUS
<1>2. IsSum(S, h) BY <1>1, SumExists
<1>3. MapThenSumSet(LAMBDA c : row[c].tokens, S) = h[S]
  BY <1>1, Zenon DEF MapThenSumSet, MapThenFoldSet, IsSum, Picked
<1> DEFINE D == {s \in SUBSET S : h[s] \notin Nat}
<1>4. SUFFICES ASSUME D # {} PROVE FALSE BY <1>3
<1>5. PICK m \in D : \A t \in D : t \subseteq m => t = m
  <2>1. D \subseteq SUBSET S OBVIOUS
  <2> HIDE DEF D
  <2> QED BY <1>4, <2>1, SmallestIn
<1>6. m \in SUBSET S /\ h[m] \notin Nat OBVIOUS
<1> HIDE DEF D
<1>7. m # {}
  <2>1. m = {} => h[m] = 0 BY <1>2, <1>6, SumsAt
  <2> QED BY <1>6, <2>1
<1>8. PICK t : t = m \ {Picked(m)} OBVIOUS
<1>9. t \subseteq m /\ t # m /\ Picked(m) \in S BY <1>6, <1>7, <1>8, PickedIn
<1>10. h[t] \in Nat
  <2> USE DEF D
  <2> QED BY <1>5, <1>6, <1>9
<1>11. h[m] = row[Picked(m)].tokens + h[t]
  <2>1. m \in SUBSET S BY <1>6
  <2>2. h[m] = IF m = {} THEN 0 ELSE row[Picked(m)].tokens + h[m \ {Picked(m)}] BY <1>2, <2>1, SumsAt
  <2> QED BY <1>7, <1>8, <2>2
<1> QED BY <1>6, <1>9, <1>10, <1>11

(* The usage of a day is a number.                                          *)
LEMMA UsageIsNat == ASSUME Llm!TypeOK PROVE Llm!Usage \in Nat
<1>1. IsFiniteSet({c \in Calls : Llm!Counts(c)}) BY LlmAssumption, FS_Subset
<1>2. \A c \in {d \in Calls : Llm!Counts(d)} : row[c].tokens \in Nat
  <2> SUFFICES ASSUME NEW c \in Calls PROVE row[c].tokens \in Nat OBVIOUS
  <2>1. row[c].tokens \in Usages \cup {0, Estimate} BY DEF Llm!TypeOK
  <2>2. Usages \subseteq Nat /\ Estimate \in Nat /\ 0 \in Nat BY LlmAssumption
  <2> HIDE DEF Waiting, Statuses, PCs
  <2> QED BY <2>1, <2>2, Zenon
<1>3. PICK S : S = {c \in Calls : Llm!Counts(c)} OBVIOUS
<1>4. MapThenSumSet(LAMBDA c : row[c].tokens, S) \in Nat BY <1>1, <1>2, <1>3, SumIsNat
<1> QED
  BY <1>3, <1>4, Zenon
  DEF Llm!Usage, Llm!MapThenSumSet, MapThenSumSet, Llm!MapThenFoldSet, MapThenFoldSet

LEMMA BudgetTypesInit == Llm!Init => Llm!TypeOK
BY DEF Llm!Init, Llm!TypeOK, Llm!NoRow

(* A call moves on.                                                         *)
LEMMA GoesTypes ==
  ASSUME Llm!TypeOK, NEW c \in Calls,
         NEW at \in {"locked", "refused", "calling", "failed", "settled", "released", "lost"}, Llm!Goes(c, at)
  PROVE  call' \in [Calls -> [at : {"idle", "reserving", "locked", "refused", "calling", "answered",
                                   "failed", "settled", "released", "lost"},
                             seen : Nat, used : Usages \cup {0}]]
BY DEF Llm!TypeOK, Llm!Goes

LEMMA BudgetTypesNext == Llm!TypeOK /\ [Llm!Next]_Llm!vars => Llm!TypeOK'
<1> SUFFICES ASSUME Llm!TypeOK, [Llm!Next]_Llm!vars PROVE Llm!TypeOK'
  OBVIOUS
<1>1. ASSUME NEW c \in Calls, Llm!Reserve(c) PROVE Llm!TypeOK'
  <2>1. PICK n \in Nat : n = Llm!Usage BY UsageIsNat
  <2>2. call' = [call EXCEPT ![c] = [at |-> "reserving", seen |-> n, used |-> 0]]
    BY <1>1, <2>1 DEF Llm!Reserve
  <2>3. UNCHANGED <<row, reading>> BY <1>1 DEF Llm!Reserve
  <2> QED BY <2>2, <2>3 DEF Llm!TypeOK
<1>2. ASSUME NEW c \in Calls, Llm!LockDay(c) PROVE Llm!TypeOK'
  BY <1>2, GoesTypes DEF Llm!LockDay, Llm!TypeOK
<1>3. ASSUME NEW c \in Calls, Llm!Admit(c) PROVE Llm!TypeOK'
  <2>1. CASE Llm!Fits(c)
    <3>1. row' = [row EXCEPT ![c] = [status |-> "pending", tokens |-> Estimate, lapsed |-> FALSE]]
      BY <1>3, <2>1 DEF Llm!Admit
    <3>2. Llm!Goes(c, "calling") /\ UNCHANGED reading BY <1>3, <2>1 DEF Llm!Admit
    <3>3. call' \in [Calls -> [at : {"idle", "reserving", "locked", "refused", "calling", "answered",
                                    "failed", "settled", "released", "lost"},
                              seen : Nat, used : Usages \cup {0}]]
      BY <3>2, GoesTypes
    <3> QED BY <3>1, <3>2, <3>3 DEF Llm!TypeOK
  <2>2. CASE ~Llm!Fits(c)
    BY <1>3, <2>2, GoesTypes DEF Llm!Admit, Llm!TypeOK
  <2> QED BY <2>1, <2>2
<1>4. ASSUME NEW c \in Calls, Llm!Answers(c) PROVE Llm!TypeOK'
  <2>1. PICK used \in Usages :
               call' = [call EXCEPT ![c] = [at |-> "answered", seen |-> call[c].seen, used |-> used]]
    BY <1>4 DEF Llm!Answers
  <2>2. UNCHANGED <<row, reading>> BY <1>4 DEF Llm!Answers
  <2> QED BY <2>1, <2>2 DEF Llm!TypeOK
<1>5. ASSUME NEW c \in Calls, Llm!Fails(c) \/ Llm!Loses(c) PROVE Llm!TypeOK'
  BY <1>5, GoesTypes DEF Llm!Fails, Llm!Loses, Llm!TypeOK
<1>6. ASSUME NEW c \in Calls, Llm!Settle(c) PROVE Llm!TypeOK'
  <2>1. Llm!Goes(c, "settled") /\ UNCHANGED reading BY <1>6 DEF Llm!Settle
  <2>2. call' \in [Calls -> [at : {"idle", "reserving", "locked", "refused", "calling", "answered",
                                  "failed", "settled", "released", "lost"},
                            seen : Nat, used : Usages \cup {0}]]
    BY <2>1, GoesTypes
  <2>3. call[c].used \in Usages \cup {0} BY DEF Llm!TypeOK
  <2>4. \/ row' = row
        \/ row' = [row EXCEPT ![c] = [status |-> "settled", tokens |-> call[c].used, lapsed |-> FALSE]]
    BY <1>6 DEF Llm!Settle, Llm!Settled
  <2>5. CASE row' = row BY <2>1, <2>2, <2>5 DEF Llm!TypeOK
  <2>6. CASE row' = [row EXCEPT ![c] = [status |-> "settled", tokens |-> call[c].used, lapsed |-> FALSE]]
    BY <2>1, <2>2, <2>3, <2>6 DEF Llm!TypeOK
  <2> QED BY <2>4, <2>5, <2>6
<1>7. ASSUME NEW c \in Calls, Llm!Release(c) PROVE Llm!TypeOK'
  <2>1. Llm!Goes(c, "released") /\ UNCHANGED reading BY <1>7 DEF Llm!Release
  <2>2. call' \in [Calls -> [at : {"idle", "reserving", "locked", "refused", "calling", "answered",
                                  "failed", "settled", "released", "lost"},
                            seen : Nat, used : Usages \cup {0}]]
    BY <2>1, GoesTypes
  <2>3. row' = row \/ row' = [row EXCEPT ![c].status = "released"] BY <1>7 DEF Llm!Release
  <2>4. CASE row' = row BY <2>1, <2>2, <2>4 DEF Llm!TypeOK
  <2>5. CASE row' = [row EXCEPT ![c].status = "released"]
    <3>1. row[c] \in [status : {"none", "pending", "settled", "released", "expired"},
                       tokens : Usages \cup {0, Estimate}, lapsed : BOOLEAN]
      BY DEF Llm!TypeOK
    <3>2. PICK r : r = [row[c] EXCEPT !.status = "released"] OBVIOUS
    <3>3. r \in [status : {"none", "pending", "settled", "released", "expired"},
                 tokens : Usages \cup {0, Estimate}, lapsed : BOOLEAN] /\ r.status = "released"
      BY <3>1, <3>2
    <3>4. row' = [row EXCEPT ![c] = r] BY <2>5, <3>2
    <3> QED BY <2>1, <2>2, <3>3, <3>4 DEF Llm!TypeOK
  <2> QED BY <2>3, <2>4, <2>5
<1>8. ASSUME NEW c \in Calls, Llm!Renew(c) \/ Llm!Lapses(c) PROVE Llm!TypeOK'
  <2>1. row[c].status = "pending" /\ UNCHANGED <<call, reading>> BY <1>8 DEF Llm!Renew, Llm!Lapses
  <2>2. PICK lapsed \in BOOLEAN : row' = [row EXCEPT ![c].lapsed = lapsed]
    BY <1>8 DEF Llm!Renew, Llm!Lapses
  <2> QED BY <2>1, <2>2 DEF Llm!TypeOK
<1>9. ASSUME Llm!ReapRead PROVE Llm!TypeOK'
  BY <1>9 DEF Llm!ReapRead, Llm!Overdue, Llm!TypeOK
<1>10. ASSUME Llm!ReapWrite PROVE Llm!TypeOK'
  BY <1>10 DEF Llm!ReapWrite, Llm!TypeOK
<1>11. CASE UNCHANGED Llm!vars
  BY <1>11 DEF Llm!vars, Llm!TypeOK
<1> QED BY <1>1, <1>2, <1>3, <1>4, <1>5, <1>6, <1>7, <1>8, <1>9, <1>10, <1>11 DEF Llm!Next, Llm!Ends

(* The rows of the table and the calls have the types the table's CHECK     *)
(* and generateDraft give them; what a day has used is a number, for any    *)
(* finite set of calls.                                                     *)
LEMMA BudgetTypes == Llm!Spec => []Llm!TypeOK
  BY BudgetTypesInit, BudgetTypesNext, PTL DEF Llm!Spec

(* What the day counts for a call is what the call used, through any       *)
(* lapses, renewals and reapings of its reservation and in any number of   *)
(* calls and processes; the reaper overwrites no outcome, and the rows     *)
(* keep the types that the table's CHECK gives them.                       *)
THEOREM OutcomeOfCalls == Llm!Spec => []RowTellsOutcome
<1>1. Llm!TypeOK /\ BudgetInv => RowTellsOutcome
  BY DEF BudgetInv, RowTellsOutcome, Llm!RowTellsOutcome
<1>2. Llm!Spec => []BudgetInv
  BY BudgetInvInit, BudgetInvNext, PTL DEF Llm!Spec
<1> QED
  BY <1>1, <1>2, BudgetTypes, PTL
=============================================================================
