------------------------------- MODULE HuluPlan -------------------------------
(***************************************************************************)
(* Sprint plans over a wordbook (ADR-0041): a plan is created, its rounds  *)
(* are started, paged through and finished one after the other, and it is  *)
(* completed by its last round or abandoned.                               *)
(*                                                                         *)
(* start, finish and abandon lock the plan row first and hold it to their  *)
(* COMMIT; settling a page is a single conditional UPDATE of the round and *)
(* takes no lock on the plan; creation relies on the partial unique index  *)
(* idx_hulu_plans_one_active.  A transaction is split where others can     *)
(* come in between: after its reads and, for creation, after its INSERT.   *)
(*                                                                         *)
(* The words a plan suspends and gives back are in module CardState; here  *)
(* a snapshot is there or not.  Word lists, gates and times are left out:  *)
(* a page may be settled when the client has passed it.                    *)
(***************************************************************************)
EXTENDS Naturals, FiniteSets, FiniteSetsExt, Functions

CONSTANTS
  Plans,     \* plans the wordbook may ever have
  NoPlan,
  Requests,  \* transactions that may be open at a time
  Target,    \* target_rounds
  Pages      \* pages of a plan

ASSUME HuluAssumption ==
  /\ NoPlan \notin Plans
  /\ Target \in 2..8
  /\ Pages \in Nat \ {0}

VARIABLES
  plan,      \* the rows of hulu_plans
  rounds,    \* per plan: its rows of hulu_rounds, by round_no
  tx,        \* per request: what it does, how far it is, what it read
  reply,     \* per request: whether its last transaction hit a unique index
  restores   \* history: how often a plan gave its suspended words back

vars == <<plan, rounds, tx, reply, restores>>

Statuses == {"none", "active", "completed", "abandoned"}
RoundNumbers == 0..Target

(* settled is a history variable: the pages whose settlement was counted.  *)
Round == [kind : {"exposure", "recall", "legacy"}, ended : BOOLEAN, pages : Nat,
          settled : SUBSET Nat]

Plan == [status : Statuses, v2 : BOOLEAN, withNew : BOOLEAN, suspends : BOOLEAN,
         snapshot : BOOLEAN]
Absent == [status |-> "none", v2 |-> TRUE, withNew |-> FALSE, suspends |-> FALSE,
           snapshot |-> FALSE]
Created(v2, withNew, suspends) ==
  [status |-> "active", v2 |-> v2, withNew |-> withNew, suspends |-> suspends,
   snapshot |-> suspends]

Idle == [step |-> "idle", op |-> "none", plan |-> NoPlan, read |-> Absent, no |-> 0]

Used == {tx[r].plan : r \in Requests}
Unused == {p \in Plans : plan[p].status = "none"} \ Used
Active == {p \in Plans : plan[p].status = "active"}

IsOpen(p, no) == no \in DOMAIN rounds[p] /\ ~rounds[p][no].ended

Reviews(p) == {no \in DOMAIN rounds[p] : rounds[p][no].kind # "exposure"}

-----------------------------------------------------------------------------

NewRound(kind) == [kind |-> kind, ended |-> FALSE, pages |-> 0, settled |-> {}]

(* A wordbook may come with a plan from before migration 0051, whose rounds *)
(* were backfilled as legacy; one whose last round had ended is completed.  *)
Legacy(n, ended) ==
  [no \in 1..n |-> [NewRound("legacy") EXCEPT !.ended = no < n \/ ended]]

Init ==
  /\ \/ /\ plan = [p \in Plans |-> Absent]
        /\ rounds = [p \in Plans |-> <<>>]
     \/ \E old \in Plans, n \in 0..Target, ended, suspends \in BOOLEAN :
          /\ n = Target => ~ended
          /\ plan = [[p \in Plans |-> Absent] EXCEPT ![old] = Created(FALSE, FALSE, suspends)]
          /\ rounds = [[p \in Plans |-> <<>>] EXCEPT ![old] = Legacy(n, ended)]
  /\ tx = [r \in Requests |-> Idle]
  /\ reply = [r \in Requests |-> "ok"]
  /\ restores = [p \in Plans |-> 0]

End(r, how) ==
  /\ tx' = [tx EXCEPT ![r] = Idle]
  /\ reply' = [reply EXCEPT ![r] = how]

-----------------------------------------------------------------------------
(* createPlan *)

(* findActivePlanByWordbook *)
CreateRead(r) ==
  /\ tx[r] = Idle
  /\ IF Active # {}
       THEN End(r, "ok")
       ELSE /\ tx' = [tx EXCEPT ![r].step = "read", ![r].op = "create"]
            /\ UNCHANGED reply
  /\ UNCHANGED <<plan, rounds, restores>>

(* The INSERT waits for an uncommitted rival.  When it hits the index the  *)
(* transaction is aborted: the query for the rival's plan fails as well.   *)
CreateInsert(r) ==
  /\ tx[r].op = "create" /\ tx[r].step = "read"
  /\ \A other \in Requests : ~(tx[other].op = "create" /\ tx[other].step = "inserted")
  /\ IF Active # {}
       THEN End(r, "error")
       ELSE /\ \E p \in Unused, withNew, suspends \in BOOLEAN :
                 tx' = [tx EXCEPT ![r] = [@ EXCEPT !.step = "inserted", !.plan = p,
                                                   !.read = Created(TRUE, withNew, suspends)]]
            /\ UNCHANGED reply
  /\ UNCHANGED <<plan, rounds, restores>>

CreateCommit(r) ==
  /\ tx[r].op = "create" /\ tx[r].step = "inserted"
  /\ plan' = [plan EXCEPT ![tx[r].plan] = tx[r].read]
  /\ End(r, "ok")
  /\ UNCHANGED <<rounds, restores>>

-----------------------------------------------------------------------------
(* lockPlanForUpdate *)
PlanFree_PlainSelect(p) == TRUE
PlanFree(p) == \A r \in Requests : tx[r].op # "create" => tx[r].plan # p

Lock(r, op, p, no) ==
  tx' = [tx EXCEPT ![r] = [step |-> "read", op |-> op, plan |-> p, read |-> plan[p],
                           no |-> no]]

(* startRound: an ended plan is refused, an open round is returned. *)
StartRead(r, p) ==
  /\ tx[r] = Idle /\ plan[p].status # "none" /\ PlanFree(p)
  /\ IF plan[p].status # "active" \/ (\E no \in DOMAIN rounds[p] : IsOpen(p, no))
       THEN End(r, "ok")
       ELSE Lock(r, "start", p, 0) /\ UNCHANGED reply
  /\ UNCHANGED <<plan, rounds, restores>>

NeedsExposure(r) == tx[r].read.v2 /\ tx[r].read.withNew /\ 0 \notin DOMAIN rounds[tx[r].plan]

NextNo(p) == IF Reviews(p) = {} THEN 1 ELSE Max(Reviews(p)) + 1

TargetReached(p) == Cardinality(Reviews(p)) >= Target

(* The rounds are read by a second query, right before the INSERT; the     *)
(* insert fails on UNIQUE (plan_id, round_no).                             *)
StartWrite(r) ==
  LET p == tx[r].plan
      no == IF NeedsExposure(r) THEN 0 ELSE NextNo(p)
      kind == IF NeedsExposure(r) THEN "exposure" ELSE "recall"
  IN /\ tx[r].op = "start"
     /\ IF kind = "recall" /\ TargetReached(p)
          THEN End(r, "ok") /\ UNCHANGED rounds
        ELSE IF no \in DOMAIN rounds[p]
          THEN End(r, "collision") /\ UNCHANGED rounds
        ELSE /\ rounds' = [rounds EXCEPT ![p] = [n \in DOMAIN @ \cup {no} |->
                              IF n = no THEN NewRound(kind) ELSE @[n]]]
             /\ End(r, "ok")
     /\ UNCHANGED <<plan, restores>>

(* settlePage, on a plan in any status.  A page behind the last one has no *)
(* words and passes the gate too; one such page is let in.                 *)
Settles(p, no, page) == IsOpen(p, no) /\ rounds[p][no].pages = page

SettlePage(p, no, page) ==
  /\ Settles(p, no, page) /\ page <= Pages
  /\ rounds[p][no].pages <= Pages
  /\ rounds' = [rounds EXCEPT ![p][no].pages = @ + 1, ![p][no].settled = @ \cup {page}]
  /\ UNCHANGED <<plan, tx, reply, restores>>

-----------------------------------------------------------------------------
(* restorePlanSuspension, when the snapshot that was read is not empty *)
GiveBack(r) ==
  restores' = IF tx[r].read.snapshot THEN [restores EXCEPT ![tx[r].plan] = @ + 1] ELSE restores

SetStatus(r, status) ==
  plan' = [plan EXCEPT ![tx[r].plan].status = status, ![tx[r].plan].snapshot = FALSE]

MayFinish_HalfWay(p, no) == IsOpen(p, no)
MayFinish(p, no) ==
  /\ IsOpen(p, no)
  /\ rounds[p][no].kind # "exposure" => rounds[p][no].pages >= Pages

(* An ended round is returned, one with pages left is refused. *)
FinishRead(r, p, no) ==
  /\ tx[r] = Idle /\ plan[p].status # "none" /\ PlanFree(p) /\ no \in DOMAIN rounds[p]
  /\ IF MayFinish(p, no)
       THEN Lock(r, "finish", p, no) /\ UNCHANGED reply
       ELSE End(r, "ok")
  /\ UNCHANGED <<plan, rounds, restores>>

(* The fingerprint of the words is left out. *)
FinishWrite(r) ==
  LET p == tx[r].plan
      no == tx[r].no
  IN /\ tx[r].op = "finish"
     /\ IF IsOpen(p, no)
          THEN /\ rounds' = [rounds EXCEPT ![p][no].ended = TRUE]
               /\ IF rounds[p][no].kind = "recall" /\ no >= Target /\ tx[r].read.status = "active"
                    THEN SetStatus(r, "completed") /\ GiveBack(r)
                    ELSE UNCHANGED <<plan, restores>>
          ELSE UNCHANGED <<rounds, plan, restores>>
     /\ End(r, "ok")

AbandonRead(r, p) ==
  /\ tx[r] = Idle /\ plan[p].status # "none" /\ PlanFree(p)
  /\ IF plan[p].status = "active"
       THEN Lock(r, "abandon", p, 0) /\ UNCHANGED reply
       ELSE End(r, "ok")
  /\ UNCHANGED <<plan, rounds, restores>>

AbandonWrite(r) ==
  /\ tx[r].op = "abandon"
  /\ SetStatus(r, "abandoned") /\ GiveBack(r)
  /\ End(r, "ok")
  /\ UNCHANGED rounds

(* A transaction fails and is rolled back. *)
Abort(r) ==
  /\ tx[r] # Idle
  /\ End(r, "ok")
  /\ UNCHANGED <<plan, rounds, restores>>

-----------------------------------------------------------------------------

Next ==
  \/ \E r \in Requests :
       \/ CreateRead(r) \/ CreateInsert(r) \/ CreateCommit(r)
       \/ StartWrite(r) \/ FinishWrite(r) \/ AbandonWrite(r) \/ Abort(r)
       \/ \E p \in Plans : StartRead(r, p) \/ AbandonRead(r, p)
       \/ \E p \in Plans : \E no \in RoundNumbers : FinishRead(r, p, no)
  \/ \E p \in Plans : \E no \in RoundNumbers : \E page \in 0..Pages : SettlePage(p, no, page)

Spec == Init /\ [][Next]_vars

-----------------------------------------------------------------------------

TypeOK ==
  /\ plan \in [Plans -> Plan]
  /\ \A p \in Plans : /\ DOMAIN rounds[p] \subseteq RoundNumbers
                      /\ \A no \in DOMAIN rounds[p] : rounds[p][no] \in Round
  /\ tx \in [Requests -> [step : {"idle", "read", "inserted"},
                          op : {"none", "create", "start", "finish", "abandon"},
                          plan : Plans \cup {NoPlan}, read : Plan, no : Nat]]
  /\ reply \in [Requests -> {"ok", "error", "collision"}]
  /\ restores \in [Plans -> Nat]

(* A plan never has two rounds in progress, whatever starts, retries of    *)
(* starts and finishes overlap; no index stands behind this.               *)
OneOpenRound ==
  \A p \in Plans : \A i, j \in DOMAIN rounds[p] : IsOpen(p, i) /\ IsOpen(p, j) => i = j

(* Starting a round never fails on the unique round number, on plans with  *)
(* exposure rounds and on plans that carry legacy rounds alike.            *)
StartsNeverCollide == \A r \in Requests : reply[r] # "collision"

(* The rounds of a plan never clash: two are never in progress at a time,  *)
(* and a start never fails on a number that is taken; and all values have  *)
(* their types.                                                            *)
RoundsNeverClash == TypeOK /\ OneOpenRound /\ StartsNeverCollide

(* Sprint plans keep the promise of the ledger: one active plan at a time; *)
(* a completed plan was earned, page by page, in all its rounds; an ended  *)
(* plan stays as it ended; and suspended words are given back exactly      *)
(* once, also when a finish and an abandon, or two abandons, overlap.  A   *)
(* round of this code counts as worked through when it has ended and each  *)
(* of its pages was settled; a legacy round when it has ended.             *)
WorkedThrough(p) ==
  {no \in DOMAIN rounds[p] :
     /\ rounds[p][no].ended
     /\ rounds[p][no].kind = "recall" => 0..(Pages - 1) \subseteq rounds[p][no].settled}
PhaseView == [p \in Plans |-> plan[p].status]
TodoView == [p \in Plans |-> IF plan[p].withNew THEN 0..Target ELSE 1..Target]
WorkView == [p \in Plans |-> WorkedThrough(p)]
OwedView == [p \in Plans |-> plan[p].snapshot]
Ledger == INSTANCE SprintLedger
            WITH phase <- PhaseView, todo <- TodoView, work <- WorkView, owed <- OwedView,
                 given <- restores
ImplementsSprintLedger == Ledger!LedgerSpec
=============================================================================
