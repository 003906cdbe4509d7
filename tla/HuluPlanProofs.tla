---------------------------- MODULE HuluPlanProofs ----------------------------
(* Theorems about HuluPlan: rounds never clash, and a plan ends as the     *)
(* ledger of sprints says.                                                 *)
EXTENDS HuluPlan, FiniteSetTheorems, TLAPS

(* Requests that hold the lock of their plan.                              *)
Holds(r) == tx[r].op \in {"start", "finish", "abandon"}
Inserted(r) == tx[r].op = "create" /\ tx[r].step = "inserted"

Types == TypeOK /\ DOMAIN rounds = Plans

(* Rounds are numbered 1, 2, ... with the introduction of new words, as    *)
(* round 0, before them; one is open at most; an ended recall round has    *)
(* passed all pages, and a passed page was settled.                        *)
PlanSound(p) ==
  /\ \E k \in 0..Target : DOMAIN rounds[p] \ {0} = 1..k
  /\ \A no \in DOMAIN rounds[p] : rounds[p][no].kind = "exposure" <=> no = 0
  /\ \A i, j \in DOMAIN rounds[p] : IsOpen(p, i) /\ IsOpen(p, j) => i = j
  /\ \A no \in DOMAIN rounds[p] :
       /\ \A page \in 0..(Pages - 1) : page < rounds[p][no].pages => page \in rounds[p][no].settled
       /\ rounds[p][no].ended /\ rounds[p][no].kind = "recall" => rounds[p][no].pages >= Pages
  /\ plan[p].withNew => plan[p].v2 /\ (DOMAIN rounds[p] # {} => 0 \in DOMAIN rounds[p])
  /\ plan[p].status = "none" => DOMAIN rounds[p] = {}

(* What a request read under the lock of its plan is still so.             *)
RequestSound(r) ==
  /\ tx[r].op = "none" => tx[r] = Idle
  /\ Holds(r) => /\ tx[r].plan \in Plans /\ tx[r].read = plan[tx[r].plan]
                 /\ plan[tx[r].plan].status # "none"
  /\ tx[r].op = "start" => /\ plan[tx[r].plan].status = "active"
                           /\ \A no \in DOMAIN rounds[tx[r].plan] : rounds[tx[r].plan][no].ended
  /\ tx[r].op = "finish" => MayFinish(tx[r].plan, tx[r].no)
  /\ tx[r].op = "abandon" => plan[tx[r].plan].status = "active"
  /\ Inserted(r) => /\ tx[r].plan \in Plans /\ plan[tx[r].plan].status = "none" /\ Active = {}
                    /\ \E withNew, suspends \in BOOLEAN :
                         tx[r].read = Created(TRUE, withNew, suspends)

(* A plan is locked once, and the index lets one insert through.           *)
Exclusive ==
  \A r, s \in Requests : r # s =>
    /\ Holds(r) /\ Holds(s) => tx[r].plan # tx[s].plan
    /\ ~(Inserted(r) /\ Inserted(s))

Inv ==
  /\ Types /\ StartsNeverCollide /\ Exclusive
  /\ \A p \in Plans : PlanSound(p)
  /\ \A r \in Requests : RequestSound(r)

-----------------------------------------------------------------------------

LEMMA NumbersSound ==
  /\ Target \in Nat /\ Target > 1 /\ Pages \in Nat /\ Pages > 0
  /\ RoundNumbers \subseteq Nat
  BY HuluAssumption DEF RoundNumbers

LEMMA IdleTyped ==
  /\ Idle.op = "none" /\ Idle.step = "idle" /\ Idle.plan = NoPlan
  /\ Idle \in [step : {"idle", "read", "inserted"},
               op : {"none", "create", "start", "finish", "abandon"},
               plan : Plans \cup {NoPlan}, read : Plan, no : Nat]
  BY DEF Idle, Absent, Plan, Statuses

LEMMA LegacyRounds ==
  ASSUME NEW n \in 0..Target, NEW ended \in BOOLEAN
  PROVE  /\ DOMAIN Legacy(n, ended) = 1..n
         /\ \A no \in 1..n :
              /\ Legacy(n, ended)[no] \in Round
              /\ Legacy(n, ended)[no].kind = "legacy" /\ Legacy(n, ended)[no].pages = 0
              /\ Legacy(n, ended)[no].ended <=> no < n \/ ended
<1>1. NewRound("legacy") \in Round /\ NewRound("legacy").kind = "legacy" /\ NewRound("legacy").pages = 0
  BY DEF NewRound, Round
<1>2. ASSUME NEW no \in 1..n
      PROVE  LET round == [NewRound("legacy") EXCEPT !.ended = no < n \/ ended]
             IN /\ round \in Round /\ round.kind = "legacy" /\ round.pages = 0
                /\ round.ended <=> no < n \/ ended
  BY <1>1 DEF Round, NewRound
<1> QED
  BY <1>2 DEF Legacy

LEMMA InitInv == Init => Inv
<1> SUFFICES ASSUME Init PROVE Inv
  OBVIOUS
<1>1. \A r \in Requests : tx[r] = Idle /\ ~Holds(r) /\ ~Inserted(r)
  BY IdleTyped DEF Init, Holds, Inserted
<1>2. (\A r \in Requests : RequestSound(r)) /\ Exclusive /\ StartsNeverCollide
  <2>1. \A r \in Requests : tx[r].op = "none" /\ reply[r] = "ok"
    BY <1>1, IdleTyped DEF Init
  <2> QED
    BY <1>1, <2>1 DEF RequestSound, Exclusive, StartsNeverCollide
<1>3. DOMAIN rounds = Plans /\ tx \in [Requests -> {Idle}] /\ reply \in [Requests -> {"ok"}]
      /\ restores \in [Plans -> {0}]
  BY DEF Init
<1>4. CASE plan = [p \in Plans |-> Absent] /\ rounds = [p \in Plans |-> <<>>]
  <2>1. \A p \in Plans : DOMAIN rounds[p] = {}
    BY <1>4
  <2>2. Types
    BY <1>3, <1>4, <2>1, IdleTyped DEF Types, TypeOK, Absent, Plan, Statuses
  <2>3. \A p \in Plans : PlanSound(p)
    <3>1. 1..0 = {} /\ 0 \in 0..Target
      BY NumbersSound
    <3> QED
      BY <1>4, <2>1, <3>1 DEF PlanSound, Absent
  <2> QED
    BY <1>2, <2>2, <2>3 DEF Inv
<1>5. ASSUME NEW old \in Plans, NEW n \in 0..Target, NEW ended \in BOOLEAN, NEW suspends \in BOOLEAN,
             plan = [[p \in Plans |-> Absent] EXCEPT ![old] = Created(FALSE, FALSE, suspends)],
             rounds = [[p \in Plans |-> <<>>] EXCEPT ![old] = Legacy(n, ended)]
      PROVE  Inv
  <2>1. \A p \in Plans : p # old => DOMAIN rounds[p] = {} /\ plan[p] = Absent
    BY <1>5
  <2>2. rounds[old] = Legacy(n, ended) /\ plan[old] = Created(FALSE, FALSE, suspends)
    BY <1>5
  <2>3. DOMAIN rounds[old] = 1..n
        /\ \A no \in 1..n :
             /\ rounds[old][no] \in Round
             /\ rounds[old][no].kind = "legacy" /\ rounds[old][no].pages = 0
             /\ rounds[old][no].ended <=> no < n \/ ended
    BY <2>2, LegacyRounds
  <2>4. Types
    <3>1. plan \in [Plans -> Plan]
      BY <1>5 DEF Absent, Created, Plan, Statuses
    <3>2. \A p \in Plans : /\ DOMAIN rounds[p] \subseteq RoundNumbers
                           /\ \A no \in DOMAIN rounds[p] : rounds[p][no] \in Round
      BY <2>1, <2>3, NumbersSound DEF Round, RoundNumbers
    <3> QED
      BY <1>3, <3>1, <3>2, IdleTyped DEF Types, TypeOK
  <2>5. PlanSound(old)
    <3>1. DOMAIN rounds[old] \ {0} = 1..n /\ 0 \notin DOMAIN rounds[old]
      BY <2>3
    <3>2. \A i, j \in 1..n : IsOpen(old, i) /\ IsOpen(old, j) => i = j
      BY <2>3 DEF IsOpen
    <3>3. \A no \in 1..n : /\ rounds[old][no].kind = "legacy" /\ rounds[old][no].pages = 0
      BY <2>3
    <3>4. ~plan[old].withNew /\ plan[old].status = "active"
      BY <2>2 DEF Created
    <3> QED
      BY <2>3, <3>1, <3>2, <3>3, <3>4, NumbersSound DEF PlanSound
  <2>6. \A p \in Plans : p # old => PlanSound(p)
    <3>1. 1..0 = {} /\ 0 \in 0..Target
      BY NumbersSound
    <3> QED
      BY <2>1, <3>1 DEF PlanSound, Absent
  <2> QED
    BY <1>2, <2>4, <2>5, <2>6 DEF Inv
<1> QED
  BY <1>4, <1>5 DEF Init

-----------------------------------------------------------------------------
(* What a step leaves alone *)

LEMMA SamePlan ==
  ASSUME NEW p, PlanSound(p), rounds'[p] = rounds[p], plan'[p] = plan[p]
  PROVE  PlanSound(p)'
  BY DEF PlanSound, IsOpen

LEMMA SameRequest ==
  ASSUME NEW s, RequestSound(s), tx'[s] = tx[s],
         Holds(s) => rounds'[tx[s].plan] = rounds[tx[s].plan] /\ plan'[tx[s].plan] = plan[tx[s].plan],
         Inserted(s) => plan'[tx[s].plan] = plan[tx[s].plan] /\ Active' = {}
  PROVE  RequestSound(s)'
  BY DEF RequestSound, Holds, Inserted, MayFinish, IsOpen

(* A request that ended has nothing to keep.                               *)
LEMMA IdleSound ==
  ASSUME NEW r, tx'[r] = Idle
  PROVE  RequestSound(r)' /\ ~Holds(r)' /\ ~Inserted(r)'
  BY IdleTyped DEF RequestSound, Holds, Inserted

LEMMA EndTypes ==
  ASSUME Inv, NEW r \in Requests, NEW how \in {"ok", "error"}, End(r, how)
  PROVE  /\ tx' \in [Requests -> [step : {"idle", "read", "inserted"},
                                  op : {"none", "create", "start", "finish", "abandon"},
                                  plan : Plans \cup {NoPlan}, read : Plan, no : Nat]]
         /\ reply' \in [Requests -> {"ok", "error", "collision"}]
         /\ StartsNeverCollide' /\ Exclusive'
         /\ tx'[r] = Idle /\ \A s \in Requests \ {r} : tx'[s] = tx[s]
<1>1. /\ tx' \in [Requests -> [step : {"idle", "read", "inserted"},
                               op : {"none", "create", "start", "finish", "abandon"},
                               plan : Plans \cup {NoPlan}, read : Plan, no : Nat]]
      /\ tx'[r] = Idle /\ \A s \in Requests \ {r} : tx'[s] = tx[s]
  BY IdleTyped DEF End, Inv, Types, TypeOK
<1>2. reply' \in [Requests -> {"ok", "error", "collision"}] /\ StartsNeverCollide'
  BY DEF End, Inv, Types, TypeOK, StartsNeverCollide
<1>3. Exclusive'
  BY <1>1, IdleTyped DEF Inv, Exclusive, Holds, Inserted
<1> QED
  BY <1>1, <1>2, <1>3

(* A request that ends without a write.                                    *)
LEMMA EndPreserves ==
  ASSUME Inv, NEW r \in Requests, NEW how \in {"ok", "error"}, End(r, how),
         UNCHANGED <<plan, rounds, restores>>
  PROVE  Inv'
<1>1. Types'
  BY EndTypes DEF Inv, Types, TypeOK
<1>2. \A p \in Plans : PlanSound(p)'
  BY SamePlan DEF Inv
<1>3. ASSUME NEW s \in Requests PROVE RequestSound(s)'
  <2>1. CASE s = r
    BY <2>1, EndTypes, IdleSound
  <2>2. CASE s # r
    <3>1. tx'[s] = tx[s] /\ RequestSound(s)
      BY <2>2, EndTypes DEF Inv
    <3>2. Inserted(s) => Active' = {}
      BY <3>1 DEF RequestSound, Active
    <3> QED
      BY <3>1, <3>2, SameRequest
  <2> QED
    BY <2>1, <2>2
<1> QED
  BY <1>1, <1>2, <1>3, EndTypes DEF Inv

(* A request that locks its plan.                                          *)
LEMMA LockPreserves ==
  ASSUME Inv, NEW r \in Requests, NEW p \in Plans, NEW no \in RoundNumbers,
         NEW op \in {"start", "finish", "abandon"},
         tx[r] = Idle, PlanFree(p), Lock(r, op, p, no),
         plan[p].status # "none",
         op = "start" => plan[p].status = "active" /\ \A i \in DOMAIN rounds[p] : rounds[p][i].ended,
         op = "finish" => MayFinish(p, no),
         op = "abandon" => plan[p].status = "active",
         UNCHANGED <<plan, rounds, restores, reply>>
  PROVE  Inv'
<1> DEFINE locked == [step |-> "read", op |-> op, plan |-> p, read |-> plan[p], no |-> no]
<1>1. tx' = [tx EXCEPT ![r] = locked]
  BY DEF Lock
<1>2. locked \in [step : {"idle", "read", "inserted"},
                  op : {"none", "create", "start", "finish", "abandon"},
                  plan : Plans \cup {NoPlan}, read : Plan, no : Nat]
  BY NumbersSound DEF Inv, Types, TypeOK
<1>3. tx'[r] = locked /\ \A s \in Requests \ {r} : tx'[s] = tx[s]
  BY <1>1 DEF Inv, Types, TypeOK
<1>4. Types' /\ StartsNeverCollide'
  BY <1>1, <1>2 DEF Inv, Types, TypeOK, StartsNeverCollide
<1>5. Exclusive'
  BY <1>3 DEF Inv, Exclusive, Holds, Inserted, PlanFree
<1>6. \A q \in Plans : PlanSound(q)'
  BY SamePlan DEF Inv
<1>7. RequestSound(r)'
  BY <1>3 DEF RequestSound, Holds, Inserted, MayFinish, IsOpen
<1>8. ASSUME NEW s \in Requests, s # r PROVE RequestSound(s)'
  <2>1. tx'[s] = tx[s] /\ RequestSound(s)
    BY <1>3, <1>8 DEF Inv
  <2>2. Inserted(s) => Active' = {}
    BY <2>1 DEF RequestSound, Active
  <2> QED
    BY <2>1, <2>2, SameRequest
<1> QED
  BY <1>4, <1>5, <1>6, <1>7, <1>8 DEF Inv

-----------------------------------------------------------------------------
(* createPlan *)

LEMMA CreateReadPreserves ==
  ASSUME Inv, NEW r \in Requests, CreateRead(r)
  PROVE  Inv'
<1>1. CASE Active # {}
  BY <1>1, EndPreserves DEF CreateRead
<1>2. CASE Active = {}
  <2>1. tx' = [tx EXCEPT ![r].step = "read", ![r].op = "create"]
        /\ UNCHANGED <<plan, rounds, restores, reply>>
    BY <1>2 DEF CreateRead
  <2>2. tx' \in [Requests -> [step : {"idle", "read", "inserted"},
                              op : {"none", "create", "start", "finish", "abandon"},
                              plan : Plans \cup {NoPlan}, read : Plan, no : Nat]]
    <3> DEFINE reading == [step |-> "read", op |-> "create", plan |-> NoPlan, read |-> Absent, no |-> 0]
    <3>1. tx' = [tx EXCEPT ![r] = reading]
      BY <2>1 DEF CreateRead, Idle, Inv, Types, TypeOK
    <3>2. Absent \in Plan
      BY DEF Absent, Plan, Statuses
    <3> QED
      BY <3>1, <3>2 DEF Inv, Types, TypeOK
  <2>3. /\ tx'[r].op = "create" /\ tx'[r].step = "read"
        /\ \A s \in Requests \ {r} : tx'[s] = tx[s]
    BY <2>1 DEF Inv, Types, TypeOK
  <2>4. Types' /\ StartsNeverCollide'
    BY <2>1, <2>2 DEF Inv, Types, TypeOK, StartsNeverCollide
  <2>5. Exclusive'
    BY <2>3 DEF Inv, Exclusive, Holds, Inserted
  <2>6. \A q \in Plans : PlanSound(q)'
    BY <2>1, SamePlan DEF Inv
  <2>7. RequestSound(r)'
    BY <2>3 DEF RequestSound, Holds, Inserted
  <2>8. ASSUME NEW s \in Requests, s # r PROVE RequestSound(s)'
    <3>1. tx'[s] = tx[s] /\ RequestSound(s)
      BY <2>3, <2>8 DEF Inv
    <3>2. Inserted(s) => Active' = {}
      BY <2>1, <3>1 DEF RequestSound, Active
    <3> QED
      BY <2>1, <3>1, <3>2, SameRequest
  <2> QED
    BY <2>4, <2>5, <2>6, <2>7, <2>8 DEF Inv
<1> QED
  BY <1>1, <1>2

LEMMA CreateInsertPreserves ==
  ASSUME Inv, NEW r \in Requests, CreateInsert(r)
  PROVE  Inv'
<1>1. CASE Active # {}
  BY <1>1, EndPreserves DEF CreateInsert
<1>2. CASE Active = {}
  <2>1. PICK p \in Unused, withNew \in BOOLEAN, suspends \in BOOLEAN :
          tx' = [tx EXCEPT ![r] = [@ EXCEPT !.step = "inserted", !.plan = p,
                                            !.read = Created(TRUE, withNew, suspends)]]
    BY <1>2 DEF CreateInsert
  <2>2. UNCHANGED <<plan, rounds, restores, reply>> /\ tx[r].op = "create"
    BY <1>2 DEF CreateInsert
  <2>3. p \in Plans /\ plan[p].status = "none"
    BY DEF Unused
  <2>4. Created(TRUE, withNew, suspends) \in Plan
    BY DEF Created, Plan, Statuses
  <2>5. tx' \in [Requests -> [step : {"idle", "read", "inserted"},
                              op : {"none", "create", "start", "finish", "abandon"},
                              plan : Plans \cup {NoPlan}, read : Plan, no : Nat]]
    <3>1. PICK row \in Plan : row = Created(TRUE, withNew, suspends)
      BY <2>4
    <3>2. tx[r] \in [step : {"idle", "read", "inserted"},
                     op : {"none", "create", "start", "finish", "abandon"},
                     plan : Plans \cup {NoPlan}, read : Plan, no : Nat]
      BY DEF Inv, Types, TypeOK
    <3>3. [tx[r] EXCEPT !.step = "inserted", !.plan = p, !.read = row]
            \in [step : {"idle", "read", "inserted"},
                op : {"none", "create", "start", "finish", "abandon"},
                plan : Plans \cup {NoPlan}, read : Plan, no : Nat]
      BY <2>3, <3>2
    <3>4. tx' = [tx EXCEPT ![r] = [tx[r] EXCEPT !.step = "inserted", !.plan = p, !.read = row]]
      BY <2>1, <3>1
    <3> QED
      BY <3>3, <3>4 DEF Inv, Types, TypeOK
  <2>6. /\ tx'[r].op = "create" /\ tx'[r].step = "inserted" /\ tx'[r].plan = p
        /\ tx'[r].read = Created(TRUE, withNew, suspends)
        /\ \A s \in Requests \ {r} : tx'[s] = tx[s]
    BY <2>1, <2>2 DEF Inv, Types, TypeOK
  <2>7. Types' /\ StartsNeverCollide'
    BY <2>2, <2>5 DEF Inv, Types, TypeOK, StartsNeverCollide
  <2>8. Exclusive'
    <3>1. \A s \in Requests : ~Inserted(s)
      BY DEF CreateInsert, Inserted
    <3>2. ~Holds(r)' /\ \A s \in Requests \ {r} : (Holds(s)' <=> Holds(s)) /\ ~Inserted(s)'
      BY <2>6, <3>1 DEF Holds, Inserted
    <3> QED
      BY <2>6, <3>2 DEF Inv, Exclusive
  <2>9. \A q \in Plans : PlanSound(q)'
    BY <2>2, SamePlan DEF Inv
  <2>10. RequestSound(r)'
    <3>1. Active' = {}
      BY <1>2, <2>2 DEF Active
    <3> QED
      BY <2>2, <2>3, <2>6, <3>1 DEF RequestSound, Holds, Inserted
  <2>11. ASSUME NEW s \in Requests, s # r PROVE RequestSound(s)'
    <3>1. tx'[s] = tx[s] /\ RequestSound(s) /\ Active' = {}
      BY <1>2, <2>2, <2>6, <2>11 DEF Inv, Active
    <3> QED
      BY <2>2, <3>1, SameRequest
  <2> QED
    BY <2>7, <2>8, <2>9, <2>10, <2>11 DEF Inv
<1> QED
  BY <1>1, <1>2

(* The rows of a plan become Q and its rounds R, by a request that ends.   *)
LEMMA WritePreserves ==
  ASSUME Inv, NEW r \in Requests, NEW p \in Plans, End(r, "ok"),
         DOMAIN rounds' = Plans, plan' \in [Plans -> Plan], restores' \in [Plans -> Nat],
         DOMAIN rounds'[p] \subseteq RoundNumbers,
         \A no \in DOMAIN rounds'[p] : rounds'[p][no] \in Round,
         \A q \in Plans \ {p} : plan'[q] = plan[q] /\ rounds'[q] = rounds[q],
         PlanSound(p)',
         \A s \in Requests \ {r} : Holds(s) => tx[s].plan # p,
         \A s \in Requests \ {r} : ~Inserted(s) \/ UNCHANGED plan
  PROVE  Inv'
<1>1. Types'
  BY EndTypes DEF Inv, Types, TypeOK
<1>2. \A q \in Plans : PlanSound(q)'
  BY SamePlan DEF Inv
<1>3. ASSUME NEW s \in Requests PROVE RequestSound(s)'
  <2>1. CASE s = r
    BY <2>1, EndTypes, IdleSound
  <2>2. CASE s # r
    <3>1. tx'[s] = tx[s] /\ RequestSound(s)
      BY <2>2, EndTypes DEF Inv
    <3>2. Holds(s) => tx[s].plan \in Plans \ {p}
      BY <2>2, <3>1 DEF RequestSound
    <3>3. Inserted(s) => UNCHANGED plan /\ Active = {}
      BY <2>2, <3>1 DEF RequestSound
    <3>4. Inserted(s) => plan'[tx[s].plan] = plan[tx[s].plan] /\ Active' = {}
      BY <3>3 DEF Active
    <3> QED
      BY <3>1, <3>2, <3>4, SameRequest
  <2> QED
    BY <2>1, <2>2
<1> QED
  BY <1>1, <1>2, <1>3, EndTypes DEF Inv

LEMMA CreateCommitPreserves ==
  ASSUME Inv, NEW r \in Requests, CreateCommit(r)
  PROVE  Inv'
<1>0. PICK p \in Plans : p = tx[r].plan
  BY DEF CreateCommit, Inserted, Inv, RequestSound
<1>1. /\ Inserted(r) /\ RequestSound(r) /\ plan[p].status = "none"
      /\ PlanSound(p)
  BY <1>0 DEF CreateCommit, Inserted, Inv, RequestSound
<1>2. PICK withNew \in BOOLEAN, suspends \in BOOLEAN : tx[r].read = Created(TRUE, withNew, suspends)
  BY <1>1 DEF RequestSound
<1>3. plan' = [plan EXCEPT ![p] = Created(TRUE, withNew, suspends)] /\ UNCHANGED <<rounds, restores>>
      /\ End(r, "ok")
  BY <1>0, <1>2 DEF CreateCommit
<1>4. Created(TRUE, withNew, suspends) \in Plan
  BY DEF Created, Plan, Statuses
<1>5. /\ plan' \in [Plans -> Plan] /\ plan'[p] = Created(TRUE, withNew, suspends)
      /\ \A q \in Plans \ {p} : plan'[q] = plan[q]
  BY <1>1, <1>3, <1>4 DEF Inv, Types, TypeOK
<1>6. plan'[p].status = "active" /\ plan'[p].v2
  BY <1>5 DEF Created
<1>7. PlanSound(p)'
  <2>1. DOMAIN rounds'[p] = {}
    BY <1>1, <1>3 DEF PlanSound
  <2>2. 1..0 = {} /\ 0 \in 0..Target
    BY NumbersSound
  <2> QED
    BY <1>6, <2>1, <2>2 DEF PlanSound
<1>8. \A s \in Requests \ {r} : ~Inserted(s)
  BY <1>1 DEF Inv, Exclusive
<1>9. \A s \in Requests \ {r} : Holds(s) => tx[s].plan # p
  BY <1>1 DEF Inv, RequestSound
<1>10. /\ DOMAIN rounds' = Plans /\ restores' \in [Plans -> Nat] /\ DOMAIN rounds'[p] \subseteq RoundNumbers
       /\ \A no \in DOMAIN rounds'[p] : rounds'[p][no] \in Round
  BY <1>1, <1>3 DEF Inv, Types, TypeOK
<1>11. \A q \in Plans \ {p} : plan'[q] = plan[q] /\ rounds'[q] = rounds[q]
  BY <1>3, <1>5
<1> QED
  BY <1>1, <1>3, <1>5, <1>7, <1>8, <1>9, <1>10, <1>11, WritePreserves

-----------------------------------------------------------------------------
(* startRound *)

LEMMA StartReadPreserves ==
  ASSUME Inv, NEW r \in Requests, NEW p \in Plans, StartRead(r, p)
  PROVE  Inv'
<1>1. CASE plan[p].status # "active" \/ \E no \in DOMAIN rounds[p] : IsOpen(p, no)
  BY <1>1, EndPreserves DEF StartRead
<1>2. CASE plan[p].status = "active" /\ \A no \in DOMAIN rounds[p] : ~IsOpen(p, no)
  <2>1. \A no \in DOMAIN rounds[p] : rounds[p][no].ended
    BY <1>2 DEF IsOpen
  <2>2. Lock(r, "start", p, 0) /\ UNCHANGED <<plan, rounds, restores, reply>> /\ tx[r] = Idle /\ PlanFree(p)
    BY <1>2 DEF StartRead
  <2>3. 0 \in RoundNumbers
    BY NumbersSound DEF RoundNumbers
  <2> QED
    BY <1>2, <2>1, <2>2, <2>3, LockPreserves
<1> QED
  BY <1>1, <1>2

(* With the rounds numbered 1..k the next number is k + 1, and k is how    *)
(* many there are.                                                         *)
LEMMA Counting ==
  ASSUME Inv, NEW p \in Plans, NEW k \in 0..Target, DOMAIN rounds[p] \ {0} = 1..k
  PROVE  /\ Reviews(p) = 1..k
         /\ NextNo(p) = k + 1
         /\ TargetReached(p) <=> k = Target
<1>1. Reviews(p) = 1..k
  BY DEF Inv, PlanSound, Reviews
<1>2. NextNo(p) = k + 1
  <2>1. CASE k = 0
    BY <1>1, <2>1 DEF NextNo
  <2>2. CASE k > 0
    <3>1. k \in 1..k /\ \A y \in 1..k : k >= y
      BY <2>2
    <3>2. Max(1..k) = k
      BY <3>1 DEF Max
    <3> QED
      BY <1>1, <2>2, <3>1, <3>2 DEF NextNo
  <2> QED
    BY <2>1, <2>2
<1>3. TargetReached(p) <=> k = Target
  <2>1. Cardinality(1..k) = k
    <3>1. 1 \in Int /\ k \in Int /\ k >= 0
      BY NumbersSound
    <3>2. Cardinality(1..k) = IF 1 > k THEN 0 ELSE k - 1 + 1
      BY <3>1, FS_Interval
    <3> QED
      BY <3>1, <3>2
  <2> QED
    BY <1>1, <2>1, NumbersSound DEF TargetReached
<1> QED
  BY <1>1, <1>2, <1>3

(* A start that writes: the new round and its plan.                        *)
LEMMA StartWriteAdds ==
  ASSUME Inv, NEW r \in Requests, StartWrite(r), UNCHANGED rounds => FALSE
  PROVE  \E p \in Plans, no \in RoundNumbers, kind \in {"exposure", "recall"} :
           /\ p = tx[r].plan /\ no \notin DOMAIN rounds[p]
           /\ rounds' = [rounds EXCEPT ![p] = [n \in DOMAIN @ \cup {no} |->
                           IF n = no THEN NewRound(kind) ELSE @[n]]]
           /\ kind = "exposure" <=> no = 0
           /\ End(r, "ok") /\ UNCHANGED <<plan, restores>>
           /\ plan[p].withNew => no = 0 \/ 0 \in DOMAIN rounds[p]
           /\ \E k \in 0..Target : (DOMAIN rounds[p] \cup {no}) \ {0} = 1..k
<1>1. PICK p \in Plans : p = tx[r].plan
  BY DEF StartWrite, Inv, RequestSound, Holds
<1>2. /\ PlanSound(p) /\ tx[r].read = plan[p]
  BY <1>1 DEF StartWrite, Inv, RequestSound, Holds
<1>3. PICK k \in 0..Target : DOMAIN rounds[p] \ {0} = 1..k
  BY <1>2 DEF PlanSound
<1>4. UNCHANGED <<plan, restores>>
  BY DEF StartWrite
<1>5. CASE NeedsExposure(r)
  <2>1. 0 \notin DOMAIN rounds[p] /\ 0 \in RoundNumbers
    BY <1>1, <1>5, NumbersSound DEF NeedsExposure, RoundNumbers
  <2>2. /\ rounds' = [rounds EXCEPT ![p] = [n \in DOMAIN @ \cup {0} |->
                           IF n = 0 THEN NewRound("exposure") ELSE @[n]]]
        /\ End(r, "ok")
    BY <1>1, <1>5, <2>1 DEF StartWrite
  <2>3. (DOMAIN rounds[p] \cup {0}) \ {0} = 1..k
    BY <1>3, <2>1
  <2> QED
    BY <1>1, <1>3, <1>4, <2>1, <2>2, <2>3
<1>6. CASE ~NeedsExposure(r)
  <2>1. NextNo(p) = k + 1 /\ (TargetReached(p) <=> k = Target)
    BY <1>3, Counting
  <2>2. k # Target
    BY <1>1, <1>6, <2>1 DEF StartWrite
  <2>3. k + 1 \in RoundNumbers /\ k + 1 # 0 /\ k + 1 \in 0..Target
    BY <2>2, NumbersSound DEF RoundNumbers
  <2>4. k + 1 \notin DOMAIN rounds[p]
    BY <1>3, <2>3
  <2>5. /\ rounds' = [rounds EXCEPT ![p] = [n \in DOMAIN @ \cup {k + 1} |->
                           IF n = k + 1 THEN NewRound("recall") ELSE @[n]]]
        /\ End(r, "ok")
    BY <1>1, <1>6, <2>1, <2>2, <2>4 DEF StartWrite
  <2>6. (DOMAIN rounds[p] \cup {k + 1}) \ {0} = 1..(k + 1)
    BY <1>3, <2>3
  <2>7. plan[p].withNew => 0 \in DOMAIN rounds[p]
    BY <1>1, <1>2, <1>6 DEF NeedsExposure, PlanSound
  <2> QED
    BY <1>1, <1>4, <2>3, <2>4, <2>5, <2>6, <2>7
<1> QED
  BY <1>5, <1>6

(* Without a new round a start has ended without a write.                  *)
LEMMA StartWriteNothing ==
  ASSUME Inv, NEW r \in Requests, StartWrite(r), UNCHANGED rounds
  PROVE  Inv'
<1>1. PICK p \in Plans : p = tx[r].plan
  BY DEF StartWrite, Inv, RequestSound, Holds
<1>2. PlanSound(p)
  BY DEF Inv
<1>3. PICK k \in 0..Target : DOMAIN rounds[p] \ {0} = 1..k
  BY <1>2 DEF PlanSound
<1>4. NextNo(p) = k + 1 /\ NextNo(p) \notin DOMAIN rounds[p]
  BY <1>3, Counting
<1>5. End(r, "ok")
  <2>1. CASE NeedsExposure(r)
    <3>1. 0 \notin DOMAIN rounds[p]
      BY <1>1, <2>1 DEF NeedsExposure
    <3> QED
      BY <1>1, <2>1, <3>1 DEF StartWrite
  <2>2. CASE ~NeedsExposure(r)
    BY <1>1, <1>4, <2>2 DEF StartWrite
  <2> QED
    BY <2>1, <2>2
<1> QED
  BY <1>5, EndPreserves DEF StartWrite

LEMMA StartWritePreserves ==
  ASSUME Inv, NEW r \in Requests, StartWrite(r)
  PROVE  Inv'
<1>1. CASE UNCHANGED rounds
  BY <1>1, StartWriteNothing
<1>2. CASE ~UNCHANGED rounds
  <2>1. PICK p \in Plans, no \in RoundNumbers, kind \in {"exposure", "recall"} :
           /\ p = tx[r].plan /\ no \notin DOMAIN rounds[p]
           /\ rounds' = [rounds EXCEPT ![p] = [n \in DOMAIN @ \cup {no} |->
                           IF n = no THEN NewRound(kind) ELSE @[n]]]
           /\ kind = "exposure" <=> no = 0
           /\ End(r, "ok") /\ UNCHANGED <<plan, restores>>
           /\ plan[p].withNew => no = 0 \/ 0 \in DOMAIN rounds[p]
           /\ \E k \in 0..Target : (DOMAIN rounds[p] \cup {no}) \ {0} = 1..k
    BY <1>2, StartWriteAdds
  <2>2. /\ DOMAIN rounds' = Plans /\ DOMAIN rounds'[p] = DOMAIN rounds[p] \cup {no}
        /\ rounds'[p][no] = NewRound(kind)
        /\ \A n \in DOMAIN rounds[p] : rounds'[p][n] = rounds[p][n]
        /\ \A q \in Plans \ {p} : rounds'[q] = rounds[q]
    BY <2>1 DEF Inv, Types
  <2>3. /\ NewRound(kind) \in Round /\ NewRound(kind).kind = kind /\ ~NewRound(kind).ended
        /\ NewRound(kind).pages = 0
    BY DEF NewRound, Round
  <2>4. /\ Holds(r) /\ PlanSound(p) /\ plan[p].status = "active"
        /\ \A n \in DOMAIN rounds[p] : rounds[p][n].ended
    BY <2>1 DEF StartWrite, Holds, Inv, RequestSound
  <2>5. PlanSound(p)'
    <3>1. \A n \in DOMAIN rounds'[p] : n # no => n \in DOMAIN rounds[p] /\ rounds'[p][n] = rounds[p][n]
      BY <2>2
    <3>2. \A n \in DOMAIN rounds'[p] : rounds'[p][n].kind = "exposure" <=> n = 0
      BY <2>1, <2>2, <2>3, <2>4, <3>1 DEF PlanSound
    <3>3. \A n \in DOMAIN rounds'[p] : ~rounds'[p][n].ended => n = no
      BY <2>4, <3>1
    <3>4. \A n \in DOMAIN rounds'[p] :
            /\ \A page \in 0..(Pages - 1) : page < rounds'[p][n].pages => page \in rounds'[p][n].settled
            /\ rounds'[p][n].ended /\ rounds'[p][n].kind = "recall" => rounds'[p][n].pages >= Pages
      BY <2>2, <2>3, <2>4, <3>1 DEF PlanSound
    <3>5. plan'[p].withNew => plan'[p].v2 /\ 0 \in DOMAIN rounds'[p]
      BY <2>1, <2>2, <2>4 DEF PlanSound
    <3>6. plan'[p].status # "none" /\ \E k \in 0..Target : DOMAIN rounds'[p] \ {0} = 1..k
      BY <2>1, <2>2, <2>4
    <3> QED
      BY <3>2, <3>3, <3>4, <3>5, <3>6 DEF PlanSound, IsOpen
  <2>6. \A s \in Requests \ {r} : Holds(s) => tx[s].plan # p
    BY <2>1, <2>4 DEF Inv, Exclusive
  <2>7. /\ plan' \in [Plans -> Plan] /\ restores' \in [Plans -> Nat]
        /\ DOMAIN rounds'[p] \subseteq RoundNumbers
        /\ \A n \in DOMAIN rounds'[p] : rounds'[p][n] \in Round
    BY <2>1, <2>2, <2>3 DEF Inv, Types, TypeOK
  <2> QED
    BY ZenonT(60), <2>1, <2>2, <2>5, <2>6, <2>7, WritePreserves
<1> QED
  BY <1>1, <1>2

-----------------------------------------------------------------------------
(* settlePage *)

LEMMA SettlePreserves ==
  ASSUME Inv, NEW p \in Plans, NEW no \in RoundNumbers, NEW page \in 0..Pages, SettlePage(p, no, page)
  PROVE  Inv'
<1> DEFINE round == rounds[p][no]
<1>1. no \in DOMAIN rounds[p] /\ ~rounds[p][no].ended /\ rounds[p][no].pages = page
  BY DEF SettlePage, Settles, IsOpen
<1>2. rounds[p][no] \in Round /\ page \in Nat
  BY <1>1, NumbersSound DEF Inv, Types, TypeOK
<1>3. rounds' = [rounds EXCEPT ![p] = [@ EXCEPT ![no] = [round EXCEPT !.pages = @ + 1, !.settled = @ \cup {page}]]]
  BY <1>1 DEF SettlePage, Inv, Types, TypeOK
<1>4. /\ DOMAIN rounds' = Plans /\ \A q \in Plans \ {p} : rounds'[q] = rounds[q]
      /\ DOMAIN rounds'[p] = DOMAIN rounds[p]
      /\ \A n \in DOMAIN rounds[p] : n # no => rounds'[p][n] = rounds[p][n]
      /\ rounds'[p][no] = [round EXCEPT !.pages = @ + 1, !.settled = @ \cup {page}]
  BY <1>1, <1>3 DEF Inv, Types
<1>5. /\ rounds'[p][no] \in Round
      /\ rounds'[p][no].pages = page + 1 /\ rounds'[p][no].settled = rounds[p][no].settled \cup {page}
      /\ rounds'[p][no].kind = rounds[p][no].kind /\ ~rounds'[p][no].ended
  <2>1. PICK x \in Round : x = rounds[p][no]
    BY <1>2
  <2>2. rounds'[p][no] = [x EXCEPT !.pages = @ + 1, !.settled = @ \cup {page}]
    BY <1>4, <2>1
  <2>3. /\ rounds'[p][no].pages = x.pages + 1 /\ rounds'[p][no].settled = x.settled \cup {page}
        /\ rounds'[p][no].kind = x.kind /\ (rounds'[p][no].ended <=> x.ended)
    BY <2>2 DEF Round
  <2>4. rounds'[p][no] \in Round
    <3>1. x.pages + 1 \in Nat /\ x.settled \cup {page} \in SUBSET Nat
      BY <1>2 DEF Round
    <3>2. PICK n \in Nat, S \in SUBSET Nat : n = x.pages + 1 /\ S = x.settled \cup {page}
      BY <3>1
    <3>3. rounds'[p][no] = [x EXCEPT !.pages = n, !.settled = S]
      BY <2>2, <3>2 DEF Round
    <3> QED
      BY <3>3 DEF Round
  <2> QED
    BY <1>1, <2>1, <2>3, <2>4
<1>6. UNCHANGED <<plan, tx, reply, restores>>
  BY DEF SettlePage
<1>7. Types' /\ StartsNeverCollide' /\ Exclusive'
  BY <1>4, <1>5, <1>6 DEF Inv, Types, TypeOK, StartsNeverCollide, Exclusive, Holds, Inserted
<1>8. \A n \in DOMAIN rounds[p] : /\ rounds'[p][n].ended <=> rounds[p][n].ended
                                  /\ rounds'[p][n].kind = rounds[p][n].kind
                                  /\ rounds'[p][n].pages >= rounds[p][n].pages
  <2>1. ASSUME NEW n \in DOMAIN rounds[p], n # no
        PROVE  rounds'[p][n] = rounds[p][n] /\ rounds[p][n].pages \in Nat
    BY <1>4, <2>1 DEF Inv, Types, TypeOK, Round
  <2> QED
    BY <1>1, <1>2, <1>5, <2>1
<1>9. PlanSound(p)'
  <2>1. PlanSound(p)
    BY DEF Inv
  <2>2. \A n \in DOMAIN rounds'[p] :
          /\ \A i \in 0..(Pages - 1) : i < rounds'[p][n].pages => i \in rounds'[p][n].settled
          /\ rounds'[p][n].ended /\ rounds'[p][n].kind = "recall" => rounds'[p][n].pages >= Pages
    <3>1. ASSUME NEW n \in DOMAIN rounds[p], n # no
          PROVE  rounds'[p][n] = rounds[p][n]
      BY <1>4, <3>1
    <3>2. \A i \in 0..(Pages - 1) : i < page + 1 => i \in rounds[p][no].settled \cup {page}
      BY <1>1, <1>2, <2>1, NumbersSound DEF PlanSound
    <3> QED
      <4>1. \A n \in DOMAIN rounds[p] : n # no =>
              /\ \A i \in 0..(Pages - 1) : i < rounds'[p][n].pages => i \in rounds'[p][n].settled
              /\ rounds'[p][n].ended /\ rounds'[p][n].kind = "recall" => rounds'[p][n].pages >= Pages
        BY <2>1, <3>1 DEF PlanSound
      <4>2. \A i \in 0..(Pages - 1) : i < rounds'[p][no].pages => i \in rounds'[p][no].settled
        BY <1>5, <3>2
      <4> QED
        BY <1>4, <1>5, <4>1, <4>2
  <2> QED
    BY <1>4, <1>6, <1>8, <2>1, <2>2 DEF PlanSound, IsOpen
<1>10. \A q \in Plans : PlanSound(q)'
  BY <1>4, <1>6, <1>9, SamePlan DEF Inv
<1>11. ASSUME NEW s \in Requests PROVE RequestSound(s)'
  <2>1. RequestSound(s) /\ tx'[s] = tx[s] /\ plan' = plan
    BY <1>6 DEF Inv
  <2>2. CASE Holds(s) /\ tx[s].plan = p
    <3>1. tx[s].op = "finish" => tx[s].no \in DOMAIN rounds[p] /\ rounds[p][tx[s].no].pages \in Nat
      BY <2>1, <2>2 DEF RequestSound, MayFinish, IsOpen, Inv, Types, TypeOK, Round
    <3>2. tx[s].op = "finish" => MayFinish(tx[s].plan, tx[s].no)'
      <4>1. ASSUME tx[s].op = "finish" PROVE MayFinish(tx[s].plan, tx[s].no)'
        <5>1. /\ rounds'[p][tx[s].no].ended <=> rounds[p][tx[s].no].ended
              /\ rounds'[p][tx[s].no].kind = rounds[p][tx[s].no].kind
              /\ rounds'[p][tx[s].no].pages >= rounds[p][tx[s].no].pages
          BY <1>8, <3>1, <4>1
        <5>2. rounds'[p][tx[s].no].pages \in Nat
          BY <1>4, <1>7, <3>1, <4>1 DEF Types, TypeOK, Round
        <5>3. MayFinish(p, tx[s].no)
          BY <2>1, <2>2, <4>1 DEF RequestSound
        <5> QED
          BY <1>4, <2>1, <2>2, <3>1, <4>1, <5>1, <5>2, <5>3, NumbersSound DEF MayFinish, IsOpen
      <4> QED
        BY <4>1
    <3> QED
      BY <1>1, <1>4, <1>8, <2>1, <2>2, <3>2 DEF RequestSound, Holds, Inserted
  <2>3. CASE ~(Holds(s) /\ tx[s].plan = p)
    <3>1. Inserted(s) => Active' = {}
      BY <2>1 DEF RequestSound, Active
    <3>2. Holds(s) => tx[s].plan \in Plans \ {p}
      BY <2>1, <2>3 DEF RequestSound
    <3> QED
      BY <1>4, <2>1, <3>1, <3>2, SameRequest
  <2> QED
    BY <2>2, <2>3
<1> QED
  BY <1>7, <1>10, <1>11 DEF Inv

-----------------------------------------------------------------------------
(* finishRound and abandonPlan *)

LEMMA FinishReadPreserves ==
  ASSUME Inv, NEW r \in Requests, NEW p \in Plans, NEW no \in RoundNumbers, FinishRead(r, p, no)
  PROVE  Inv'
<1>1. CASE MayFinish(p, no)
  BY <1>1, LockPreserves DEF FinishRead
<1>2. CASE ~MayFinish(p, no)
  BY <1>2, EndPreserves DEF FinishRead
<1> QED
  BY <1>1, <1>2

LEMMA AbandonReadPreserves ==
  ASSUME Inv, NEW r \in Requests, NEW p \in Plans, AbandonRead(r, p)
  PROVE  Inv'
<1>1. CASE plan[p].status = "active"
  <2>1. 0 \in RoundNumbers
    BY NumbersSound DEF RoundNumbers
  <2> QED
    BY <1>1, <2>1, LockPreserves DEF AbandonRead
<1>2. CASE plan[p].status # "active"
  BY <1>2, EndPreserves DEF AbandonRead
<1> QED
  BY <1>1, <1>2

(* What ending a plan does to its row.                                     *)
LEMMA Ending ==
  ASSUME Inv, NEW r \in Requests, NEW p \in Plans, p = tx[r].plan, tx[r].read = plan[p],
         NEW status \in {"completed", "abandoned"}, SetStatus(r, status), GiveBack(r)
  PROVE  /\ plan' \in [Plans -> Plan] /\ restores' \in [Plans -> Nat]
         /\ plan'[p].status = status /\ ~plan'[p].snapshot
         /\ plan'[p].withNew <=> plan[p].withNew
         /\ plan'[p].v2 <=> plan[p].v2
         /\ \A q \in Plans \ {p} : plan'[q] = plan[q]
         /\ restores' = [restores EXCEPT ![p] = IF plan[p].snapshot THEN @ + 1 ELSE @]
<1>1. PICK x \in Plan : x = plan[p]
  BY DEF Inv, Types, TypeOK
<1>2. plan' = [plan EXCEPT ![p] = [x EXCEPT !.status = status, !.snapshot = FALSE]]
  BY <1>1 DEF SetStatus, Inv, Types, TypeOK, Plan
<1>3. [x EXCEPT !.status = status, !.snapshot = FALSE] \in Plan
  BY DEF Plan, Statuses
<1>4. LET y == [x EXCEPT !.status = status, !.snapshot = FALSE]
      IN y.status = status /\ ~y.snapshot /\ (y.withNew <=> x.withNew) /\ (y.v2 <=> x.v2)
  BY DEF Plan
<1>5. /\ plan' \in [Plans -> Plan] /\ \A q \in Plans \ {p} : plan'[q] = plan[q]
      /\ plan'[p] = [x EXCEPT !.status = status, !.snapshot = FALSE]
  BY <1>2, <1>3 DEF Inv, Types, TypeOK
<1>6. restores' = [restores EXCEPT ![p] = IF plan[p].snapshot THEN @ + 1 ELSE @]
  BY DEF GiveBack, Inv, Types, TypeOK
<1>7. restores' \in [Plans -> Nat]
  BY <1>6 DEF Inv, Types, TypeOK
<1> QED
  BY <1>1, <1>4, <1>5, <1>6, <1>7

(* A finish finds its round open, as it found it under the lock.           *)
LEMMA Finishing ==
  ASSUME Inv, NEW r \in Requests, FinishWrite(r)
  PROVE  \E p \in Plans, no \in RoundNumbers :
           /\ p = tx[r].plan /\ tx[r].read = plan[p] /\ Holds(r) /\ MayFinish(p, no)
           /\ DOMAIN rounds' = Plans /\ \A q \in Plans \ {p} : rounds'[q] = rounds[q]
           /\ DOMAIN rounds'[p] = DOMAIN rounds[p]
           /\ \A n \in DOMAIN rounds[p] : n # no => rounds'[p][n] = rounds[p][n]
           /\ rounds'[p][no] \in Round /\ rounds'[p][no].ended
           /\ rounds'[p][no].kind = rounds[p][no].kind /\ rounds'[p][no].pages = rounds[p][no].pages
           /\ rounds'[p][no].settled = rounds[p][no].settled
           /\ End(r, "ok")
           /\ \/ /\ rounds[p][no].kind = "recall" /\ no = Target /\ plan[p].status = "active"
                 /\ SetStatus(r, "completed") /\ GiveBack(r)
              \/ UNCHANGED <<plan, restores>>
<1>1. PICK p \in Plans : p = tx[r].plan
  BY DEF FinishWrite, Inv, RequestSound, Holds
<1>2. /\ tx[r].read = plan[p] /\ Holds(r) /\ MayFinish(p, tx[r].no)
  BY <1>1 DEF FinishWrite, Inv, RequestSound, Holds
<1>3. PICK no \in RoundNumbers : no = tx[r].no
  BY <1>2 DEF MayFinish, IsOpen, Inv, Types, TypeOK
<1>4. no \in DOMAIN rounds[p] /\ IsOpen(p, no) /\ MayFinish(p, no)
  BY <1>2, <1>3 DEF MayFinish, IsOpen
<1>5. PICK x \in Round : x = rounds[p][no]
  BY <1>4 DEF Inv, Types, TypeOK
<1>6. rounds' = [rounds EXCEPT ![p] = [@ EXCEPT ![no] = [x EXCEPT !.ended = TRUE]]]
  BY <1>1, <1>3, <1>4, <1>5 DEF FinishWrite, Inv, Types
<1>7. /\ DOMAIN rounds' = Plans /\ \A q \in Plans \ {p} : rounds'[q] = rounds[q]
      /\ DOMAIN rounds'[p] = DOMAIN rounds[p]
      /\ \A n \in DOMAIN rounds[p] : n # no => rounds'[p][n] = rounds[p][n]
      /\ rounds'[p][no] = [x EXCEPT !.ended = TRUE]
  BY <1>4, <1>6 DEF Inv, Types
<1>8. /\ rounds'[p][no] \in Round /\ rounds'[p][no].ended
      /\ rounds'[p][no].kind = x.kind /\ rounds'[p][no].pages = x.pages
      /\ rounds'[p][no].settled = x.settled
  BY <1>7 DEF Round
<1>9. no >= Target => no = Target
  BY NumbersSound DEF RoundNumbers
<1>10. /\ End(r, "ok")
       /\ \/ /\ rounds[p][no].kind = "recall" /\ no >= Target /\ plan[p].status = "active"
             /\ SetStatus(r, "completed") /\ GiveBack(r)
          \/ UNCHANGED <<plan, restores>>
  BY <1>1, <1>2, <1>3, <1>4 DEF FinishWrite
<1>11. /\ rounds'[p][no].kind = rounds[p][no].kind /\ rounds'[p][no].pages = rounds[p][no].pages
       /\ rounds'[p][no].settled = rounds[p][no].settled
  BY <1>5, <1>8
<1>12. \/ /\ rounds[p][no].kind = "recall" /\ no = Target /\ plan[p].status = "active"
          /\ SetStatus(r, "completed") /\ GiveBack(r)
       \/ UNCHANGED <<plan, restores>>
  BY <1>9, <1>10
<1> WITNESS p \in Plans, no \in RoundNumbers
<1> QED
  BY <1>1, <1>2, <1>4, <1>7, <1>8, <1>10, <1>11, <1>12

LEMMA FinishWritePreserves ==
  ASSUME Inv, NEW r \in Requests, FinishWrite(r)
  PROVE  Inv'
<1>1. PICK p \in Plans, no \in RoundNumbers :
           /\ p = tx[r].plan /\ tx[r].read = plan[p] /\ Holds(r) /\ MayFinish(p, no)
           /\ DOMAIN rounds' = Plans /\ \A q \in Plans \ {p} : rounds'[q] = rounds[q]
           /\ DOMAIN rounds'[p] = DOMAIN rounds[p]
           /\ \A n \in DOMAIN rounds[p] : n # no => rounds'[p][n] = rounds[p][n]
           /\ rounds'[p][no] \in Round /\ rounds'[p][no].ended
           /\ rounds'[p][no].kind = rounds[p][no].kind /\ rounds'[p][no].pages = rounds[p][no].pages
           /\ rounds'[p][no].settled = rounds[p][no].settled
           /\ End(r, "ok")
           /\ \/ /\ rounds[p][no].kind = "recall" /\ no = Target /\ plan[p].status = "active"
                 /\ SetStatus(r, "completed") /\ GiveBack(r)
              \/ UNCHANGED <<plan, restores>>
  BY Finishing
<1>2. /\ plan' \in [Plans -> Plan] /\ restores' \in [Plans -> Nat]
      /\ plan'[p].withNew <=> plan[p].withNew
      /\ plan'[p].v2 <=> plan[p].v2
      /\ plan'[p].status = "none" => plan[p].status = "none"
      /\ \A q \in Plans \ {p} : plan'[q] = plan[q]
      /\ plan[p].status = "active" \/ UNCHANGED plan
  <2>1. CASE SetStatus(r, "completed") /\ GiveBack(r) /\ plan[p].status = "active"
    BY SMTT(30), <1>1, <2>1, Ending
  <2>2. CASE UNCHANGED <<plan, restores>>
    BY <2>2 DEF Inv, Types, TypeOK
  <2> QED
    BY <1>1, <2>1, <2>2
<1>3. \A s \in Requests \ {r} : Holds(s) => tx[s].plan # p
  BY <1>1 DEF Inv, Exclusive
<1>4. \A s \in Requests \ {r} : ~Inserted(s) \/ UNCHANGED plan
  BY <1>2 DEF Inv, RequestSound, Active
<1>5. PlanSound(p) /\ no \in DOMAIN rounds[p] /\ IsOpen(p, no)
  BY <1>1 DEF Inv, MayFinish, IsOpen
<1>6. PlanSound(p)'
  <2>0. /\ DOMAIN rounds'[p] = DOMAIN rounds[p]
        /\ \A n \in DOMAIN rounds[p] : n # no => rounds'[p][n] = rounds[p][n]
    BY <1>1
  <2>1. \A n \in DOMAIN rounds[p] : rounds'[p][n].kind = rounds[p][n].kind
    BY <1>1
  <2>2. \A n \in DOMAIN rounds[p] : rounds'[p][n].ended
    BY <1>1, <1>5 DEF PlanSound, IsOpen
  <2>3. \A n \in DOMAIN rounds[p] :
          /\ \A i \in 0..(Pages - 1) : i < rounds'[p][n].pages => i \in rounds'[p][n].settled
          /\ rounds'[p][n].ended /\ rounds'[p][n].kind = "recall" => rounds'[p][n].pages >= Pages
    <3>1. \A n \in DOMAIN rounds[p] : n # no =>
            /\ \A i \in 0..(Pages - 1) : i < rounds'[p][n].pages => i \in rounds'[p][n].settled
            /\ rounds'[p][n].ended /\ rounds'[p][n].kind = "recall" => rounds'[p][n].pages >= Pages
      BY <1>5, <2>0 DEF PlanSound
    <3>2. \A i \in 0..(Pages - 1) : i < rounds'[p][no].pages => i \in rounds'[p][no].settled
      BY <1>1, <1>5 DEF PlanSound
    <3>3. rounds'[p][no].kind = "recall" => rounds'[p][no].pages >= Pages
      BY <1>1 DEF MayFinish
    <3> QED
      BY <3>1, <3>2, <3>3
  <2>4. (\E k \in 0..Target : DOMAIN rounds'[p] \ {0} = 1..k)
        /\ \A n \in DOMAIN rounds'[p] : rounds'[p][n].kind = "exposure" <=> n = 0
    BY <1>5, <2>0, <2>1 DEF PlanSound
  <2>5. /\ plan'[p].withNew => plan'[p].v2 /\ (DOMAIN rounds'[p] # {} => 0 \in DOMAIN rounds'[p])
        /\ plan'[p].status = "none" => DOMAIN rounds'[p] = {}
    BY <1>1, <1>2, <1>5 DEF PlanSound
  <2> QED
    BY <1>1, <2>2, <2>3, <2>4, <2>5 DEF PlanSound, IsOpen
<1>7. /\ DOMAIN rounds'[p] \subseteq RoundNumbers
      /\ \A n \in DOMAIN rounds'[p] : rounds'[p][n] \in Round
  BY <1>1 DEF Inv, Types, TypeOK
<1>8. \A q \in Plans \ {p} : plan'[q] = plan[q] /\ rounds'[q] = rounds[q]
  BY <1>1, <1>2
<1> QED
  BY <1>1, <1>2, <1>3, <1>4, <1>6, <1>7, <1>8, WritePreserves

LEMMA AbandonWritePreserves ==
  ASSUME Inv, NEW r \in Requests, AbandonWrite(r)
  PROVE  Inv'
<1>1. PICK p \in Plans : p = tx[r].plan
  BY DEF AbandonWrite, Inv, RequestSound, Holds
<1>2. /\ Holds(r) /\ tx[r].read = plan[p] /\ plan[p].status = "active" /\ PlanSound(p)
      /\ SetStatus(r, "abandoned") /\ GiveBack(r) /\ End(r, "ok") /\ UNCHANGED rounds
  BY <1>1 DEF AbandonWrite, Inv, RequestSound, Holds
<1>3. /\ plan' \in [Plans -> Plan] /\ restores' \in [Plans -> Nat]
      /\ plan'[p].withNew <=> plan[p].withNew
      /\ plan'[p].v2 <=> plan[p].v2
      /\ plan'[p].status = "abandoned"
      /\ \A q \in Plans \ {p} : plan'[q] = plan[q]
  BY <1>1, <1>2, Ending
<1>4. \A s \in Requests \ {r} : Holds(s) => tx[s].plan # p
  BY <1>1, <1>2 DEF Inv, Exclusive
<1>5. \A s \in Requests \ {r} : ~Inserted(s)
  BY <1>2 DEF Inv, RequestSound, Active
<1>6. PlanSound(p)'
  BY <1>2, <1>3 DEF PlanSound, IsOpen
<1>7. /\ DOMAIN rounds' = Plans /\ DOMAIN rounds'[p] \subseteq RoundNumbers
      /\ \A n \in DOMAIN rounds'[p] : rounds'[p][n] \in Round
      /\ \A q \in Plans \ {p} : plan'[q] = plan[q] /\ rounds'[q] = rounds[q]
  BY <1>2, <1>3 DEF Inv, Types, TypeOK
<1> QED
  BY <1>2, <1>3, <1>4, <1>5, <1>6, <1>7, WritePreserves

-----------------------------------------------------------------------------

LEMMA NextInv == Inv /\ [Next]_vars => Inv'
<1> SUFFICES ASSUME Inv, [Next]_vars PROVE Inv'
  OBVIOUS
<1>1. CASE UNCHANGED vars
  <2>1. Types' /\ StartsNeverCollide' /\ Exclusive'
    BY <1>1 DEF vars, Inv, Types, TypeOK, StartsNeverCollide, Exclusive, Holds, Inserted
  <2>2. \A p \in Plans : PlanSound(p)'
    BY <1>1, SamePlan DEF vars, Inv
  <2>3. ASSUME NEW r \in Requests PROVE RequestSound(r)'
    <3>1. RequestSound(r) /\ tx'[r] = tx[r] /\ UNCHANGED <<plan, rounds>>
      BY <1>1 DEF vars, Inv
    <3>2. Inserted(r) => Active' = {}
      BY <3>1 DEF RequestSound, Active
    <3> QED
      BY <3>1, <3>2, SameRequest
  <2> QED
    BY <2>1, <2>2, <2>3 DEF Inv
<1>2. ASSUME NEW r \in Requests,
             CreateRead(r) \/ CreateInsert(r) \/ CreateCommit(r) \/ StartWrite(r)
               \/ FinishWrite(r) \/ AbandonWrite(r)
      PROVE  Inv'
  BY <1>2, CreateReadPreserves, CreateInsertPreserves, CreateCommitPreserves, StartWritePreserves,
     FinishWritePreserves, AbandonWritePreserves
<1>3. ASSUME NEW r \in Requests, Abort(r) PROVE Inv'
  BY <1>3, EndPreserves DEF Abort
<1>4. ASSUME NEW r \in Requests, NEW p \in Plans, StartRead(r, p) \/ AbandonRead(r, p) PROVE Inv'
  BY <1>4, StartReadPreserves, AbandonReadPreserves
<1>5. ASSUME NEW r \in Requests, NEW p \in Plans, NEW no \in RoundNumbers, FinishRead(r, p, no)
      PROVE  Inv'
  BY <1>5, FinishReadPreserves
<1>6. ASSUME NEW p \in Plans, NEW no \in RoundNumbers, NEW page \in 0..Pages, SettlePage(p, no, page)
      PROVE  Inv'
  BY <1>6, SettlePreserves
<1> QED
  BY <1>1, <1>2, <1>3, <1>4, <1>5, <1>6 DEF Next

LEMMA Invariance == Spec => []Inv
  BY InitInv, NextInv, PTL DEF Spec

(* Two rounds of a plan are never in progress, and a start never fails on  *)
(* a number that is taken, for any plans, requests, rounds and pages       *)
(* (hulu-plan.service.ts, startRound; there is no index on open rounds).   *)
THEOREM RoundsApart == Spec => []RoundsNeverClash
<1>1. Inv => RoundsNeverClash
  BY DEF Inv, Types, PlanSound, RoundsNeverClash, OneOpenRound
<1> QED
  BY <1>1, Invariance, PTL

-----------------------------------------------------------------------------
(* Refinement: locks, retries, pages and rounds in progress are invisible  *)
(* from the ledger of sprints.                                             *)

LEMMA SameViews ==
  ASSUME UNCHANGED <<plan, restores>>, \A p \in Plans : WorkedThrough(p)' = WorkedThrough(p)
  PROVE  UNCHANGED Ledger!ledger
  BY DEF Ledger!ledger, PhaseView, TodoView, WorkView, OwedView

LEMMA SameWork ==
  ASSUME NEW p, rounds'[p] = rounds[p]
  PROVE  WorkedThrough(p)' = WorkedThrough(p)
  BY DEF WorkedThrough

LEMMA InitLedger == Init => Ledger!LedgerInit
<1> SUFFICES ASSUME Init PROVE Ledger!LedgerInit
  OBVIOUS
<1>1. Inv
  BY InitInv
<1>2. restores = [p \in Plans |-> 0]
  BY DEF Init
<1>3. OwedView \in [Plans -> BOOLEAN]
  BY <1>1 DEF OwedView, Inv, Types, TypeOK, Plan
<1>4. \A p \in Plans : ~plan[p].withNew /\ 0 \notin DOMAIN rounds[p]
                       /\ (PhaseView[p] = "none" => DOMAIN rounds[p] = {})
  <2>1. CASE plan = [p \in Plans |-> Absent] /\ rounds = [p \in Plans |-> <<>>]
    BY <2>1 DEF Absent
  <2>2. ASSUME NEW old \in Plans, NEW n \in 0..Target, NEW ended \in BOOLEAN, NEW suspends \in BOOLEAN,
               plan = [[p \in Plans |-> Absent] EXCEPT ![old] = Created(FALSE, FALSE, suspends)],
               rounds = [[p \in Plans |-> <<>>] EXCEPT ![old] = Legacy(n, ended)]
        PROVE  \A p \in Plans : ~plan[p].withNew /\ 0 \notin DOMAIN rounds[p]
                                /\ (PhaseView[p] = "none" => DOMAIN rounds[p] = {})
    <3>1. DOMAIN rounds[old] = 1..n
      BY <2>2, LegacyRounds
    <3>2. plan[old].status = "active" /\ ~plan[old].withNew
      BY <2>2 DEF Created
    <3>3. \A p \in Plans : p # old => DOMAIN rounds[p] = {} /\ plan[p] = Absent
      BY <2>2
    <3> QED
      BY <3>1, <3>2, <3>3 DEF PhaseView, Absent
  <2> QED
    BY <2>1, <2>2 DEF Init
<1>5. TodoView = [p \in Plans |-> 1..Target]
  BY <1>4 DEF TodoView
<1>6. \A p \in Plans : WorkedThrough(p) \subseteq 1..Target /\ (PhaseView[p] = "none" => WorkedThrough(p) = {})
  BY <1>1, <1>4 DEF WorkedThrough, Inv, Types, TypeOK, RoundNumbers
<1>7. /\ WorkView \in [Plans -> SUBSET (1..Target)]
      /\ \A p \in Plans : PhaseView[p] = "none" => WorkView[p] = {}
  BY <1>6 DEF WorkView
<1>8. \/ PhaseView = [p \in Plans |-> "none"]
      \/ \E old \in Plans : PhaseView = [[p \in Plans |-> "none"] EXCEPT ![old] = "active"]
  <2>1. CASE plan = [p \in Plans |-> Absent]
    BY <2>1 DEF PhaseView, Absent
  <2>2. ASSUME NEW old \in Plans, NEW suspends \in BOOLEAN,
               plan = [[p \in Plans |-> Absent] EXCEPT ![old] = Created(FALSE, FALSE, suspends)]
        PROVE  PhaseView = [[p \in Plans |-> "none"] EXCEPT ![old] = "active"]
    <3>1. plan[old].status = "active" /\ \A p \in Plans : p # old => plan[p].status = "none"
      BY <2>2 DEF Created, Absent
    <3> QED
      BY <3>1 DEF PhaseView
  <2> QED
    BY <2>1, <2>2 DEF Init
<1> QED
  BY <1>2, <1>3, <1>5, <1>7, <1>8 DEF Ledger!LedgerInit

LEMMA CreateRefines ==
  ASSUME Inv, NEW r \in Requests, CreateCommit(r)
  PROVE  Ledger!LedgerNext
<1>1. PICK p \in Plans : p = tx[r].plan
  BY DEF CreateCommit, Inserted, Inv, RequestSound
<1>2. /\ plan[p].status = "none" /\ Active = {}
      /\ \E withNew, suspends \in BOOLEAN : tx[r].read = Created(TRUE, withNew, suspends)
  BY <1>1 DEF CreateCommit, Inserted, Inv, RequestSound
<1>3. PICK withNew \in BOOLEAN, suspends \in BOOLEAN : tx[r].read = Created(TRUE, withNew, suspends)
  BY <1>2
<1>4. plan' = [plan EXCEPT ![p] = Created(TRUE, withNew, suspends)] /\ UNCHANGED <<rounds, restores>>
  BY <1>1, <1>3 DEF CreateCommit
<1>5. /\ plan'[p].status = "active" /\ (plan'[p].withNew <=> withNew) /\ plan'[p].snapshot = suspends
      /\ \A q \in Plans : q # p => plan'[q] = plan[q]
  BY <1>4 DEF Created, Inv, Types, TypeOK
<1>6. PhaseView' = [PhaseView EXCEPT ![p] = "active"]
  BY <1>5 DEF PhaseView
<1>7. PhaseView[p] = "none" /\ \A other \in Plans : PhaseView[other] # "active"
  BY <1>2 DEF PhaseView, Active
<1>8. TodoView' = [TodoView EXCEPT ![p] = IF withNew THEN 0..Target ELSE 1..Target]
  BY <1>5 DEF TodoView
<1>9. \E scheme \in Ledger!Schemes : TodoView' = [TodoView EXCEPT ![p] = scheme]
  <2>1. (IF withNew THEN 0..Target ELSE 1..Target) \in Ledger!Schemes
    BY DEF Ledger!Schemes
  <2> QED
    BY <1>8, <2>1
<1>10. OwedView' = [OwedView EXCEPT ![p] = suspends]
  BY <1>5 DEF OwedView
<1>11. UNCHANGED <<WorkView, restores>>
  BY <1>4, SameWork DEF WorkView
<1>12. Ledger!Create(p)
  BY <1>6, <1>7, <1>9, <1>10, <1>11 DEF Ledger!Create
<1> QED
  BY <1>12 DEF Ledger!LedgerNext

(* A round that begins or that is paged through is in progress: it counts  *)
(* for nothing yet.                                                        *)
LEMMA StartRefines ==
  ASSUME Inv, NEW r \in Requests, StartWrite(r)
  PROVE  UNCHANGED Ledger!ledger
<1>1. CASE UNCHANGED rounds
  BY <1>1, SameViews, SameWork DEF StartWrite
<1>2. CASE ~UNCHANGED rounds
  <2>1. PICK p \in Plans, no \in RoundNumbers, kind \in {"exposure", "recall"} :
           /\ p = tx[r].plan /\ no \notin DOMAIN rounds[p]
           /\ rounds' = [rounds EXCEPT ![p] = [n \in DOMAIN @ \cup {no} |->
                           IF n = no THEN NewRound(kind) ELSE @[n]]]
           /\ kind = "exposure" <=> no = 0
           /\ End(r, "ok") /\ UNCHANGED <<plan, restores>>
           /\ plan[p].withNew => no = 0 \/ 0 \in DOMAIN rounds[p]
           /\ \E k \in 0..Target : (DOMAIN rounds[p] \cup {no}) \ {0} = 1..k
    BY <1>2, StartWriteAdds
  <2>2. /\ DOMAIN rounds'[p] = DOMAIN rounds[p] \cup {no}
        /\ ~rounds'[p][no].ended
        /\ \A n \in DOMAIN rounds[p] : rounds'[p][n] = rounds[p][n]
        /\ \A q \in Plans \ {p} : rounds'[q] = rounds[q]
    BY <2>1 DEF Inv, Types, NewRound
  <2>3. WorkedThrough(p)' = WorkedThrough(p)
    BY <2>1, <2>2 DEF WorkedThrough
  <2>4. \A q \in Plans : WorkedThrough(q)' = WorkedThrough(q)
    BY <2>2, <2>3, SameWork
  <2> QED
    BY <2>1, <2>4, SameViews
<1> QED
  BY <1>1, <1>2

LEMMA SettleRefines ==
  ASSUME Inv, NEW p \in Plans, NEW no \in RoundNumbers, NEW page \in 0..Pages, SettlePage(p, no, page)
  PROVE  UNCHANGED Ledger!ledger
<1>1. no \in DOMAIN rounds[p] /\ ~rounds[p][no].ended
  BY DEF SettlePage, Settles, IsOpen
<1>2. PICK x \in Round : x = rounds[p][no]
  BY <1>1 DEF Inv, Types, TypeOK
<1>3. rounds' = [rounds EXCEPT ![p] = [@ EXCEPT ![no] = [x EXCEPT !.pages = @ + 1, !.settled = @ \cup {page}]]]
  BY <1>1, <1>2 DEF SettlePage, Inv, Types
<1>4. /\ \A q \in Plans \ {p} : rounds'[q] = rounds[q]
      /\ DOMAIN rounds'[p] = DOMAIN rounds[p]
      /\ \A n \in DOMAIN rounds[p] : n # no => rounds'[p][n] = rounds[p][n]
      /\ rounds'[p][no] = [x EXCEPT !.pages = @ + 1, !.settled = @ \cup {page}]
  BY <1>1, <1>3 DEF Inv, Types
<1>5. ~rounds'[p][no].ended
  BY <1>1, <1>2, <1>4 DEF Round
<1>6. WorkedThrough(p)' = WorkedThrough(p)
  BY <1>1, <1>4, <1>5 DEF WorkedThrough
<1>7. \A q \in Plans : WorkedThrough(q)' = WorkedThrough(q)
  BY <1>4, <1>6, SameWork
<1> QED
  BY <1>7, SameViews DEF SettlePage

(* The end of a plan, as the ledger sees it.                               *)
LEMMA EndRefines ==
  ASSUME Inv, NEW r \in Requests, NEW p \in Plans, p = tx[r].plan, tx[r].read = plan[p],
         plan[p].status = "active",
         NEW status \in {"completed", "abandoned"}, SetStatus(r, status), GiveBack(r)
  PROVE  Ledger!End(p, status) /\ TodoView' = TodoView
<1>1. /\ plan'[p].status = status /\ ~plan'[p].snapshot
      /\ plan'[p].withNew <=> plan[p].withNew
      /\ \A q \in Plans \ {p} : plan'[q] = plan[q]
      /\ restores' = [restores EXCEPT ![p] = IF plan[p].snapshot THEN @ + 1 ELSE @]
  BY Ending
<1>2. plan'[p].snapshot = FALSE
  BY <1>1, Ending DEF Plan
<1>3. PhaseView[p] = "active" /\ PhaseView' = [PhaseView EXCEPT ![p] = status]
  BY <1>1 DEF PhaseView
<1>4. OwedView[p] = plan[p].snapshot /\ OwedView' = [OwedView EXCEPT ![p] = FALSE]
  BY <1>1, <1>2 DEF OwedView
<1>5. TodoView' = TodoView
  BY <1>1 DEF TodoView
<1> QED
  BY <1>1, <1>3, <1>4, <1>5 DEF Ledger!End

LEMMA AbandonRefines ==
  ASSUME Inv, NEW r \in Requests, AbandonWrite(r)
  PROVE  Ledger!LedgerNext
<1>1. PICK p \in Plans : p = tx[r].plan
  BY DEF AbandonWrite, Inv, RequestSound, Holds
<1>2. /\ tx[r].read = plan[p] /\ plan[p].status = "active"
      /\ SetStatus(r, "abandoned") /\ GiveBack(r) /\ UNCHANGED rounds
  BY <1>1 DEF AbandonWrite, Inv, RequestSound, Holds
<1>3. Ledger!End(p, "abandoned")
  BY <1>1, <1>2, EndRefines
<1>4. WorkView' = WorkView
  BY <1>2, SameWork DEF WorkView
<1> QED
  BY <1>3, <1>4 DEF Ledger!Abandon, Ledger!LedgerNext

LEMMA FinishRefines ==
  ASSUME Inv, NEW r \in Requests, FinishWrite(r)
  PROVE  Ledger!LedgerNext
<1>1. PICK p \in Plans, no \in RoundNumbers :
           /\ p = tx[r].plan /\ tx[r].read = plan[p] /\ Holds(r) /\ MayFinish(p, no)
           /\ DOMAIN rounds' = Plans /\ \A q \in Plans \ {p} : rounds'[q] = rounds[q]
           /\ DOMAIN rounds'[p] = DOMAIN rounds[p]
           /\ \A n \in DOMAIN rounds[p] : n # no => rounds'[p][n] = rounds[p][n]
           /\ rounds'[p][no] \in Round /\ rounds'[p][no].ended
           /\ rounds'[p][no].kind = rounds[p][no].kind /\ rounds'[p][no].pages = rounds[p][no].pages
           /\ rounds'[p][no].settled = rounds[p][no].settled
           /\ End(r, "ok")
           /\ \/ /\ rounds[p][no].kind = "recall" /\ no = Target /\ plan[p].status = "active"
                 /\ SetStatus(r, "completed") /\ GiveBack(r)
              \/ UNCHANGED <<plan, restores>>
  BY Finishing
<1>2. /\ no \in DOMAIN rounds[p] /\ ~rounds[p][no].ended /\ rounds[p][no] \in Round
      /\ PlanSound(p) /\ plan[p].status # "none"
  BY <1>1 DEF MayFinish, IsOpen, Inv, Types, TypeOK, PlanSound
<1>3. /\ DOMAIN rounds'[p] = DOMAIN rounds[p] /\ rounds'[p][no].ended
      /\ \A n \in DOMAIN rounds[p] : n # no => rounds'[p][n] = rounds[p][n]
  BY <1>1
<1>4. rounds'[p][no].kind = "recall" => 0..(Pages - 1) \subseteq rounds'[p][no].settled
  <2>1. rounds[p][no].kind = "recall" => rounds[p][no].pages >= Pages
    BY <1>1 DEF MayFinish
  <2>2. \A i \in 0..(Pages - 1) : i < rounds[p][no].pages => i \in rounds[p][no].settled
    BY <1>2 DEF PlanSound
  <2>3. rounds[p][no].pages \in Nat
    BY <1>2 DEF Round
  <2>4. rounds[p][no].kind = "recall" => \A i \in 0..(Pages - 1) : i \in rounds[p][no].settled
    BY <2>1, <2>2, <2>3, NumbersSound
  <2> QED
    BY <1>1, <2>4
<1>5. WorkedThrough(p)' = WorkedThrough(p) \cup {no}
  BY <1>2, <1>3, <1>4 DEF WorkedThrough
<1>6. WorkView' = [WorkView EXCEPT ![p] = @ \cup {no}]
  BY ZenonT(60), <1>1, <1>5, SameWork DEF WorkView
<1>7. no \in 0..Target
  BY DEF RoundNumbers
<1>8. CASE UNCHANGED <<plan, restores>>
  <2>1. PhaseView[p] # "none" /\ UNCHANGED <<PhaseView, TodoView, OwedView, restores>>
    BY <1>2, <1>8 DEF PhaseView, TodoView, OwedView
  <2>2. Ledger!Round(p, no)
    BY <1>6, <2>1 DEF Ledger!Round, Ledger!WorkThrough
  <2> QED
    BY <1>7, <2>2 DEF Ledger!LedgerNext
<1>9. CASE rounds[p][no].kind = "recall" /\ no = Target /\ plan[p].status = "active"
           /\ SetStatus(r, "completed") /\ GiveBack(r)
  <2>1. Ledger!End(p, "completed") /\ TodoView' = TodoView
    BY <1>1, <1>9, EndRefines
  <2>2. \A n \in DOMAIN rounds[p] : n # no => rounds[p][n].ended
    BY <1>2 DEF PlanSound, IsOpen
  <2>3. DOMAIN rounds[p] \subseteq WorkedThrough(p)'
    <3>1. ASSUME NEW n \in DOMAIN rounds[p], n # no, rounds[p][n].kind = "recall"
          PROVE  0..(Pages - 1) \subseteq rounds[p][n].settled
      <4>1. rounds[p][n].pages >= Pages /\ rounds[p][n].pages \in Nat
        BY <1>2, <2>2, <3>1 DEF PlanSound, Inv, Types, TypeOK, Round
      <4>2. \A i \in 0..(Pages - 1) : i < rounds[p][n].pages => i \in rounds[p][n].settled
        BY <1>2, <3>1 DEF PlanSound
      <4> QED
        BY <4>1, <4>2, NumbersSound
    <3>2. \A n \in DOMAIN rounds[p] : n # no => n \in WorkedThrough(p)
      BY <2>2, <3>1 DEF WorkedThrough
    <3> QED
      BY <1>5, <3>2
  <2>4. 1..Target \subseteq DOMAIN rounds[p]
    <3>1. PICK k \in 0..Target : DOMAIN rounds[p] \ {0} = 1..k
      BY <1>2 DEF PlanSound
    <3>2. Target \in 1..k
      BY <1>2, <1>9, <3>1, NumbersSound
    <3> QED
      BY <3>1, <3>2, NumbersSound
  <2>5. plan[p].withNew => 0 \in DOMAIN rounds[p]
    BY <1>2 DEF PlanSound
  <2>6. TodoView[p] \subseteq DOMAIN rounds[p]
    BY <2>4, <2>5, NumbersSound DEF TodoView
  <2>7. TodoView[p] \subseteq WorkView'[p]
    BY <2>3, <2>6 DEF WorkView
  <2>8. Ledger!Complete(p)
    BY <1>6, <1>9, <2>1, <2>7 DEF Ledger!Complete, Ledger!WorkThrough
  <2> QED
    BY <2>8 DEF Ledger!LedgerNext
<1> QED
  BY <1>1, <1>8, <1>9

LEMMA StepRefines == Inv /\ [Next]_vars => [Ledger!LedgerNext]_(Ledger!ledger)
<1> SUFFICES ASSUME Inv, [Next]_vars PROVE [Ledger!LedgerNext]_(Ledger!ledger)
  OBVIOUS
<1>1. CASE UNCHANGED <<plan, rounds, restores>>
  BY <1>1, SameViews, SameWork
<1>2. ASSUME NEW r \in Requests, CreateCommit(r) \/ FinishWrite(r) \/ AbandonWrite(r)
      PROVE  Ledger!LedgerNext
  BY <1>2, CreateRefines, FinishRefines, AbandonRefines
<1>3. ASSUME NEW r \in Requests, StartWrite(r) PROVE UNCHANGED Ledger!ledger
  BY <1>3, StartRefines
<1>4. ASSUME NEW p \in Plans, NEW no \in RoundNumbers, NEW page \in 0..Pages, SettlePage(p, no, page)
      PROVE  UNCHANGED Ledger!ledger
  BY <1>4, SettleRefines
<1>5. ASSUME NEW r \in Requests, CreateRead(r) \/ CreateInsert(r) \/ Abort(r)
      PROVE  UNCHANGED <<plan, rounds, restores>>
  BY <1>5 DEF CreateRead, CreateInsert, Abort
<1>6. ASSUME NEW r \in Requests, NEW p \in Plans, StartRead(r, p) \/ AbandonRead(r, p)
      PROVE  UNCHANGED <<plan, rounds, restores>>
  BY <1>6 DEF StartRead, AbandonRead
<1>7. ASSUME NEW r \in Requests, NEW p \in Plans, NEW no \in RoundNumbers, FinishRead(r, p, no)
      PROVE  UNCHANGED <<plan, rounds, restores>>
  BY <1>7 DEF FinishRead
<1>8. CASE UNCHANGED vars
  BY <1>8, <1>1 DEF vars
<1> QED
  BY <1>1, <1>2, <1>3, <1>4, <1>5, <1>6, <1>7, <1>8 DEF Next

(* One plan at a time; a completed plan was earned in all its rounds, page *)
(* by page; an ended plan stays as it ended; and suspended words are given *)
(* back once: for any plans, requests, rounds and pages.                   *)
THEOREM SprintsKept == Spec => ImplementsSprintLedger
  BY InitLedger, StepRefines, Invariance, PTL DEF Spec, ImplementsSprintLedger, Ledger!LedgerSpec
=============================================================================
