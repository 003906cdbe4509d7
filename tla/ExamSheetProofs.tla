--------------------------- MODULE ExamSheetProofs ---------------------------
(***************************************************************************)
(* Theorems about ExamSheet, for any tabs, questions, answers and bounds:   *)
(* a page that says "saved" shows what is stored, and a seal turns what its *)
(* page showed into attempts, but for the questions that are astray.        *)
(***************************************************************************)
EXTENDS ExamSheet, FiniteSetTheorems, SequenceTheorems, WellFoundedInduction, TLAPS

(* The types of the parts of a state.                                       *)
Sheet == [status : {"draft", "sealed", "discarded"}, ver : Nat,
          answers : [Questions -> Values], attempts : [Questions -> Values]]

Stamp == [seq : Nat, val : Values]
PatchBody == [sid : Nat, ver : Nat, batch : UNION {[K -> Stamp] : K \in SUBSET Questions}]

PageType ==
  [view : {"away", "opening", "failed", "draft", "settled"}, sid : Nat,
   screen : [Questions -> Values], dirty : [Questions -> Stamp], ver : Nat \cup {NoVer},
   state : {"clean", "dirty", "saving", "retrying", "error", "conflict"},
   seq : Nat, committed : Nat, tries : 0 .. MaxRetries,
   held : Seq(PatchBody), frozen : BOOLEAN,
   want : [kind : {"none", "seal", "leave"}, ack : BOOLEAN], lock : BOOLEAN, asked : BOOLEAN,
   astray : SUBSET Questions]

OneDraft ==
  \A r, s \in DOMAIN sheets : sheets[r].status = "draft" /\ sheets[s].status = "draft" => r = s

(* Whoever has this version of the sheet would see it match.                *)
Current(s, ver) == sheets[s].status = "draft" /\ sheets[s].ver = ver

(* What a row says was so; it still is when its version is the current one, *)
(* and a sheet that is no draft never is one again.                         *)
RowTrue(r) ==
  /\ r.sid \in DOMAIN sheets /\ r.ver \in Nat /\ r.ver <= sheets[r.sid].ver
  /\ r.answers \in [Questions -> Values]
  /\ r.status = "draft" /\ Current(r.sid, r.ver) => r.answers = sheets[r.sid].answers
  /\ r.status # "draft" => sheets[r.sid].status # "draft"

Shaped(m) ==
  m = [from |-> m.from, no |-> m.no, kind |-> m.kind, body |-> m.body, at |-> m.at,
       answer |-> m.answer, row |-> m.row, awaited |-> m.awaited]

(* What holds of a request whoever waits for it.  That of a seal shows what *)
(* the sheet has, as long as its version is the current one.                *)
OpenSound(m) ==
  m.at # "read" /\ (m.at = "answered" /\ m.answer = "ok" => RowTrue(m.row) /\ m.row.status = "draft")

PatchSound(m) ==
  /\ m.at # "read" /\ m.body \in PatchBody
  /\ m.body.sid \in DOMAIN sheets /\ m.body.ver <= sheets[m.body.sid].ver
  /\ m.at = "answered" =>
       /\ m.answer \in {"ok", "conflict", "settled", "refused"}
       /\ m.answer = "ok" => m.row.ver = m.body.ver + 1 /\ m.row.ver <= sheets[m.body.sid].ver

LoadSound(m) ==
  /\ m.at # "read" /\ m.body.sid \in DOMAIN sheets
  /\ m.at = "answered" => RowTrue(m.row) /\ m.row.sid = m.body.sid

SealSound(m) ==
  /\ m.body.sid \in DOMAIN sheets /\ m.body.ver \in Nat /\ m.body.ver <= sheets[m.body.sid].ver
  /\ m.at # "answered" /\ Current(m.body.sid, m.body.ver) =>
       \A q \in DOMAIN m.body.shown : m.body.shown[q] = sheets[m.body.sid].answers[q]
  /\ m.at = "read" => /\ RowTrue(m.row) /\ m.row.sid = m.body.sid /\ m.row.ver = m.body.ver
                      /\ m.row.status = "draft"
  /\ m.at = "answered" /\ m.answer = "ok" =>
       RowTrue(m.row) /\ m.row.sid = m.body.sid /\ m.row.status # "draft"

Sound(m) ==
  /\ Shaped(m) /\ m.from \in Tabs /\ m.awaited \in BOOLEAN /\ m.at \in {"wire", "read", "answered"}
  /\ m.kind \in {"open", "patch", "load", "seal"}
  /\ m.kind = "open" => OpenSound(m)
  /\ m.kind = "patch" => PatchSound(m)
  /\ m.kind = "load" => LoadSound(m)
  /\ m.kind = "seal" => SealSound(m)

(* A page that has a sheet.                                                 *)
HasSheet(t) == t.view \in {"draft", "settled"}

(* Questions of which the page need not show what is stored: a save of them *)
(* is to come, or they are astray.                                          *)
Open(t) == DirtyKeys(t) \cup t.astray

(* A batch on its way has the lowest input numbers of what is dirty; what   *)
(* was typed since has higher ones.  It has the version of the page, unless *)
(* the page took over another one, and everything on it went astray.        *)
Carries(t, b) ==
  /\ HasSheet(t) /\ b.sid = t.sid
  /\ \A q \in DOMAIN b.batch : b.batch[q].seq <= t.seq
  /\ ~t.frozen =>
       /\ b.ver = t.ver \/ Open(t) = Questions
       /\ DOMAIN b.batch \subseteq Open(t)
       /\ \A p \in DirtyKeys(t) :
            \/ p \in DOMAIN b.batch /\ t.dirty[p] = b.batch[p]
            \/ \A q \in DOMAIN b.batch : b.batch[q].seq < t.dirty[p].seq

(* The sheet is what the page shows, but for what is open; a batch that was *)
(* saved is what it carried.                                                *)
Stored(t, b) ==
  Current(b.sid, b.ver + 1) =>
    /\ \A q \in DOMAIN b.batch : sheets[b.sid].answers[q] = b.batch[q].val
    /\ \A q \in Questions \ (Open(t) \cup DOMAIN b.batch) : sheets[b.sid].answers[q] = t.screen[q]

(* What the page is doing while it waits for a request.  A load may be      *)
(* under way beside any other one.                                          *)
Fits(t, m) ==
  /\ m.kind # "load" => t.held = <<>>
  /\ m.kind = "open" => t.view = "opening"
  /\ m.kind = "patch" => /\ Carries(t, m.body) /\ t.state \in {"saving", "dirty", "clean"}
                         /\ ~t.frozen /\ m.at = "answered" /\ m.answer = "ok" => Stored(t, m.body)
  /\ m.kind = "load" => HasSheet(t) /\ m.body.sid = t.sid
  /\ m.kind = "seal" => /\ HasSheet(t) /\ m.body.sid = t.sid /\ t.lock /\ DirtyKeys(t) = {}
                        /\ t.want.kind = "none" /\ t.state \notin {"conflict", "error"}

(* A draft.                                                                 *)
DraftSound(t) ==
  /\ \A q \in DirtyKeys(t) : /\ t.committed < t.dirty[q].seq /\ t.dirty[q].seq <= t.seq
                             /\ q \notin t.astray => t.screen[q] = t.dirty[q].val
  /\ Current(t.sid, t.ver) => \A q \in Questions \ Open(t) : t.screen[q] = sheets[t.sid].answers[q]
  /\ t.state = "clean" => DirtyKeys(t) = {}

(* A page whose controller is frozen, whatever it shows: the sheet is no    *)
(* draft any more.                                                          *)
Over(t) == sheets[t.sid].status # "draft" /\ DirtyKeys(t) = {} /\ t.committed = t.seq

(* A page that has no sheet yet shows what was typed.                       *)
Early(t) ==
  /\ \A q \in Questions : IF t.dirty[q].seq = 0 THEN t.screen[q] = None
                                                 ELSE t.screen[q] = t.dirty[q].val /\ t.dirty[q].seq <= t.seq
  /\ t.ver = NoVer /\ t.committed = 0 /\ t.state \in {"clean", "dirty"}
  /\ t.state = "clean" => DirtyKeys(t) = {}
  /\ t.held = <<>> /\ ~t.frozen /\ t.want.kind = "none" /\ ~t.lock

WithSheet(t) ==
  /\ t.sid \in DOMAIN sheets /\ t.ver \in Nat /\ t.ver <= sheets[t.sid].ver
  /\ t.state = "conflict" => t.want.kind = "none"
  /\ t.want.kind = "seal" => t.lock
  /\ t.held # <<>> => /\ Carries(t, t.held[1]) /\ t.held[1].ver <= sheets[t.sid].ver
                      /\ t.state \in {"retrying", "dirty", "clean"}
  /\ t.frozen => Over(t)
  /\ ~t.frozen => t.view = "draft" /\ DraftSound(t)

PageSound(t) ==
  /\ t \in PageType /\ t.committed <= t.seq /\ t.seq <= edits
  /\ t.view = "away" => t = Page
  /\ t.view \in {"opening", "failed"} => Early(t)
  /\ HasSheet(t) => WithSheet(t)

Store == sheets \in Seq(Sheet) /\ OneDraft /\ edits \in Nat

OneAwaited ==
  \A m, n \in net : m.awaited /\ n.awaited /\ m.from = n.from /\ m.kind # "load" /\ n.kind # "load" => m = n

SheetInv ==
  /\ Store /\ DOMAIN tab = Tabs /\ tab = [c \in Tabs |-> tab[c]] /\ OneAwaited
  /\ \A c \in Tabs : PageSound(tab[c])
  /\ \A m \in net : Sound(m)
  /\ \A m \in net : m.awaited => Fits(tab[m.from], m)

-----------------------------------------------------------------------------
(* Facts about numbers and sets.                                            *)

(* A finite set of naturals has a largest member: strict subsets are well    *)
(* founded, and the fewest larger members are none.                         *)
LEMMA MaxIs ==
  ASSUME NEW S \in SUBSET Nat, IsFiniteSet(S), S # {}
  PROVE  Max(S) \in S /\ \A x \in S : x <= Max(S)
<1> DEFINE above(x) == {y \in S : x < y}
           T == {above(x) : x \in S}
<1>1. FiniteSubsetsOf(S) = SUBSET S BY FS_FiniteSubsetsOfFinite
<1>2. IsWellFoundedOn(StrictSubsetOrdering(S), SUBSET S) BY <1>1, FS_StrictSubsetOrderingWellFounded
<1>3. T \subseteq SUBSET S /\ T # {} OBVIOUS
<1>4. PICK u \in T : \A v \in T : ~(<<v, u>> \in StrictSubsetOrdering(S))
  <2> HIDE DEF T
  <2> QED BY <1>2, <1>3, WFMin
<1>5. PICK n \in S : u = above(n) OBVIOUS
<1>6. ASSUME NEW x \in S, n < x PROVE FALSE
  <2>1. x \in u /\ x \notin above(x) BY <1>5, <1>6
  <2>2. \A y \in above(x) : n < y BY <1>6
  <2>2a. above(x) \subseteq u BY <1>5, <2>2
  <2>3. above(x) \in T /\ above(x) \in SUBSET S /\ u \in SUBSET S BY <1>3
  <2> HIDE DEF above, T
  <2>4. <<above(x), u>> \in StrictSubsetOrdering(S) BY <2>1, <2>2a, <2>3 DEF StrictSubsetOrdering
  <2> QED BY <1>4, <2>3, <2>4
<1>7. n \in S /\ \A x \in S : n >= x BY <1>6
<1>8. Max(S) \in S /\ \A x \in S : Max(S) >= x BY <1>7 DEF Max
<1> QED BY <1>8

(* Batch takes the lowest input numbers: what it leaves has higher ones.    *)
LEMMA BatchIsLow ==
  ASSUME NEW t \in PageType, NEW q \in DirtyKeys(t), q \notin Batch(t), NEW p \in Batch(t)
  PROVE  t.dirty[p].seq < t.dirty[q].seq
<1> DEFINE below(k) == {r \in DirtyKeys(t) : t.dirty[r].seq < t.dirty[k].seq}
<1>1. \A k \in Questions : t.dirty[k].seq \in Nat BY DEF PageType, Stamp
<1>2. p \in DirtyKeys(t) /\ Cardinality(below(p)) < MaxBatch BY DEF Batch
<1>3. ~(Cardinality(below(q)) < MaxBatch) BY DEF Batch
<1>4. SUFFICES ASSUME t.dirty[q].seq <= t.dirty[p].seq PROVE FALSE
  BY <1>1, <1>2 DEF DirtyKeys
<1>5. below(q) \subseteq below(p) BY <1>1, <1>2, <1>4 DEF DirtyKeys
<1>6. IsFiniteSet(below(p)) BY FS_Subset, ExamSheetAssumption DEF DirtyKeys
<1>7. Cardinality(below(q)) <= Cardinality(below(p)) /\ IsFiniteSet(below(q))
  BY <1>5, <1>6, FS_Subset
<1>8. Cardinality(below(q)) \in Nat /\ Cardinality(below(p)) \in Nat BY <1>6, <1>7, FS_CardinalityType
<1>9. MaxBatch \in Nat BY ExamSheetAssumption
<1> HIDE DEF below
<1> QED BY <1>2, <1>3, <1>7, <1>8, <1>9

-----------------------------------------------------------------------------
(* The sheets go on: versions grow, and a version has one set of answers.   *)
Evolves ==
  /\ Store' /\ edits <= edits'
  /\ \A s \in DOMAIN sheets :
       /\ s \in DOMAIN sheets' /\ sheets[s].ver <= sheets'[s].ver
       /\ sheets'[s].status = "draft" /\ sheets'[s].ver = sheets[s].ver =>
            sheets[s].status = "draft" /\ sheets'[s].answers = sheets[s].answers
       /\ sheets[s].status # "draft" => sheets'[s].status # "draft"

LEMMA Versions ==
  ASSUME Store, Evolves, NEW s \in DOMAIN sheets, NEW v \in Nat, v <= sheets[s].ver
  PROVE  /\ s \in DOMAIN sheets' /\ v <= sheets'[s].ver
         /\ Current(s, v)' => Current(s, v) /\ sheets'[s].answers = sheets[s].answers
<1>1. s \in DOMAIN sheets' /\ sheets \in Seq(Sheet) /\ sheets' \in Seq(Sheet) BY DEF Store, Evolves
<1>2. sheets[s] \in Sheet /\ sheets'[s] \in Sheet BY <1>1
<1>3. sheets[s].ver \in Nat /\ sheets'[s].ver \in Nat BY <1>2 DEF Sheet
<1> QED BY <1>3 DEF Evolves, Current

LEMMA RowStays == ASSUME Store, Evolves, NEW r, RowTrue(r) PROVE RowTrue(r)'
BY Versions DEF RowTrue, Evolves

LEMMA PageStays == ASSUME Store, Evolves, NEW t, PageSound(t) PROVE PageSound(t)'
<1>1. t \in PageType /\ edits \in Nat /\ edits' \in Nat /\ edits <= edits' /\ t.seq \in Nat
  BY DEF PageSound, Store, Evolves, PageType
<1>2. t.seq <= edits' BY <1>1 DEF PageSound
<1>3. ASSUME HasSheet(t) PROVE WithSheet(t)'
  <2>1. WithSheet(t) BY <1>3 DEF PageSound
  <2>2. t.sid \in DOMAIN sheets /\ t.ver \in Nat /\ t.ver <= sheets[t.sid].ver BY <2>1 DEF WithSheet
  <2>3. /\ t.sid \in DOMAIN sheets' /\ t.ver <= sheets'[t.sid].ver
        /\ Current(t.sid, t.ver)' => Current(t.sid, t.ver) /\ sheets'[t.sid].answers = sheets[t.sid].answers
    BY <2>2, Versions
  <2>4. Over(t) => Over(t)' BY <2>2 DEF Over, Evolves, DirtyKeys
  <2>5. DraftSound(t) => DraftSound(t)' BY <2>3 DEF DraftSound, DirtyKeys, Open
  <2>6. ASSUME t.held # <<>> PROVE t.held[1].ver <= sheets'[t.sid].ver
    <3>1. t.held[1] \in PatchBody /\ t.held[1].ver <= sheets[t.sid].ver
      BY <1>1, <2>1, <2>6 DEF PageType, WithSheet
    <3> QED BY <2>2, <3>1, Versions DEF PatchBody
  <2>7. t.held # <<>> => Carries(t, t.held[1])' BY <2>1 DEF WithSheet, Carries, DirtyKeys, Open, HasSheet
  <2> QED BY <2>1, <2>2, <2>3, <2>4, <2>5, <2>6, <2>7 DEF WithSheet
<1> QED BY <1>1, <1>2, <1>3 DEF PageSound, Early, HasSheet, DirtyKeys

LEMMA SoundStays == ASSUME Store, Evolves, NEW m, Sound(m) PROVE Sound(m)'
<1>1. m.kind = "open" => OpenSound(m)' BY RowStays DEF Sound, OpenSound
<1>2. ASSUME m.kind = "patch" PROVE PatchSound(m)'
  <2>1. PatchSound(m) BY <1>2 DEF Sound
  <2>2. m.body.ver \in Nat BY <2>1 DEF PatchSound, PatchBody
  <2>3. m.body.ver + 1 \in Nat BY <2>2
  <2>4. m.at = "answered" /\ m.answer = "ok" => m.row.ver \in Nat BY <2>1, <2>3 DEF PatchSound
  <2> QED BY <2>1, <2>2, <2>4, Versions DEF PatchSound
<1>3. m.kind = "load" => LoadSound(m)'
  BY RowStays DEF Sound, LoadSound, Evolves
<1>4. ASSUME m.kind = "seal" PROVE SealSound(m)'
  <2>1. SealSound(m) BY <1>4 DEF Sound
  <2>2. m.at = "read" => RowTrue(m.row)' BY <2>1, RowStays DEF SealSound
  <2>3. m.at = "answered" /\ m.answer = "ok" => RowTrue(m.row)' BY <2>1, RowStays DEF SealSound
  <2> QED BY <2>1, <2>2, <2>3, Versions DEF SealSound
<1> QED BY <1>1, <1>2, <1>3, <1>4 DEF Sound, Shaped

LEMMA FitsStays == ASSUME Store, Evolves, NEW t, NEW m, Sound(m), Fits(t, m) PROVE Fits(t, m)'
<1>1. ASSUME m.kind = "patch", ~t.frozen, m.at = "answered", m.answer = "ok" PROVE Stored(t, m.body)'
  <2>1. PatchSound(m) BY <1>1 DEF Sound
  <2>2. m.body.ver + 1 \in Nat /\ m.body.sid \in DOMAIN sheets /\ m.body.ver + 1 <= sheets[m.body.sid].ver
    BY <1>1, <2>1 DEF PatchSound, PatchBody
  <2>3. Current(m.body.sid, m.body.ver + 1)' =>
          Current(m.body.sid, m.body.ver + 1) /\ sheets'[m.body.sid].answers = sheets[m.body.sid].answers
    BY <2>2, Versions
  <2>4. Stored(t, m.body) BY <1>1 DEF Fits
  <2> QED BY <2>3, <2>4 DEF Stored, Open, DirtyKeys
<1>2. m.kind = "patch" => Carries(t, m.body)' BY DEF Fits, Carries, DirtyKeys, Open, HasSheet
<1> QED BY <1>1, <1>2 DEF Fits, DirtyKeys, HasSheet

-----------------------------------------------------------------------------
(* Steps.  Something happens to one page and to its requests.               *)
LEMMA PageStep ==
  ASSUME SheetInv, Evolves, NEW c \in Tabs, NEW t, tab' = [tab EXCEPT ![c] = t], PageSound(t)',
         \A m \in net' : Sound(m)' /\ (m.from # c => m \in net),
         \A m, n \in net' : m.awaited /\ n.awaited /\ m.from = c /\ n.from = c
                        /\ m.kind # "load" /\ n.kind # "load" => m = n,
         \A m \in net' : m.awaited /\ m.from = c => Fits(t, m)'
  PROVE  SheetInv'
<1>1. DOMAIN tab' = Tabs /\ tab'[c] = t /\ \A d \in Tabs \ {c} : tab'[d] = tab[d]
  BY DEF SheetInv
<1>2. tab' = [d \in Tabs |-> tab'[d]] BY <1>1 DEF SheetInv
<1>3. OneAwaited' BY DEF SheetInv, OneAwaited
<1>4. \A d \in Tabs : PageSound(tab[d])' BY <1>1, PageStays DEF SheetInv
<1>5. ASSUME NEW m \in net', m.awaited PROVE Fits(tab[m.from], m)'
  <2>1. CASE m.from = c BY <1>1, <1>5, <2>1
  <2>2. CASE m.from # c
    <3>1. m \in net /\ Sound(m) /\ m.from \in Tabs BY <2>2 DEF SheetInv, Sound
    <3>2. Fits(tab[m.from], m) BY <1>5, <3>1 DEF SheetInv
    <3> DEFINE u == tab[m.from]
    <3>3. tab'[m.from] = u BY <1>1, <2>2, <3>1
    <3> QED BY <3>1, <3>2, <3>3, FitsStays DEF SheetInv
  <2> QED BY <2>1, <2>2
<1> QED BY <1>1, <1>2, <1>3, <1>4, <1>5 DEF SheetInv, Evolves

(* The requests of a page that waits for nothing but loads.                 *)
Quiet(c, t, rest) ==
  \A m \in rest : /\ Sound(m) /\ (m.from # c => m \in net)
                  /\ m.from = c /\ m.awaited => m.kind = "load" /\ Fits(t, m)

LEMMA QuietAlike ==
  ASSUME NEW c, NEW t, NEW rest, Quiet(c, t, rest), NEW u, u.view = t.view, u.sid = t.sid
  PROVE  Quiet(c, u, rest)
BY DEF Quiet, Fits, HasSheet

LEMMA QuietSheet ==
  ASSUME NEW c, NEW t, NEW rest, Quiet(c, t, rest), NEW u, HasSheet(u), u.sid = t.sid
  PROVE  Quiet(c, u, rest)
BY DEF Quiet, Fits

(* What is given up goes on as it was, with nobody waiting for it.          *)
LEMMA GivenUpIs ==
  ASSUME NEW m, Sound(m), NEW n \in GivenUp(m)
  PROVE  Sound(n) /\ n.from = m.from /\ ~n.awaited
<1>1. n = [m EXCEPT !.awaited = FALSE] /\ m.at # "answered" /\ m.kind \notin {"open", "load"}
  BY DEF GivenUp
<1>2. n = [from |-> m.from, no |-> m.no, kind |-> m.kind, body |-> m.body, at |-> m.at,
           answer |-> m.answer, row |-> m.row, awaited |-> FALSE]
  BY <1>1 DEF Sound, Shaped
<1>3. /\ Shaped(n) /\ n.from = m.from /\ n.kind = m.kind /\ n.body = m.body /\ n.at = m.at
      /\ n.answer = m.answer /\ n.row = m.row /\ n.awaited = FALSE
  BY <1>2 DEF Shaped
<1> HIDE <1>1, <1>2
<1>4. m.kind = "patch" => PatchSound(n) BY <1>3 DEF Sound, PatchSound
<1>5. m.kind = "seal" => SealSound(n) BY <1>3 DEF Sound, SealSound
<1>6. m.kind \notin {"open", "load"} BY <1>1
<1> QED BY <1>3, <1>4, <1>5, <1>6 DEF Sound

LEMMA QuietForsaken ==
  ASSUME NEW c \in Tabs, NEW t, NEW rest, \A m \in rest : Sound(m) /\ (m.from # c => m \in net)
  PROVE  Quiet(c, t, Forsaken(c, rest))
<1> SUFFICES ASSUME NEW n \in Forsaken(c, rest)
             PROVE  Sound(n) /\ (n.from = c => ~n.awaited) /\ (n.from # c => n \in net)
  BY DEF Quiet
<1>1. CASE n \in rest /\ n.from # c BY <1>1
<1>2. CASE \E m \in rest : m.from = c /\ n \in GivenUp(m) BY <1>2, GivenUpIs
<1> QED BY <1>1, <1>2 DEF Forsaken

(* Of what a page waits for but loads, there is one request.                *)
LEMMA QuietNet ==
  ASSUME SheetInv, NEW c \in Tabs
  PROVE  /\ (\A m \in Awaited(c) : m.kind = "load") => Quiet(c, tab[c], net)
         /\ \A m \in Awaited(c) : m.kind # "load" => /\ Quiet(c, tab[c], net \ {m})
                                                    /\ Quiet(c, tab[c], Lost(m))
<1>0. \A m \in net : Sound(m) /\ (m.from = c /\ m.awaited => Fits(tab[c], m)) BY DEF SheetInv
<1>1. (\A m \in Awaited(c) : m.kind = "load") => Quiet(c, tab[c], net) BY <1>0 DEF Quiet, Awaited
<1>2. ASSUME NEW m \in Awaited(c), m.kind # "load" PROVE Quiet(c, tab[c], net \ {m})
  BY <1>0, <1>2 DEF SheetInv, OneAwaited, Quiet, Awaited
<1>3. ASSUME NEW m \in Awaited(c), m.kind # "load" PROVE Quiet(c, tab[c], Lost(m))
  <2>1. m \in net /\ m.from = c /\ Sound(m) BY DEF Awaited, SheetInv
  <2> QED BY <1>2, <1>3, <2>1, GivenUpIs DEF Quiet, Lost
<1> QED BY <1>1, <1>2, <1>3

(* A page without a sheet has no loads.                                     *)
LEMMA QuietOpening ==
  ASSUME SheetInv, NEW c \in Tabs, ~HasSheet(tab[c]), NEW t, NEW rest, Quiet(c, tab[c], rest)
  PROVE  Quiet(c, t, rest)
BY DEF Quiet, Fits

LEMMA StayingEvolves == ASSUME SheetInv, UNCHANGED sheets, edits' \in Nat, edits <= edits' PROVE Evolves
<1>1. sheets \in Seq(Sheet) BY DEF SheetInv, Store
<1>2. \A s \in DOMAIN sheets : sheets[s] \in Sheet BY <1>1
<1>3. \A s \in DOMAIN sheets : sheets[s].ver <= sheets[s].ver BY <1>2 DEF Sheet
<1> QED BY <1>3 DEF SheetInv, Evolves, Store, OneDraft

(* The page stops waiting, or goes on without.                              *)
LEMMA Rests ==
  ASSUME SheetInv, UNCHANGED <<sheets, edits>>, NEW c \in Tabs, NEW t,
         tab' = [tab EXCEPT ![c] = t], PageSound(t), Quiet(c, t, net')
  PROVE  SheetInv'
<1>1. Evolves /\ Store BY StayingEvolves DEF SheetInv, Store
<1>2. PageSound(t)' BY <1>1, PageStays
<1>3. \A m \in net' : Sound(m)' /\ (m.from # c => m \in net) BY <1>1, SoundStays DEF Quiet
<1>4. \A m \in net' : m.from = c /\ m.awaited => m.kind = "load" /\ Fits(t, m)' BY <1>1, FitsStays DEF Quiet
<1>5. \A m \in net' : m.awaited /\ m.from = c => Fits(t, m)' BY <1>4
<1>6. \A m, n \in net' : m.awaited /\ n.awaited /\ m.from = c /\ n.from = c
                        /\ m.kind # "load" /\ n.kind # "load" => m = n
  BY <1>4
<1> QED BY <1>1, <1>2, <1>3, <1>5, <1>6, PageStep

(* It sends a request and waits for it.                                     *)
LEMMA Sends ==
  ASSUME SheetInv, UNCHANGED <<sheets, edits>>, NEW c \in Tabs, NEW t,
         tab' = [tab EXCEPT ![c] = t], PageSound(t), NEW rest, Quiet(c, t, rest),
         NEW r, net' = rest \cup {r}, r.from = c, Sound(r), Fits(t, r)
  PROVE  SheetInv'
<1>1. Evolves /\ Store BY StayingEvolves DEF SheetInv, Store
<1>2. PageSound(t)' BY <1>1, PageStays
<1>3. \A m \in net' : Sound(m)' /\ (m.from # c => m \in net) BY <1>1, SoundStays DEF Quiet
<1>4. \A m \in net' : m.awaited /\ m.from = c => m = r \/ (m.kind = "load" /\ Fits(t, m)')
  BY <1>1, FitsStays DEF Quiet
<1>5. Fits(t, r)' BY <1>1, FitsStays
<1>6. \A m \in net' : m.awaited /\ m.from = c => Fits(t, m)' BY <1>4, <1>5
<1>7. \A m, n \in net' : m.awaited /\ n.awaited /\ m.from = c /\ n.from = c
                        /\ m.kind # "load" /\ n.kind # "load" => m = n
  BY <1>4
<1> QED BY <1>1, <1>2, <1>3, <1>6, <1>7, PageStep

(* The page changes, or a load of it is over; it goes on with the rest.     *)
LEMMA GoesOn ==
  ASSUME SheetInv, UNCHANGED sheets, net' \subseteq net, edits' \in Nat, edits <= edits',
         NEW c \in Tabs, NEW t, tab' = [tab EXCEPT ![c] = t], PageSound(t)',
         \A m \in Awaited(c) \cap net' : Fits(t, m)
  PROVE  SheetInv'
<1>1. Evolves /\ Store BY StayingEvolves DEF SheetInv, Store
<1>2. \A m \in net' : Sound(m) BY DEF SheetInv
<1>3. \A m \in net' : Sound(m)' /\ (m.from # c => m \in net) BY <1>1, <1>2, SoundStays
<1>4. \A m \in net' : m.awaited /\ m.from = c => Fits(t, m)' BY <1>1, <1>2, FitsStays DEF Awaited
<1>5. \A m, n \in net' : m.awaited /\ n.awaited /\ m.from = c /\ n.from = c
                        /\ m.kind # "load" /\ n.kind # "load" => m = n
  <2> SUFFICES ASSUME NEW m \in net', NEW n \in net', m.awaited, n.awaited, m.from = c, n.from = c,
                      m.kind # "load", n.kind # "load"
               PROVE  m = n
    OBVIOUS
  <2>1. m \in net /\ n \in net OBVIOUS
  <2> QED BY <2>1 DEF SheetInv, OneAwaited
<1> QED BY <1>1, <1>3, <1>4, <1>5, PageStep

LEMMA Keeps ==
  ASSUME SheetInv, UNCHANGED <<sheets, edits>>, net' \subseteq net, NEW c \in Tabs, NEW t,
         tab' = [tab EXCEPT ![c] = t], PageSound(t), \A m \in Awaited(c) \cap net' : Fits(t, m)
  PROVE  SheetInv'
<1>1. Evolves /\ Store /\ edits' \in Nat /\ edits <= edits' BY StayingEvolves DEF SheetInv, Store
<1>2. PageSound(t)' BY <1>1, PageStays
<1> QED BY <1>1, <1>2, GoesOn

-----------------------------------------------------------------------------
(* The save controller.                                                     *)

(* A page whose controller may go on: nothing of it is in flight.           *)
Ready(t) == PageSound(t) /\ HasSheet(t) /\ t.held = <<>> /\ t.state # "conflict"

LEMMA RequestIs ==
  ASSUME NEW c \in Tabs, NEW kind, NEW body
  PROVE  LET r == Request(c, kind, body) IN
         /\ Shaped(r) /\ r.from = c /\ r.kind = kind /\ r.body = body /\ r.at = "wire"
         /\ r.answer = "none" /\ r.awaited = TRUE
BY DEF Request, Shaped

(* The page when nothing is open.                                           *)
LEMMA EmptyPage == ASSUME edits \in Nat PROVE PageSound(Page)
<1>1. Empty \in [Questions -> Values] /\ [q \in Questions |-> Clean] \in [Questions -> Stamp]
  BY DEF Empty, Clean, Values, Stamp
<1>2. 0 \in 0 .. MaxRetries BY ExamSheetAssumption
<1>3. <<>> \in Seq(PatchBody) OBVIOUS
<1>4. Nothing \in [kind : {"none", "seal", "leave"}, ack : BOOLEAN] BY DEF Nothing
<1>5. Page \in PageType BY <1>1, <1>2, <1>3, <1>4 DEF PageType, Page
<1>6. Page.view = "away" /\ Page.committed = 0 /\ Page.seq = 0 BY DEF Page
<1> QED BY <1>5, <1>6 DEF PageSound, HasSheet

(* A page that differs in what its controller is doing only.                *)
Alike(t, u) ==
  /\ u \in PageType /\ u.view = t.view /\ u.sid = t.sid /\ u.screen = t.screen /\ u.dirty = t.dirty
  /\ u.ver = t.ver /\ u.seq = t.seq /\ u.committed = t.committed /\ u.frozen = t.frozen
  /\ u.astray = t.astray

LEMMA AlikeSound ==
  ASSUME NEW t, PageSound(t), HasSheet(t), NEW u, Alike(t, u),
         u.state = "clean" => DirtyKeys(t) = {},
         u.state = "conflict" => u.want.kind = "none",
         u.want.kind = "seal" => u.lock,
         u.held # <<>> => /\ Carries(t, u.held[1]) /\ u.held[1].ver <= sheets[t.sid].ver
                          /\ u.state \in {"retrying", "dirty", "clean"}
  PROVE  PageSound(u) /\ HasSheet(u) /\ DirtyKeys(u) = DirtyKeys(t)
<1>1. DirtyKeys(u) = DirtyKeys(t) /\ Open(u) = Open(t) /\ HasSheet(u) BY DEF Alike, DirtyKeys, Open, HasSheet
<1>2. WithSheet(t) BY DEF PageSound
<1>3. \A b : Carries(t, b) => Carries(u, b) BY <1>1 DEF Carries, Alike
<1>4. t.frozen => Over(u) BY <1>1, <1>2 DEF WithSheet, Over, Alike
<1>5. ~t.frozen => u.view = "draft" /\ DraftSound(u) BY <1>1, <1>2 DEF WithSheet, DraftSound, Alike
<1>6. WithSheet(u) BY <1>2, <1>3, <1>4, <1>5 DEF WithSheet, Alike
<1> QED BY <1>1, <1>6 DEF PageSound, Alike, HasSheet

(* The payload of a page is made of what it shows.                          *)
LEMMA PayloadIs ==
  ASSUME NEW t, PageSound(t), HasSheet(t), ~t.frozen
  PROVE  /\ Payload(t) \in PatchBody /\ Carries(t, Payload(t))
         /\ Payload(t).sid \in DOMAIN sheets /\ Payload(t).ver <= sheets[Payload(t).sid].ver
<1> DEFINE batch == [q \in Batch(t) |-> t.dirty[q]]
<1>1. t \in PageType /\ WithSheet(t) /\ DraftSound(t) /\ t.sid \in Nat BY DEF PageSound, WithSheet, PageType
<1>2. Batch(t) \subseteq DirtyKeys(t) /\ DirtyKeys(t) \subseteq Questions BY DEF Batch, DirtyKeys
<1>3. \A q \in Questions : t.dirty[q] \in Stamp BY <1>1 DEF PageType
<1>4. batch \in [Batch(t) -> Stamp] /\ Batch(t) \in SUBSET Questions BY <1>2, <1>3
<1>5. Payload(t) = [sid |-> t.sid, ver |-> t.ver, batch |-> batch] BY DEF Payload
<1>6. t.ver \in Nat BY <1>1 DEF WithSheet
<1>7. Payload(t).sid = t.sid /\ Payload(t).ver = t.ver /\ Payload(t).batch = batch BY <1>5
<1>8. Payload(t) \in PatchBody
  <2> HIDE DEF batch
  <2> QED BY <1>1, <1>4, <1>5, <1>6 DEF PatchBody
<1>9. \A q \in Batch(t) : batch[q] = t.dirty[q] /\ t.dirty[q].seq <= t.seq
  BY <1>1, <1>2 DEF DraftSound
<1>10. ASSUME NEW p \in DirtyKeys(t), p \notin Batch(t)
       PROVE  \A q \in Batch(t) : batch[q].seq < t.dirty[p].seq
  BY <1>1, <1>9, <1>10, BatchIsLow
<1>11. DOMAIN batch = Batch(t) /\ Batch(t) \subseteq Open(t) BY <1>2 DEF Open
<1>12. Carries(t, Payload(t))
  <2> HIDE DEF batch
  <2> QED BY <1>7, <1>9, <1>10, <1>11 DEF Carries
<1> QED BY <1>1, <1>7, <1>8, <1>12 DEF WithSheet

(* What is sent is sound.                                                   *)
LEMMA PatchIsSound ==
  ASSUME NEW c \in Tabs, NEW b \in PatchBody, b.sid \in DOMAIN sheets, b.ver <= sheets[b.sid].ver
  PROVE  Sound(Request(c, "patch", b))
<1> DEFINE r == Request(c, "patch", b)
<1>1. /\ Shaped(r) /\ r.from = c /\ r.kind = "patch" /\ r.body = b /\ r.at = "wire"
      /\ r.answer = "none" /\ r.awaited = TRUE
  BY RequestIs
<1>2. PatchSound(r) BY <1>1 DEF PatchSound
<1> QED BY <1>1, <1>2 DEF Sound

(* A patch goes out and is waited for.                                      *)
LEMMA SendsPatch ==
  ASSUME SheetInv, UNCHANGED <<sheets, edits>>, NEW c \in Tabs,
         NEW t, PageSound(t), t.held = <<>>, t.state \in {"saving", "dirty"},
         NEW rest, Quiet(c, t, rest), NEW b \in PatchBody, Carries(t, b),
         b.sid \in DOMAIN sheets, b.ver <= sheets[b.sid].ver,
         tab' = [tab EXCEPT ![c] = t], Post(c, "patch", b, rest)
  PROVE  SheetInv'
<1> DEFINE r == Request(c, "patch", b)
<1>1. /\ Shaped(r) /\ r.from = c /\ r.kind = "patch" /\ r.body = b /\ r.at = "wire"
      /\ r.answer = "none" /\ r.awaited = TRUE
  BY RequestIs
<1>2. Sound(r) BY PatchIsSound
<1>3. net' = rest \cup {r} BY DEF Post
<1> HIDE DEF r
<1>4. Fits(t, r) BY <1>1 DEF Fits
<1> QED BY <1>1, <1>2, <1>3, <1>4, Sends

(* What a seal shows is what the sheet has.                                 *)
LEMMA ShownIs ==
  ASSUME NEW t, PageSound(t), HasSheet(t), DirtyKeys(t) = {}, Current(t.sid, t.ver),
         NEW q \in Questions \ t.astray
  PROVE  t.screen[q] = sheets[t.sid].answers[q]
BY DEF PageSound, WithSheet, Over, Current, DraftSound, Open

(* flush() resolves.                                                        *)
LEMMA ResolveSound ==
  ASSUME SheetInv, UNCHANGED <<sheets, edits>>, NEW c \in Tabs, NEW t, Ready(t),
         t.want.kind = "seal" => DirtyKeys(t) = {} /\ t.state # "error",
         NEW rest, Quiet(c, t, rest), Resolve(c, t, rest)
  PROVE  SheetInv'
<1>1. PageSound(t) /\ t \in PageType /\ HasSheet(t) /\ WithSheet(t) BY DEF Ready, PageSound
<1>2. t.want.kind \in {"none", "seal", "leave"} BY <1>1 DEF PageType
<1>3. CASE t.want.kind = "none"
  <2>1. tab' = [tab EXCEPT ![c] = t] /\ net' = rest BY <1>3 DEF Resolve
  <2> QED BY <1>1, <2>1, Rests
<1>4. CASE t.want.kind = "seal"
  <2> DEFINE u == [t EXCEPT !.want = Nothing]
             shown == [q \in Questions \ t.astray |-> t.screen[q]]
             b == [sid |-> t.sid, ver |-> t.ver, ack |-> t.want.ack, shown |-> shown]
             r == Request(c, "seal", b)
  <2>1. tab' = [tab EXCEPT ![c] = u] /\ net' = rest \cup {r} BY <1>4 DEF Resolve, Post
  <2>2. Nothing \in [kind : {"none", "seal", "leave"}, ack : BOOLEAN] /\ Nothing.kind = "none" BY DEF Nothing
  <2>3. Alike(t, u) /\ u.want.kind = "none" /\ u.state = t.state /\ u.lock = t.lock /\ u.held = t.held
    BY <1>1, <2>2 DEF PageType, Alike
  <2>4. t.held = <<>> /\ t.lock /\ t.state \notin {"conflict", "error"} /\ DirtyKeys(t) = {}
    BY <1>1, <1>4 DEF Ready, WithSheet
  <2>6. /\ Shaped(r) /\ r.from = c /\ r.kind = "seal" /\ r.body = b /\ r.at = "wire"
        /\ r.answer = "none" /\ r.awaited = TRUE
    <3> HIDE DEF b
    <3> QED BY RequestIs
  <2>7. b.sid = t.sid /\ b.ver = t.ver /\ b.shown = shown OBVIOUS
  <2>7a. DOMAIN shown = Questions \ t.astray /\ \A q \in Questions \ t.astray : shown[q] = t.screen[q] OBVIOUS
  <2> HIDE DEF u, b, r, shown
  <2>8. PageSound(u) /\ HasSheet(u) /\ DirtyKeys(u) = {} BY <1>1, <2>3, <2>4, AlikeSound
  <2>9. ASSUME Current(t.sid, t.ver) PROVE \A q \in DOMAIN shown : shown[q] = sheets[t.sid].answers[q]
    BY <1>1, <2>4, <2>7a, <2>9, ShownIs
  <2>10. SealSound(r) BY <1>1, <2>6, <2>7, <2>9 DEF SealSound, WithSheet
  <2>11. Sound(r) BY <2>6, <2>10 DEF Sound
  <2>12. Fits(u, r) BY <2>3, <2>4, <2>6, <2>7, <2>8 DEF Fits, Alike
  <2>13. Quiet(c, u, rest) BY <2>3, QuietAlike DEF Alike
  <2> QED BY <2>1, <2>6, <2>8, <2>11, <2>12, <2>13, Sends
<1>5. CASE t.want.kind = "leave"
  <2>1. tab' = [tab EXCEPT ![c] = Page] /\ net' = Forsaken(c, rest) BY <1>5 DEF Resolve
  <2>2. Quiet(c, Page, net') BY <2>1, QuietForsaken DEF Quiet
  <2>3. PageSound(Page) BY EmptyPage DEF SheetInv, Store
  <2> QED BY <2>1, <2>2, <2>3, Rests
<1> QED BY <1>2, <1>3, <1>4, <1>5

(* The next batch goes out, or flush() resolves.                            *)
LEMMA PumpSound ==
  ASSUME SheetInv, UNCHANGED <<sheets, edits>>, NEW c \in Tabs, NEW t, Ready(t),
         NEW rest, Quiet(c, t, rest), Pump(c, t, rest)
  PROVE  SheetInv'
<1>1. PageSound(t) /\ t \in PageType /\ t.held = <<>> /\ HasSheet(t) /\ WithSheet(t)
  BY DEF Ready, PageSound
<1>2. 0 \in 0 .. MaxRetries BY ExamSheetAssumption
<1>3. CASE MaySend(t)
  <2> DEFINE u == [t EXCEPT !.state = "saving", !.tries = 0]
  <2>1. tab' = [tab EXCEPT ![c] = u] /\ Post(c, "patch", Payload(t), rest) BY <1>3 DEF Pump
  <2>2. Alike(t, u) /\ u.want = t.want /\ u.state = "saving" /\ u.lock = t.lock /\ u.held = <<>>
    BY <1>1, <1>2 DEF PageType, Alike
  <2>3. ~t.frozen BY <1>3 DEF MaySend
  <2> HIDE DEF u
  <2>4. u.want.kind = "seal" => u.lock BY <1>1, <2>2 DEF WithSheet
  <2>5. PageSound(u) BY <1>1, <2>2, <2>4, AlikeSound
  <2>6. Carries(u, Payload(t)) BY <1>1, <2>2, <2>3, PayloadIs DEF Carries, Alike, DirtyKeys, Open, HasSheet
  <2>7. Quiet(c, u, rest) BY <2>2, QuietAlike DEF Alike
  <2> QED BY <1>1, <2>1, <2>2, <2>3, <2>5, <2>6, <2>7, PayloadIs, SendsPatch
<1>4. CASE ~MaySend(t) /\ t.frozen
  <2>1. tab' = [tab EXCEPT ![c] = t] /\ net' = rest BY <1>4 DEF Pump
  <2> QED BY <1>1, <2>1, Rests
<1>5. CASE ~MaySend(t) /\ ~t.frozen
  <2> DEFINE u == [t EXCEPT !.state = "clean", !.tries = 0]
  <2>1. Resolve(c, u, rest) BY <1>5 DEF Pump
  <2>2. Alike(t, u) /\ u.want = t.want /\ u.state = "clean" /\ u.lock = t.lock /\ u.held = <<>>
    BY <1>1, <1>2 DEF PageType, Alike
  <2>4. t.ver # NoVer BY <1>1 DEF WithSheet, NoVer
  <2>5. DirtyKeys(t) = {} BY <1>5, <2>4 DEF MaySend, Ready
  <2> HIDE DEF u
  <2>6. PageSound(u) /\ HasSheet(u) /\ DirtyKeys(u) = {}
    BY <1>1, <2>2, <2>5, AlikeSound DEF WithSheet
  <2>7. Ready(u) BY <2>2, <2>6 DEF Ready
  <2>8. Quiet(c, u, rest) BY <2>2, QuietAlike DEF Alike
  <2> QED BY <2>1, <2>2, <2>6, <2>7, <2>8, ResolveSound
<1> QED BY <1>3, <1>4, <1>5

-----------------------------------------------------------------------------
(* What a page waits for.                                                   *)

LEMMA AwaitedFits ==
  ASSUME SheetInv, NEW c \in Tabs, NEW m \in Awaited(c)
  PROVE  /\ m \in net /\ m.from = c /\ m.awaited /\ Sound(m) /\ Fits(tab[c], m)
         /\ m.kind \in {"open", "patch", "load", "seal"}
         /\ \A n \in Awaited(c) : m.kind # "load" /\ n.kind # "load" => n = m
<1>1. m \in net /\ m.from = c /\ m.awaited BY DEF Awaited
<1> QED BY <1>1 DEF SheetInv, Awaited, OneAwaited, Sound

LEMMA ThePage ==
  ASSUME SheetInv, NEW c \in Tabs
  PROVE  /\ PageSound(tab[c]) /\ tab[c] \in PageType /\ edits \in Nat
         /\ HasSheet(tab[c]) => WithSheet(tab[c])
BY DEF SheetInv, PageSound, Store

(* A page that is frozen, or whose state is clean, has nothing to save.     *)
LEMMA NothingDirty ==
  ASSUME NEW t, WithSheet(t), t.frozen \/ t.state = "clean"
  PROVE  DirtyKeys(t) = {}
BY DEF WithSheet, Over, DraftSound

(* Nothing that is in flight can be sent again.                             *)
LEMMA NothingAwaited ==
  ASSUME SheetInv, NEW c \in Tabs, HasSheet(tab[c]), ~InFlight(c), tab[c].state # "conflict",
         ~tab[c].lock \/ DirtyKeys(tab[c]) # {} \/ tab[c].state = "error"
  PROVE  Quiet(c, tab[c], net) /\ tab[c].held = <<>> /\ Ready(tab[c])
<1>1. ASSUME NEW m \in Awaited(c) PROVE m.kind = "load"
  <2>1. Fits(tab[c], m) /\ m.kind \in {"open", "patch", "load", "seal"} BY AwaitedFits
  <2>2. m.kind # "patch" BY DEF InFlight, Awaits
  <2> QED BY <2>1, <2>2 DEF Fits, HasSheet
<1>2. tab[c].held = <<>> BY DEF InFlight
<1> QED BY <1>1, <1>2, QuietNet, ThePage DEF Ready

-----------------------------------------------------------------------------
(* Every step preserves the invariant. The user answers a question, of a    *)
(* page whose controller is frozen or not.                                  *)

Typed(t, q, v) == [t EXCEPT !.screen[q] = v, !.asked = FALSE]

LEMMA TypedIs ==
  ASSUME NEW t \in PageType, NEW q \in Questions, NEW v \in Values, NEW u, u = Typed(t, q, v)
  PROVE  /\ u \in PageType /\ u.screen = [t.screen EXCEPT ![q] = v] /\ u.dirty = t.dirty /\ u.seq = t.seq
         /\ u.view = t.view /\ u.sid = t.sid /\ u.ver = t.ver /\ u.committed = t.committed /\ u.held = t.held
         /\ u.frozen = t.frozen /\ u.want = t.want /\ u.lock = t.lock /\ u.state = t.state
         /\ u.astray = t.astray
<1>1. PICK screen : screen = [t.screen EXCEPT ![q] = v] OBVIOUS
<1>2. screen \in [Questions -> Values] BY <1>1 DEF PageType
<1>3. u = [t EXCEPT !.screen = screen, !.asked = FALSE] BY <1>1 DEF Typed, PageType
<1> QED BY <1>1, <1>2, <1>3 DEF PageType

LEMMA EnteredIs ==
  ASSUME NEW t \in PageType, NEW q \in Questions, NEW v \in Values, NEW u, u = Entered(t, q, v)
  PROVE  /\ u \in PageType /\ u.dirty = [t.dirty EXCEPT ![q] = [seq |-> t.seq + 1, val |-> v]]
         /\ u.seq = t.seq + 1 /\ u.screen = t.screen
         /\ u.view = t.view /\ u.sid = t.sid /\ u.ver = t.ver /\ u.committed = t.committed /\ u.held = t.held
         /\ u.frozen = t.frozen /\ u.want = t.want /\ u.lock = t.lock
         /\ u.state = IF t.state = "conflict" THEN "conflict" ELSE "dirty"
         /\ u.astray = t.astray \ {q}
<1>1. PICK dirty, state, astray :
        /\ dirty = [t.dirty EXCEPT ![q] = [seq |-> t.seq + 1, val |-> v]]
        /\ state = (IF t.state = "conflict" THEN "conflict" ELSE "dirty")
        /\ astray = t.astray \ {q}
  OBVIOUS
<1>2. t.seq \in Nat /\ t.seq + 1 \in Nat BY DEF PageType
<1>3. [seq |-> t.seq + 1, val |-> v] \in Stamp BY <1>2 DEF Stamp
<1>4. t.dirty \in [Questions -> Stamp] /\ t.astray \subseteq Questions BY DEF PageType
<1>5. dirty \in [Questions -> Stamp] /\ astray \subseteq Questions /\ state \in {"conflict", "dirty"}
  BY <1>1, <1>3, <1>4
<1>6. u = [t EXCEPT !.seq = t.seq + 1, !.dirty = dirty, !.state = state, !.astray = astray]
  BY <1>1 DEF Entered, PageType
<1>7. u \in PageType BY <1>2, <1>5, <1>6 DEF PageType
<1>8. u.dirty = dirty /\ u.seq = t.seq + 1 /\ u.state = state /\ u.astray = astray BY <1>6 DEF PageType
<1>9. /\ u.screen = t.screen /\ u.view = t.view /\ u.sid = t.sid /\ u.ver = t.ver
      /\ u.committed = t.committed /\ u.held = t.held
      /\ u.frozen = t.frozen /\ u.want = t.want /\ u.lock = t.lock
  BY <1>6 DEF PageType
<1> QED BY <1>1, <1>7, <1>8, <1>9

(* What a page makes of an answer while its controller takes answers.       *)
LEMMA EnteredSound ==
  ASSUME SheetInv, NEW t, PageSound(t), ~t.lock, ~t.frozen, t.view \in {"opening", "failed", "draft"},
         NEW q \in Questions, NEW v \in Values,
         NEW x, x = Typed(t, q, v),
         NEW u, u = Entered(x, q, v), edits' = edits + 1, UNCHANGED sheets
  PROVE  /\ PageSound(u)' /\ u.sid = t.sid /\ u.view = t.view /\ u.lock = t.lock /\ u.held = t.held
         /\ u.frozen = t.frozen
         /\ \A b \in PatchBody : /\ Carries(t, b) => Carries(u, b)
                                 /\ Stored(t, b) => Stored(u, b)
         /\ u.state \in {"dirty", "conflict"} /\ (t.state # "conflict" => u.state = "dirty")
<1>1. t \in PageType /\ edits \in Nat /\ t.committed <= t.seq /\ t.seq <= edits
  BY DEF PageSound, SheetInv, Store
<1>2. t.seq \in Nat /\ t.committed \in Nat /\ t.dirty \in [Questions -> Stamp]
      /\ t.screen \in [Questions -> Values] /\ t.astray \subseteq Questions
  BY <1>1 DEF PageType
<1>3. /\ x \in PageType /\ x.screen = [t.screen EXCEPT ![q] = v] /\ x.dirty = t.dirty /\ x.seq = t.seq
      /\ x.view = t.view /\ x.sid = t.sid /\ x.ver = t.ver /\ x.committed = t.committed /\ x.held = t.held
      /\ x.frozen = t.frozen /\ x.want = t.want /\ x.lock = t.lock /\ x.state = t.state
      /\ x.astray = t.astray
  BY <1>1, TypedIs
<1>4. /\ u \in PageType /\ u.dirty = [t.dirty EXCEPT ![q] = [seq |-> t.seq + 1, val |-> v]]
      /\ u.seq = t.seq + 1 /\ u.screen = [t.screen EXCEPT ![q] = v]
      /\ u.view = t.view /\ u.sid = t.sid /\ u.ver = t.ver /\ u.committed = t.committed /\ u.held = t.held
      /\ u.frozen = t.frozen /\ u.want = t.want /\ u.lock = t.lock
      /\ u.state = (IF t.state = "conflict" THEN "conflict" ELSE "dirty")
      /\ u.astray = t.astray \ {q}
  <2>1. /\ u \in PageType /\ u.dirty = [x.dirty EXCEPT ![q] = [seq |-> x.seq + 1, val |-> v]]
        /\ u.seq = x.seq + 1 /\ u.screen = x.screen
        /\ u.view = x.view /\ u.sid = x.sid /\ u.ver = x.ver /\ u.committed = x.committed /\ u.held = x.held
        /\ u.frozen = x.frozen /\ u.want = x.want /\ u.lock = x.lock
        /\ u.state = (IF x.state = "conflict" THEN "conflict" ELSE "dirty")
        /\ u.astray = x.astray \ {q}
    <3>1. x \in PageType /\ u = Entered(x, q, v) BY <1>3
    <3> HIDE <1>3
    <3> QED BY <3>1, EnteredIs
  <2> QED BY <1>3, <2>1
<1>5. u.dirty[q].seq = t.seq + 1 /\ u.dirty[q].val = v /\ u.screen[q] = v BY <1>2, <1>4
<1>6. \A p \in Questions \ {q} : u.dirty[p] = t.dirty[p] /\ u.screen[p] = t.screen[p] BY <1>2, <1>4
<1>7. \A p \in Questions : t.dirty[p].seq \in Nat BY <1>2 DEF Stamp
<1>8. DirtyKeys(u) = DirtyKeys(t) \cup {q} BY <1>2, <1>5, <1>6 DEF DirtyKeys
<1>9. Open(u) = Open(t) \cup {q} /\ Open(t) \subseteq Questions BY <1>2, <1>4, <1>8 DEF Open, DirtyKeys
<1>10. ASSUME NEW b \in PatchBody, Carries(t, b) PROVE Carries(u, b)
  <2>1. DOMAIN b.batch \subseteq Questions /\ \A p \in DOMAIN b.batch : b.batch[p].seq \in Nat
    BY DEF PatchBody, Stamp
  <2>2. \A p \in DOMAIN b.batch : b.batch[p].seq <= t.seq BY <1>10 DEF Carries
  <2>3. \A p \in DOMAIN b.batch : b.batch[p].seq <= u.seq /\ b.batch[p].seq < u.dirty[q].seq
    BY <1>2, <1>4, <1>5, <2>1, <2>2
  <2>4. /\ b.ver = u.ver \/ Open(u) = Questions
        /\ DOMAIN b.batch \subseteq Open(u)
    BY <1>4, <1>9, <1>10 DEF Carries
  <2>5. \A p \in DirtyKeys(u) : \/ p \in DOMAIN b.batch /\ u.dirty[p] = b.batch[p]
                                \/ \A r \in DOMAIN b.batch : b.batch[r].seq < u.dirty[p].seq
    <3> TAKE p \in DirtyKeys(u)
    <3>1. CASE p = q BY <2>3, <3>1
    <3>2. CASE p # q
      <4>1. p \in DirtyKeys(t) /\ u.dirty[p] = t.dirty[p] BY <1>6, <1>8, <3>2 DEF DirtyKeys
      <4> QED BY <1>10, <4>1 DEF Carries
    <3> QED BY <3>1, <3>2
  <2> QED BY <1>4, <1>10, <2>3, <2>4, <2>5 DEF Carries, HasSheet
<1>11. ASSUME NEW b \in PatchBody, Stored(t, b) PROVE Stored(u, b)
  BY <1>6, <1>9, <1>11 DEF Stored
<1>12. u.state \in {"dirty", "conflict"} /\ (t.state # "conflict" => u.state = "dirty") BY <1>4
<1>13. ASSUME t.view \in {"opening", "failed"} PROVE Early(u)
  <2>1. Early(t) BY <1>13 DEF PageSound
  <2>2. ASSUME NEW p \in Questions
        PROVE  IF u.dirty[p].seq = 0 THEN u.screen[p] = None
               ELSE u.screen[p] = u.dirty[p].val /\ u.dirty[p].seq <= u.seq
    <3>1. CASE p = q BY <1>2, <1>4, <1>5, <3>1
    <3>2. CASE p # q
      <4>1. u.dirty[p] = t.dirty[p] /\ u.screen[p] = t.screen[p] BY <1>6, <3>2
      <4> QED BY <1>2, <1>4, <1>7, <2>1, <4>1 DEF Early
    <3> QED BY <3>1, <3>2
  <2>3. u.state = "dirty" BY <1>4, <2>1 DEF Early
  <2> QED BY <1>4, <2>1, <2>2, <2>3 DEF Early
<1>14. ASSUME HasSheet(t) PROVE WithSheet(u)'
  <2>1. WithSheet(t) /\ t.view = "draft" /\ DraftSound(t) BY <1>14 DEF PageSound, WithSheet
  <2>2. ASSUME NEW p \in DirtyKeys(u)
        PROVE  /\ u.committed < u.dirty[p].seq /\ u.dirty[p].seq <= u.seq
               /\ p \notin u.astray => u.screen[p] = u.dirty[p].val
    <3>1. CASE p = q BY <1>1, <1>2, <1>4, <1>5, <3>1
    <3>2. CASE p # q
      <4>1. p \in DirtyKeys(t) /\ p \in Questions \ {q} BY <1>8, <3>2 DEF DirtyKeys
      <4>2. /\ t.committed < t.dirty[p].seq /\ t.dirty[p].seq <= t.seq
            /\ p \notin t.astray => t.screen[p] = t.dirty[p].val
        BY <2>1, <4>1 DEF DraftSound
      <4> QED BY <1>2, <1>4, <1>6, <1>7, <4>1, <4>2
    <3> QED BY <3>1, <3>2
  <2>3. Current(u.sid, u.ver) => \A p \in Questions \ Open(u) : u.screen[p] = sheets[u.sid].answers[p]
    BY <1>4, <1>6, <1>9, <2>1 DEF DraftSound
  <2>4. DraftSound(u) BY <1>12, <2>2, <2>3 DEF DraftSound
  <2>5. ASSUME u.held # <<>>
        PROVE  Carries(u, u.held[1]) /\ u.held[1].ver <= sheets[u.sid].ver /\ u.state = "dirty"
    <3>1. t.held # <<>> /\ t.held \in Seq(PatchBody) BY <1>1, <1>4, <2>5 DEF PageType
    <3>2. t.held[1] \in PatchBody BY <3>1
    <3>3. Carries(t, t.held[1]) /\ t.held[1].ver <= sheets[t.sid].ver /\ t.state # "conflict"
      BY <2>1, <3>1 DEF WithSheet
    <3> QED BY <1>4, <1>10, <1>12, <3>2, <3>3
  <2>6. WithSheet(u) BY <1>4, <1>12, <2>1, <2>4, <2>5 DEF WithSheet
  <2> QED BY <2>6 DEF WithSheet, Over, DraftSound, Carries, Current, DirtyKeys, Open, HasSheet
<1>15. u.committed <= u.seq /\ u.seq <= edits' BY <1>1, <1>2, <1>4
<1>16. PageSound(u)'
  BY <1>4, <1>13, <1>14, <1>15 DEF PageSound, HasSheet, Early, DirtyKeys
<1> QED BY <1>4, <1>10, <1>11, <1>12, <1>16

(* And once the controller is frozen.                                       *)
LEMMA TypedSound ==
  ASSUME SheetInv, NEW t, PageSound(t), t.frozen = TRUE, t.view = "draft",
         NEW q \in Questions, NEW v \in Values,
         NEW u, u = Typed(t, q, v), edits' = edits + 1, UNCHANGED sheets
  PROVE  PageSound(u)'
<1>0. t \in PageType BY DEF PageSound
<1>1. t \in PageType /\ edits \in Nat /\ t.committed <= t.seq /\ t.seq <= edits /\ WithSheet(t)
  BY DEF PageSound, SheetInv, Store, HasSheet
<1>2. /\ u \in PageType /\ u.screen = [t.screen EXCEPT ![q] = v] /\ u.dirty = t.dirty /\ u.seq = t.seq
      /\ u.view = t.view /\ u.sid = t.sid /\ u.ver = t.ver /\ u.committed = t.committed /\ u.held = t.held
      /\ u.frozen = t.frozen /\ u.want = t.want /\ u.lock = t.lock /\ u.state = t.state
      /\ u.astray = t.astray
  BY <1>0, TypedIs
<1>3. Over(u) BY <1>1, <1>2 DEF WithSheet, Over, DirtyKeys
<1>4. WithSheet(u) BY <1>1, <1>2, <1>3 DEF WithSheet, Carries, HasSheet
<1>5. WithSheet(u)' BY <1>2, <1>4 DEF WithSheet, Over, Carries, DirtyKeys, HasSheet
<1>6. t.seq \in Nat BY <1>1 DEF PageType
<1>7. u.committed <= u.seq /\ u.seq <= edits' BY <1>1, <1>2, <1>6
<1> QED BY <1>2, <1>5, <1>7 DEF PageSound

LEMMA EditSound ==
  ASSUME SheetInv, NEW c \in Tabs, NEW q \in Questions, NEW v \in Values, Edit(c, q, v)
  PROVE  SheetInv'
<1>1. PICK t, x, u : /\ t = tab[c] /\ x = Typed(t, q, v)
                     /\ u = IF x.frozen THEN x ELSE Entered(x, q, v)
  OBVIOUS
<1>2. /\ tab' = [tab EXCEPT ![c] = u] /\ edits' = edits + 1 /\ UNCHANGED <<sheets, net>>
      /\ t.view \in {"opening", "failed", "draft"} /\ ~t.lock
  BY <1>1 DEF Edit, Editable, Typed
<1>3. PageSound(t) /\ t \in PageType /\ edits \in Nat BY <1>1, ThePage
<1>4. /\ x \in PageType /\ x.screen = [t.screen EXCEPT ![q] = v] /\ x.dirty = t.dirty /\ x.seq = t.seq
      /\ x.view = t.view /\ x.sid = t.sid /\ x.ver = t.ver /\ x.committed = t.committed /\ x.held = t.held
      /\ x.frozen = t.frozen /\ x.want = t.want /\ x.lock = t.lock /\ x.state = t.state
      /\ x.astray = t.astray
  BY <1>1, <1>3, TypedIs
<1>5. edits' \in Nat /\ edits <= edits' BY <1>2, <1>3
<1>6. ASSUME NEW m \in Awaited(c)
      PROVE  /\ Sound(m) /\ Fits(t, m) /\ m.kind \in {"open", "patch", "load"}
             /\ m.kind = "patch" => m.body \in PatchBody
  <2>1. Sound(m) /\ Fits(t, m) /\ m.kind \in {"open", "patch", "load", "seal"} BY <1>1, AwaitedFits
  <2> QED BY <1>2, <2>1 DEF Fits, Sound, PatchSound
<1>7. CASE t.frozen
  <2>1. u = x BY <1>1, <1>4, <1>7
  <2>2. t.view = "draft" BY <1>2, <1>3, <1>7 DEF PageSound, Early
  <2>3. PageSound(u)' BY <1>1, <1>2, <1>3, <1>7, <2>1, <2>2, TypedSound
  <2>4. ASSUME NEW m \in Awaited(c) PROVE Fits(u, m)
    BY <1>4, <1>6, <1>7, <2>1 DEF Fits, Carries, HasSheet
  <2> QED BY <1>2, <1>5, <2>3, <2>4, GoesOn
<1>8. CASE ~t.frozen
  <2>1. u = Entered(x, q, v) BY <1>1, <1>4, <1>8
  <2>2. /\ PageSound(u)' /\ u.sid = t.sid /\ u.view = t.view /\ u.lock = t.lock /\ u.held = t.held
        /\ u.frozen = t.frozen
        /\ \A b \in PatchBody : /\ Carries(t, b) => Carries(u, b)
                                /\ Stored(t, b) => Stored(u, b)
        /\ u.state \in {"dirty", "conflict"} /\ (t.state # "conflict" => u.state = "dirty")
    BY <1>1, <1>2, <1>3, <1>8, <2>1, EnteredSound
  <2>3. ASSUME NEW m \in Awaited(c) PROVE Fits(u, m)
    BY <1>6, <2>2 DEF Fits, HasSheet
  <2> QED BY <1>2, <1>5, <2>2, <2>3, GoesOn
<1> QED BY <1>7, <1>8

LEMMA AutosaveSound == ASSUME SheetInv, NEW c \in Tabs, Autosave(c) PROVE SheetInv'
<1>1. HasSheet(tab[c])
  <2>1. PageSound(tab[c]) /\ tab[c] \in PageType BY ThePage
  <2>2. tab[c].view \in {"away", "opening", "failed", "draft", "settled"} BY <2>1 DEF PageType
  <2>3. tab[c].ver # NoVer BY DEF Autosave, MaySend
  <2> QED BY <2>1, <2>2, <2>3 DEF PageSound, Early, Page, HasSheet
<1>2. Quiet(c, tab[c], net) /\ Ready(tab[c]) BY <1>1, NothingAwaited DEF Autosave, MaySend
<1> QED BY <1>2, PumpSound DEF Autosave

LEMMA RetrySound == ASSUME SheetInv, NEW c \in Tabs, Retry(c) PROVE SheetInv'
<1>1. PICK t, u : t = tab[c] /\ u = [t EXCEPT !.state = "dirty"] OBVIOUS
<1>2. t.view = "draft" /\ t.state = "error" /\ ~t.frozen /\ Pump(c, u, net) /\ UNCHANGED <<sheets, edits>>
  BY <1>1 DEF Retry
<1>3. HasSheet(t) /\ PageSound(t) /\ t \in PageType /\ WithSheet(t) BY <1>1, <1>2, ThePage DEF HasSheet
<1>4. ~InFlight(c)
  <2>1. \A m \in Awaited(c) : m.kind # "patch" BY <1>1, <1>2, AwaitedFits DEF Fits
  <2> QED BY <1>1, <1>2, <1>3, <2>1 DEF InFlight, Awaits, WithSheet
<1>5. Quiet(c, t, net) /\ Ready(t) BY <1>1, <1>2, <1>3, <1>4, NothingAwaited
<1>6. Alike(t, u) /\ u.want = t.want /\ u.state = "dirty" /\ u.lock = t.lock /\ u.held = <<>>
  BY <1>1, <1>3, <1>5 DEF PageType, Alike, Ready
<1>7. PageSound(u) /\ HasSheet(u) BY <1>3, <1>6, AlikeSound DEF WithSheet
<1>8. Quiet(c, u, net) BY <1>5, <1>6, QuietAlike DEF Alike
<1> QED BY <1>2, <1>6, <1>7, <1>8, PumpSound DEF Ready

(* What a confirmed batch makes of the page.                                *)
LEMMA ConfirmedReady ==
  ASSUME SheetInv, NEW c \in Tabs, NEW m \in Awaited(c), m.kind = "patch", m.at = "answered", m.answer = "ok"
  PROVE  LET u == Confirmed(tab[c], m) IN Ready(u) /\ u.view = tab[c].view /\ u.sid = tab[c].sid
<1>1. PICK t, b, cleared, u :
        /\ t = tab[c] /\ b = m.body
        /\ cleared = {q \in DOMAIN b.batch : t.dirty[q].seq = b.batch[q].seq}
        /\ u = Confirmed(t, m)
  OBVIOUS
<1>2. PICK dirty, committed :
        /\ dirty = [q \in Questions |-> IF q \in cleared THEN Clean ELSE t.dirty[q]]
        /\ committed = Max({t.committed} \cup {b.batch[q].seq : q \in cleared})
  OBVIOUS
<1>3. Sound(m) /\ Fits(t, m) BY <1>1, AwaitedFits
<1>4. /\ b \in PatchBody /\ b.sid \in DOMAIN sheets /\ m.row.ver = b.ver + 1
      /\ m.row.ver <= sheets[b.sid].ver
  BY <1>1, <1>3 DEF Sound, PatchSound
<1>5. /\ Carries(t, b) /\ t.held = <<>> /\ t.state \in {"saving", "dirty", "clean"}
      /\ ~t.frozen => Stored(t, b)
  BY <1>1, <1>3 DEF Fits
<1>6. HasSheet(t) /\ b.sid = t.sid BY <1>5 DEF Carries
<1>7. PageSound(t) /\ t \in PageType /\ WithSheet(t) BY <1>1, <1>6, ThePage
<1>8. /\ DOMAIN b.batch \subseteq Questions /\ \A q \in DOMAIN b.batch : b.batch[q] \in Stamp /\ b.batch[q].seq \in Nat
      /\ b.ver \in Nat /\ m.row.ver \in Nat
  BY <1>4 DEF PatchBody, Stamp
<1>9. /\ t.dirty \in [Questions -> Stamp] /\ t.committed \in Nat /\ t.seq \in Nat /\ t.committed <= t.seq
      /\ \A q \in Questions : t.dirty[q] \in Stamp /\ t.dirty[q].seq \in Nat
  BY <1>7 DEF PageType, PageSound, Stamp
<1>10. u = [t EXCEPT !.ver = m.row.ver, !.dirty = dirty, !.committed = committed]
  BY <1>1, <1>2, <1>7 DEF Confirmed, PageType
<1>11. Clean \in Stamp /\ Clean.seq = 0 BY DEF Clean, Stamp, Values
<1>12. dirty \in [Questions -> Stamp] BY <1>2, <1>9, <1>11
<1>13. /\ committed \in {t.committed} \cup {b.batch[q].seq : q \in cleared}
       /\ \A n \in {t.committed} \cup {b.batch[q].seq : q \in cleared} : n <= committed
  <2> DEFINE S == {t.committed} \cup {b.batch[q].seq : q \in cleared}
  <2>0. \A q \in cleared : q \in DOMAIN b.batch /\ b.batch[q].seq \in Nat BY <1>1, <1>8
  <2>1. S \in SUBSET Nat /\ S # {} BY <1>9, <2>0
  <2>2. \A n \in S : n <= t.seq BY <1>1, <1>5, <1>9 DEF Carries
  <2>3. committed = Max(S) BY <1>2
  <2> HIDE DEF S
  <2>4. IsFiniteSet(S) BY <1>9, <2>1, <2>2, FS_BoundedSetOfNaturals
  <2>5. committed \in S /\ \A n \in S : n <= committed BY <2>1, <2>3, <2>4, MaxIs
  <2> QED BY <2>5 DEF S
<1>14. committed \in Nat /\ committed <= t.seq /\ t.committed <= committed
  BY <1>1, <1>5, <1>8, <1>9, <1>13 DEF Carries
<1>15. /\ u \in PageType /\ u.ver = m.row.ver /\ u.dirty = dirty /\ u.committed = committed
       /\ u.view = t.view /\ u.sid = t.sid /\ u.seq = t.seq /\ u.screen = t.screen /\ u.frozen = t.frozen
       /\ u.held = t.held /\ u.state = t.state /\ u.want = t.want /\ u.lock = t.lock /\ u.astray = t.astray
  BY <1>7, <1>8, <1>10, <1>12, <1>14 DEF PageType
<1>16. DirtyKeys(u) = DirtyKeys(t) \ cleared
  BY <1>2, <1>11, <1>15 DEF DirtyKeys
<1>17. ASSUME t.frozen PROVE Over(u)
  <2>1. Over(t) BY <1>7, <1>17 DEF WithSheet
  <2> QED BY <1>9, <1>14, <1>15, <1>16, <2>1 DEF Over
<1>18. ASSUME ~t.frozen PROVE u.view = "draft" /\ DraftSound(u)
  <2>1. DraftSound(t) /\ t.view = "draft" /\ Stored(t, b) BY <1>5, <1>7, <1>18 DEF WithSheet
  <2>2. \A p \in DirtyKeys(t) : \/ p \in DOMAIN b.batch /\ t.dirty[p] = b.batch[p]
                                \/ \A q \in DOMAIN b.batch : b.batch[q].seq < t.dirty[p].seq
    BY <1>5, <1>18 DEF Carries
  <2>3. DOMAIN b.batch \subseteq Open(t) BY <1>5, <1>18 DEF Carries
  <2>4. ASSUME NEW q \in DirtyKeys(u)
        PROVE  /\ u.committed < u.dirty[q].seq /\ u.dirty[q].seq <= u.seq
               /\ q \notin u.astray => u.screen[q] = u.dirty[q].val
    <3>1. q \in DirtyKeys(t) /\ q \notin cleared /\ q \in Questions BY <1>16 DEF DirtyKeys
    <3>2. u.dirty[q] = t.dirty[q] BY <1>2, <1>15, <3>1
    <3>3. /\ t.committed < t.dirty[q].seq /\ t.dirty[q].seq <= t.seq
          /\ q \notin t.astray => t.screen[q] = t.dirty[q].val
      BY <2>1, <3>1 DEF DraftSound
    <3>4. ~(q \in DOMAIN b.batch /\ t.dirty[q] = b.batch[q]) BY <1>1, <3>1
    <3>5. \A p \in DOMAIN b.batch : b.batch[p].seq < t.dirty[q].seq BY <2>2, <3>1, <3>4
    <3>6. committed < t.dirty[q].seq BY <1>1, <1>13, <3>3, <3>5
    <3> QED BY <1>15, <3>2, <3>3, <3>6
  <2>5. ASSUME Current(u.sid, u.ver), NEW q \in Questions \ Open(u)
        PROVE  u.screen[q] = sheets[u.sid].answers[q]
    <3>1. Current(b.sid, b.ver + 1) BY <1>4, <1>6, <1>15, <2>5
    <3>2. q \notin t.astray /\ q \notin DirtyKeys(u) BY <1>15, <2>5 DEF Open
    <3>3. CASE q \in DOMAIN b.batch
      <4>1. q \in DirtyKeys(t) BY <2>3, <3>2, <3>3 DEF Open
      <4>2. t.dirty[q].seq = b.batch[q].seq BY <1>1, <1>16, <3>2, <4>1
      <4>3. t.dirty[q] = b.batch[q] BY <1>8, <1>9, <2>2, <3>3, <4>1, <4>2
      <4>4. t.screen[q] = t.dirty[q].val BY <2>1, <3>2, <4>1 DEF DraftSound
      <4>5. sheets[b.sid].answers[q] = b.batch[q].val BY <2>1, <3>1, <3>3 DEF Stored
      <4> QED BY <1>6, <1>15, <4>3, <4>4, <4>5
    <3>4. CASE q \notin DOMAIN b.batch
      <4>1. q \notin Open(t) BY <1>1, <1>16, <3>2, <3>4 DEF Open
      <4> QED BY <1>6, <1>15, <2>1, <2>5, <3>1, <3>4, <4>1 DEF Stored
    <3> QED BY <3>3, <3>4
  <2>6. u.state = "clean" => DirtyKeys(u) = {} BY <1>15, <1>16, <2>1 DEF DraftSound
  <2> QED BY <1>15, <2>1, <2>4, <2>5, <2>6 DEF DraftSound
<1>19. WithSheet(u) BY <1>4, <1>5, <1>6, <1>7, <1>8, <1>15, <1>17, <1>18 DEF WithSheet
<1>20. PageSound(u) /\ HasSheet(u) BY <1>6, <1>7, <1>14, <1>15, <1>19 DEF PageSound, HasSheet
<1> QED BY <1>1, <1>5, <1>15, <1>20 DEF Ready

(* What a refused batch makes of it, or one that got lost.                  *)
LEMMA RejectedSound ==
  ASSUME NEW t, PageSound(t), HasSheet(t), t.held = <<>>, NEW state \in {"conflict", "error"}
  PROVE  LET u == Rejected(t, state) IN PageSound(u) /\ u.view = t.view /\ u.sid = t.sid
<1>1. PICK u, lock : u = Rejected(t, state) /\ lock = IF t.want.kind = "seal" THEN FALSE ELSE t.lock OBVIOUS
<1>2. t \in PageType /\ t.lock \in BOOLEAN BY DEF PageSound, PageType
<1>3. lock \in BOOLEAN BY <1>1, <1>2
<1>4. 0 \in 0 .. MaxRetries BY ExamSheetAssumption
<1>5. Nothing \in [kind : {"none", "seal", "leave"}, ack : BOOLEAN] /\ Nothing.kind = "none" BY DEF Nothing
<1>6. u = [t EXCEPT !.state = state, !.tries = 0, !.want = Nothing, !.lock = lock]
  BY <1>1, <1>2 DEF Rejected, PageType
<1>7. Alike(t, u) /\ u.want.kind = "none" /\ u.state = state /\ u.held = <<>>
  BY <1>2, <1>3, <1>4, <1>5, <1>6 DEF PageType, Alike
<1>8. PageSound(u) BY <1>7, AlikeSound
<1> QED BY <1>1, <1>7, <1>8 DEF Alike

(* The answer to a patch.                                                   *)
LEMMA PatchAnswerSound == ASSUME SheetInv, NEW c \in Tabs, PatchAnswer(c) PROVE SheetInv'
<1>1. PICK m \in Awaited(c) :
        /\ m.kind = "patch" /\ m.at = "answered"
        /\ CASE m.answer = "ok" -> Pump(c, Confirmed(tab[c], m), net \ {m})
             [] m.answer \in {"conflict", "settled"} ->
                  tab' = [tab EXCEPT ![c] = Rejected(@, "conflict")] /\ net' = net \ {m}
             [] m.answer = "refused" ->
                  tab' = [tab EXCEPT ![c] = Rejected(@, "error")] /\ net' = net \ {m}
  BY DEF PatchAnswer
<1>2. UNCHANGED <<sheets, edits>> BY DEF PatchAnswer
<1>3. Sound(m) /\ Fits(tab[c], m) BY AwaitedFits
<1>4. Quiet(c, tab[c], net \ {m}) BY <1>1, QuietNet
<1>5. CASE m.answer = "ok"
  <2>1. PICK u : u = Confirmed(tab[c], m) /\ Pump(c, u, net \ {m}) BY <1>1, <1>5
  <2>2. Ready(u) /\ u.view = tab[c].view /\ u.sid = tab[c].sid BY <1>1, <1>5, <2>1, ConfirmedReady
  <2>3. Quiet(c, u, net \ {m}) BY <1>4, <2>2, QuietAlike
  <2> QED BY <1>2, <2>1, <2>2, <2>3, PumpSound
<1>6. CASE m.answer # "ok"
  <2>1. m.answer \in {"conflict", "settled", "refused"} BY <1>1, <1>3, <1>6 DEF Sound, PatchSound
  <2>2. \E state \in {"conflict", "error"} :
           tab' = [tab EXCEPT ![c] = Rejected(@, state)] /\ net' = net \ {m}
    BY <1>1, <2>1
  <2>3. HasSheet(tab[c]) /\ tab[c].held = <<>> BY <1>1, <1>3 DEF Fits, Carries
  <2>4. PageSound(tab[c]) BY ThePage
  <2>5. PICK state \in {"conflict", "error"} : tab' = [tab EXCEPT ![c] = Rejected(tab[c], state)] BY <2>2
  <2>6. PICK u : u = Rejected(tab[c], state) OBVIOUS
  <2>7. PageSound(u) /\ u.view = tab[c].view /\ u.sid = tab[c].sid BY <2>3, <2>4, <2>6, RejectedSound
  <2>8. Quiet(c, u, net \ {m}) BY <1>4, <2>7, QuietAlike
  <2> QED BY <1>2, <2>2, <2>5, <2>6, <2>7, <2>8, Rests
<1> QED BY <1>5, <1>6

(* The back-off is over.                                                    *)
LEMMA ResendSound == ASSUME SheetInv, NEW c \in Tabs, Resend(c) PROVE SheetInv'
<1>1. PICK t, b : t = tab[c] /\ b = t.held[1] OBVIOUS
<1>2. t.held # <<>> /\ UNCHANGED <<sheets, edits>> BY <1>1 DEF Resend
<1>3. PageSound(t) /\ t \in PageType BY <1>1, ThePage
<1>4. t.held \in Seq(PatchBody) BY <1>3 DEF PageType
<1>5. b \in PatchBody BY <1>1, <1>2, <1>4
<1>6. HasSheet(t)
  <2>1. t.view \in {"away", "opening", "failed", "draft", "settled"} BY <1>3 DEF PageType
  <2> QED BY <1>2, <1>3, <2>1 DEF PageSound, Early, Page, HasSheet
<1>7. WithSheet(t) BY <1>3, <1>6 DEF PageSound
<1>8. Carries(t, b) /\ b.ver <= sheets[t.sid].ver /\ t.state \in {"retrying", "dirty", "clean"}
  BY <1>1, <1>2, <1>7 DEF WithSheet
<1>9. \A m \in Awaited(c) : m.kind = "load" BY <1>1, <1>2, AwaitedFits DEF Fits
<1>10. Quiet(c, t, net) BY <1>1, <1>9, QuietNet
<1>11. <<>> \in Seq(PatchBody) OBVIOUS
<1>12. CASE t.frozen
  <2>1. PICK u : u = [t EXCEPT !.held = <<>>] OBVIOUS
  <2>2. tab' = [tab EXCEPT ![c] = u] /\ UNCHANGED net BY <1>1, <1>12, <2>1 DEF Resend
  <2>3. Alike(t, u) /\ u.held = <<>> /\ u.state = t.state /\ u.want = t.want /\ u.lock = t.lock
    BY <1>3, <1>11, <2>1 DEF PageType, Alike
  <2>4. PageSound(u) BY <1>3, <1>6, <1>7, <1>12, <2>3, NothingDirty, AlikeSound DEF WithSheet
  <2>5. Quiet(c, u, net) BY <1>10, <2>3, QuietAlike DEF Alike
  <2> QED BY <1>2, <2>2, <2>4, <2>5, Rests
<1>13. CASE ~t.frozen
  <2>1. PICK u : u = [t EXCEPT !.held = <<>>, !.state = "saving"] OBVIOUS
  <2>2. tab' = [tab EXCEPT ![c] = u] /\ Post(c, "patch", b, net) BY <1>1, <1>13, <2>1 DEF Resend
  <2>3. Alike(t, u) /\ u.held = <<>> /\ u.state = "saving" /\ u.want = t.want /\ u.lock = t.lock
    BY <1>3, <1>11, <2>1 DEF PageType, Alike
  <2>4. PageSound(u) BY <1>3, <1>6, <1>7, <2>3, AlikeSound DEF WithSheet
  <2>5. Carries(u, b) BY <1>8, <2>3 DEF Carries, Alike, Open, DirtyKeys, HasSheet
  <2>6. Quiet(c, u, net) BY <1>10, <2>3, QuietAlike DEF Alike
  <2>7. b.sid \in DOMAIN sheets /\ b.ver <= sheets[b.sid].ver BY <1>7, <1>8 DEF Carries, WithSheet
  <2> QED BY <1>2, <1>5, <2>2, <2>3, <2>4, <2>5, <2>6, <2>7, SendsPatch
<1> QED BY <1>12, <1>13

-----------------------------------------------------------------------------
(* The page is entered, and sealed, left or brought up to date.             *)

LEMMA PageIsEarly == Page.view = "away" /\ Page.committed = 0 /\ Page.seq = 0 /\ Early(Page)
<1>1. \A q \in Questions : Page.dirty[q] = Clean /\ Page.screen[q] = None BY DEF Page, Empty
<1>2. DirtyKeys(Page) = {} BY <1>1 DEF DirtyKeys, Clean
<1> QED BY <1>1, <1>2 DEF Page, Early, Clean, Nothing

LEMMA EarlySound ==
  ASSUME NEW t, t \in PageType, t.committed <= t.seq, t.seq <= edits, Early(t),
         NEW view \in {"opening", "failed"}
  PROVE  LET u == [t EXCEPT !.view = view] IN PageSound(u) /\ u.view = view /\ u.held = <<>>
<1>1. PICK u : u = [t EXCEPT !.view = view] OBVIOUS
<1>2. /\ u \in PageType /\ u.view = view /\ u.screen = t.screen /\ u.dirty = t.dirty /\ u.ver = t.ver
      /\ u.state = t.state /\ u.seq = t.seq /\ u.committed = t.committed
      /\ u.held = t.held /\ u.frozen = t.frozen /\ u.want = t.want /\ u.lock = t.lock
  BY <1>1 DEF PageType
<1>3. Early(u) BY <1>2 DEF Early, DirtyKeys
<1>4. PageSound(u) BY <1>2, <1>3 DEF PageSound, HasSheet
<1> QED BY <1>1, <1>2, <1>4 DEF Early

LEMMA EnterSound == ASSUME SheetInv, NEW c \in Tabs, Enter(c) PROVE SheetInv'
<1>1. PICK t, u, r : t = tab[c] /\ u = [t EXCEPT !.view = "opening"] /\ r = Request(c, "open", <<>>) OBVIOUS
<1>2. /\ t.view = "away" /\ net' = net \cup {r} /\ UNCHANGED <<sheets, edits>>
      /\ \A m \in net : m.from # c
  BY <1>1 DEF Enter, Post
<1>3. tab' = [tab EXCEPT ![c] = u] BY <1>1 DEF Enter
<1>4. PageSound(t) /\ t = Page BY <1>1, <1>2, ThePage DEF PageSound
<1>5. PageSound(u) /\ u.view = "opening" /\ u.held = <<>>
  BY <1>1, <1>4, PageIsEarly, EarlySound DEF PageSound
<1>6. Quiet(c, u, net) BY <1>2 DEF SheetInv, Quiet
<1>7. /\ Shaped(r) /\ r.from = c /\ r.kind = "open" /\ r.at = "wire" /\ r.awaited = TRUE
  BY <1>1 DEF Request, Shaped
<1>8. OpenSound(r) BY <1>7 DEF OpenSound
<1>9. Sound(r) BY <1>7, <1>8 DEF Sound
<1>10. Fits(u, r) BY <1>5, <1>7 DEF Fits
<1> QED BY <1>2, <1>3, <1>5, <1>6, <1>7, <1>9, <1>10, Sends

(* What openSheet returns becomes the page; what was typed before stays.    *)
LEMMA AssembledReady ==
  ASSUME SheetInv, NEW t, PageSound(t), Early(t), NEW row, RowTrue(row), row.status = "draft"
  PROVE  Ready(Assembled(t, row))
<1>1. PICK u, screen, astray :
        /\ u = Assembled(t, row)
        /\ screen = [q \in Questions |-> IF t.screen[q] # None THEN t.screen[q] ELSE row.answers[q]]
        /\ astray = {q \in DirtyKeys(t) : t.screen[q] = None /\ row.answers[q] # None}
  OBVIOUS
<1>2. t \in PageType /\ t.committed <= t.seq /\ t.seq <= edits BY DEF PageSound
<1>3. row.sid \in DOMAIN sheets /\ row.sid \in Nat /\ row.ver \in Nat /\ row.answers \in [Questions -> Values]
  BY DEF RowTrue, SheetInv, Store
<1>4. t.screen \in [Questions -> Values] /\ \A q \in Questions : t.dirty[q].seq \in Nat
  BY <1>2 DEF PageType, Stamp
<1>5. screen \in [Questions -> Values] /\ astray \subseteq Questions BY <1>1, <1>3, <1>4 DEF DirtyKeys
<1>6. u = [t EXCEPT !.view = "draft", !.sid = row.sid, !.ver = row.ver, !.screen = screen, !.astray = astray]
  BY <1>1, <1>2 DEF Assembled, PageType
<1>7. /\ u \in PageType /\ u.view = "draft" /\ u.sid = row.sid /\ u.ver = row.ver /\ u.screen = screen
      /\ u.astray = astray
      /\ u.dirty = t.dirty /\ u.state = t.state /\ u.seq = t.seq /\ u.committed = t.committed
      /\ u.held = t.held /\ u.frozen = t.frozen /\ u.want = t.want /\ u.lock = t.lock
  BY <1>2, <1>3, <1>5, <1>6 DEF PageType
<1>8. DirtyKeys(u) = DirtyKeys(t) BY <1>7 DEF DirtyKeys
<1>9. ASSUME NEW q \in DirtyKeys(u)
      PROVE  /\ u.committed < u.dirty[q].seq /\ u.dirty[q].seq <= u.seq
             /\ q \notin u.astray => u.screen[q] = u.dirty[q].val
  <2>1. q \in Questions /\ q \in DirtyKeys(t) /\ t.dirty[q].seq > 0 BY <1>8 DEF DirtyKeys
  <2>2. t.screen[q] = t.dirty[q].val /\ t.dirty[q].seq <= t.seq /\ t.committed = 0
    BY <2>1 DEF Early
  <2>3. q \notin astray => screen[q] = t.screen[q] BY <1>1, <2>1
  <2> QED BY <1>4, <1>7, <2>1, <2>2, <2>3
<1>10. ASSUME Current(u.sid, u.ver), NEW q \in Questions \ Open(u)
       PROVE  u.screen[q] = sheets[u.sid].answers[q]
  <2>1. q \in Questions /\ ~(t.dirty[q].seq > 0) BY <1>8, <1>10 DEF Open, DirtyKeys
  <2>2. t.screen[q] = None BY <1>4, <2>1 DEF Early
  <2>3. screen[q] = row.answers[q] BY <1>1, <2>1, <2>2
  <2> QED BY <1>7, <1>10, <2>3 DEF RowTrue
<1>11. DraftSound(u) BY <1>7, <1>8, <1>9, <1>10 DEF DraftSound, Early
<1>12. WithSheet(u) BY <1>3, <1>7, <1>11 DEF WithSheet, Early, RowTrue
<1>13. PageSound(u) /\ HasSheet(u) BY <1>2, <1>7, <1>12 DEF PageSound, HasSheet
<1> QED BY <1>1, <1>7, <1>13 DEF Ready, Early

LEMMA OpenAnswerSound == ASSUME SheetInv, NEW c \in Tabs, OpenAnswer(c) PROVE SheetInv'
<1>1. PICK m \in Awaited(c) :
        /\ m.kind = "open" /\ m.at = "answered"
        /\ IF m.answer = "ok"
             THEN Pump(c, Assembled(tab[c], m.row), net \ {m})
             ELSE tab' = [tab EXCEPT ![c].view = "failed"] /\ net' = net \ {m}
  BY DEF OpenAnswer
<1>2. UNCHANGED <<sheets, edits>> BY DEF OpenAnswer
<1>3. Sound(m) /\ Fits(tab[c], m) BY AwaitedFits
<1>4. PageSound(tab[c]) /\ Early(tab[c]) /\ ~HasSheet(tab[c])
  BY <1>1, <1>3, ThePage DEF Fits, PageSound, HasSheet
<1>5. \A t : Quiet(c, t, net \ {m})
  <2>1. Quiet(c, tab[c], net \ {m}) BY <1>1, QuietNet
  <2> QED BY <1>4, <2>1, QuietOpening
<1>6. CASE m.answer = "ok"
  <2>1. Pump(c, Assembled(tab[c], m.row), net \ {m}) BY <1>1, <1>6
  <2>2. RowTrue(m.row) /\ m.row.status = "draft" BY <1>1, <1>3, <1>6 DEF Sound, OpenSound
  <2> QED BY <1>2, <1>4, <1>5, <2>1, <2>2, AssembledReady, PumpSound
<1>7. CASE m.answer # "ok"
  <2>1. PICK u : u = [tab[c] EXCEPT !.view = "failed"] OBVIOUS
  <2>2. tab' = [tab EXCEPT ![c] = u] /\ net' = net \ {m} BY <1>1, <1>7, <2>1
  <2>3. PageSound(u) BY <1>4, <2>1, EarlySound DEF PageSound
  <2>4. Quiet(c, u, net \ {m}) BY <1>5
  <2> QED BY <1>2, <2>2, <2>3, <2>4, Rests
<1> QED BY <1>6, <1>7

(* An action that waits for a flush: nothing else of the page changes.      *)
LEMMA WaitsForFlush ==
  ASSUME SheetInv, UNCHANGED <<sheets, net, edits>>, NEW c \in Tabs, InFlight(c),
         NEW u, Alike(tab[c], u), u.state = tab[c].state, u.held = tab[c].held,
         u.state # "conflict", u.want.kind = "seal" => u.lock,
         tab' = [tab EXCEPT ![c] = u]
  PROVE  SheetInv'
<1>1. PICK t : t = tab[c] OBVIOUS
<1>2. PageSound(t) /\ t \in PageType BY <1>1, ThePage
<1>3. ASSUME t.held = <<>> PROVE \E m \in Awaited(c) : m.kind = "patch"
  BY <1>1, <1>3 DEF InFlight, Awaits
<1>4. HasSheet(t)
  <2>1. CASE t.held # <<>>
    <3>1. t.view \in {"away", "opening", "failed", "draft", "settled"} BY <1>2 DEF PageType
    <3> QED BY <1>2, <2>1, <3>1 DEF PageSound, Early, Page, HasSheet
  <2>2. CASE t.held = <<>>
    <3>1. PICK m \in Awaited(c) : m.kind = "patch" BY <1>3, <2>2
    <3>2. Carries(t, m.body) BY <1>1, <3>1, AwaitedFits DEF Fits
    <3> QED BY <3>2 DEF Carries
  <2> QED BY <2>1, <2>2
<1>5. WithSheet(t) BY <1>2, <1>4 DEF PageSound
<1>6. PageSound(u) /\ HasSheet(u) /\ DirtyKeys(u) = DirtyKeys(t)
  BY <1>1, <1>2, <1>4, <1>5, NothingDirty, AlikeSound DEF WithSheet
<1>7. Open(u) = Open(t) /\ u.frozen = t.frozen /\ u.sid = t.sid /\ u.view = t.view /\ u.ver = t.ver
      /\ u.seq = t.seq /\ u.dirty = t.dirty /\ u.screen = t.screen
  BY <1>1, <1>6 DEF Open, Alike
<1>8. ASSUME NEW m \in Awaited(c) PROVE Fits(u, m)
  <2>1. Fits(t, m) /\ m.kind \in {"open", "patch", "load", "seal"}
        /\ \A n \in Awaited(c) : m.kind # "load" /\ n.kind # "load" => n = m
    BY <1>1, AwaitedFits
  <2>2. CASE m.kind = "load" BY <1>6, <1>7, <2>1, <2>2 DEF Fits
  <2>3. CASE m.kind # "load"
    <3>1. t.held = <<>> BY <2>1, <2>3 DEF Fits
    <3>2. m.kind = "patch" BY <1>3, <2>1, <2>3, <3>1
    <3>3. Carries(t, m.body) BY <2>1, <3>2 DEF Fits
    <3>4. Carries(u, m.body) BY <1>6, <1>7, <3>3 DEF Carries
    <3>5. Stored(t, m.body) => Stored(u, m.body) BY <1>7 DEF Stored
    <3> QED BY <1>1, <1>7, <2>1, <3>1, <3>2, <3>4, <3>5 DEF Fits
  <2> QED BY <2>2, <2>3
<1>9. net' \subseteq net OBVIOUS
<1> QED BY <1>6, <1>8, <1>9, Keeps

(* The leave barrier is through: the page is gone.                          *)
LEMMA LeaveSound ==
  ASSUME SheetInv, UNCHANGED <<sheets, edits>>, NEW c \in Tabs, NEW u, u.want.kind = "leave",
         Resolve(c, u, net)
  PROVE  SheetInv'
<1>1. tab' = [tab EXCEPT ![c] = Page] /\ net' = Forsaken(c, net) BY DEF Resolve
<1>2. Quiet(c, Page, net') BY <1>1, QuietForsaken DEF SheetInv
<1>3. PageSound(Page) BY EmptyPage DEF SheetInv, Store
<1> QED BY <1>1, <1>2, <1>3, Rests

(* The user seals.                                                          *)
LEMMA PressSealSound == ASSUME SheetInv, NEW c \in Tabs, PressSeal(c) PROVE SheetInv'
<1>1. PICK t, u, want :
        /\ t = tab[c] /\ want = [kind |-> "seal", ack |-> t.asked] /\ u = [t EXCEPT !.lock = TRUE, !.want = want]
  OBVIOUS
<1>2. t.view = "draft" /\ ~t.lock /\ t.state \notin {"conflict", "error"} /\ UNCHANGED <<sheets, edits>>
  BY <1>1 DEF PressSeal
<1>3. Flush(c, u) BY <1>1 DEF PressSeal
<1>4. PageSound(t) /\ t \in PageType /\ HasSheet(t) /\ WithSheet(t) BY <1>1, <1>2, ThePage DEF HasSheet
<1>5. want \in [kind : {"none", "seal", "leave"}, ack : BOOLEAN] /\ want.kind = "seal"
  BY <1>1, <1>4 DEF PageType
<1>6. Alike(t, u) /\ u.want = want /\ u.lock = TRUE /\ u.state = t.state /\ u.held = t.held
  BY <1>1, <1>4, <1>5 DEF PageType, Alike
<1>7. CASE InFlight(c)
  <2>1. tab' = [tab EXCEPT ![c] = u] /\ UNCHANGED net BY <1>3, <1>7 DEF Flush
  <2> QED BY <1>1, <1>2, <1>6, <1>7, <2>1, WaitsForFlush
<1>8. CASE ~InFlight(c)
  <2>1. Quiet(c, t, net) /\ t.held = <<>> BY <1>1, <1>2, <1>4, <1>8, NothingAwaited
  <2>2. PageSound(u) /\ HasSheet(u) /\ DirtyKeys(u) = DirtyKeys(t)
    BY <1>2, <1>4, <1>6, <2>1, NothingDirty, AlikeSound
  <2>3. Ready(u) BY <1>2, <1>6, <2>1, <2>2 DEF Ready
  <2>4. Quiet(c, u, net) BY <1>6, <2>1, QuietAlike DEF Alike
  <2>5. u.seq \in Nat /\ u.committed \in Nat BY <1>6 DEF Alike, PageType
  <2>6. CASE u.seq <= u.committed
    <3>1. ~(u.seq > u.committed) BY <2>5, <2>6
    <3>2. Resolve(c, u, net) BY Zenon, <1>3, <1>8, <2>6, <3>1 DEF Flush
    <3>3. DirtyKeys(t) = {}
      <4>1. CASE t.frozen BY <1>4, <4>1, NothingDirty
      <4>2. CASE ~t.frozen
        <5> SUFFICES ASSUME NEW q \in DirtyKeys(t) PROVE FALSE OBVIOUS
        <5>1. t.committed < t.dirty[q].seq /\ t.dirty[q].seq <= t.seq BY <1>4, <4>2 DEF WithSheet, DraftSound
        <5>2. t.seq <= t.committed BY <1>6, <2>6 DEF Alike
        <5>3. t.seq \in Nat /\ t.committed \in Nat /\ t.dirty[q].seq \in Nat
          BY <1>4 DEF PageType, Stamp, DirtyKeys
        <5> QED BY <5>1, <5>2, <5>3
      <4> QED BY <4>1, <4>2
    <3> QED BY <1>2, <1>6, <2>2, <2>3, <2>4, <3>2, <3>3, ResolveSound
  <2>7. CASE ~(u.seq <= u.committed)
    <3>1. u.seq > u.committed BY <2>5, <2>7
    <3>2. Pump(c, u, net) BY <1>3, <1>8, <2>7, <3>1 DEF Flush
    <3> QED BY <1>2, <2>3, <2>4, <3>2, PumpSound
  <2> QED BY <2>6, <2>7
<1> QED BY <1>7, <1>8

(* The user leaves; a seal may be under way.                                *)
LEMMA PressLeaveSound == ASSUME SheetInv, NEW c \in Tabs, PressLeave(c) PROVE SheetInv'
<1>1. PICK t, u, want, state :
        /\ t = tab[c] /\ want = [Nothing EXCEPT !.kind = "leave"]
        /\ state = (IF t.state = "error" THEN "dirty" ELSE t.state)
        /\ u = [t EXCEPT !.state = state, !.want = want]
  OBVIOUS
<1>2. t.view \in {"draft", "settled"} /\ t.state # "conflict" /\ UNCHANGED <<sheets, edits>>
  BY <1>1 DEF PressLeave
<1>3. PageSound(t) /\ t \in PageType /\ HasSheet(t) /\ WithSheet(t) BY <1>1, <1>2, ThePage DEF HasSheet
<1>4. want \in [kind : {"none", "seal", "leave"}, ack : BOOLEAN] /\ want.kind = "leave"
  BY <1>1 DEF Nothing
<1>5. u = [t EXCEPT !.state = IF @ = "error" THEN "dirty" ELSE @, !.want = want]
  BY <1>1, <1>3 DEF PageType
<1>6. Flush(c, u) BY <1>1, <1>5 DEF PressLeave
<1>7. state \in {"clean", "dirty", "saving", "retrying"} BY <1>1, <1>2, <1>3 DEF PageType
<1>7a. state = "clean" => t.state = "clean" BY <1>1
<1>8. Alike(t, u) /\ u.want = want /\ u.lock = t.lock /\ u.state = state /\ u.held = t.held
  BY <1>1, <1>3, <1>4, <1>7 DEF PageType, Alike
<1>9. CASE InFlight(c)
  <2>1. tab' = [tab EXCEPT ![c] = u] /\ UNCHANGED net BY <1>6, <1>9 DEF Flush
  <2>2. t.state # "error"
    <3>1. ASSUME NEW m \in Awaited(c), m.kind = "patch" PROVE t.state # "error"
      BY <1>1, <3>1, AwaitedFits DEF Fits
    <3>2. t.held # <<>> => t.state # "error" BY <1>3 DEF WithSheet
    <3> QED BY <1>1, <1>9, <3>1, <3>2 DEF InFlight, Awaits
  <2>3. u.state = t.state /\ u.state # "conflict" BY <1>1, <1>2, <1>8, <2>2
  <2>4. u.want.kind # "seal" BY <1>4, <1>8
  <2> QED BY <1>1, <1>2, <1>8, <1>9, <2>1, <2>3, <2>4, WaitsForFlush
<1>10. CASE ~InFlight(c)
  <2>1. u.seq \in Nat /\ u.committed \in Nat BY <1>8 DEF Alike, PageType
  <2>2. u.want.kind = "leave" BY <1>4, <1>8
  <2>3. CASE u.seq <= u.committed
    <3>1. ~(u.seq > u.committed) BY <2>1, <2>3
    <3>2. Resolve(c, u, net) BY Zenon, <1>6, <1>10, <2>3, <3>1 DEF Flush
    <3> QED BY <1>2, <2>2, <3>2, LeaveSound
  <2>4. CASE u.seq > u.committed /\ (~t.lock \/ DirtyKeys(t) # {})
    <3>1. Pump(c, u, net) BY <1>6, <1>10, <2>1, <2>4 DEF Flush
    <3>2. Quiet(c, t, net) /\ t.held = <<>> BY <1>1, <1>2, <1>3, <1>10, <2>4, NothingAwaited
    <3>3. PageSound(u) /\ HasSheet(u)
      BY <1>2, <1>3, <1>4, <1>7, <1>7a, <1>8, <3>2, NothingDirty, AlikeSound
    <3>4. Ready(u) BY <1>7, <1>8, <3>2, <3>3 DEF Ready
    <3>5. Quiet(c, u, net) BY <1>8, <3>2, QuietAlike DEF Alike
    <3> QED BY <1>2, <3>1, <3>4, <3>5, PumpSound
  <2>5. CASE u.seq > u.committed /\ t.lock /\ DirtyKeys(t) = {}
    <3>1. Pump(c, u, net) BY <1>6, <1>10, <2>1, <2>5 DEF Flush
    <3>2. ~MaySend(u) BY <1>8, <2>5 DEF MaySend, DirtyKeys, Alike
    <3>3. ~u.frozen BY <1>3, <1>8, <2>1, <2>5 DEF WithSheet, Over, Alike
    <3>4. Resolve(c, [u EXCEPT !.state = "clean", !.tries = 0], net) BY <3>1, <3>2, <3>3 DEF Pump
    <3>5. [u EXCEPT !.state = "clean", !.tries = 0].want = u.want BY <1>8 DEF Alike, PageType
    <3> QED BY <1>2, <2>2, <3>4, <3>5, LeaveSound
  <2> QED BY <2>1, <2>3, <2>4, <2>5
<1> QED BY <1>9, <1>10

(* A row that says the sheet is no draft any more freezes the page.         *)
LEMMA SettledSound ==
  ASSUME SheetInv, NEW t, PageSound(t), HasSheet(t),
         NEW row, RowTrue(row), row.sid = t.sid, row.status # "draft"
  PROVE  LET u == Settled(t, row) IN
         /\ PageSound(u) /\ HasSheet(u) /\ u.sid = t.sid /\ u.frozen = TRUE /\ u.state = "clean"
         /\ DirtyKeys(u) = {} /\ u.seq = t.seq /\ u.held = t.held /\ u.want = t.want /\ u.lock = t.lock
<1>1. PICK u, dirty : u = Settled(t, row) /\ dirty = [q \in Questions |-> Clean] OBVIOUS
<1>2. t \in PageType /\ t.seq \in Nat /\ t.seq <= t.seq /\ t.seq <= edits /\ WithSheet(t)
  BY DEF PageSound, PageType
<1>3. dirty \in [Questions -> Stamp] /\ \A q \in Questions : dirty[q].seq = 0
  BY <1>1 DEF Clean, Stamp, Values
<1>4. row.ver \in Nat /\ row.ver <= sheets[t.sid].ver /\ sheets[t.sid].status # "draft" BY DEF RowTrue
<1>5. u = [t EXCEPT !.ver = row.ver, !.state = "clean", !.dirty = dirty, !.committed = t.seq,
                    !.view = "settled", !.frozen = TRUE]
  BY <1>1, <1>2 DEF Settled, Rebased, PageType
<1>6. /\ u \in PageType /\ u.view = "settled" /\ u.frozen = TRUE /\ u.dirty = dirty /\ u.committed = t.seq
      /\ u.seq = t.seq /\ u.held = t.held /\ u.want = t.want /\ u.lock = t.lock /\ u.sid = t.sid
      /\ u.state = "clean" /\ u.ver = row.ver
  BY <1>2, <1>3, <1>4, <1>5 DEF PageType
<1>7. DirtyKeys(u) = {} BY <1>3, <1>6 DEF DirtyKeys
<1>8. Over(u) BY <1>4, <1>6, <1>7 DEF Over
<1>9. t.held # <<>> => Carries(u, t.held[1]) BY <1>2, <1>6 DEF WithSheet, Carries, HasSheet
<1>10. WithSheet(u) BY <1>2, <1>4, <1>6, <1>8, <1>9 DEF WithSheet
<1>11. PageSound(u) /\ HasSheet(u) BY <1>2, <1>6, <1>10 DEF PageSound, HasSheet
<1> QED BY <1>1, <1>6, <1>7, <1>11

(* A page whose seal went wrong, or whose opening did.                      *)
LEMMA FailedSound ==
  ASSUME SheetInv, NEW c \in Tabs, NEW m \in Awaited(c), m.kind \in {"open", "seal"}
  PROVE  /\ PageSound(Failed(tab[c], m.kind)) /\ Quiet(c, Failed(tab[c], m.kind), Lost(m))
         /\ m.kind = "seal" => \A asked \in BOOLEAN :
              LET u == [tab[c] EXCEPT !.lock = FALSE, !.asked = asked] IN
              PageSound(u) /\ Quiet(c, u, net \ {m})
<1>1. PICK t : t = tab[c] OBVIOUS
<1>2. PageSound(t) /\ t \in PageType /\ Fits(t, m)
  BY <1>1, ThePage, AwaitedFits
<1>3. Quiet(c, t, net \ {m}) /\ Quiet(c, t, Lost(m)) BY <1>1, QuietNet
<1>4. CASE m.kind = "open"
  <2>1. Early(t) /\ ~HasSheet(t) BY <1>2, <1>4 DEF Fits, PageSound, HasSheet
  <2>2. PICK u : u = [t EXCEPT !.view = "failed"] OBVIOUS
  <2>3. PageSound(u) BY <1>2, <2>1, <2>2, EarlySound DEF PageSound
  <2>4. Quiet(c, u, Lost(m)) BY <1>1, <1>3, <2>1, QuietOpening
  <2> QED BY <1>1, <1>4, <2>2, <2>3, <2>4 DEF Failed
<1>5. CASE m.kind = "seal"
  <2>1. HasSheet(t) /\ t.want.kind = "none" /\ DirtyKeys(t) = {} /\ t.held = <<>> /\ t.state # "conflict"
    BY <1>2, <1>5 DEF Fits
  <2>2. ASSUME NEW asked \in BOOLEAN, NEW u, u = [t EXCEPT !.lock = FALSE, !.asked = asked]
        PROVE  PageSound(u) /\ Quiet(c, u, net \ {m}) /\ Quiet(c, u, Lost(m))
    <3>1. Alike(t, u) /\ u.state = t.state /\ u.want = t.want /\ u.held = t.held
      BY <1>2, <2>2 DEF PageType, Alike
    <3>2. PageSound(u) BY <1>2, <2>1, <3>1, AlikeSound
    <3> QED BY <1>3, <3>1, <3>2, QuietAlike DEF Alike
  <2>3. [t EXCEPT !.lock = FALSE] = [t EXCEPT !.lock = FALSE, !.asked = t.asked] /\ t.asked \in BOOLEAN
    BY <1>2 DEF PageType
  <2>4. Failed(t, m.kind) = [t EXCEPT !.lock = FALSE] BY <1>5 DEF Failed
  <2> QED BY <1>1, <2>2, <2>3, <2>4
<1> QED BY <1>4, <1>5

LEMMA SealAnswerSound == ASSUME SheetInv, NEW c \in Tabs, SealAnswer(c) PROVE SheetInv'
<1>1. PICK m \in Awaited(c) :
        /\ m.kind = "seal" /\ m.at = "answered"
        /\ tab' = [tab EXCEPT ![c] =
             IF m.answer = "ok" THEN [Settled(@, m.row) EXCEPT !.lock = FALSE]
             ELSE [@ EXCEPT !.lock = FALSE, !.asked = m.answer = "unanswered"]]
        /\ net' = net \ {m}
  BY DEF SealAnswer
<1>2. UNCHANGED <<sheets, edits>> BY DEF SealAnswer
<1>3. PICK t : t = tab[c] OBVIOUS
<1>4. Sound(m) /\ Fits(t, m) /\ PageSound(t) /\ t \in PageType BY <1>3, AwaitedFits, ThePage
<1>5. CASE m.answer = "ok"
  <2>1. PICK u, w : u = Settled(t, m.row) /\ w = [u EXCEPT !.lock = FALSE] OBVIOUS
  <2>2. tab' = [tab EXCEPT ![c] = w] BY <1>1, <1>3, <1>5, <2>1
  <2>3. HasSheet(t) /\ m.body.sid = t.sid /\ t.held = <<>> /\ t.want.kind = "none" BY <1>1, <1>4 DEF Fits
  <2>4. RowTrue(m.row) /\ m.row.sid = t.sid /\ m.row.status # "draft"
    BY <1>1, <1>4, <1>5, <2>3 DEF Sound, SealSound
  <2>4a. PICK row : row = m.row OBVIOUS
  <2>4b. RowTrue(row) /\ row.sid = t.sid /\ row.status # "draft" /\ PageSound(t) /\ HasSheet(t)
         /\ u = Settled(t, row)
    BY <1>4, <2>1, <2>3, <2>4, <2>4a
  <2>4c. /\ PageSound(u) /\ HasSheet(u) /\ u.sid = t.sid /\ u.frozen = TRUE /\ u.state = "clean"
         /\ DirtyKeys(u) = {} /\ u.seq = t.seq /\ u.held = t.held /\ u.want = t.want /\ u.lock = t.lock
    BY <2>4b, SettledSound
  <2>5. /\ PageSound(u) /\ HasSheet(u) /\ u.sid = t.sid /\ u.state = "clean" /\ u.held = <<>>
        /\ u.want.kind = "none" /\ DirtyKeys(u) = {}
    BY <2>3, <2>4c
  <2>6. u \in PageType BY <2>5 DEF PageSound
  <2>7. Alike(u, w) /\ w.state = "clean" /\ w.want = u.want /\ w.held = <<>>
    BY <2>1, <2>5, <2>6 DEF PageType, Alike
  <2>8. PageSound(w) /\ HasSheet(w) BY <2>5, <2>7, AlikeSound
  <2>9. Quiet(c, t, net \ {m}) BY <1>1, <1>3, QuietNet
  <2>10. w.sid = t.sid BY <2>5, <2>7 DEF Alike
  <2>11. Quiet(c, w, net \ {m}) BY <2>8, <2>9, <2>10, QuietSheet
  <2> QED BY <1>1, <1>2, <2>2, <2>8, <2>11, Rests
<1>6. CASE m.answer # "ok"
  <2>1. PICK asked \in BOOLEAN : asked = (m.answer = "unanswered") OBVIOUS
  <2>2. PICK u : u = [tab[c] EXCEPT !.lock = FALSE, !.asked = asked] OBVIOUS
  <2>3. tab' = [tab EXCEPT ![c] = u] BY <1>1, <1>6, <2>1, <2>2
  <2>4. PageSound(u) /\ Quiet(c, u, net \ {m}) BY <1>1, <2>2, FailedSound
  <2> QED BY <1>1, <1>2, <2>3, <2>4, Rests
<1> QED BY <1>5, <1>6

(* A page in conflict waits for nothing but loads.                          *)
LEMMA PressLoadSound == ASSUME SheetInv, NEW c \in Tabs, PressLoad(c) PROVE SheetInv'
<1>1. PICK t, b, r : t = tab[c] /\ b = [sid |-> t.sid] /\ r = Request(c, "load", b) OBVIOUS
<1>2. t.view = "draft" /\ t.state = "conflict" /\ net' = net \cup {r} /\ UNCHANGED <<sheets, tab, edits>>
  BY <1>1 DEF PressLoad, Post
<1>3. PageSound(t) /\ HasSheet(t) /\ WithSheet(t) BY <1>1, <1>2, ThePage DEF HasSheet
<1>4. ASSUME NEW m \in Awaited(c) PROVE m.kind = "load"
  <2>1. Fits(t, m) /\ m.kind \in {"open", "patch", "load", "seal"} BY <1>1, AwaitedFits
  <2> QED BY <1>2, <2>1 DEF Fits
<1>5. Quiet(c, t, net) BY <1>1, <1>4, QuietNet
<1>6. /\ Shaped(r) /\ r.from = c /\ r.kind = "load" /\ r.at = "wire" /\ r.awaited = TRUE /\ r.body.sid = t.sid
  BY <1>1 DEF Request, Shaped
<1>7. LoadSound(r) BY <1>3, <1>6 DEF LoadSound, WithSheet
<1>8. Sound(r) BY <1>6, <1>7 DEF Sound
<1>9. Fits(t, r) BY <1>3, <1>6 DEF Fits
<1>10. tab' = [tab EXCEPT ![c] = t] BY <1>1, <1>2 DEF SheetInv
<1> QED BY <1>2, <1>3, <1>5, <1>6, <1>8, <1>9, <1>10, Sends

(* The page takes over what a load brings.  While a save is in flight,      *)
(* everything is astray.                                                    *)
LEMMA AdoptedSound ==
  ASSUME SheetInv, NEW t, PageSound(t), HasSheet(t), NEW busy \in BOOLEAN, busy \/ t.held = <<>>,
         NEW row, RowTrue(row), row.status = "draft", row.sid = t.sid
  PROVE  LET u == Adopted(t, row, busy) IN
         /\ PageSound(u) /\ HasSheet(u) /\ u.sid = t.sid /\ u.frozen = t.frozen /\ u.state = "clean"
         /\ DirtyKeys(u) = {} /\ u.seq = t.seq /\ u.held = t.held /\ u.want = t.want /\ u.lock = t.lock
         /\ busy => Open(u) = Questions
<1>1. PICK u, dirty, astray :
        /\ u = Adopted(t, row, busy) /\ dirty = [q \in Questions |-> Clean]
        /\ astray = (IF busy THEN Questions ELSE {})
  OBVIOUS
<1>2. t \in PageType /\ t.seq \in Nat /\ t.seq <= t.seq /\ t.seq <= edits /\ WithSheet(t)
  BY DEF PageSound, PageType
<1>3. dirty \in [Questions -> Stamp] /\ (\A q \in Questions : dirty[q].seq = 0) /\ astray \subseteq Questions
  BY <1>1 DEF Clean, Stamp, Values
<1>4. /\ row.ver \in Nat /\ row.ver <= sheets[t.sid].ver /\ row.answers \in [Questions -> Values]
      /\ Current(t.sid, row.ver) => row.answers = sheets[t.sid].answers
  BY DEF RowTrue
<1>5. u = [t EXCEPT !.ver = row.ver, !.state = "clean", !.dirty = dirty, !.committed = t.seq,
                    !.view = "draft", !.screen = row.answers, !.astray = astray]
  BY <1>1, <1>2 DEF Adopted, Rebased, PageType
<1>6. /\ u \in PageType /\ u.view = "draft" /\ u.frozen = t.frozen /\ u.dirty = dirty /\ u.committed = t.seq
      /\ u.seq = t.seq /\ u.held = t.held /\ u.want = t.want /\ u.lock = t.lock /\ u.sid = t.sid
      /\ u.state = "clean" /\ u.ver = row.ver /\ u.screen = row.answers /\ u.astray = astray
  BY <1>2, <1>3, <1>4, <1>5 DEF PageType
<1>7. DirtyKeys(u) = {} BY <1>3, <1>6 DEF DirtyKeys
<1>8. busy => Open(u) = Questions BY <1>1, <1>6, <1>7 DEF Open
<1>9. t.frozen => Over(u) BY <1>2, <1>6, <1>7 DEF WithSheet, Over
<1>10. DraftSound(u) BY <1>4, <1>6, <1>7 DEF DraftSound
<1>11. ASSUME t.held # <<>> PROVE Carries(u, t.held[1])
  <2>1. t.held \in Seq(PatchBody) BY <1>2 DEF PageType
  <2>2. t.held[1] \in PatchBody BY <1>11, <2>1
  <2>3. DOMAIN t.held[1].batch \subseteq Questions BY <2>2 DEF PatchBody
  <2>4. Carries(t, t.held[1]) BY <1>2, <1>11 DEF WithSheet
  <2> QED BY <1>6, <1>7, <1>8, <1>11, <2>3, <2>4 DEF Carries, HasSheet
<1>12. WithSheet(u) BY <1>2, <1>4, <1>6, <1>9, <1>10, <1>11 DEF WithSheet
<1>13. PageSound(u) /\ HasSheet(u) BY <1>2, <1>6, <1>12 DEF PageSound, HasSheet
<1> QED BY <1>1, <1>6, <1>7, <1>8, <1>13

LEMMA LoadAnswerSound == ASSUME SheetInv, NEW c \in Tabs, LoadAnswer(c) PROVE SheetInv'
<1>1. PICK m \in Awaited(c) :
        /\ m.kind = "load" /\ m.at = "answered"
        /\ tab' = [tab EXCEPT ![c] = IF m.row.status = "draft" THEN Adopted(@, m.row, InFlight(c))
                                                               ELSE Settled(@, m.row)]
        /\ net' = net \ {m}
  BY DEF LoadAnswer
<1>2. UNCHANGED <<sheets, edits>> BY DEF LoadAnswer
<1>3. PICK t, busy : t = tab[c] /\ busy = InFlight(c) OBVIOUS
<1>4. busy \in BOOLEAN BY <1>3 DEF InFlight, Awaits
<1>5. Sound(m) /\ Fits(t, m) /\ PageSound(t) /\ t \in PageType BY <1>3, AwaitedFits, ThePage
<1>6. RowTrue(m.row) /\ m.row.sid = t.sid /\ HasSheet(t) BY <1>1, <1>5 DEF Sound, LoadSound, Fits
<1>7. ASSUME NEW n \in Awaited(c)
      PROVE  /\ Sound(n) /\ Fits(t, n) /\ n.kind \in {"patch", "load", "seal"}
             /\ n.kind = "patch" => n.body \in PatchBody /\ busy
  <2>1. Sound(n) /\ Fits(t, n) /\ n.kind \in {"open", "patch", "load", "seal"} BY <1>3, AwaitedFits
  <2>2. n.kind = "patch" => busy BY <1>3 DEF InFlight, Awaits
  <2> QED BY <1>6, <2>1, <2>2 DEF Fits, HasSheet, Sound, PatchSound
<1>8. net' \subseteq net BY <1>1
<1>9. CASE m.row.status = "draft"
  <2>1. PICK u : u = Adopted(t, m.row, busy) OBVIOUS
  <2>2. tab' = [tab EXCEPT ![c] = u] BY <1>1, <1>3, <1>9, <2>1
  <2>3. busy \/ t.held = <<>> BY <1>3 DEF InFlight
  <2>4. /\ PageSound(u) /\ HasSheet(u) /\ u.sid = t.sid /\ u.frozen = t.frozen /\ u.state = "clean"
        /\ DirtyKeys(u) = {} /\ u.seq = t.seq /\ u.held = t.held /\ u.want = t.want /\ u.lock = t.lock
        /\ busy => Open(u) = Questions
    BY <1>4, <1>5, <1>6, <1>9, <2>1, <2>3, AdoptedSound
  <2>5. ASSUME NEW n \in Awaited(c) PROVE Fits(u, n)
    <3>1. CASE n.kind = "patch"
      <4>1. Open(u) = Questions /\ n.body \in PatchBody /\ Fits(t, n) BY <1>7, <2>4, <3>1
      <4>2. DOMAIN n.body.batch \subseteq Questions BY <4>1 DEF PatchBody
      <4>3. Carries(u, n.body) BY <2>4, <3>1, <4>1, <4>2 DEF Fits, Carries
      <4>4. Stored(t, n.body) => Stored(u, n.body) BY <4>1 DEF Stored
      <4> QED BY <2>4, <3>1, <4>1, <4>3, <4>4 DEF Fits
    <3>2. CASE n.kind \in {"load", "seal"} BY <1>7, <2>4, <3>2 DEF Fits
    <3> QED BY <1>7, <3>1, <3>2
  <2> QED BY <1>2, <1>8, <2>2, <2>4, <2>5, Keeps
<1>10. CASE m.row.status # "draft"
  <2>1. PICK u : u = Settled(t, m.row) OBVIOUS
  <2>2. tab' = [tab EXCEPT ![c] = u] BY <1>1, <1>3, <1>10, <2>1
  <2>3. /\ PageSound(u) /\ HasSheet(u) /\ u.sid = t.sid /\ u.frozen = TRUE /\ u.state = "clean"
        /\ DirtyKeys(u) = {} /\ u.seq = t.seq /\ u.held = t.held /\ u.want = t.want /\ u.lock = t.lock
    <3>1. PICK row : row = m.row OBVIOUS
    <3>2. RowTrue(row) /\ row.sid = t.sid /\ row.status # "draft" /\ PageSound(t) /\ HasSheet(t)
      BY <1>5, <1>6, <1>10, <3>1
    <3>3. u = Settled(t, row) BY <2>1, <3>1
    <3> QED BY <3>2, <3>3, SettledSound
  <2>4. ASSUME NEW n \in Awaited(c) PROVE Fits(u, n)
    <3>1. CASE n.kind = "patch" BY <1>7, <2>3, <3>1 DEF Fits, Carries
    <3>2. CASE n.kind \in {"load", "seal"} BY <1>7, <2>3, <3>2 DEF Fits
    <3> QED BY <1>7, <3>1, <3>2
  <2> QED BY <1>2, <1>8, <2>2, <2>3, <2>4, Keeps
<1> QED BY <1>9, <1>10

(* The page goes without waiting, and leaves its last batch behind.         *)
LEMMA CloseSound == ASSUME SheetInv, NEW c \in Tabs, Close(c) PROVE SheetInv'
<1>1. PICK t, last :
        /\ t = tab[c]
        /\ last = IF MaySend(t) /\ ~InFlight(c) /\ t.state # "error"
                    THEN {Request(c, "patch", Payload(t))} ELSE {}
  OBVIOUS
<1>2. /\ tab' = [tab EXCEPT ![c] = Page] /\ net' = Forsaken(c, net \cup last) /\ UNCHANGED <<sheets, edits>>
  BY <1>1 DEF Close
<1>3. PageSound(t) /\ t \in PageType BY <1>1, ThePage
<1>4. ASSUME NEW r \in last PROVE Sound(r) /\ r.from = c
  <2>1. r = Request(c, "patch", Payload(t)) /\ MaySend(t) BY <1>1
  <2>2. t.view \in {"away", "opening", "failed", "draft", "settled"} BY <1>3 DEF PageType
  <2>3. HasSheet(t) /\ ~t.frozen BY <1>3, <2>1, <2>2 DEF MaySend, PageSound, Early, Page, HasSheet
  <2>4. Sound(r) BY <1>3, <2>1, <2>3, PayloadIs, PatchIsSound
  <2> QED BY <2>1, <2>4 DEF Request
<1>5. Quiet(c, Page, net') BY <1>2, <1>4, QuietForsaken DEF SheetInv
<1>6. PageSound(Page) BY EmptyPage DEF SheetInv, Store
<1> QED BY <1>2, <1>5, <1>6, Rests

-----------------------------------------------------------------------------
(* Faults.                                                                  *)

(* A load that is lost changes nothing.                                     *)
LEMMA LoadLostSound ==
  ASSUME SheetInv, UNCHANGED <<sheets, edits>>, NEW c \in Tabs, NEW m \in Awaited(c), m.kind = "load",
         net' = Lost(m), tab' = [tab EXCEPT ![c] = Failed(tab[c], m.kind)]
  PROVE  SheetInv'
<1>1. PICK t : t = tab[c] OBVIOUS
<1>2. tab' = [tab EXCEPT ![c] = t] /\ net' \subseteq net BY <1>1 DEF Failed, Lost, GivenUp
<1>3. PageSound(t) /\ \A n \in Awaited(c) : Fits(t, n) BY <1>1, ThePage, AwaitedFits
<1> QED BY <1>2, <1>3, Keeps

LEMMA NetworkErrorSound == ASSUME SheetInv, NEW c \in Tabs, NetworkError(c) PROVE SheetInv'
<1>1. PICK m \in Awaited(c) :
        /\ net' = Lost(m)
        /\ tab' = [tab EXCEPT ![c] =
             IF m.kind # "patch" THEN Failed(tab[c], m.kind)
             ELSE IF MayRetry(tab[c])
               THEN [tab[c] EXCEPT !.state = "retrying", !.tries = tab[c].tries + 1, !.held = <<m.body>>]
               ELSE Rejected(tab[c], "error")]
  BY DEF NetworkError
<1>2. UNCHANGED <<sheets, edits>> BY DEF NetworkError
<1>3. PICK t : t = tab[c] OBVIOUS
<1>4. /\ Sound(m) /\ Fits(t, m) /\ PageSound(t) /\ t \in PageType
      /\ m.kind \in {"open", "patch", "load", "seal"}
  BY <1>3, AwaitedFits, ThePage
<1>5. CASE m.kind # "patch"
  <2>1. PICK u : u = Failed(tab[c], m.kind) OBVIOUS
  <2>2. tab' = [tab EXCEPT ![c] = u] BY <1>1, <1>5, <2>1
  <2>3. CASE m.kind = "load" BY <1>1, <1>2, <2>1, <2>2, <2>3, LoadLostSound
  <2>4. CASE m.kind # "load"
    <3>1. PageSound(u) /\ Quiet(c, u, net') BY <1>1, <1>4, <1>5, <2>1, <2>4, FailedSound
    <3> QED BY <1>2, <2>2, <3>1, Rests
  <2> QED BY <2>3, <2>4
<1>6. ASSUME m.kind = "patch"
      PROVE  /\ Quiet(c, t, Lost(m)) /\ Carries(t, m.body) /\ HasSheet(t) /\ t.held = <<>>
             /\ m.body \in PatchBody /\ m.body.ver <= sheets[t.sid].ver
  BY <1>3, <1>4, <1>6, QuietNet DEF Fits, Carries, Sound, PatchSound
<1>7. CASE m.kind = "patch" /\ ~MayRetry(t)
  <2>1. PICK u : u = Rejected(t, "error") OBVIOUS
  <2>2. tab' = [tab EXCEPT ![c] = u] BY <1>1, <1>3, <1>7, <2>1
  <2>3. PageSound(u) /\ u.view = t.view /\ u.sid = t.sid BY <1>4, <1>6, <1>7, <2>1, RejectedSound
  <2>4. Quiet(c, u, net') BY <1>1, <1>6, <1>7, <2>3, QuietAlike
  <2> QED BY <1>2, <2>2, <2>3, <2>4, Rests
<1>8. CASE m.kind = "patch" /\ MayRetry(t)
  <2>1. PICK u, b : /\ b = m.body
                    /\ u = [t EXCEPT !.state = "retrying", !.tries = t.tries + 1, !.held = <<b>>]
    OBVIOUS
  <2>2. tab' = [tab EXCEPT ![c] = u] BY <1>1, <1>3, <1>8, <2>1
  <2>3. t.tries \in 0 .. MaxRetries /\ t.tries < MaxRetries /\ MaxRetries \in Nat
    BY <1>4, <1>8, ExamSheetAssumption DEF PageType, MayRetry
  <2>4. t.tries + 1 \in 0 .. MaxRetries BY <2>3
  <2>5. b \in PatchBody /\ Carries(t, b) /\ b.ver <= sheets[t.sid].ver BY <1>6, <1>8, <2>1
  <2>6. <<b>> \in Seq(PatchBody) /\ <<b>>[1] = b BY <2>5
  <2>7. Alike(t, u) /\ u.state = "retrying" /\ u.want = t.want /\ u.lock = t.lock /\ u.held = <<b>>
    BY <1>4, <2>1, <2>4, <2>6 DEF PageType, Alike
  <2>8. u.held[1] = b BY <2>6, <2>7
  <2>9. WithSheet(t) BY <1>4, <1>6, <1>8 DEF PageSound
  <2>10. PageSound(u) BY <1>4, <1>6, <1>8, <2>5, <2>7, <2>8, <2>9, AlikeSound DEF WithSheet
  <2>11. Quiet(c, u, net') BY <1>1, <1>6, <1>8, <2>7, QuietAlike DEF Alike
  <2> QED BY <1>2, <2>2, <2>10, <2>11, Rests
<1> QED BY <1>5, <1>7, <1>8

LEMMA TimeOutSound == ASSUME SheetInv, NEW c \in Tabs, TimeOut(c) PROVE SheetInv'
<1>1. PICK m \in Awaited(c) :
        /\ net' = Lost(m)
        /\ tab' = [tab EXCEPT ![c] =
             IF m.kind = "patch" THEN Rejected(@, "error") ELSE Failed(@, m.kind)]
  BY DEF TimeOut
<1>2. UNCHANGED <<sheets, edits>> BY DEF TimeOut
<1>3. PICK t : t = tab[c] OBVIOUS
<1>4. Sound(m) /\ Fits(t, m) /\ PageSound(t) /\ m.kind \in {"open", "patch", "load", "seal"}
  BY <1>3, AwaitedFits, ThePage
<1>5. CASE m.kind # "patch"
  <2>1. PICK u : u = Failed(tab[c], m.kind) OBVIOUS
  <2>2. tab' = [tab EXCEPT ![c] = u] BY <1>1, <1>5, <2>1
  <2>3. CASE m.kind = "load" BY <1>1, <1>2, <2>1, <2>2, <2>3, LoadLostSound
  <2>4. CASE m.kind # "load"
    <3>1. PageSound(u) /\ Quiet(c, u, net') BY <1>1, <1>4, <1>5, <2>1, <2>4, FailedSound
    <3> QED BY <1>2, <2>2, <3>1, Rests
  <2> QED BY <2>3, <2>4
<1>6. CASE m.kind = "patch"
  <2>1. PICK u : u = Rejected(t, "error") OBVIOUS
  <2>2. tab' = [tab EXCEPT ![c] = u] BY <1>1, <1>3, <1>6, <2>1
  <2>3. HasSheet(t) /\ t.held = <<>> BY <1>4, <1>6 DEF Fits, Carries
  <2>4. PageSound(u) /\ u.view = t.view /\ u.sid = t.sid BY <1>4, <2>1, <2>3, RejectedSound
  <2>5. Quiet(c, t, Lost(m)) BY <1>3, <1>6, QuietNet
  <2>6. Quiet(c, u, net') BY <1>1, <2>4, <2>5, QuietAlike
  <2> QED BY <1>2, <2>2, <2>4, <2>6, Rests
<1> QED BY <1>5, <1>6

-----------------------------------------------------------------------------
(* The server.  It changes no page, and one request at a time.              *)
LEMMA StoreStep ==
  ASSUME SheetInv, Evolves, UNCHANGED tab, OneAwaited', \A n \in net' : Sound(n)',
         \A t : \A n \in net' : n.awaited /\ t = tab[n.from] => Fits(t, n)'
  PROVE  SheetInv'
<1>1. \A t : PageSound(t) => PageSound(t)' BY PageStays DEF SheetInv
<1>2. \A c \in Tabs : PageSound(tab[c])'
  <2> TAKE c \in Tabs
  <2>1. PICK t : t = tab[c] OBVIOUS
  <2>2. t = tab'[c] BY <2>1
  <2>3. PageSound(t)' BY <1>1, <2>1 DEF SheetInv
  <2> QED BY <2>2, <2>3
<1>3. ASSUME NEW n \in net', n.awaited PROVE Fits(tab[n.from], n)'
  <2>1. PICK t : t = tab[n.from] OBVIOUS
  <2>2. t = tab'[n.from] BY <2>1
  <2>3. Fits(t, n)' BY <1>3, <2>1
  <2> QED BY <2>2, <2>3
<1> QED BY <1>2, <1>3 DEF SheetInv, Evolves

(* An answer to a request, when somebody waits for one.                     *)
LEMMA ReplyStep ==
  ASSUME SheetInv, Evolves, UNCHANGED tab, NEW m \in net, NEW n, net' \subseteq (net \ {m}) \cup {n},
         n.from = m.from, n.kind = m.kind, n.awaited = m.awaited, Sound(n)',
         NEW t, t = tab[m.from], m.awaited => Fits(t, n)'
  PROVE  SheetInv'
<1>1. \A k \in net' : Sound(k)' BY SoundStays DEF SheetInv
<1>2. OneAwaited'
  <2> SUFFICES ASSUME NEW j \in net', NEW k \in net', j.awaited, k.awaited, j.from = k.from,
                      j.kind # "load", k.kind # "load"
               PROVE  j = k
    BY DEF OneAwaited
  <2>1. j \in (net \ {m}) \cup {n} /\ k \in (net \ {m}) \cup {n} OBVIOUS
  <2> QED BY <2>1 DEF SheetInv, OneAwaited
<1>3. ASSUME NEW u, NEW k \in net', k.awaited, u = tab[k.from] PROVE Fits(u, k)'
  <2>1. CASE k = n BY <1>3, <2>1
  <2>2. CASE k # n
    <3>1. k \in net BY <2>2
    <3> QED BY <1>3, <3>1, FitsStays DEF SheetInv
  <2> QED BY <2>1, <2>2
<1> QED BY <1>1, <1>2, <1>3, StoreStep

LEMMA AnswerIs ==
  ASSUME NEW m, Shaped(m), NEW how, NEW row, NEW at
  PROVE  LET n == [m EXCEPT !.at = at, !.answer = how, !.row = row]
             k == [m EXCEPT !.at = at, !.row = row] IN
         /\ Shaped(n) /\ n.from = m.from /\ n.kind = m.kind /\ n.body = m.body /\ n.awaited = m.awaited
         /\ n.at = at /\ n.answer = how /\ n.row = row
         /\ Shaped(k) /\ k.from = m.from /\ k.kind = m.kind /\ k.body = m.body /\ k.awaited = m.awaited
         /\ k.at = at /\ k.answer = m.answer /\ k.row = row
<1>1. PICK n, k : n = [m EXCEPT !.at = at, !.answer = how, !.row = row] /\ k = [m EXCEPT !.at = at, !.row = row]
  OBVIOUS
<1>2. n = [from |-> m.from, no |-> m.no, kind |-> m.kind, body |-> m.body, at |-> at,
           answer |-> how, row |-> row, awaited |-> m.awaited]
  BY <1>1 DEF Shaped
<1>3. k = [from |-> m.from, no |-> m.no, kind |-> m.kind, body |-> m.body, at |-> at,
           answer |-> m.answer, row |-> row, awaited |-> m.awaited]
  BY <1>1 DEF Shaped
<1>4. /\ Shaped(n) /\ n.from = m.from /\ n.kind = m.kind /\ n.body = m.body /\ n.awaited = m.awaited
      /\ n.at = at /\ n.answer = how /\ n.row = row
  BY <1>2 DEF Shaped
<1>5. /\ Shaped(k) /\ k.from = m.from /\ k.kind = m.kind /\ k.body = m.body /\ k.awaited = m.awaited
      /\ k.at = at /\ k.answer = m.answer /\ k.row = row
  BY <1>3 DEF Shaped
<1> QED BY <1>1, <1>4, <1>5

(* What a request is when it gets its answer.                               *)
LEMMA Replying ==
  ASSUME SheetInv, NEW m \in net, NEW how, NEW row, Reply(m, how, row)
  PROVE  \E n : /\ net' \subseteq (net \ {m}) \cup {n} /\ Shaped(n) /\ n.from = m.from /\ n.kind = m.kind
                /\ n.body = m.body /\ n.awaited = m.awaited /\ n.at = "answered" /\ n.answer = how /\ n.row = row
<1>1. Shaped(m) BY DEF SheetInv, Sound
<1>2. net' \subseteq (net \ {m}) \cup {[m EXCEPT !.at = "answered", !.answer = how, !.row = row]}
  BY DEF Reply, Answered
<1>3. PICK n : n = [m EXCEPT !.at = "answered", !.answer = how, !.row = row] OBVIOUS
<1>4. n = [from |-> m.from, no |-> m.no, kind |-> m.kind, body |-> m.body, at |-> "answered",
           answer |-> how, row |-> row, awaited |-> m.awaited]
  BY <1>1, <1>3 DEF Shaped
<1>5. /\ Shaped(n) /\ n.from = m.from /\ n.kind = m.kind /\ n.body = m.body /\ n.awaited = m.awaited
      /\ n.at = "answered" /\ n.answer = how /\ n.row = row
  BY <1>4 DEF Shaped
<1> QED BY <1>2, <1>3, <1>5

LEMMA TheRequest ==
  ASSUME SheetInv, NEW m \in net
  PROVE  /\ Sound(m) /\ m.from \in Tabs /\ (m.awaited => Fits(tab[m.from], m))
         /\ Store /\ edits \in Nat /\ \A s \in DOMAIN sheets : sheets[s] \in Sheet /\ s \in Nat
BY DEF SheetInv, Sound, Store

LEMMA RowIsTrue ==
  ASSUME Store, NEW s \in DOMAIN sheets
  PROVE  LET r == Row(s, sheets) IN RowTrue(r) /\ r.sid = s /\ r.status = sheets[s].status /\ r.ver = sheets[s].ver
<1>1. sheets[s] \in Sheet BY DEF Store
<1> QED BY <1>1 DEF Row, RowTrue, Sheet

LEMMA HandleOpenSound ==
  ASSUME SheetInv, NEW m \in net, HandleOpen(m), UNCHANGED <<tab, edits>>
  PROVE  SheetInv'
<1>1. Sound(m) /\ Store /\ edits \in Nat /\ edits <= edits BY TheRequest
<1>2. m.kind = "open" BY DEF HandleOpen
<1>3. ASSUME Evolves, NEW how, NEW row, Reply(m, how, row),
             how = "ok" => RowTrue(row)' /\ row.status = "draft"
      PROVE  SheetInv'
  <2>1. PICK n : /\ net' \subseteq (net \ {m}) \cup {n} /\ Shaped(n) /\ n.from = m.from /\ n.kind = m.kind
                 /\ n.body = m.body /\ n.awaited = m.awaited /\ n.at = "answered" /\ n.answer = how /\ n.row = row
    BY <1>3, Replying
  <2>2. OpenSound(n)' BY <1>3, <2>1 DEF OpenSound
  <2>3. Sound(n)' BY <1>1, <1>2, <2>1, <2>2 DEF Sound, Shaped
  <2>4. PICK t : t = tab[m.from] OBVIOUS
  <2>5. m.awaited => Fits(t, n)' BY <1>2, <2>1, <2>4, TheRequest DEF Fits
  <2> QED BY <1>3, <2>1, <2>3, <2>4, <2>5, ReplyStep
<1>4. CASE UNCHANGED sheets
  <2>1. Evolves BY <1>1, <1>4, StayingEvolves
  <2>2. CASE \E s \in Drafts : Reply(m, "ok", Row(s, sheets))
    <3>0. PICK s \in Drafts : Reply(m, "ok", Row(s, sheets)) BY <2>2
    <3>1. PICK row : row = Row(s, sheets) /\ Reply(m, "ok", row) BY <3>0
    <3>2. RowTrue(row) /\ row.status = "draft" BY <1>1, <3>1, RowIsTrue DEF Drafts
    <3>3. RowTrue(row)' BY <1>1, <2>1, <3>2, RowStays
    <3> QED BY <1>3, <2>1, <3>1, <3>2, <3>3
  <2>3. CASE Reply(m, "refused", <<>>) BY <1>3, <2>1, <2>3
  <2>4. CASE sheets' = Append(sheets, NewSheet)
    <3>1. Len(sheets') = Len(sheets) + 1 /\ Len(sheets) \in Nat BY <1>1, <2>4 DEF Store
    <3> QED BY <1>4, <3>1
  <2> QED BY <2>2, <2>3, <2>4 DEF HandleOpen
<1>5. CASE /\ Drafts = {} /\ sheets' = Append(sheets, NewSheet)
           /\ Reply(m, "ok", Row(Len(sheets'), sheets'))
  <2>1. NewSheet \in Sheet /\ NewSheet.status = "draft" BY DEF NewSheet, Sheet, Empty, Values
  <2>2. sheets \in Seq(Sheet) BY <1>1 DEF Store
  <2>3. /\ sheets' \in Seq(Sheet) /\ DOMAIN sheets' = DOMAIN sheets \cup {Len(sheets')} /\ Len(sheets') \in Nat
        /\ \A s \in DOMAIN sheets : sheets'[s] = sheets[s] /\ sheets[s] \in Sheet
        /\ sheets'[Len(sheets')] = NewSheet
    BY <1>5, <2>1, <2>2
  <2>4. OneDraft' BY <1>5, <2>3 DEF OneDraft, Drafts
  <2>5. Store' BY <1>1, <2>3, <2>4 DEF Store
  <2>6. \A s \in DOMAIN sheets : sheets[s].ver <= sheets'[s].ver BY <2>3 DEF Sheet
  <2>7. Evolves BY <1>1, <2>3, <2>5, <2>6 DEF Evolves
  <2>8. PICK row : row = Row(Len(sheets'), sheets') OBVIOUS
  <2>9. /\ row.sid = Len(sheets') /\ row.ver = NewSheet.ver /\ row.status = "draft"
        /\ row.answers = NewSheet.answers
    BY <2>1, <2>3, <2>8 DEF Row
  <2>10. NewSheet.ver \in Nat /\ NewSheet.ver <= NewSheet.ver /\ NewSheet.answers \in [Questions -> Values]
    BY <2>1 DEF Sheet
  <2>11. RowTrue(row)' BY <2>3, <2>9, <2>10 DEF RowTrue
  <2> QED BY <1>3, <1>5, <2>7, <2>8, <2>9, <2>11
<1> QED BY <1>4, <1>5 DEF HandleOpen

(* A patch that matches makes a version of its batch.                       *)
LEMMA PatchMatched ==
  ASSUME SheetInv, NEW m, PatchSound(m), NEW s, s = m.body.sid, PatchMatches(s, m.body),
         sheets' = [sheets EXCEPT
           ![s].ver = @ + 1,
           ![s].answers = [q \in Questions |->
              IF q \in DOMAIN m.body.batch THEN m.body.batch[q].val ELSE @[q]]],
         edits' = edits
  PROVE  /\ Evolves /\ s \in DOMAIN sheets'
         /\ sheets'[s].ver = m.body.ver + 1 /\ sheets'[s].status = "draft"
         /\ \A q \in Questions : sheets'[s].answers[q] =
              IF q \in DOMAIN m.body.batch THEN m.body.batch[q].val ELSE sheets[s].answers[q]
<1>1. /\ sheets \in Seq(Sheet) /\ s \in DOMAIN sheets /\ edits \in Nat /\ OneDraft
      /\ m.body \in PatchBody
  BY DEF SheetInv, Store, PatchSound
<1>2. PICK old, new : /\ old = sheets[s]
                      /\ new = [status |-> old.status, ver |-> old.ver + 1,
                                answers |-> [q \in Questions |->
                                  IF q \in DOMAIN m.body.batch THEN m.body.batch[q].val ELSE old.answers[q]],
                                attempts |-> old.attempts]
  OBVIOUS
<1>3. old \in Sheet BY <1>1, <1>2
<1>4. \A q \in DOMAIN m.body.batch : m.body.batch[q].val \in Values BY <1>1 DEF PatchBody, Stamp
<1>5. new \in Sheet BY <1>2, <1>3, <1>4 DEF Sheet
<1>6. /\ sheets'[s] = new /\ DOMAIN sheets' = DOMAIN sheets
      /\ \A r \in DOMAIN sheets : r # s => sheets'[r] = sheets[r]
  BY <1>1, <1>2, <1>3 DEF Sheet
<1>7. /\ sheets' \in Seq(Sheet) /\ \A r \in DOMAIN sheets : sheets[r] \in Sheet
  <2>1. sheets' = [sheets EXCEPT ![s] = new] BY <1>1, <1>6
  <2> QED BY <1>1, <1>5, <2>1, ExceptSeq
<1>8. old.status = "draft" /\ old.ver = m.body.ver BY <1>2 DEF PatchMatches
<1>9. new.status = "draft" /\ new.ver = old.ver + 1 /\ old.ver \in Nat BY <1>2, <1>3, <1>8 DEF Sheet
<1>10. \A r \in DOMAIN sheets : sheets'[r].status = sheets[r].status BY <1>2, <1>6, <1>8, <1>9
<1>11. OneDraft' BY <1>1, <1>6, <1>10 DEF OneDraft
<1>12. Store' BY <1>1, <1>7, <1>11 DEF Store
<1>13. ASSUME NEW r \in DOMAIN sheets
       PROVE  sheets[r].ver <= sheets'[r].ver /\ (sheets'[r].ver = sheets[r].ver => sheets'[r] = sheets[r])
  <2>1. CASE r = s BY <1>2, <1>6, <1>9, <2>1
  <2>2. CASE r # s
    <3>1. sheets[r].ver \in Nat /\ sheets'[r] = sheets[r] BY <1>6, <1>7, <2>2 DEF Sheet
    <3> QED BY <3>1
  <2> QED BY <2>1, <2>2
<1>14. edits <= edits' BY <1>1
<1>15. \A r \in DOMAIN sheets : /\ r \in DOMAIN sheets'
                               /\ sheets'[r].ver = sheets[r].ver =>
                                    sheets'[r].answers = sheets[r].answers
  BY <1>6, <1>13
<1>16. Evolves BY <1>10, <1>12, <1>13, <1>14, <1>15, Zenon DEF Evolves
<1>17. \A q \in Questions : new.answers[q] =
         IF q \in DOMAIN m.body.batch THEN m.body.batch[q].val ELSE sheets[s].answers[q]
  BY <1>2
<1> QED BY <1>1, <1>6, <1>8, <1>9, <1>16, <1>17

LEMMA HandlePatchSound ==
  ASSUME SheetInv, NEW m \in net, m.at = "wire", HandlePatch(m), UNCHANGED <<tab, edits>>
  PROVE  SheetInv'
<1>1. /\ Sound(m) /\ m.from \in Tabs /\ (m.awaited => Fits(tab[m.from], m))
      /\ Store /\ edits \in Nat /\ m.kind = "patch" /\ PatchSound(m)
  BY TheRequest DEF HandlePatch, Sound
<1>2. PICK s, t : s = m.body.sid /\ t = tab[m.from] OBVIOUS
<1>3. PageSound(t) BY <1>1, <1>2 DEF SheetInv
<1>4. m.body \in PatchBody /\ s \in DOMAIN sheets /\ m.body.ver \in Nat BY <1>1, <1>2 DEF PatchSound, PatchBody
<1>5. CASE PatchMatches(s, m.body)
  <2>1. PICK row : row = Row(s, sheets') /\ Reply(m, "ok", row) BY <1>2, <1>5 DEF HandlePatch
  <2>2. /\ Evolves /\ s \in DOMAIN sheets'
        /\ sheets'[s].ver = m.body.ver + 1 /\ sheets'[s].status = "draft"
        /\ \A q \in Questions : sheets'[s].answers[q] =
             IF q \in DOMAIN m.body.batch THEN m.body.batch[q].val ELSE sheets[s].answers[q]
    BY <1>1, <1>2, <1>5, PatchMatched DEF HandlePatch
  <2>3. PICK n : /\ net' \subseteq (net \ {m}) \cup {n} /\ Shaped(n) /\ n.from = m.from /\ n.kind = m.kind
                 /\ n.body = m.body /\ n.awaited = m.awaited /\ n.at = "answered" /\ n.answer = "ok" /\ n.row = row
    BY <2>1, Replying
  <2>4. row.ver = m.body.ver + 1 BY <2>1, <2>2 DEF Row
  <2>5. PatchSound(n)'
    BY <1>2, <1>4, <2>2, <2>3, <2>4 DEF PatchSound
  <2>6. Sound(n)' BY <1>1, <2>3, <2>5 DEF Sound, Shaped
  <2>7. ASSUME m.awaited PROVE Fits(t, n)'
    <3>1. Fits(t, m) /\ Carries(t, m.body) BY <1>1, <1>2, <2>7 DEF Fits
    <3>2. WithSheet(t) /\ t.sid = s BY <1>2, <1>3, <3>1 DEF PageSound, Carries
    <3>3. ASSUME ~t.frozen, NEW q \in Questions \ (Open(t) \cup DOMAIN m.body.batch)
          PROVE  t.screen[q] = sheets[s].answers[q]
      <4>1. t.ver = m.body.ver BY <3>1, <3>3 DEF Carries
      <4>2. DraftSound(t) BY <3>2, <3>3 DEF WithSheet
      <4> QED BY <1>5, <3>2, <3>3, <4>1, <4>2 DEF DraftSound, Current, PatchMatches
    <3>4. ASSUME ~t.frozen PROVE Stored(t, m.body)'
      <4>1. \A q \in DOMAIN m.body.batch : sheets'[s].answers[q] = m.body.batch[q].val
        BY <1>4, <2>2 DEF PatchBody
      <4>2. \A q \in Questions \ (Open(t) \cup DOMAIN m.body.batch) : sheets'[s].answers[q] = t.screen[q]
        BY <2>2, <3>3, <3>4
      <4> QED BY <1>2, <4>1, <4>2 DEF Stored, Open, DirtyKeys
    <3> QED BY <1>1, <2>3, <3>1, <3>4 DEF Fits, Carries, DirtyKeys, Open, HasSheet
  <2> QED BY <1>2, <2>2, <2>3, <2>6, <2>7, ReplyStep
<1>6. CASE ~PatchMatches(s, m.body)
  <2>1. PICK how \in {"conflict", "settled"} : Reply(m, how, <<>>) /\ UNCHANGED sheets
    BY <1>2, <1>6 DEF HandlePatch
  <2>2. PICK n : /\ net' \subseteq (net \ {m}) \cup {n} /\ Shaped(n) /\ n.from = m.from /\ n.kind = m.kind
                 /\ n.body = m.body /\ n.awaited = m.awaited /\ n.at = "answered" /\ n.answer = how
                 /\ n.row = <<>>
    BY <2>1, Replying
  <2>3. Evolves BY <1>1, <2>1, StayingEvolves
  <2>4. PatchSound(n)' BY <1>1, <2>1, <2>2 DEF PatchSound
  <2>5. Sound(n)' BY <1>1, <2>2, <2>4 DEF Sound, Shaped
  <2>6. m.awaited => Fits(t, n)' BY <1>1, <1>2, <2>1, <2>2 DEF Fits, Carries, DirtyKeys, Open, HasSheet
  <2> QED BY <1>2, <2>2, <2>3, <2>5, <2>6, ReplyStep
<1> QED BY <1>5, <1>6

LEMMA HandleReadSound ==
  ASSUME SheetInv, NEW m \in net, HandleRead(m), UNCHANGED <<tab, edits>>
  PROVE  SheetInv'
<1>1. /\ Sound(m) /\ m.from \in Tabs /\ (m.awaited => Fits(tab[m.from], m))
      /\ Store /\ edits \in Nat /\ m.kind = "load" /\ LoadSound(m) /\ UNCHANGED sheets
  BY TheRequest DEF HandleRead, Sound
<1>2. PICK row, t : row = Row(m.body.sid, sheets) /\ Reply(m, "ok", row) /\ t = tab[m.from]
  BY DEF HandleRead
<1>3. PICK n : /\ net' \subseteq (net \ {m}) \cup {n} /\ Shaped(n) /\ n.from = m.from /\ n.kind = m.kind
               /\ n.body = m.body /\ n.awaited = m.awaited /\ n.at = "answered" /\ n.answer = "ok" /\ n.row = row
  BY <1>2, Replying
<1>4. Evolves BY <1>1, StayingEvolves
<1>5. m.body.sid \in DOMAIN sheets BY <1>1 DEF LoadSound
<1>6. RowTrue(row) /\ row.sid = m.body.sid BY <1>1, <1>2, <1>5, RowIsTrue
<1>7. RowTrue(row)' BY <1>1, <1>4, <1>6, RowStays
<1>8. LoadSound(n)' BY <1>1, <1>3, <1>5, <1>6, <1>7 DEF LoadSound
<1>9. Sound(n)' BY <1>1, <1>3, <1>8 DEF Sound, Shaped
<1>10. m.awaited => Fits(t, n)' BY <1>1, <1>2, <1>3 DEF Fits, HasSheet
<1> QED BY <1>2, <1>3, <1>4, <1>9, <1>10, ReplyStep

(* A seal that matches makes attempts of what it read.                      *)
LEMMA SealMatched ==
  ASSUME SheetInv, NEW s \in DOMAIN sheets, sheets[s].status = "draft", NEW new \in Sheet,
         new.status # "draft", new.ver = sheets[s].ver, sheets' = [sheets EXCEPT ![s] = new],
         edits' \in Nat, edits <= edits'
  PROVE  Evolves /\ sheets'[s] = new
<1>1. sheets \in Seq(Sheet) /\ OneDraft BY DEF SheetInv, Store
<1>2. sheets' \in Seq(Sheet) BY <1>1, ExceptSeq
<1>3. /\ DOMAIN sheets' = DOMAIN sheets /\ sheets'[s] = new
      /\ \A r \in DOMAIN sheets : sheets[r] \in Sheet /\ (r # s => sheets'[r] = sheets[r])
  BY <1>1
<1>4. OneDraft' BY <1>1, <1>3 DEF OneDraft
<1>5. Store' BY <1>2, <1>4 DEF Store
<1>6. \A r \in DOMAIN sheets : sheets[r].ver \in Nat /\ sheets[r].ver <= sheets[r].ver BY <1>3 DEF Sheet
<1>7. \A r \in DOMAIN sheets : sheets[r].ver <= sheets'[r].ver BY <1>3, <1>6
<1> QED BY <1>3, <1>5, <1>7 DEF Evolves

LEMMA SealReadSound == ASSUME SheetInv, NEW m \in net, SealRead(m) PROVE SheetInv'
<1>1. /\ Sound(m) /\ m.from \in Tabs /\ (m.awaited => Fits(tab[m.from], m))
      /\ Store /\ edits \in Nat /\ m.kind = "seal" /\ SealSound(m) /\ UNCHANGED <<sheets, tab, edits>>
  BY TheRequest DEF SealRead, Sound
<1>2. Evolves BY <1>1, StayingEvolves
<1>3. PICK t, s : t = tab[m.from] /\ s = m.body.sid OBVIOUS
<1>4. ASSUME NEW how, how # "ok", Reply(m, how, <<>>) PROVE SheetInv'
  <2>1. PICK n : /\ net' \subseteq (net \ {m}) \cup {n} /\ Shaped(n) /\ n.from = m.from /\ n.kind = m.kind
                 /\ n.body = m.body /\ n.awaited = m.awaited /\ n.at = "answered" /\ n.answer = how
                 /\ n.row = <<>>
    BY <1>4, Replying
  <2>2. SealSound(n) BY <1>1, <1>4, <2>1 DEF SealSound
  <2>3. Sound(n) BY <1>1, <2>1, <2>2 DEF Sound
  <2>4. Sound(n)' BY <1>1, <1>2, <2>3, SoundStays
  <2>5. m.awaited => Fits(t, n)' BY <1>1, <1>3, <2>1 DEF Fits, DirtyKeys, HasSheet
  <2> QED BY <1>2, <1>1, <1>3, <2>1, <2>4, <2>5, ReplyStep
<1>5. CASE SealRefusal(s, m.body) = "none"
  <2>1. PICK row : row = Row(s, sheets) OBVIOUS
  <2>2. PICK n : n = [m EXCEPT !.at = "read", !.row = row] OBVIOUS
  <2>3. net' \subseteq (net \ {m}) \cup {n} BY <1>3, <1>5, <2>1, <2>2 DEF SealRead
  <2>4. n = [from |-> m.from, no |-> m.no, kind |-> m.kind, body |-> m.body, at |-> "read",
             answer |-> m.answer, row |-> row, awaited |-> m.awaited]
    BY <1>1, <2>2 DEF Sound, Shaped
  <2>5. /\ Shaped(n) /\ n.from = m.from /\ n.kind = m.kind /\ n.body = m.body /\ n.awaited = m.awaited
        /\ n.at = "read" /\ n.answer = m.answer /\ n.row = row
    BY <2>4 DEF Shaped
  <2>6. sheets[s].status = "draft" /\ sheets[s].ver = m.body.ver BY <1>5 DEF SealRefusal
  <2>7. s \in DOMAIN sheets BY <1>1, <1>3 DEF SealSound
  <2>8. RowTrue(row) /\ row.sid = s /\ row.ver = m.body.ver /\ row.status = "draft"
    BY <1>1, <2>1, <2>6, <2>7, RowIsTrue
  <2>9. m.at # "answered" BY DEF SealRead
  <2>10. SealSound(n) BY <1>1, <1>3, <2>5, <2>8, <2>9 DEF SealSound
  <2>11. Sound(n) BY <1>1, <2>5, <2>10 DEF Sound
  <2>12. Sound(n)' BY <1>1, <1>2, <2>11, SoundStays
  <2>13. m.awaited => Fits(t, n)' BY <1>1, <1>3, <2>5 DEF Fits, DirtyKeys, HasSheet
  <2> QED BY <1>2, <1>1, <1>3, <2>3, <2>5, <2>12, <2>13, ReplyStep
<1>6. CASE SealRefusal(s, m.body) # "none"
  <2>1. PICK how : how = SealRefusal(s, m.body) /\ Reply(m, how, <<>>) BY <1>3, <1>6 DEF SealRead
  <2>2. how # "ok" BY <2>1 DEF SealRefusal
  <2> QED BY <1>4, <2>1, <2>2
<1> QED BY <1>5, <1>6

LEMMA SealCommitSound == ASSUME SheetInv, NEW m \in net, SealCommit(m) PROVE SheetInv'
<1>1. /\ Sound(m) /\ m.from \in Tabs /\ (m.awaited => Fits(tab[m.from], m))
      /\ Store /\ edits \in Nat /\ edits <= edits /\ m.kind = "seal" /\ SealSound(m) /\ UNCHANGED <<tab, edits>>
      /\ m.at = "read"
  <2>1. m.kind = "seal" /\ m.at = "read" /\ UNCHANGED <<tab, edits>> BY DEF SealCommit
  <2>2. Sound(m) /\ m.from \in Tabs /\ (m.awaited => Fits(tab[m.from], m)) /\ Store /\ edits \in Nat
    BY TheRequest
  <2>3. SealSound(m) BY <2>1, <2>2 DEF Sound
  <2>4. edits <= edits BY <2>2
  <2> QED BY <2>1, <2>2, <2>3, <2>4
<1>2. PICK t, s : t = tab[m.from] /\ s = m.body.sid OBVIOUS
<1>3. ASSUME Evolves, NEW how, NEW row, Reply(m, how, row),
             how = "ok" => RowTrue(row)' /\ row.sid = s /\ row.status # "draft"
      PROVE  SheetInv'
  <2>1. PICK n : /\ net' \subseteq (net \ {m}) \cup {n} /\ Shaped(n) /\ n.from = m.from /\ n.kind = m.kind
                 /\ n.body = m.body /\ n.awaited = m.awaited /\ n.at = "answered" /\ n.answer = how
                 /\ n.row = row
    BY <1>3, Replying
  <2>2. /\ m.body.sid \in DOMAIN sheets /\ m.body.ver \in Nat /\ m.body.ver <= sheets[m.body.sid].ver
    BY <1>1 DEF SealSound
  <2>3. m.body.sid \in DOMAIN sheets' /\ m.body.ver <= sheets'[m.body.sid].ver BY <1>1, <1>3, <2>2, Versions
  <2>4. SealSound(n)' BY <1>2, <1>3, <2>1, <2>2, <2>3 DEF SealSound
  <2>5. Sound(n)' BY <1>1, <2>1, <2>4 DEF Sound, Shaped
  <2>6. m.awaited => Fits(t, n)' BY <1>1, <1>2, <2>1 DEF Fits, DirtyKeys, HasSheet
  <2> QED BY <1>1, <1>2, <1>3, <2>1, <2>5, <2>6, ReplyStep
<1>4. CASE ~SealMatches(s, m.body)
  <2>1. Reply(m, "conflict", <<>>) /\ UNCHANGED sheets BY <1>2, <1>4 DEF SealCommit
  <2>2. Evolves BY <1>1, <2>1, StayingEvolves
  <2> QED BY <1>3, <2>1, <2>2
<1>5. CASE SealMatches(s, m.body)
  <2>1. s \in DOMAIN sheets /\ sheets \in Seq(Sheet) /\ RowTrue(m.row) BY <1>1, <1>2 DEF SealSound, Store
  <2>2. PICK full \in BOOLEAN : sheets' = [sheets EXCEPT
                   ![s].status = IF full THEN "sealed" ELSE "discarded",
                   ![s].answers = Empty,
                   ![s].attempts = IF full THEN m.row.answers ELSE Empty]
    BY <1>2, <1>5 DEF SealCommit
  <2>3. PICK status, attempts : /\ status = IF full THEN "sealed" ELSE "discarded"
                                /\ attempts = IF full THEN m.row.answers ELSE Empty
    OBVIOUS
  <2>4. PICK old, new : /\ old = sheets[s]
                        /\ new = [status |-> status, ver |-> old.ver, answers |-> Empty, attempts |-> attempts]
    OBVIOUS
  <2>5. old \in Sheet BY <2>1, <2>4
  <2>6. sheets' = [sheets EXCEPT ![s].status = status, ![s].answers = Empty, ![s].attempts = attempts]
    BY <2>2, <2>3
  <2>7. /\ sheets'[s] = new /\ DOMAIN sheets' = DOMAIN sheets
        /\ \A r \in DOMAIN sheets : r # s => sheets'[r] = sheets[r]
    BY <2>1, <2>4, <2>5, <2>6 DEF Sheet
  <2>8. sheets' = [sheets EXCEPT ![s] = new] BY <2>1, <2>6, <2>7
  <2>9. Empty \in [Questions -> Values] /\ m.row.answers \in [Questions -> Values]
    BY <2>1 DEF Empty, Values, RowTrue
  <2>10. new \in Sheet /\ new.status # "draft" /\ new.ver = sheets[s].ver /\ new.ver \in Nat
    BY <2>3, <2>4, <2>5, <2>9 DEF Sheet
  <2>11. sheets[s].status = "draft" BY <1>5 DEF SealMatches
  <2>12. Evolves /\ sheets'[s] = new BY <1>1, <2>1, <2>8, <2>10, <2>11, SealMatched
  <2>13. PICK row : row = Row(s, sheets') /\ Reply(m, "ok", row) BY <1>2, <1>5 DEF SealCommit
  <2>14. row.sid = s /\ row.ver = new.ver /\ row.status = new.status /\ row.answers = new.answers
    BY <2>12, <2>13 DEF Row
  <2>15. new.ver <= new.ver /\ new.answers \in [Questions -> Values] BY <2>4, <2>9, <2>10
  <2>16. RowTrue(row)' BY <2>1, <2>7, <2>10, <2>14, <2>15 DEF RowTrue
  <2> QED BY <1>3, <2>10, <2>12, <2>13, <2>14, <2>16
<1> QED BY <1>4, <1>5

LEMMA RefuseSound == ASSUME SheetInv, NEW c \in Tabs, Refuse(c) PROVE SheetInv'
<1>1. PICK m \in Awaited(c) : m.kind = "patch" /\ Reply(m, "refused", <<>>) BY DEF Refuse
<1>2. m \in net /\ m.from = c BY <1>1 DEF Awaited
<1>3. /\ Sound(m) /\ (m.awaited => Fits(tab[m.from], m))
      /\ Store /\ edits \in Nat /\ PatchSound(m) /\ UNCHANGED <<sheets, tab, edits>>
  BY <1>1, <1>2, TheRequest DEF Refuse, Sound
<1>4. Evolves BY <1>3, StayingEvolves
<1>5. PICK t : t = tab[m.from] OBVIOUS
<1>6. PICK n : /\ net' \subseteq (net \ {m}) \cup {n} /\ Shaped(n) /\ n.from = m.from /\ n.kind = m.kind
               /\ n.body = m.body /\ n.awaited = m.awaited /\ n.at = "answered" /\ n.answer = "refused"
               /\ n.row = <<>>
  BY <1>1, <1>2, Replying
<1>7. PatchSound(n) BY <1>3, <1>6 DEF PatchSound
<1>8. Sound(n) BY <1>1, <1>3, <1>6, <1>7 DEF Sound
<1>9. Sound(n)' BY <1>3, <1>4, <1>8, SoundStays
<1>10. m.awaited => Fits(t, n)' BY <1>1, <1>3, <1>5, <1>6 DEF Fits, Carries, DirtyKeys, Open, HasSheet
<1> QED BY <1>2, <1>3, <1>4, <1>5, <1>6, <1>9, <1>10, ReplyStep

(* Another device writes to the sheet, or seals it.                         *)
LEMMA ElsewhereSound == ASSUME SheetInv, Elsewhere PROVE SheetInv'
<1>1. /\ sheets \in Seq(Sheet) /\ OneDraft /\ edits \in Nat /\ edits' = edits + 1 /\ UNCHANGED <<tab, net>>
      /\ edits' \in Nat /\ edits <= edits'
  BY DEF Elsewhere, SheetInv, Store
<1>2. PICK s \in Drafts :
       \/ \E q \in Questions, v \in Values :
            sheets' = [sheets EXCEPT ![s].ver = @ + 1, ![s].answers[q] = v]
       \/ sheets' = [sheets EXCEPT ![s].status = "sealed", ![s].answers = Empty,
                                   ![s].attempts = sheets[s].answers]
  BY DEF Elsewhere
<1>3. PICK old : old = sheets[s] OBVIOUS
<1>4. s \in DOMAIN sheets /\ old.status = "draft" /\ old \in Sheet
  <2>1. s \in DOMAIN sheets /\ sheets[s].status = "draft" BY DEF Drafts
  <2> QED BY <1>1, <1>3, <2>1
<1>5. ASSUME NEW q \in Questions, NEW v \in Values,
             sheets' = [sheets EXCEPT ![s].ver = @ + 1, ![s].answers[q] = v]
      PROVE  Evolves
  <2>1. PICK new : new = [status |-> old.status, ver |-> old.ver + 1,
                          answers |-> [old.answers EXCEPT ![q] = v], attempts |-> old.attempts]
    OBVIOUS
  <2>2. new \in Sheet BY <1>4, <2>1 DEF Sheet
  <2>3. /\ sheets'[s] = new /\ DOMAIN sheets' = DOMAIN sheets
        /\ \A r \in DOMAIN sheets : r # s => sheets'[r] = sheets[r]
    BY <1>3, <1>4, <1>5, <2>1 DEF Sheet
  <2>4. sheets' = [sheets EXCEPT ![s] = new] BY <1>5, <2>3
  <2>5. sheets' \in Seq(Sheet) BY <1>1, <1>4, <2>2, <2>4, ExceptSeq
  <2>6. new.status = "draft" /\ new.ver = old.ver + 1 /\ old.ver \in Nat BY <1>4, <2>1 DEF Sheet
  <2>7. \A r \in DOMAIN sheets : sheets'[r].status = sheets[r].status BY <1>3, <1>4, <2>3, <2>6
  <2>8. OneDraft' BY <1>1, <2>3, <2>7 DEF OneDraft
  <2>9. Store' BY <1>1, <2>5, <2>8 DEF Store
  <2>10. ASSUME NEW r \in DOMAIN sheets
         PROVE  sheets[r].ver <= sheets'[r].ver /\ (sheets'[r].ver = sheets[r].ver => sheets'[r] = sheets[r])
    <3>1. CASE r = s BY <1>3, <2>3, <2>6, <3>1
    <3>2. CASE r # s
      <4>1. sheets[r] \in Sheet /\ sheets'[r] = sheets[r] BY <1>1, <2>3, <3>2
      <4>2. sheets[r].ver \in Nat BY <4>1 DEF Sheet
      <4> QED BY <4>1, <4>2
    <3> QED BY <3>1, <3>2
  <2> HIDE <1>5
  <2>11. \A r \in DOMAIN sheets : /\ r \in DOMAIN sheets'
                                  /\ sheets'[r].ver = sheets[r].ver => sheets'[r].answers = sheets[r].answers
    BY <2>3, <2>10
  <2> QED BY <1>1, <2>7, <2>9, <2>10, <2>11, Zenon DEF Evolves
<1>6. ASSUME sheets' = [sheets EXCEPT ![s].status = "sealed", ![s].answers = Empty,
                                      ![s].attempts = sheets[s].answers]
      PROVE  Evolves
  <2>1. PICK new : new = [status |-> "sealed", ver |-> old.ver, answers |-> Empty, attempts |-> old.answers]
    OBVIOUS
  <2>2. new \in Sheet BY <1>4, <2>1 DEF Sheet, Empty, Values
  <2>3. /\ sheets'[s] = new /\ DOMAIN sheets' = DOMAIN sheets
        /\ \A r \in DOMAIN sheets : r # s => sheets'[r] = sheets[r]
    BY <1>3, <1>4, <1>6, <2>1 DEF Sheet
  <2>4. sheets' = [sheets EXCEPT ![s] = new] BY <1>6, <2>3
  <2>5. new.status # "draft" /\ new.ver = sheets[s].ver BY <1>3, <2>1
  <2> QED BY <1>1, <1>3, <1>4, <2>2, <2>4, <2>5, SealMatched
<1>7. Evolves BY <1>2, <1>5, <1>6
<1>8. \A m \in net : Sound(m)' BY <1>7, SoundStays DEF SheetInv
<1>9. \A t : \A n \in net : Fits(t, n) => Fits(t, n)' BY <1>7, FitsStays DEF SheetInv
<1>10. OneAwaited' BY <1>1 DEF SheetInv, OneAwaited
<1>11. \A t : \A n \in net' : n.awaited /\ t = tab[n.from] => Fits(t, n)' BY <1>1, <1>9 DEF SheetInv
<1> QED BY <1>1, <1>7, <1>8, <1>10, <1>11, StoreStep

LEMMA SheetStutters == ASSUME SheetInv, UNCHANGED vars PROVE SheetInv'
<1>1. UNCHANGED <<sheets, tab, net, edits>> BY DEF vars
<1>2. edits \in Nat /\ edits <= edits BY DEF SheetInv, Store
<1>3. Evolves BY <1>1, <1>2, StayingEvolves
<1>4. \A m \in net : Sound(m)' BY <1>3, SoundStays DEF SheetInv
<1>5. \A t : \A n \in net : Fits(t, n) => Fits(t, n)' BY <1>3, FitsStays DEF SheetInv
<1>6. OneAwaited' BY <1>1 DEF SheetInv, OneAwaited
<1>7. \A t : \A n \in net' : n.awaited /\ t = tab[n.from] => Fits(t, n)' BY <1>1, <1>5 DEF SheetInv
<1> QED BY <1>1, <1>3, <1>4, <1>6, <1>7, StoreStep

LEMMA SheetInvNext == ASSUME SheetInv, [Next]_vars PROVE SheetInv'
<1>1. ASSUME NEW c \in Tabs, User(c) PROVE SheetInv'
  <2>1. CASE Enter(c) BY <2>1, EnterSound
  <2>2. CASE \E q \in Questions, v \in Values : Edit(c, q, v) BY <2>2, EditSound
  <2>3. CASE PressSeal(c) BY <2>3, PressSealSound
  <2>4. CASE PressLeave(c) BY <2>4, PressLeaveSound
  <2>5. CASE PressLoad(c) BY <2>5, PressLoadSound
  <2>6. CASE Retry(c) BY <2>6, RetrySound
  <2>7. CASE Close(c) BY <2>7, CloseSound
  <2> QED BY <1>1, <2>1, <2>2, <2>3, <2>4, <2>5, <2>6, <2>7 DEF User
<1>2. ASSUME NEW c \in Tabs, Client(c) PROVE SheetInv'
  <2>1. CASE Autosave(c) BY <2>1, AutosaveSound
  <2>2. CASE Resend(c) BY <2>2, ResendSound
  <2>3. CASE OpenAnswer(c) BY <2>3, OpenAnswerSound
  <2>4. CASE PatchAnswer(c) BY <2>4, PatchAnswerSound
  <2>5. CASE SealAnswer(c) BY <2>5, SealAnswerSound
  <2>6. CASE LoadAnswer(c) BY <2>6, LoadAnswerSound
  <2> QED BY <1>2, <2>1, <2>2, <2>3, <2>4, <2>5, <2>6 DEF Client
<1>3. ASSUME NEW m \in net, Handle(m) PROVE SheetInv'
  <2>1. m.at = "wire" /\ UNCHANGED <<tab, edits>> BY <1>3 DEF Handle
  <2>2. CASE HandleOpen(m) BY <2>1, <2>2, HandleOpenSound
  <2>3. CASE HandlePatch(m) BY <2>1, <2>3, HandlePatchSound
  <2>4. CASE HandleRead(m) BY <2>1, <2>4, HandleReadSound
  <2> QED BY <1>3, <2>2, <2>3, <2>4 DEF Handle
<1>4. CASE Server BY <1>3, <1>4, SealReadSound, SealCommitSound DEF Server
<1>5. CASE Elsewhere BY <1>5, ElsewhereSound
<1>6. ASSUME NEW c \in Tabs, NetworkError(c) \/ TimeOut(c) \/ Refuse(c) PROVE SheetInv'
  BY <1>6, NetworkErrorSound, TimeOutSound, RefuseSound
<1>7. CASE Fault BY <1>6, <1>7 DEF Fault
<1>8. CASE UNCHANGED vars BY <1>8, SheetStutters
<1> QED BY <1>1, <1>2, <1>4, <1>5, <1>7, <1>8 DEF Next

LEMMA SheetInvInit == ASSUME Init PROVE SheetInv
<1>1. edits \in Nat /\ sheets = <<>> /\ net = {} /\ tab = [c \in Tabs |-> Page] BY DEF Init
<1>2. Store BY <1>1 DEF Store, OneDraft
<1>3. PageSound(Page) BY <1>1, EmptyPage
<1>4. \A c \in Tabs : tab[c] = Page BY <1>1
<1>5. \A c \in Tabs : PageSound(tab[c]) BY <1>3, <1>4
<1> QED BY <1>1, <1>2, <1>5 DEF SheetInv, OneAwaited

(* Every request that is on its way fits the page that waits for it and the *)
(* sheet it is about, wherever the network has delivered it.                *)
THEOREM SheetInvariant == Spec => []SheetInv
<1>1. SheetInv /\ [Next]_vars => SheetInv' BY SheetInvNext
<1> QED BY <1>1, SheetInvInit, PTL DEF Spec

(* The types of the rows and of the pages.                                  *)
LEMMA SheetTypes == ASSUME SheetInv PROVE TypeOK
<1>1. sheets \in Seq(Sheet) /\ OneDraft BY DEF SheetInv, Store
<1>2. \A s \in DOMAIN sheets : sheets[s] \in Sheet BY <1>1
<1>3. \A s \in DOMAIN sheets : /\ sheets[s].status \in {"draft", "sealed", "discarded"}
                               /\ sheets[s].ver \in Nat
                               /\ {sheets[s].answers, sheets[s].attempts} \subseteq [Questions -> Values]
  BY <1>2 DEF Sheet
<1>4. ASSUME NEW c \in Tabs
      PROVE  /\ tab[c].view \in {"away", "opening", "failed", "draft", "settled"}
             /\ tab[c].state \in {"clean", "dirty", "saving", "retrying", "error", "conflict"}
             /\ tab[c].screen \in [Questions -> Values]
             /\ tab[c].committed <= tab[c].seq /\ tab[c].seq <= edits
             /\ tab[c].tries <= MaxRetries
  <2>1. PICK t : t = tab[c] OBVIOUS
  <2>2. PageSound(t) BY <2>1 DEF SheetInv
  <2>3. t \in PageType /\ t.committed <= t.seq /\ t.seq <= edits BY <2>2 DEF PageSound
  <2>4. MaxRetries \in Nat BY ExamSheetAssumption
  <2>5. /\ t.view \in {"away", "opening", "failed", "draft", "settled"}
        /\ t.state \in {"clean", "dirty", "saving", "retrying", "error", "conflict"}
        /\ t.screen \in [Questions -> Values] /\ t.tries <= MaxRetries
    BY <2>3, <2>4 DEF PageType
  <2> QED BY <2>1, <2>3, <2>5
<1>5. \A m \in net : m.at \in {"wire", "read", "answered"} BY DEF SheetInv, Sound
<1> QED BY <1>1, <1>3, <1>4, <1>5 DEF TypeOK, OneDraft

(* A page that says "saved" and has the version of the server shows the     *)
(* answers of the server, whatever was lost, repeated or overtaken, but for *)
(* those that are astray.                                                   *)
THEOREM SavedStored == Spec => []SavedIsStored
<1>1. ASSUME SheetInv PROVE SavedIsStored
  <2>1. TypeOK BY <1>1, SheetTypes
  <2>2. SUFFICES ASSUME NEW c \in Tabs, NEW t, t = tab[c], SaysSaved(t), NEW q \in Questions \ t.astray
                 PROVE  t.screen[q] = sheets[t.sid].answers[q]
    BY <2>1 DEF SavedIsStored, Shows
  <2>3. PageSound(t) /\ HasSheet(t) BY <1>1, <2>2 DEF SheetInv, SaysSaved, HasSheet
  <2>4. WithSheet(t) /\ t.state = "clean" /\ Current(t.sid, t.ver)
    BY <2>2, <2>3 DEF PageSound, SaysSaved, Current
  <2>5. DirtyKeys(t) = {} BY <2>4, NothingDirty
  <2> QED BY <2>2, <2>3, <2>4, <2>5, ShownIs
<1> QED BY <1>1, SheetInvariant, PTL

(* Only SealCommit makes attempts of a draft of this page, and it makes      *)
(* them of what its page showed.                                            *)
LEMMA SealsSeen ==
  ASSUME SheetInv, Next, NEW s \in DOMAIN sheets,
         sheets[s].status = "draft", sheets'[s].status = "sealed", net' # net
  PROVE  \E m \in net : /\ m.kind = "seal" /\ m.body.sid = s
                        /\ m \notin net'
                        /\ \A q \in DOMAIN m.body.shown : sheets'[s].attempts[q] = m.body.shown[q]
<1>1. sheets \in Seq(Sheet) /\ sheets' # sheets BY DEF SheetInv, Store
<1>2. ASSUME NEW c \in Tabs, User(c) \/ Client(c) PROVE FALSE
  BY <1>1, <1>2 DEF User, Client, Enter, Edit, PressSeal, PressLeave, PressLoad, Retry, Close,
                    Autosave, Resend, OpenAnswer, PatchAnswer, SealAnswer, LoadAnswer
<1>3. ASSUME NEW m \in net, HandlePatch(m), UNCHANGED edits PROVE FALSE
  <2>1. PatchSound(m) BY <1>3 DEF SheetInv, Sound, HandlePatch
  <2>2. PICK k : k = m.body.sid OBVIOUS
  <2>3. PatchMatches(k, m.body) BY <1>1, <1>3, <2>2 DEF HandlePatch
  <2>4. sheets'[k].status = "draft" /\ k \in DOMAIN sheets
    BY <1>3, <2>1, <2>2, <2>3, PatchMatched DEF HandlePatch, PatchSound
  <2>5. PICK r : sheets' = [sheets EXCEPT ![k] = r] BY <1>1, <1>3, <2>2, <2>3, <2>4 DEF HandlePatch
  <2> QED BY <1>1, <2>4, <2>5
<1>4. ASSUME NEW m \in net, Handle(m) PROVE FALSE
  <2>1. CASE HandleOpen(m) BY <1>1, <2>1 DEF HandleOpen
  <2> QED BY <1>1, <1>3, <1>4, <2>1 DEF Handle, HandleRead
<1>5. ASSUME NEW m \in net, SealCommit(m)
      PROVE  /\ m.kind = "seal" /\ m.body.sid = s /\ m \notin net'
             /\ \A q \in DOMAIN m.body.shown : sheets'[s].attempts[q] = m.body.shown[q]
  <2>1. SealSound(m) /\ m.kind = "seal" /\ m.at = "read" BY <1>5 DEF SheetInv, Sound, SealCommit
  <2>2. PICK k : k = m.body.sid OBVIOUS
  <2>3. SealMatches(k, m.body) BY <1>1, <1>5, <2>2 DEF SealCommit
  <2>4. PICK full \in BOOLEAN : sheets' = [sheets EXCEPT
                   ![k].status = IF full THEN "sealed" ELSE "discarded",
                   ![k].answers = Empty,
                   ![k].attempts = IF full THEN m.row.answers ELSE Empty]
    BY <1>5, <2>2, <2>3 DEF SealCommit
  <2>5. k = s BY <2>4
  <2>6. sheets[s] \in Sheet BY <1>1
  <2>7. full /\ sheets'[s].attempts = m.row.answers BY <2>4, <2>5, <2>6 DEF Sheet
  <2>8. Current(s, m.body.ver) BY <2>2, <2>3, <2>5 DEF SealMatches, Current
  <2>9. /\ m.row.answers = sheets[s].answers
        /\ \A q \in DOMAIN m.body.shown : m.body.shown[q] = sheets[s].answers[q]
    BY <2>1, <2>2, <2>5, <2>8 DEF SealSound, RowTrue
  <2>10. PICK row : Reply(m, "ok", row) BY <1>5, <2>2, <2>3 DEF SealCommit
  <2>11. m \notin net'
    <3>1. Shaped(m) BY DEF SheetInv, Sound
    <3>2. PICK n : /\ net' \subseteq (net \ {m}) \cup {n} /\ n.at = "answered"
      BY <2>10, Replying
    <3> QED BY <2>1, <3>2
  <2> QED BY <2>1, <2>2, <2>5, <2>7, <2>9, <2>11
<1>6. CASE Server BY <1>1, <1>4, <1>5, <1>6 DEF Server, SealRead
<1>7. CASE Elsewhere BY <1>7 DEF Elsewhere
<1>8. CASE Fault BY <1>1, <1>8 DEF Fault, NetworkError, TimeOut, Refuse
<1> QED BY <1>2, <1>6, <1>7, <1>8 DEF Next

(* The attempts a seal leaves behind are what its page showed when its      *)
(* request went out, whichever requests were lost or came late, but for     *)
(* what was astray.                                                         *)
THEOREM SealedSeen == Spec => SealedIsSeen
<1>1. ASSUME SheetInv, [Next]_vars
      PROVE  [\A s \in DOMAIN sheets :
                sheets[s].status = "draft" /\ sheets'[s].status = "sealed" /\ net' # net =>
                  \E m \in net : /\ m.kind = "seal" /\ m.body.sid = s
                                 /\ m \notin net'
                                 /\ \A q \in DOMAIN m.body.shown :
                                      sheets'[s].attempts[q] = m.body.shown[q]]_vars
  BY <1>1, SealsSeen
<1> QED BY <1>1, SheetInvariant, PTL DEF Spec, SealedIsSeen
=============================================================================
