---------------------------- MODULE WritingDraftProofs ----------------------------
(***************************************************************************)
(* Theorems about WritingDraft, for any texts and any bounds: what the page  *)
(* calls confirmed is stored, a save replaces only what its page had seen,  *)
(* a submit seals what was shown, and the sheet is one of a writing task.   *)
(***************************************************************************)
EXTENDS WritingDraft, FiniteSetTheorems, TLAPS

(* The types of the parts of a state.                                       *)
Row == [status : {"draft", "sealed", "discarded"}, ver : Nat, text : AllTexts, attempt : AllTexts]

PageType ==
  [view : {"away", "loading", "open", "done"}, text : AllTexts, ver : Nat, conf : AllTexts,
   dirty : BOOLEAN, newer : BOOLEAN,
   state : {"clean", "dirty", "saving", "retrying", "error", "conflict"}, tries : 0 .. MaxRetries,
   backoff : BOOLEAN, timer : BOOLEAN, act : {"idle", "flush", "export", "check", "post"}, refused : BOOLEAN]

Message ==
  [kind : {"save", "reconcile", "check", "submit", "load"}, ver : Nat, text : AllTexts, seen : AllTexts,
   shown : AllTexts, awaited : BOOLEAN, answer : {"none", "ok", "conflict", "empty"}, row : Row]

DraftTypes ==
  /\ row \in Row /\ past \in Seq(AllTexts) /\ page \in PageType /\ wire \in SUBSET Message
  /\ edits \in 0 .. MaxEdits /\ faults \in Nat

(* A text was that of a version of the row.  Of a discarded draft nothing   *)
(* is said: its text is gone.                                              *)
WasStored(ver, text) == ver < Len(past) /\ (row.status # "discarded" => text = past[ver + 1])

(* The row is its last version.                                             *)
RowIsLast == Len(past) = row.ver + 1 /\ WasStored(row.ver, Shown(row))

(* A request that may write was made from a version and its text.  A save   *)
(* is owed to an edit of its own, so that versions are not more than edits. *)
Sound(m) ==
  /\ m.kind \in {"save", "reconcile", "submit"} => WasStored(m.ver, m.seen)
  /\ m.kind = "submit" => m.shown = m.seen
  /\ m.kind \in {"save", "reconcile"} => m.ver + 1 <= edits
  /\ ~OnItsWay(m) => /\ WasStored(m.row.ver, Shown(m.row))
                     /\ m.row.status = "discarded" => row.status = "discarded"
                     /\ m.row.status = "draft" => m.row.ver <= edits
  /\ m.kind = "save" /\ ~OnItsWay(m) => m.answer \in {"ok", "conflict"}
  /\ m.kind = "save" /\ m.answer = "ok" => m.row.ver = m.ver + 1 /\ Shown(m.row) = m.text

Working == {"idle", "export", "flush"}

(* What the page is doing while it waits for a request.                     *)
Fits(m) ==
  /\ ~page.backoff
  /\ m.kind \in {"save", "reconcile"} =>
       /\ page.view = "open" /\ page.act \in Working /\ m.ver = page.ver
       /\ IF page.newer THEN m.ver + 2 <= edits ELSE m.text = page.text
  /\ m.kind = "check" => page.view = "open" /\ page.act = "check"
  /\ m.kind = "submit" => page.view = "open" /\ page.act = "post"
  /\ m.kind = "load" => page.view = "loading"

OneAwaited == \A m, n \in Awaited : m = n

PageSound ==
  /\ page.view = "open" => WasStored(page.ver, page.conf) /\ page.ver <= edits
  /\ page.view # "open" => ~page.timer /\ page.act = "idle" /\ ~page.dirty
  /\ page.backoff => page.view = "open" /\ page.act \in Working
  /\ page.newer => page.dirty
  /\ page.state = "clean" => ~page.dirty
  /\ page.act \in {"check", "post"} => ~page.dirty
  /\ IF page.dirty THEN page.ver + 1 <= edits ELSE page.text = page.conf

VersionsAreEdits == row.status = "draft" => row.ver <= edits

DraftInv ==
  /\ DraftTypes /\ RowIsLast /\ VersionsAreEdits /\ PageSound /\ OneAwaited
  /\ \A m \in wire : Sound(m)
  /\ \A m \in Awaited : Fits(m)

-----------------------------------------------------------------------------
(* Steps of the page.  The row stays, and what was sent stays sound.        *)

(* Messages nobody waits for.                                               *)
Quiet(rest) == rest \in SUBSET Message /\ \A m \in rest : Sound(m) /\ ~m.awaited

(* Without a request there is none awaited.                                 *)
LEMMA QuietWire ==
  ASSUME DraftInv
  PROVE  /\ Quiet(Forsaken)
         /\ \A m \in Awaited : Quiet(wire \ {m})
         /\ Awaited = {} => Quiet(wire)
<1>1. \A n \in wire : [n EXCEPT !.awaited = FALSE] \in Message
  BY DEF DraftInv, DraftTypes, Message
<1>2. \A n \in wire : OnItsWay(n) => Sound([n EXCEPT !.awaited = FALSE])
  BY DEF DraftInv, DraftTypes, Message, Sound, OnItsWay
<1>3. Quiet(Forsaken)
  BY <1>1, <1>2 DEF DraftInv, DraftTypes, Quiet, Forsaken, Orphans, Awaited, Message
<1>4. \A m \in Awaited : Quiet(wire \ {m})
  BY DEF DraftInv, DraftTypes, Quiet, OneAwaited, Awaited
<1>5. Awaited = {} => Quiet(wire)
  BY DEF DraftInv, DraftTypes, Quiet, Awaited
<1> QED BY <1>3, <1>4, <1>5

(* Messages stay sound while the row goes on.                               *)
LEMMA SoundStays ==
  ASSUME UNCHANGED <<row, past, edits>>, NEW m
  PROVE  Sound(m)' <=> Sound(m)
BY DEF Sound, WasStored, Shown, OnItsWay

(* The page stops waiting.                                                  *)
LEMMA Rests ==
  ASSUME DraftInv, UNCHANGED <<row, past, edits>>, faults' \in Nat,
         page' \in PageType, PageSound', Quiet(wire')
  PROVE  DraftInv'
<1>1. \A m \in wire' : Sound(m)' BY SoundStays DEF Quiet
<1>2. Awaited' = {} BY DEF Quiet, Awaited
<1>3. DraftTypes' BY DEF DraftInv, DraftTypes, Quiet
<1>4. RowIsLast' /\ VersionsAreEdits' BY DEF DraftInv, RowIsLast, VersionsAreEdits, WasStored, Shown
<1> QED BY <1>1, <1>2, <1>3, <1>4 DEF DraftInv, OneAwaited

(* It sends a request and waits for it.                                     *)
LEMMA Sends ==
  ASSUME DraftInv, UNCHANGED <<row, past, edits>>, faults' \in Nat,
         page' \in PageType, PageSound',
         NEW rest, Quiet(rest), NEW r \in Message, r.awaited, Sound(r), wire' = rest \cup {r}, Fits(r)'
  PROVE  DraftInv'
<1>1. \A m \in wire' : Sound(m)' BY SoundStays DEF Quiet
<1>2. Awaited' = {r} BY DEF Quiet, Awaited
<1>3. DraftTypes' BY DEF DraftInv, DraftTypes, Quiet
<1>4. RowIsLast' /\ VersionsAreEdits' BY DEF DraftInv, RowIsLast, VersionsAreEdits, WasStored, Shown
<1> QED BY <1>1, <1>2, <1>3, <1>4 DEF DraftInv, OneAwaited

(* Only the page changes, and goes on with what it waits for.               *)
LEMMA Waits ==
  ASSUME DraftInv, UNCHANGED <<row, past, edits, wire>>, faults' \in Nat,
         page' \in PageType, PageSound', \A m \in Awaited : Fits(m)'
  PROVE  DraftInv'
<1>1. \A m \in wire' : Sound(m)' BY SoundStays DEF DraftInv
<1>2. Awaited' = Awaited BY DEF Awaited
<1>3. DraftTypes' BY DEF DraftInv, DraftTypes
<1>4. RowIsLast' /\ VersionsAreEdits' BY DEF DraftInv, RowIsLast, VersionsAreEdits, WasStored, Shown
<1> QED BY <1>1, <1>2, <1>3, <1>4 DEF DraftInv, OneAwaited

(* A page that may send: it is open, waits for nothing and retries nothing. *)
Ready(p) ==
  /\ p \in PageType /\ p.view = "open" /\ p.act \in Working /\ ~p.backoff
  /\ WasStored(p.ver, p.conf) /\ p.ver <= edits /\ (p.newer => p.dirty)
  /\ IF p.dirty THEN p.ver + 1 <= edits ELSE p.text = p.conf

(* What a page sends has the shape of a request.                            *)
LEMMA RequestType ==
  ASSUME WritingDraftAssumption, NEW p \in PageType, NEW kind \in {"save", "check", "submit", "load"}
  PROVE  Request(kind, p) \in Message
<1>1. Fresh \in Row BY DEF Fresh, Row, AllTexts
<1> QED BY <1>1 DEF Request, Message, PageType

(* An answer that settles a save or a reconcile leaves the page sound.      *)
LEMMA ResolveSound ==
  ASSUME DraftInv, UNCHANGED <<row, past, edits>>, faults' \in Nat,
         NEW p, Ready(p), ~p.dirty, NEW rest, Quiet(rest), Resolve(p, rest)
  PROVE  DraftInv'
<1>1. CASE p.act = "flush"
  <2>1. page' = [p EXCEPT !.act = "check"] BY <1>1 DEF Resolve
  <2>2. page' \in PageType BY <2>1 DEF Ready, PageType
  <2>3. PageSound' BY <2>1 DEF Ready, PageType, PageSound, WasStored, Working
  <2>4. Request("check", p) \in Message BY RequestType, WritingDraftAssumption DEF Ready
  <2>5. Request("check", p).awaited /\ Sound(Request("check", p)) BY DEF Request, Sound, OnItsWay
  <2>6. Fits(Request("check", p))' BY <2>1 DEF Request, Fits, Ready, PageType
  <2> QED BY <1>1, <2>2, <2>3, <2>4, <2>5, <2>6, Sends DEF Resolve
<1>2. CASE p.act # "flush"
  <2>1. page' = [p EXCEPT !.act = "idle"] BY <1>2 DEF Resolve
  <2>2. page' \in PageType BY <2>1 DEF Ready, PageType
  <2>3. PageSound' BY <2>1 DEF Ready, PageType, PageSound, WasStored, Working
  <2> QED BY <1>2, <2>2, <2>3, Rests DEF Resolve
<1> QED BY <1>1, <1>2

(* So does what the page sends next.                                        *)
LEMMA PumpSound ==
  ASSUME DraftInv, UNCHANGED <<row, past, edits>>, faults' \in Nat,
         NEW p, Ready(p), NEW rest, Quiet(rest), Pump(p, rest)
  PROVE  DraftInv'
<1>1. CASE p.dirty
  <2>1. page' = [p EXCEPT !.state = "saving", !.newer = FALSE] BY <1>1 DEF Pump
  <2>2. page' \in PageType BY <2>1 DEF Ready, PageType
  <2>3. PageSound' BY <1>1, <2>1 DEF Ready, PageType, PageSound, WasStored, Working
  <2>4. Request("save", p) \in Message BY RequestType, WritingDraftAssumption DEF Ready
  <2>5. Request("save", p).awaited /\ Sound(Request("save", p))
    BY <1>1 DEF Request, Sound, OnItsWay, Ready, WasStored
  <2>6. Fits(Request("save", p))' BY <2>1 DEF Request, Fits, Ready, PageType
  <2> QED BY <1>1, <2>2, <2>3, <2>4, <2>5, <2>6, Sends DEF Pump
<1>2. CASE ~p.dirty
  <2> DEFINE q == [p EXCEPT !.state = "clean"]
  <2>1. Ready(q) /\ ~q.dirty BY <1>2 DEF Ready, PageType
  <2>2. Resolve(q, rest) BY <1>2 DEF Pump
  <2> QED BY <2>1, <2>2, ResolveSound
<1> QED BY <1>1, <1>2

(* What a confirmed save makes of the page may send the next one.           *)
LEMMA ConfirmedReady ==
  ASSUME DraftInv, NEW m \in Awaited, m.kind \in {"save", "reconcile"}, ~OnItsWay(m),
         m.row.ver = m.ver + 1, Shown(m.row) = m.text
  PROVE  Ready(Confirmed(page, m))
<1>1. m \in Message /\ m \in wire /\ page \in PageType BY DEF DraftInv, DraftTypes, Awaited
<1>2. Confirmed(page, m) \in PageType BY <1>1 DEF Confirmed, PageType, Message, Row
<1>3. Fits(m) /\ Sound(m) /\ PageSound BY <1>1 DEF DraftInv
<1>4. WasStored(m.row.ver, m.text) BY <1>3 DEF Sound
<1>5. m.row.ver <= edits BY <1>1, <1>3 DEF Sound, Message
<1>6. Confirmed(page, m).dirty => m.row.ver + 1 <= edits BY <1>1, <1>3 DEF Confirmed, Fits, PageType, Message
<1>7. ~page.newer => m.text = page.text BY <1>1, <1>3 DEF Fits
<1> QED BY <1>1, <1>2, <1>3, <1>4, <1>5, <1>6, <1>7 DEF Confirmed, Ready, Fits, PageSound, PageType

(* And a save that was refused.                                             *)
LEMMA RejectedSound ==
  ASSUME DraftInv, page.view = "open", page.act \in Working, NEW state \in {"error", "conflict"},
         page' = Rejected(page, state), UNCHANGED <<row, past, edits>>
  PROVE  page' \in PageType /\ PageSound'
         /\ page'.backoff = page.backoff /\ page'.view = "open" /\ page'.act = "idle"
<1>1. page \in PageType BY DEF DraftInv, DraftTypes
<1>2. PageSound BY DEF DraftInv
<1>3. page' \in PageType BY <1>1 DEF Rejected, PageType
<1>4. PageSound'
  BY <1>1, <1>2 DEF Rejected, PageType, PageSound, WasStored, Working
<1> QED BY <1>1, <1>3, <1>4 DEF Rejected, PageType

(* Every step preserves the invariant. The answer to a save.                *)
LEMMA SaveAnswerSound == ASSUME DraftInv, SaveAnswer PROVE DraftInv'
<1>1. PICK m \in Awaited :
        /\ m.kind = "save" /\ ~OnItsWay(m)
        /\ IF m.answer = "ok"
             THEN Pump(Confirmed(page, m), wire \ {m})
             ELSE page' = Rejected(page, m.answer) /\ wire' = wire \ {m}
  BY DEF SaveAnswer
<1>2. m \in wire /\ Fits(m) /\ Sound(m) BY DEF DraftInv, Awaited, DraftTypes
<1>3. Quiet(wire \ {m}) BY QuietWire
<1>4. UNCHANGED <<row, past, edits>> /\ faults' \in Nat BY DEF SaveAnswer, DraftInv, DraftTypes
<1>5. CASE m.answer = "ok"
  <2>1. Ready(Confirmed(page, m)) BY <1>1, <1>2, <1>5, ConfirmedReady DEF Sound
  <2> QED BY <1>1, <1>3, <1>4, <1>5, <2>1, PumpSound
<1>6. CASE m.answer # "ok"
  <2>1. m.answer = "conflict" BY <1>1, <1>2, <1>6 DEF Sound
  <2>2. page' \in PageType /\ PageSound' BY <1>1, <1>2, <1>4, <1>6, <2>1, RejectedSound DEF Fits
  <2> QED BY <1>1, <1>3, <1>4, <1>6, <2>2, Rests
<1> QED BY <1>5, <1>6

(* The answer to a reconcile.                                               *)
LEMMA ReconcileAnswerSound == ASSUME DraftInv, ReconcileAnswer PROVE DraftInv'
<1>1. PICK m \in Awaited :
        /\ m.kind = "reconcile" /\ ~OnItsWay(m)
        /\ IF Applied(m)
             THEN Pump(Confirmed(page, m), wire \ {m})
             ELSE /\ page' = Rejected(page,
                        IF m.row.ver = m.ver /\ Shown(m.row) = page.conf
                          THEN "error" ELSE "conflict")
                  /\ wire' = wire \ {m}
  BY DEF ReconcileAnswer
<1>2. m \in wire /\ Fits(m) /\ Sound(m) BY DEF DraftInv, Awaited, DraftTypes
<1>3. Quiet(wire \ {m}) BY QuietWire
<1>4. UNCHANGED <<row, past, edits>> /\ faults' \in Nat BY DEF ReconcileAnswer, DraftInv, DraftTypes
<1>5. CASE Applied(m)
  <2>1. Ready(Confirmed(page, m)) BY <1>1, <1>2, <1>5, ConfirmedReady DEF Applied
  <2> QED BY <1>1, <1>3, <1>4, <1>5, <2>1, PumpSound
<1>6. CASE ~Applied(m)
  <2>1. page' \in PageType /\ PageSound' BY <1>1, <1>2, <1>4, <1>6, RejectedSound DEF Fits
  <2> QED BY <1>1, <1>3, <1>4, <1>6, <2>1, Rests
<1> QED BY <1>5, <1>6

(* The end of a back-off.                                                   *)
LEMMA BackoffOverSound == ASSUME DraftInv, BackoffOver PROVE DraftInv'
<1> DEFINE p == [page EXCEPT !.backoff = FALSE]
<1>1. page \in PageType /\ PageSound BY DEF DraftInv, DraftTypes
<1>2. Awaited = {} BY DEF BackoffOver, DraftInv, Fits
<1>3. Ready(p) BY <1>1 DEF BackoffOver, Ready, PageType, PageSound
<1>4. Quiet(wire) BY <1>2, QuietWire
<1> QED BY <1>3, <1>4, PumpSound DEF BackoffOver, DraftInv, DraftTypes

(* Nothing is in flight, and what is typed was not sent: nothing is awaited. *)
LEMMA IdlePage ==
  ASSUME DraftInv, ~InFlight(page), page.dirty
  PROVE  Ready(page) /\ Awaited = {}
<1>1. page \in PageType /\ PageSound BY DEF DraftInv, DraftTypes
<1>2. page.view = "open" /\ page.act \notin {"check", "post"} /\ ~page.backoff
  BY <1>1 DEF PageSound, InFlight
<1>3. Ready(page) BY <1>1, <1>2 DEF Ready, PageSound, PageType, Working
<1>4. Awaited = {}
  <2> SUFFICES ASSUME NEW m \in Awaited PROVE FALSE OBVIOUS
  <2>1. m \in Message /\ Fits(m) BY DEF DraftInv, DraftTypes, Awaited
  <2> QED BY <1>2, <2>1 DEF Fits, Message, InFlight
<1> QED BY <1>3, <1>4

(* maybeSend with the page as it is, but for its timer, its state and what   *)
(* its editor is busy with.                                                *)
LEMMA MaybeSendSound ==
  ASSUME DraftInv, UNCHANGED <<row, past, edits>>, faults' \in Nat, ~InFlight(page),
         NEW p \in PageType,
         NEW timer \in BOOLEAN, p = [page EXCEPT !.timer = timer, !.state = p.state, !.act = p.act],
         timer => page.timer, p.act = page.act \/ (page.act = "idle" /\ p.act \in Working /\ page.view = "open" /\ page.dirty),
         MaybeSend(p, wire)
  PROVE  DraftInv'
<1>1. page \in PageType /\ PageSound BY DEF DraftInv, DraftTypes
<1>2. CASE p.dirty
  <2> DEFINE q == [p EXCEPT !.tries = 0, !.timer = FALSE]
  <2>1. Ready(page) /\ Quiet(wire) BY <1>1, <1>2, IdlePage, QuietWire DEF PageType
  <2>2. 0 \in 0 .. MaxRetries BY WritingDraftAssumption
  <2>3. Ready(q) BY ZenonT(60), <1>1, <1>2, <2>1, <2>2 DEF Ready, PageType
  <2> QED BY <1>2, <2>1, <2>3, PumpSound DEF MaybeSend
<1>3. CASE ~p.dirty
  <2>1. page' = [p EXCEPT !.state = "clean"] /\ UNCHANGED wire BY <1>3 DEF MaybeSend
  <2>2. page' = [page EXCEPT !.timer = timer, !.state = "clean"] BY <1>1, <1>3, <2>1 DEF PageType
  <2>3. page' \in PageType BY <1>1, <2>2 DEF PageType
  <2>4. ~page.dirty BY <1>1, <1>3 DEF PageType
  <2>5. PageSound' BY <1>1, <2>2, <2>4 DEF PageType, PageSound, WasStored, Working
  <2>6. ASSUME NEW m \in Awaited PROVE Fits(m)'
    BY <1>1, <2>2 DEF DraftInv, Fits, PageType
  <2> QED BY <2>1, <2>3, <2>5, <2>6, Waits
<1> QED BY <1>2, <1>3

(* The timer of the controller.                                             *)
LEMMA TimerFiresSound == ASSUME DraftInv, TimerFires PROVE DraftInv'
<1> DEFINE p == [page EXCEPT !.timer = FALSE]
<1>1. page \in PageType /\ PageSound BY DEF DraftInv, DraftTypes
<1>2. UNCHANGED <<row, past, edits>> /\ faults' \in Nat BY DEF TimerFires, DraftInv, DraftTypes
<1>3. p \in PageType BY <1>1 DEF PageType
<1>4. CASE InFlight(page)
  <2>1. page' = p /\ UNCHANGED wire BY <1>4 DEF TimerFires
  <2>2. PageSound' BY <1>1, <1>2, <2>1 DEF PageType, PageSound, WasStored
  <2>3. ASSUME NEW m \in Awaited PROVE Fits(m)'
    BY <1>1, <1>2, <2>1 DEF DraftInv, Fits, PageType
  <2> QED BY <1>2, <1>3, <2>1, <2>2, <2>3, Waits
<1>5. CASE ~InFlight(page)
  <2>1. MaybeSend(p, wire) BY <1>5 DEF TimerFires
  <2>2. p = [page EXCEPT !.timer = FALSE, !.state = p.state, !.act = p.act] BY <1>1 DEF PageType
  <2>3. p.act = page.act BY <1>1 DEF PageType
  <2> QED BY <1>2, <1>3, <1>5, <2>1, <2>2, <2>3, MaybeSendSound
<1> QED BY <1>4, <1>5

(* A retry by the user.                                                     *)
LEMMA RetrySound == ASSUME DraftInv, Retry PROVE DraftInv'
<1> DEFINE p == [page EXCEPT !.state = "dirty"]
<1>1. page \in PageType BY DEF DraftInv, DraftTypes
<1>2. p \in PageType /\ p = [page EXCEPT !.timer = page.timer, !.state = p.state, !.act = p.act] /\ p.act = page.act
  BY <1>1 DEF PageType
<1>3. page.timer \in BOOLEAN BY <1>1 DEF PageType
<1> QED BY <1>2, <1>3, MaybeSendSound DEF Retry, DraftInv, DraftTypes

(* Flush and export.                                                        *)
LEMMA PressSound == ASSUME DraftInv, NEW act \in {"flush", "export"}, Press(act) PROVE DraftInv'
<1> DEFINE p == [page EXCEPT !.act = act]
<1>1. page \in PageType /\ PageSound BY DEF DraftInv, DraftTypes
<1>2. UNCHANGED <<row, past, edits>> /\ faults' \in Nat /\ page.view = "open" /\ page.act = "idle" /\ Flush(p)
  BY DEF Press, DraftInv, DraftTypes
<1>3. p \in PageType /\ p.act \in Working /\ p.dirty = page.dirty BY <1>1 DEF PageType, Working
<1>4. CASE InFlight(page)
  <2>1. page' = p /\ UNCHANGED wire BY <1>2, <1>4 DEF Flush
  <2>2. PageSound' BY <1>1, <1>2, <2>1 DEF PageType, PageSound, WasStored, Working
  <2>3. ASSUME NEW m \in Awaited PROVE Fits(m)'
    BY <1>1, <1>2, <2>1 DEF DraftInv, Fits, PageType, Working
  <2> QED BY <1>2, <1>3, <2>1, <2>2, <2>3, Waits
<1>5. CASE ~InFlight(page) /\ page.dirty
  <2>1. MaybeSend(p, wire) BY <1>2, <1>3, <1>5 DEF Flush
  <2>2. page.timer \in BOOLEAN /\ p = [page EXCEPT !.timer = page.timer, !.state = p.state, !.act = p.act] BY <1>1 DEF PageType
  <2> QED BY <1>2, <1>3, <1>5, <2>1, <2>2, MaybeSendSound
<1>6. CASE ~InFlight(page) /\ ~page.dirty
  <2>1. Resolve(p, wire) BY <1>2, <1>3, <1>6 DEF Flush
  <2>2. Awaited = {}
    <3> SUFFICES ASSUME NEW m \in Awaited PROVE FALSE OBVIOUS
    <3>1. m \in Message /\ Fits(m) BY DEF DraftInv, DraftTypes, Awaited
    <3> QED BY <1>2, <1>6, <3>1 DEF Fits, Message, InFlight
  <2>3. Ready(p) BY <1>1, <1>2, <1>3, <1>6 DEF Ready, PageType, PageSound, InFlight
  <2> QED BY <1>2, <1>3, <1>6, <2>1, <2>2, <2>3, QuietWire, ResolveSound
<1> QED BY <1>4, <1>5, <1>6

(* An edit owes a save: what a save under way will not carry comes next.    *)
LEMMA EditSound == ASSUME DraftInv, NEW v \in AllTexts, Edit(v) PROVE DraftInv'
<1>1. page \in PageType /\ PageSound BY DEF DraftInv, DraftTypes
<1>2. UNCHANGED <<row, past, wire, faults>> /\ page.view = "open" /\ page.act \in Working
  BY DEF Edit, Working
<1>3. edits \in Nat /\ edits' = edits + 1 /\ edits' \in 0 .. MaxEdits BY WritingDraftAssumption DEF Edit, DraftInv, DraftTypes
<1>4. page' = [page EXCEPT !.text = v, !.dirty = TRUE, !.newer = TRUE, !.state = "dirty", !.timer = TRUE]
  BY DEF Edit
<1>5. page' \in PageType BY <1>1, <1>4 DEF PageType
<1>6. page.ver + 1 <= edits' BY <1>1, <1>2, <1>3 DEF PageSound, PageType
<1>7. PageSound' BY <1>1, <1>2, <1>3, <1>4, <1>6 DEF PageSound, PageType, WasStored, Working
<1>8. \A m \in wire' : Sound(m)'
  BY <1>2, <1>3 DEF DraftInv, DraftTypes, Message, Row, Sound, WasStored, Shown, OnItsWay
<1>9. Awaited' = Awaited BY <1>2 DEF Awaited
<1>10. ASSUME NEW m \in Awaited PROVE Fits(m)'
  <2>1. m \in wire /\ m \in Message /\ Fits(m) /\ Sound(m) BY DEF DraftInv, DraftTypes, Awaited
  <2>2. m.ver \in Nat BY <2>1 DEF Message
  <2> QED BY <1>1, <1>3, <1>4, <2>1, <2>2 DEF Fits, Sound, PageType
<1>11. DraftTypes' BY <1>2, <1>3, <1>5 DEF DraftInv, DraftTypes
<1>12. RowIsLast' BY <1>2 DEF DraftInv, RowIsLast, WasStored, Shown
<1>13. VersionsAreEdits' BY <1>2, <1>3 DEF DraftInv, DraftTypes, Row, VersionsAreEdits
<1> QED BY <1>7, <1>8, <1>9, <1>10, <1>11, <1>12, <1>13 DEF DraftInv, OneAwaited

(* A page that is not open: nothing is typed in it.                         *)
LEMMA PageIsSound ==
  ASSUME NEW view \in {"away", "loading", "open", "done"}, NEW text \in AllTexts, NEW ver \in Nat,
         view = "open" => WasStored(ver, text) /\ ver <= edits,
         UNCHANGED <<row, past, edits>>, page' = Page(view, text, ver), WritingDraftAssumption
  PROVE  page' \in PageType /\ PageSound'
<1>1. 0 \in 0 .. MaxRetries BY DEF WritingDraftAssumption
<1> QED BY <1>1 DEF Page, PageType, PageSound, WasStored, Working

(* A page that is left owes nothing.                                        *)
LEMMA AwayIsSound ==
  ASSUME UNCHANGED <<row, past, edits>>, page' = Away
  PROVE  page' \in PageType /\ PageSound'
BY PageIsSound, WritingDraftAssumption DEF Away, AllTexts

(* The page is loaded anew.                                                 *)
LEMMA ReloadSound ==
  ASSUME DraftInv, UNCHANGED <<row, past, edits>>, faults' \in Nat, Reload,
         NEW rest, Quiet(rest), wire' = rest \cup {Request("load", Away)}
  PROVE  DraftInv'
<1>1. page' = Page("loading", Blank, 0) BY DEF Reload, Away, Page
<1>2. page' \in PageType /\ PageSound' BY <1>1, PageIsSound, WritingDraftAssumption DEF AllTexts
<1>3. Request("load", Away) \in Message
  <2>1. 0 \in 0 .. MaxRetries BY WritingDraftAssumption DEF WritingDraftAssumption
  <2>2. Away \in PageType BY <2>1 DEF Away, Page, PageType, AllTexts
  <2> QED BY <2>2, RequestType, WritingDraftAssumption
<1>4. Request("load", Away).awaited /\ Sound(Request("load", Away)) BY DEF Request, Sound, OnItsWay
<1>5. Fits(Request("load", Away))' BY <1>1 DEF Request, Fits, Page
<1> QED BY <1>2, <1>3, <1>4, <1>5, Sends

(* The page is opened.                                                      *)
LEMMA LoadSound == ASSUME DraftInv, Load PROVE DraftInv'
BY QuietWire, ReloadSound DEF Load, DraftInv, DraftTypes

(* The page is left.                                                        *)
LEMMA LeaveSound == ASSUME DraftInv, Leave PROVE DraftInv'
BY QuietWire, AwayIsSound, Rests DEF Leave, DraftInv, DraftTypes

(* The answer to a load.                                                    *)
LEMMA LoadAnswerSound == ASSUME DraftInv, LoadAnswer PROVE DraftInv'
<1>1. PICK m \in Awaited :
        /\ m.kind = "load" /\ ~OnItsWay(m)
        /\ page' = Page(IF m.row.status = "draft" THEN "open" ELSE "done", Shown(m.row), m.row.ver)
        /\ wire' = wire \ {m}
  BY DEF LoadAnswer
<1>2. m \in Message /\ Sound(m) BY DEF DraftInv, DraftTypes, Awaited
<1>3. m.row \in Row BY <1>2 DEF Message
<1>4. Shown(m.row) \in AllTexts /\ m.row.ver \in Nat BY <1>3 DEF Row, Shown, AllTexts
<1>5. UNCHANGED <<row, past, edits>> /\ faults' \in Nat BY DEF LoadAnswer, DraftInv, DraftTypes
<1>6. page' \in PageType /\ PageSound'
  BY <1>1, <1>2, <1>4, <1>5, PageIsSound, WritingDraftAssumption DEF Sound
<1> QED BY <1>1, <1>5, <1>6, QuietWire, Rests

(* The answer to the check before submitting.                               *)
LEMMA CheckAnswerSound == ASSUME DraftInv, CheckAnswer PROVE DraftInv'
<1>1. PICK m \in Awaited :
        /\ m.kind = "check" /\ ~OnItsWay(m)
        /\ LET verdict == Precheck(page, m) IN
             CASE verdict[1] = "not-draft" ->
                    Reload /\ wire' = (wire \ {m}) \cup {Request("load", Away)}
               [] verdict[1] = "mismatch" ->
                    page' = [page EXCEPT !.act = "idle", !.refused = TRUE] /\ wire' = wire \ {m}
               [] verdict[1] = "ok" ->
                    /\ page' = [page EXCEPT !.act = "post"]
                    /\ wire' = (wire \ {m}) \cup
                                 {[Request("submit", page) EXCEPT !.ver = verdict[2]]}
  BY DEF CheckAnswer
<1>2. m \in wire /\ Fits(m) /\ Sound(m) BY DEF DraftInv, Awaited
<1>3. Quiet(wire \ {m}) BY QuietWire
<1>4. UNCHANGED <<row, past, edits>> /\ faults' \in Nat BY DEF CheckAnswer, DraftInv, DraftTypes
<1>5. page \in PageType /\ PageSound /\ page.view = "open" /\ page.act = "check"
  BY <1>1, <1>2 DEF DraftInv, DraftTypes, Fits
<1>6. CASE m.row.status # "draft"
  <2>1. Reload /\ wire' = (wire \ {m}) \cup {Request("load", Away)} BY <1>1, <1>6 DEF Precheck
  <2> QED BY <1>3, <1>4, <2>1, ReloadSound
<1>7. CASE m.row.status = "draft" /\ (m.row.text # page.conf \/ m.row.ver # page.ver)
  <2>1. page' = [page EXCEPT !.act = "idle", !.refused = TRUE] /\ wire' = wire \ {m} BY <1>1, <1>7 DEF Precheck
  <2>2. page' \in PageType BY <1>5, <2>1 DEF PageType
  <2>3. PageSound' BY <1>4, <1>5, <2>1 DEF PageType, PageSound, WasStored, Working
  <2> QED BY <1>3, <1>4, <2>1, <2>2, <2>3, Rests
<1>8. CASE m.row.status = "draft" /\ m.row.text = page.conf /\ m.row.ver = page.ver
  <2> DEFINE r == [Request("submit", page) EXCEPT !.ver = page.ver]
  <2>1. page' = [page EXCEPT !.act = "post"] /\ wire' = (wire \ {m}) \cup {r} BY <1>1, <1>8 DEF Precheck
  <2>2. page' \in PageType BY <1>5, <2>1 DEF PageType
  <2>3. PageSound' BY <1>4, <1>5, <2>1 DEF PageType, PageSound, WasStored, Working
  <2>4. r = Request("submit", page)
    <3> DEFINE x == Request("submit", page)
    <3>1. r = [x EXCEPT !.ver = x.ver] BY DEF Request
    <3>2. x = [x EXCEPT !.ver = x.ver]
      <4>1. x \in Message BY <1>5, RequestType, WritingDraftAssumption
      <4> QED BY <4>1 DEF Message
    <3> QED BY <3>1, <3>2
  <2>5. r \in Message BY <1>5, <2>4, RequestType, WritingDraftAssumption
  <2>6. PICK q \in Message : q = Request("submit", page) BY <2>4, <2>5
  <2>7. q.awaited /\ Sound(q) BY <1>5, <2>6 DEF Request, Sound, OnItsWay, PageSound
  <2>8. Fits(q)' BY <1>2, <1>5, <2>1, <2>6 DEF Request, Fits, PageType
  <2>9. wire' = (wire \ {m}) \cup {q} BY <2>1, <2>4, <2>6
  <2> QED BY <1>3, <1>4, <2>2, <2>3, <2>7, <2>8, <2>9, Sends
<1> QED BY <1>6, <1>7, <1>8

(* The answer to a submission.                                              *)
LEMMA SubmitAnswerSound == ASSUME DraftInv, SubmitAnswer PROVE DraftInv'
<1>1. PICK m \in Awaited :
        /\ m.kind = "submit" /\ ~OnItsWay(m)
        /\ IF m.answer = "ok"
             THEN Reload /\ wire' = (wire \ {m}) \cup {Request("load", Away)}
             ELSE /\ page' = [page EXCEPT !.act = "idle", !.refused = m.answer = "conflict"]
                  /\ wire' = wire \ {m}
  BY DEF SubmitAnswer
<1>2. m \in wire /\ Fits(m) BY DEF DraftInv, Awaited
<1>3. Quiet(wire \ {m}) BY QuietWire
<1>4. UNCHANGED <<row, past, edits>> /\ faults' \in Nat BY DEF SubmitAnswer, DraftInv, DraftTypes
<1>5. page \in PageType /\ PageSound /\ page.view = "open" /\ page.act = "post"
  BY <1>1, <1>2 DEF DraftInv, DraftTypes, Fits
<1>6. CASE m.answer = "ok"
  BY <1>1, <1>3, <1>4, <1>6, ReloadSound
<1>7. CASE m.answer # "ok"
  <2>1. PICK b \in BOOLEAN : page' = [page EXCEPT !.act = "idle", !.refused = b]
    <3>1. (m.answer = "conflict") \in BOOLEAN OBVIOUS
    <3> QED BY <1>1, <1>7, <3>1
  <2>2. page' \in PageType BY <1>5, <2>1 DEF PageType
  <2>3. PageSound' BY <1>4, <1>5, <2>1 DEF PageType, PageSound, WasStored, Working
  <2> QED BY <1>1, <1>3, <1>4, <1>7, <2>2, <2>3, Rests
<1> QED BY <1>6, <1>7

(* A save that was lost.                                                    *)
LEMMA SaveFailsSound ==
  ASSUME DraftInv, UNCHANGED <<row, past, edits>>, faults' \in Nat,
         NEW m \in Awaited, m.kind = "save", NEW how \in {"network", "timeout", "busy", "refused"},
         SaveFails(how, m)
  PROVE  DraftInv'
<1>1. m \in wire /\ m \in Message /\ Fits(m) /\ Sound(m) /\ page \in PageType /\ PageSound
  BY DEF DraftInv, DraftTypes, Awaited
<1>2. Quiet(Forsaken) /\ Quiet(wire \ {m}) BY QuietWire
<1>3. page.view = "open" /\ page.act \in Working /\ ~page.backoff BY <1>1 DEF Fits
<1>4. CASE MayRetry(how)
  <2>1. /\ page' = [page EXCEPT !.state = "retrying", !.tries = @ + 1, !.backoff = TRUE]
        /\ wire' = Forsaken
    BY <1>4 DEF SaveFails
  <2>2. page.tries + 1 \in 0 .. MaxRetries BY <1>1, <1>4, WritingDraftAssumption DEF MayRetry, PageType, WritingDraftAssumption
  <2>3. page' \in PageType BY <1>1, <2>1, <2>2 DEF PageType
  <2>4. PageSound' BY <1>1, <1>3, <2>1 DEF PageType, PageSound, WasStored, Working
  <2> QED BY <1>2, <2>1, <2>3, <2>4, Rests
<1>5. CASE ~MayRetry(how) /\ how = "network"
  <2> DEFINE r == [m EXCEPT !.kind = "reconcile", !.answer = "none"]
  <2>1. UNCHANGED page /\ wire' = Forsaken \cup {r} BY <1>5 DEF SaveFails
  <2>2. r \in Message BY <1>1 DEF Message
  <2>3. r.awaited BY <1>1 DEF Message, Awaited
  <2>4. Sound(r) BY <1>1 DEF Message, Sound, OnItsWay
  <2>5. Fits(r)' BY <1>1, <2>1 DEF Message, Fits
  <2>6. PageSound' BY <1>1, <2>1 DEF PageSound, WasStored
  <2> HIDE DEF r
  <2> QED BY <1>1, <1>2, <2>1, <2>2, <2>3, <2>4, <2>5, <2>6, Sends
<1>6. CASE ~MayRetry(how) /\ how # "network"
  <2>1. page' = Rejected(page, "error") /\ wire' = IF how = "refused" THEN wire \ {m} ELSE Forsaken
    BY <1>6 DEF SaveFails
  <2>2. page' \in PageType /\ PageSound' BY <1>3, <2>1, RejectedSound
  <2> QED BY <1>2, <2>1, <2>2, Rests
<1> QED BY <1>4, <1>5, <1>6

(* Another request that was lost.                                           *)
LEMMA OtherFailsSound ==
  ASSUME DraftInv, UNCHANGED <<row, past, edits>>, faults' \in Nat, NEW m \in Awaited, OtherFails(m)
  PROVE  DraftInv'
<1>1. m \in wire /\ m \in Message /\ Fits(m) /\ page \in PageType /\ PageSound
  BY DEF DraftInv, DraftTypes, Awaited
<1>2. Quiet(Forsaken) /\ wire' = Forsaken BY QuietWire DEF OtherFails
<1>3. CASE m.kind = "reconcile"
  <2>1. page' = Rejected(page, "error") BY <1>3 DEF OtherFails
  <2>2. page' \in PageType /\ PageSound' BY <1>1, <1>3, <2>1, RejectedSound DEF Fits
  <2> QED BY <1>2, <2>2, Rests
<1>4. CASE m.kind = "load"
  <2>1. page' = Away BY <1>4 DEF OtherFails
  <2> QED BY <1>2, <2>1, AwayIsSound, Rests
<1>5. CASE m.kind \in {"check", "submit"}
  <2>1. page' = [page EXCEPT !.act = "idle"] /\ page.view = "open" BY <1>1, <1>5 DEF OtherFails, Fits
  <2>2. page' \in PageType BY <1>1, <2>1 DEF PageType
  <2>3. PageSound' BY <1>1, <2>1 DEF PageType, PageSound, WasStored, Working
  <2> QED BY <1>2, <2>2, <2>3, Rests
<1> QED BY <1>1, <1>3, <1>4, <1>5 DEF OtherFails, Message

(* Any request that was lost.                                               *)
LEMMA FaultSound == ASSUME DraftInv, Fault PROVE DraftInv'
<1>1. UNCHANGED <<row, past, edits>> /\ faults' \in Nat BY DEF Fault, DraftInv, DraftTypes
<1>2. PICK m \in Awaited :
        \/ \E how \in {"network", "timeout", "busy", "refused"} : m.kind = "save" /\ SaveFails(how, m)
        \/ OtherFails(m)
  BY DEF Fault
<1> QED BY <1>1, <1>2, SaveFailsSound, OtherFailsSound

-----------------------------------------------------------------------------
(* Steps of the server.  The page stays; what was stored remains so.        *)

Onward ==
  /\ \A v \in Nat, t \in AllTexts : WasStored(v, t) => WasStored(v, t)'
  /\ row.status = "discarded" => row'.status = "discarded"
  /\ row' \in Row /\ past' \in Seq(AllTexts) /\ RowIsLast'
  /\ edits' \in edits .. MaxEdits

(* What the server does to the row: a save moves it on by an edit.          *)
LEMMA StoreOnward ==
  ASSUME DraftInv, NEW v \in AllTexts, Store(v), row.status = "draft", edits' \in edits .. MaxEdits
  PROVE  Onward
<1>1. row \in Row /\ past \in Seq(AllTexts) /\ Len(past) = row.ver + 1
  BY DEF DraftInv, DraftTypes, RowIsLast
<1>2. row' = [row EXCEPT !.ver = @ + 1, !.text = v] /\ past' = Append(past, v) BY DEF Store
<1>3. row' \in Row
  <2>1. row.ver + 1 \in Nat BY <1>1 DEF Row
  <2> QED BY <1>1, <1>2, <2>1 DEF Row
<1>4. row'.ver = row.ver + 1 /\ row'.status = "draft" /\ row'.text = v BY <1>1, <1>2 DEF Row
<1>5. past' \in Seq(AllTexts) /\ Len(past') = Len(past) + 1 /\ past'[Len(past) + 1] = v
      /\ \A i \in 1 .. Len(past) : past'[i] = past[i]
  BY <1>1, <1>2
<1>6. \A i \in Nat, t \in AllTexts : WasStored(i, t) => WasStored(i, t)'
  <2> SUFFICES ASSUME NEW i \in Nat, NEW t \in AllTexts, WasStored(i, t) PROVE WasStored(i, t)'
    OBVIOUS
  <2>1. i + 1 \in 1 .. Len(past) /\ i < Len(past') /\ row.status = "draft" BY <1>1, <1>5 DEF WasStored
  <2>2. past'[i + 1] = past[i + 1] /\ t = past[i + 1] BY <1>5, <2>1 DEF WasStored
  <2> QED BY <2>1, <2>2 DEF WasStored
<1>7. RowIsLast' BY <1>1, <1>4, <1>5 DEF RowIsLast, WasStored, Shown, Row
<1> QED BY <1>3, <1>4, <1>5, <1>6, <1>7 DEF Onward

(* A submission seals it.                                                   *)
LEMMA SealOnward ==
  ASSUME DraftInv, Seal, row.status = "draft", edits' \in edits .. MaxEdits
  PROVE  Onward
<1>1. row \in Row /\ past \in Seq(AllTexts) /\ Len(past) = row.ver + 1
  BY DEF DraftInv, DraftTypes, RowIsLast
<1>2. /\ row' = [row EXCEPT !.status = "sealed", !.ver = @ + 1, !.text = Blank, !.attempt = row.text]
      /\ past' = Append(past, row.text)
  BY DEF Seal
<1>3. row' \in Row
  <2>1. row.ver + 1 \in Nat /\ row.text \in AllTexts BY <1>1 DEF Row
  <2> QED BY <1>1, <1>2, <2>1 DEF Row, AllTexts
<1>4. row'.ver = row.ver + 1 /\ row'.status = "sealed" /\ row'.attempt = row.text /\ row.text \in AllTexts
  BY <1>1, <1>2 DEF Row
<1>5. past' \in Seq(AllTexts) /\ Len(past') = Len(past) + 1 /\ past'[Len(past) + 1] = row.text
      /\ \A i \in 1 .. Len(past) : past'[i] = past[i]
  BY <1>1, <1>2, <1>4
<1>6. \A i \in Nat, t \in AllTexts : WasStored(i, t) => WasStored(i, t)'
  BY SMTT(30), <1>1, <1>4, <1>5 DEF WasStored
<1>7. RowIsLast' BY <1>1, <1>4, <1>5 DEF RowIsLast, WasStored, Shown, Row
<1> QED BY <1>3, <1>4, <1>5, <1>6, <1>7 DEF Onward

(* It may be discarded.                                                     *)
LEMMA DiscardOnward ==
  ASSUME DraftInv, row' = [row EXCEPT !.status = "discarded", !.text = Blank], UNCHANGED past,
         edits' \in edits .. MaxEdits
  PROVE  Onward
<1>1. row \in Row /\ past \in Seq(AllTexts) /\ Len(past) = row.ver + 1
  BY DEF DraftInv, DraftTypes, RowIsLast
<1>2. row' \in Row BY <1>1 DEF Row, AllTexts
<1>3. row'.ver = row.ver /\ row'.status = "discarded" BY <1>1 DEF Row
<1> QED BY <1>1, <1>2, <1>3 DEF Onward, RowIsLast, WasStored, Row

(* Or it stays.                                                             *)
LEMMA SameOnward ==
  ASSUME DraftInv, UNCHANGED <<row, past>>, edits' \in edits .. MaxEdits
  PROVE  Onward
BY DEF DraftInv, DraftTypes, RowIsLast, Onward, WasStored, Shown

(* What was sound and fit remains so.                                       *)
LEMMA StillSound ==
  ASSUME DraftInv, Onward, UNCHANGED page
  PROVE  /\ PageSound'
         /\ \A m \in wire : Sound(m)'
         /\ \A m \in Awaited : Fits(m)'
<1>1. edits \in Nat /\ edits' \in Nat /\ edits' >= edits BY DEF DraftInv, DraftTypes, Onward
<1>2. PageSound' BY <1>1 DEF DraftInv, DraftTypes, PageType, PageSound, Onward
<1>3. ASSUME NEW m \in wire PROVE Sound(m)'
  <2>1. m \in Message /\ m.row \in Row /\ Sound(m) BY DEF DraftInv, DraftTypes, Message
  <2>2. m.ver \in Nat /\ m.seen \in AllTexts /\ m.row.ver \in Nat BY <2>1 DEF Message, Row
  <2>3. Shown(m.row) \in AllTexts BY <2>1 DEF Shown, Row, AllTexts
  <2>4. (Shown(m.row))' = Shown(m.row) BY DEF Shown
  <2>5. WasStored(m.ver, m.seen) => WasStored(m.ver, m.seen)' BY <2>2 DEF Onward
  <2>6. WasStored(m.row.ver, Shown(m.row)) => WasStored(m.row.ver, Shown(m.row))' BY <2>2, <2>3, <2>4 DEF Onward
  <2>7. m.kind \in {"save", "reconcile"} => m.ver + 1 <= edits' BY <1>1, <2>1, <2>2 DEF Sound
  <2>8. m.row.status = "draft" /\ ~OnItsWay(m) => m.row.ver <= edits' BY <1>1, <2>1, <2>2 DEF Sound
  <2>9. m.row.status = "discarded" /\ ~OnItsWay(m) => row'.status = "discarded" BY <2>1 DEF Sound, Onward
  <2>10. ~OnItsWay(m) => WasStored(m.row.ver, Shown(m.row))' BY <2>1, <2>6 DEF Sound
  <2>11. m.kind \in {"save", "reconcile", "submit"} => WasStored(m.ver, m.seen)' BY <2>1, <2>5 DEF Sound
  <2> QED BY <2>1, <2>4, <2>7, <2>8, <2>9, <2>10, <2>11 DEF Sound, OnItsWay
<1>4. ASSUME NEW m \in Awaited PROVE Fits(m)'
  <2>1. m \in Message /\ Fits(m) BY DEF DraftInv, DraftTypes, Awaited
  <2>2. m.ver \in Nat BY <2>1 DEF Message
  <2> QED BY <1>1, <2>1, <2>2 DEF Fits
<1> QED BY <1>2, <1>3, <1>4

(* What another device does to the row.                                     *)
LEMMA ElsewhereSound == ASSUME DraftInv, Elsewhere PROVE DraftInv'
<1>1. UNCHANGED <<page, wire, faults>> /\ edits \in Nat /\ edits' = edits + 1 /\ edits' \in edits .. MaxEdits
  BY WritingDraftAssumption DEF Elsewhere, DraftInv, DraftTypes
<1>2. Onward BY <1>1, StoreOnward, SealOnward, DiscardOnward DEF Elsewhere
<1>3. VersionsAreEdits'
  <2>1. row \in Row /\ row.status = "draft" /\ row.ver <= edits BY DEF DraftInv, DraftTypes, VersionsAreEdits, Elsewhere
  <2>2. CASE \E v \in AllTexts : Store(v) BY <1>1, <2>1, <2>2 DEF Store, Row, VersionsAreEdits
  <2>3. CASE Seal BY <2>1, <2>3 DEF Seal, Row, VersionsAreEdits
  <2>4. CASE row' = [row EXCEPT !.status = "discarded", !.text = Blank] BY <2>1, <2>4 DEF Row, VersionsAreEdits
  <2> QED BY <2>2, <2>3, <2>4 DEF Elsewhere
<1>4. DraftTypes' BY <1>1, <1>2 DEF DraftInv, DraftTypes, Onward
<1> QED BY <1>1, <1>2, <1>3, <1>4, StillSound DEF DraftInv, Onward, OneAwaited, Awaited

(* The server answers a request.                                            *)
LEMMA HandledSound ==
  ASSUME DraftInv, Onward, UNCHANGED <<page, edits, faults>>, VersionsAreEdits',
         NEW m \in wire, OnItsWay(m), NEW answer \in {"ok", "conflict", "empty"}, Reply(m, answer),
         m.kind = "save" => \/ answer = "conflict"
                            \/ answer = "ok" /\ row'.ver = m.ver + 1 /\ row'.status = "draft" /\ row'.text = m.text
  PROVE  DraftInv'
<1>1. m \in Message /\ Sound(m)' BY StillSound DEF DraftInv, DraftTypes
<1>2. PICK r \in Row : r = row' BY DEF Onward
<1>3. PICK a : a = [m EXCEPT !.answer = answer, !.row = r] OBVIOUS
<1>4. a \in Message BY <1>1, <1>2, <1>3 DEF Message
<1>5. /\ a.kind = m.kind /\ a.ver = m.ver /\ a.seen = m.seen /\ a.shown = m.shown /\ a.text = m.text
      /\ a.awaited = m.awaited /\ a.answer = answer /\ a.row = r
  BY <1>1, <1>3 DEF Message
<1>6. wire' = (wire \ {m}) \cup (IF m.awaited THEN {a} ELSE {}) BY <1>2, <1>3 DEF Reply
<1>7. Sound(a)'
  <2>1. WasStored(r.ver, Shown(r))' BY <1>2 DEF Onward, RowIsLast, Shown
  <2>2. r.status = "draft" => r.ver <= edits' BY <1>2 DEF VersionsAreEdits
  <2>3. r.status = "draft" => Shown(r) = r.text BY DEF Shown
  <2> QED BY <1>1, <1>2, <1>5, <2>1, <2>2, <2>3 DEF Sound, OnItsWay, Shown
<1>8. m.awaited => Fits(a)'
  <2> SUFFICES ASSUME m.awaited PROVE Fits(a)' OBVIOUS
  <2>1. Fits(m)' BY StillSound DEF Awaited
  <2> QED BY <1>5, <2>1 DEF Fits
<1>9. \A n \in wire' : Sound(n)' BY <1>6, <1>7, StillSound
<1>10. \A n \in Awaited' : (n = a /\ m.awaited) \/ (n \in Awaited /\ n # m) BY <1>6 DEF Awaited
<1>11. \A n \in Awaited' : Fits(n)' BY <1>8, <1>10, StillSound
<1>12. OneAwaited' BY <1>10 DEF DraftInv, OneAwaited, Awaited
<1>13. DraftTypes' BY <1>4, <1>6 DEF DraftInv, DraftTypes, Onward
<1> QED BY <1>9, <1>11, <1>12, <1>13, StillSound DEF DraftInv, Onward

(* What the server does with a request.                                     *)
LEMMA HandleSound == ASSUME DraftInv, NEW m \in wire, Handle(m) PROVE DraftInv'
<1>1. /\ m \in Message /\ Sound(m) /\ row \in Row /\ edits' \in edits .. MaxEdits /\ edits \in Nat
      /\ RowIsLast /\ VersionsAreEdits /\ UNCHANGED <<page, edits, faults>> /\ OnItsWay(m)
  BY WritingDraftAssumption DEF DraftInv, DraftTypes, Handle
<1>2. CASE HandleSave(m) /\ SaveMatches(m)
  <2>1. Store(m.text) /\ Reply(m, "ok") /\ row.status = "draft" /\ row.ver = m.ver /\ m.kind = "save"
    BY <1>2 DEF HandleSave, SaveMatches
  <2>2. m.text \in AllTexts /\ m.ver + 1 <= edits BY <1>1, <2>1 DEF Message, Sound
  <2>3. Onward BY <1>1, <2>1, <2>2, StoreOnward
  <2>4. row'.ver = m.ver + 1 /\ row'.status = "draft" /\ row'.text = m.text BY <1>1, <2>1 DEF Store, Row
  <2>5. VersionsAreEdits' BY <1>1, <2>2, <2>4 DEF VersionsAreEdits
  <2> QED BY <1>1, <2>1, <2>3, <2>4, <2>5, HandledSound
<1>3. ASSUME UNCHANGED <<row, past>>, NEW answer \in {"ok", "conflict", "empty"}, Reply(m, answer),
             m.kind = "save" => answer = "conflict"
      PROVE  DraftInv'
  <2>1. Onward BY <1>1, <1>3, SameOnward
  <2>2. VersionsAreEdits' BY <1>1, <1>3 DEF VersionsAreEdits
  <2> QED BY <1>1, <1>3, <2>1, <2>2, HandledSound
<1>4. CASE HandleSave(m) /\ ~SaveMatches(m) BY <1>3, <1>4 DEF HandleSave
<1>5. CASE HandleRead(m) BY <1>3, <1>5 DEF HandleRead
<1>6. CASE HandleSubmit(m)
  <2>1. m.kind = "submit" BY <1>6 DEF HandleSubmit
  <2>2. row.status \in {"draft", "sealed", "discarded"} BY <1>1 DEF Row
  <2>3. CASE row.status = "draft" /\ row.ver = m.ver /\ row.text # Blank
    <3>1. Seal /\ Reply(m, "ok") BY <1>6, <2>3 DEF HandleSubmit
    <3>2. Onward BY <1>1, <2>3, <3>1, SealOnward
    <3>3. VersionsAreEdits' BY <1>1, <3>1 DEF Seal, Row, VersionsAreEdits
    <3> QED BY <1>1, <2>1, <3>1, <3>2, <3>3, HandledSound
  <2>4. CASE row.status = "sealed" BY <1>3, <1>6, <2>1, <2>4 DEF HandleSubmit
  <2>5. CASE row.status = "discarded" \/ (row.status = "draft" /\ row.ver # m.ver)
    <3>1. UNCHANGED <<row, past>> /\ Reply(m, "conflict") BY <1>6, <2>5 DEF HandleSubmit
    <3> QED BY <1>3, <2>1, <3>1
  <2>6. CASE row.status = "draft" /\ row.ver = m.ver /\ row.text = Blank
    <3>1. UNCHANGED <<row, past>> /\ Reply(m, "empty") BY <1>6, <2>6 DEF HandleSubmit
    <3> QED BY <1>3, <2>1, <3>1
  <2> QED BY <2>2, <2>3, <2>4, <2>5, <2>6
<1> QED BY <1>2, <1>4, <1>5, <1>6 DEF Handle

-----------------------------------------------------------------------------
(* The invariant holds at the start.                                        *)
LEMMA DraftInit == ASSUME Init PROVE DraftInv
<1>1. 0 \in 0 .. MaxRetries /\ 0 \in 0 .. MaxEdits BY WritingDraftAssumption DEF WritingDraftAssumption
<1>2. Fresh \in Row /\ <<Blank>> \in Seq(AllTexts) /\ Len(<<Blank>>) = 1 BY DEF Fresh, Row, AllTexts
<1>3. Away \in PageType BY <1>1 DEF Away, Page, PageType, AllTexts
<1>4. DraftTypes BY <1>1, <1>2, <1>3 DEF Init, DraftTypes
<1>5. RowIsLast /\ VersionsAreEdits BY <1>2 DEF Init, RowIsLast, WasStored, Shown, Fresh, VersionsAreEdits
<1>6. PageSound BY DEF Init, Away, Page, PageSound
<1> QED BY <1>4, <1>5, <1>6 DEF Init, DraftInv, OneAwaited, Awaited

(* Every step preserves it.                                                 *)
LEMMA DraftNext == ASSUME DraftInv, [Next]_vars PROVE DraftInv'
<1>1. CASE UNCHANGED vars
  <2>1. UNCHANGED <<row, past, page, wire, edits, faults>> BY <1>1 DEF vars
  <2>2. edits' \in edits .. MaxEdits BY <2>1, WritingDraftAssumption DEF DraftInv, DraftTypes
  <2>3. Onward BY <2>1, <2>2, SameOnward
  <2>4. VersionsAreEdits' /\ DraftTypes' BY <2>1 DEF DraftInv, VersionsAreEdits, DraftTypes
  <2> QED BY <2>1, <2>3, <2>4, StillSound DEF DraftInv, Onward, OneAwaited, Awaited
<1>2. CASE User
  BY <1>2, EditSound, PressSound, RetrySound, LoadSound, LeaveSound DEF User
<1>3. CASE Client
  BY <1>3, TimerFiresSound, BackoffOverSound, SaveAnswerSound, ReconcileAnswerSound, CheckAnswerSound,
     SubmitAnswerSound, LoadAnswerSound
  DEF Client
<1>4. CASE (\E m \in wire : Handle(m)) \/ Elsewhere \/ Fault
  BY <1>4, HandleSound, ElsewhereSound, FaultSound
<1> QED BY <1>1, <1>2, <1>3, <1>4 DEF Next

(* The inductive invariant.                                                 *)
THEOREM DraftInvariant == Spec => []DraftInv
<1>1. Init => DraftInv BY DraftInit
<1>2. DraftInv /\ [Next]_vars => DraftInv' BY DraftNext
<1> QED BY <1>1, <1>2, PTL DEF Spec

(* What the page calls confirmed is the text of that version, and "saved" is *)
(* shown of the text on the screen, for any texts, edits, retries and faults *)
(* (the save controller of the writing workspace).                         *)
THEOREM Confirms == Spec => []ConfirmedIsStored
<1>1. DraftInv => ConfirmedIsStored
  <2> SUFFICES ASSUME DraftInv PROVE ConfirmedIsStored OBVIOUS
  <2>1. row \in Row /\ past \in Seq(AllTexts) /\ page \in PageType /\ PageSound /\ RowIsLast
    BY DEF DraftInv, DraftTypes
  <2>2. Cardinality(Awaited) <= 1
    <3>1. CASE Awaited = {} BY <3>1, FS_EmptySet
    <3>2. CASE Awaited # {}
      <4>1. PICK m \in Awaited : TRUE BY <3>2
      <4>2. Awaited = {m} BY <4>1 DEF DraftInv, OneAwaited
      <4> QED BY <4>2, FS_Singleton
    <3> QED BY <3>1, <3>2
  <2>3. page.backoff => Awaited = {} BY DEF DraftInv, Fits
  <2>4. row.ver + 1 = Len(past) BY <2>1 DEF RowIsLast
  <2>5. page.tries <= MaxRetries BY <2>1, WritingDraftAssumption DEF PageType, WritingDraftAssumption
  <2>6. TypeOK BY <2>1, <2>2, <2>3, <2>4, <2>5 DEF TypeOK, Row, PageType, PageSound
  <2>7. page.view = "open" /\ row.status # "discarded" =>
          /\ page.ver < Len(past) /\ page.conf = past[page.ver + 1]
          /\ page.state = "clean" => page.text = page.conf
    BY <2>1 DEF PageSound, WasStored
  <2> QED BY <2>6, <2>7 DEF ConfirmedIsStored
<1> QED BY <1>1, DraftInvariant, PTL

(* The server changes the row by a save or a submit of the version it has,   *)
(* which takes the request away.                                           *)
LEMMA RowChanges ==
  ASSUME DraftInv, Next, row' # row, edits' = edits
  PROVE  \E m \in wire : /\ OnItsWay(m) /\ row.status = "draft" /\ row.ver = m.ver /\ m \notin wire'
                         /\ \/ m.kind = "save" /\ Store(m.text) /\ m.ver + 1 <= edits
                            \/ m.kind = "submit" /\ Seal /\ row.text # Blank
<1>1. edits \in Nat BY DEF DraftInv, DraftTypes
<1>2. ~Elsewhere BY <1>1 DEF Elsewhere
<1>3. ~User /\ ~Client /\ ~Fault
  BY DEF User, Client, Fault, Edit, Press, Retry, Load, Leave, TimerFires, BackoffOver, SaveAnswer, ReconcileAnswer,
         CheckAnswer, SubmitAnswer, LoadAnswer
<1>4. PICK m \in wire : Handle(m) BY <1>2, <1>3 DEF Next
<1>5. m \in Message /\ Sound(m) /\ OnItsWay(m) /\ row \in Row BY <1>4 DEF DraftInv, DraftTypes, Handle
<1>6. ASSUME NEW answer \in {"ok", "conflict", "empty"}, Reply(m, answer) PROVE m \notin wire'
  <2>1. [m EXCEPT !.answer = answer, !.row = row'].answer = answer BY <1>5 DEF Message
  <2> QED BY <1>5, <1>6, <2>1 DEF Reply, OnItsWay
<1>7. CASE HandleSave(m)
  <2>1. SaveMatches(m) /\ Store(m.text) /\ Reply(m, "ok") /\ m.kind = "save" BY <1>7 DEF HandleSave
  <2> QED BY <1>5, <1>6, <2>1 DEF SaveMatches, Sound
<1>8. CASE HandleSubmit(m)
  <2>1. row.status \in {"draft", "sealed", "discarded"} BY <1>5 DEF Row
  <2>2. row.status = "draft" /\ row.ver = m.ver /\ row.text # Blank BY <1>8, <2>1 DEF HandleSubmit
  <2>3. Seal /\ Reply(m, "ok") /\ m.kind = "submit" BY <1>8, <2>2 DEF HandleSubmit
  <2> QED BY <1>5, <1>6, <2>2, <2>3
<1>9. CASE HandleRead(m) BY <1>9 DEF HandleRead
<1> QED BY <1>4, <1>7, <1>8, <1>9 DEF Handle

(* A save of the page replaces only the text its page had confirmed when it  *)
(* sent it, however late it arrives (saveDraft).                            *)
THEOREM NothingUnseen == Spec => NothingUnseenReplaced
<1>1. ASSUME DraftInv, Next, row'.status = "draft", row'.ver # row.ver, edits' = edits
      PROVE  \E m \in wire \ wire' : m.kind = "save" /\ m.seen = row.text
  <2>1. PICK m \in wire : /\ OnItsWay(m) /\ row.status = "draft" /\ row.ver = m.ver /\ m \notin wire'
                          /\ \/ m.kind = "save" /\ Store(m.text)
                             \/ m.kind = "submit" /\ Seal
    BY <1>1, RowChanges
  <2>2. row \in Row /\ Sound(m) /\ RowIsLast BY <1>1 DEF DraftInv, DraftTypes
  <2>3. ~Seal BY <1>1, <2>2 DEF Seal, Row
  <2>4. m.seen = row.text BY <2>1, <2>2, <2>3 DEF Sound, RowIsLast, WasStored, Shown
  <2> QED BY <2>1, <2>3, <2>4
<1>2. DraftInv /\ [Next]_vars =>
        [row'.status = "draft" /\ row'.ver # row.ver /\ edits' = edits =>
           \E m \in wire \ wire' : m.kind = "save" /\ m.seen = row.text]_vars
  BY <1>1 DEF vars
<1> QED BY <1>2, DraftInvariant, PTL DEF Spec, NothingUnseenReplaced

(* A submit of the page seals the text that was on the screen when its       *)
(* button was pressed (flush, evaluateSubmitPrecheck, the version).         *)
THEOREM SealsTheShown == Spec => SealsWhatIsShown
<1>1. ASSUME DraftInv, Next, row'.status = "sealed", row.status = "draft", edits' = edits
      PROVE  \E m \in wire \ wire' : m.kind = "submit" /\ m.shown = row'.attempt
  <2>1. PICK m \in wire : /\ OnItsWay(m) /\ row.status = "draft" /\ row.ver = m.ver /\ m \notin wire'
                          /\ \/ m.kind = "save" /\ Store(m.text)
                             \/ m.kind = "submit" /\ Seal
    BY <1>1, RowChanges
  <2>2. row \in Row /\ Sound(m) /\ RowIsLast BY <1>1 DEF DraftInv, DraftTypes
  <2>3. m.kind = "submit" /\ Seal BY <1>1, <2>1, <2>2 DEF Store, Row
  <2>4. row'.attempt = row.text BY <2>2, <2>3 DEF Seal, Row
  <2>5. m.shown = row.text BY <2>1, <2>2, <2>3 DEF Sound, RowIsLast, WasStored, Shown
  <2> QED BY <2>1, <2>3, <2>4, <2>5
<1>2. DraftInv /\ [Next]_vars =>
        [row'.status = "sealed" /\ row.status = "draft" /\ edits' = edits =>
           \E m \in wire \ wire' : m.kind = "submit" /\ m.shown = row'.attempt]_vars
  BY <1>1 DEF vars
<1> QED BY <1>2, DraftInvariant, PTL DEF Spec, SealsWhatIsShown

-----------------------------------------------------------------------------
(* The refinement: the row, as the one sheet of a writing task, only takes    *)
(* steps of it.                                                            *)

(* The start is a start of the task.                                        *)
LEMMA TaskInit == ASSUME Init PROVE Task!Init
<1>1. row.status = "draft" /\ row.ver = 0 /\ row.text = Blank /\ row.attempt = Blank BY DEF Init, Fresh
<1> QED BY <1>1 DEF Task!Init, Task!NoFeedback

(* A save is the save of a draft of the task.                               *)
LEMMA StoreIsSaveDraft ==
  ASSUME row \in Row, row.status = "draft", row.ver < MaxEdits + 1, NEW v \in AllTexts, Store(v)
  PROVE  Task!Next
<1>1. row'.status = "draft" /\ row'.ver = row.ver + 1 /\ row'.text = v /\ row'.attempt = row.attempt
  BY DEF Store, Row
<1>2. Task!SaveDraft("sheet", row.ver, v) BY <1>1 DEF Task!SaveDraft, Task!MaySave
<1>3. row.ver \in 0 .. MaxEdits + 1 BY WritingDraftAssumption DEF Row, WritingDraftAssumption
<1>4. v \in Task!AllTexts BY DEF Task!AllTexts, AllTexts
<1> QED BY <1>2, <1>3, <1>4 DEF Task!Next

(* A submission is a submission.                                            *)
LEMMA SealIsSubmit ==
  ASSUME row \in Row, row.status = "draft", row.ver < MaxEdits + 1, row.text # Blank, Seal
  PROVE  Task!Next
<1>1. row'.status = "sealed" /\ row'.ver = row.ver + 1 /\ row'.text = Blank /\ row'.attempt = row.text
  BY DEF Seal, Row
<1>2. Task!Numbers = {} BY DEF Task!Numbers, Task!Sealed
<1>3. Task!NextNo = 1
  <2>1. \A n \in {} \cup {0} : n = 0 OBVIOUS
  <2> QED BY <1>2, <2>1 DEF Task!NextNo
<1>4. Task!Submit("sheet", row.ver) BY <1>1, <1>3 DEF Task!Submit
<1>5. row.ver \in 0 .. MaxEdits + 1 BY WritingDraftAssumption DEF Row, WritingDraftAssumption
<1> QED BY <1>4, <1>5 DEF Task!Next

(* A discard is a discard.                                                  *)
LEMMA DiscardIsDiscard ==
  ASSUME row \in Row, row.status = "draft", row.ver < MaxEdits + 1,
         row' = [row EXCEPT !.status = "discarded", !.text = Blank]
  PROVE  Task!Next
<1>1. row'.status = "discarded" /\ row'.ver = row.ver /\ row'.text = Blank /\ row'.attempt = row.attempt
  BY DEF Row
<1>2. Task!Discard("sheet", row.ver) BY <1>1 DEF Task!Discard, Task!MayDiscard
<1>3. row.ver \in 0 .. MaxEdits + 1 BY WritingDraftAssumption DEF Row, WritingDraftAssumption
<1> QED BY <1>2, <1>3 DEF Task!Next

(* Every step is a step of the task, or leaves it as it is.                 *)
LEMMA TaskStep == ASSUME DraftInv, [Next]_vars PROVE [Task!Next]_(Task!vars)
<1>1. row \in Row /\ edits \in 0 .. MaxEdits /\ MaxEdits \in Nat /\ VersionsAreEdits
  BY WritingDraftAssumption DEF DraftInv, DraftTypes, WritingDraftAssumption
<1>2. CASE row' = row BY <1>2 DEF Task!vars
<1>3. CASE row' # row /\ edits' = edits
  <2>1. PICK m \in wire : /\ row.status = "draft" /\ row.ver = m.ver
                          /\ \/ m.kind = "save" /\ Store(m.text) /\ m.ver + 1 <= edits
                             \/ m.kind = "submit" /\ Seal /\ row.text # Blank
    BY <1>3, RowChanges DEF vars
  <2>2. m.text \in AllTexts BY DEF DraftInv, DraftTypes, Message
  <2>3. row.ver < MaxEdits + 1 BY <1>1, <2>1 DEF VersionsAreEdits, Row
  <2> QED BY <1>1, <2>1, <2>2, <2>3, StoreIsSaveDraft, SealIsSubmit
<1>4. CASE row' # row /\ edits' # edits
  <2>1. Elsewhere
    BY <1>4 DEF vars, Next, User, Client, Fault, Edit, Press, Retry, Load, Leave, TimerFires, BackoffOver, SaveAnswer,
                ReconcileAnswer, CheckAnswer, SubmitAnswer, LoadAnswer, Handle
  <2>2. row.status = "draft" /\ row.ver < MaxEdits + 1 BY <1>1, <2>1 DEF Elsewhere, VersionsAreEdits, Row
  <2> QED BY <1>1, <2>1, <2>2, StoreIsSaveDraft, SealIsSubmit, DiscardIsDiscard DEF Elsewhere
<1> QED BY <1>2, <1>3, <1>4

(* Whatever the page and another device send, and whenever it arrives, the   *)
(* sheet does what a writing task allows, for any texts and bounds.         *)
THEOREM DraftRefinement == Spec => ImplementsTask
<1>1. Init => Task!Init BY TaskInit
<1>2. DraftInv /\ [Next]_vars => [Task!Next]_(Task!vars) BY TaskStep
<1> QED BY <1>1, <1>2, DraftInvariant, PTL DEF Spec, ImplementsTask, Task!Spec
=============================================================================
