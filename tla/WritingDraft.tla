------------------------------ MODULE WritingDraft ------------------------------
(***************************************************************************)
(* A draft in the writing workspace: the page that edits it, its save       *)
(* controller (one versioned PATCH under way, back-off, GET to reconcile),  *)
(* and the barrier in front of submitting.  The same draft may be open on   *)
(* another device.                                                         *)
(*                                                                         *)
(* A request is a message; the page may stop waiting for it (an error, a    *)
(* time-out, the page is left) while it is still on its way: it is handled  *)
(* later, or never.  Every operation of the server locks task and sheet,    *)
(* and is one step.  A text is a value; a text area has no CR, so           *)
(* normalising changes none of them.                                       *)
(* The debounce and the back-off are steps that take place some time; a      *)
(* composition in an input method only makes the debounce longer.           *)
(***************************************************************************)
EXTENDS Naturals, Sequences, FiniteSets

CONSTANTS
  Texts,        \* texts that are not blank
  Blank,
  MaxRetries,   \* MAX_AUTO_RETRIES
  MaxEdits, MaxFaults   \* bounds: edits here and elsewhere, faults

ASSUME WritingDraftAssumption ==
  /\ Blank \notin Texts
  /\ {MaxRetries, MaxEdits, MaxFaults} \subseteq Nat

VARIABLES
  row,     \* the row of l3_submissions and its attempt
  past,    \* history variable: the text of each version of the row
  page,    \* the page, its controller and its editor
  wire,    \* requests sent and not yet answered or lost
  edits, faults

vars == <<row, past, page, wire, edits, faults>>

AllTexts == Texts \cup {Blank}

Fresh == [status |-> "draft", ver |-> 0, text |-> Blank, attempt |-> Blank]

(* dirty: inputSeq is ahead of committedSeq; newer: ahead of sentSeq.  act   *)
(* is what the editor is busy with; text was shown when it was pressed.      *)
Page(view, text, ver) ==
  [view |-> view, text |-> text, ver |-> ver, conf |-> text, dirty |-> FALSE,
   newer |-> FALSE, state |-> "clean", tries |-> 0, backoff |-> FALSE, timer |-> FALSE,
   act |-> "idle", refused |-> FALSE]

Away == Page("away", Blank, 0)

-----------------------------------------------------------------------------
(* Messages.  The page waits for one request at a time.  seen and shown are  *)
(* history variables: the text last confirmed, and the one on the screen.    *)

Request(kind, p) ==
  [kind |-> kind, ver |-> p.ver, text |-> p.text, seen |-> p.conf, shown |-> p.text,
   awaited |-> TRUE, answer |-> "none", row |-> Fresh]

Awaited == {m \in wire : m.awaited}
OnItsWay(m) == m.answer = "none"

(* The page no longer waits; a read that is on its way has no effect.       *)
Orphans(ms) == {[m EXCEPT !.awaited = FALSE] :
                  m \in {n \in ms : OnItsWay(n) /\ n.kind \in {"save", "submit"}}}
Forsaken == (wire \ Awaited) \cup Orphans(Awaited)

Reply(m, answer) ==
  wire' = (wire \ {m}) \cup
            (IF m.awaited THEN {[m EXCEPT !.answer = answer, !.row = row']} ELSE {})

InFlight(p) == p.backoff \/ \E m \in Awaited : m.kind \in {"save", "reconcile"}

-----------------------------------------------------------------------------
(* The save controller *)

(* flush() resolves: exporting reads, submitting checks first. *)
Resolve(p, rest) ==
  IF p.act = "flush"
    THEN page' = [p EXCEPT !.act = "check"] /\ wire' = rest \cup {Request("check", p)}
    ELSE page' = [p EXCEPT !.act = "idle"] /\ wire' = rest

(* The head of runPipeline's loop: the next save takes the latest text.     *)
Pump(p, rest) ==
  IF p.dirty
    THEN /\ page' = [p EXCEPT !.state = "saving", !.newer = FALSE]
         /\ wire' = rest \cup {Request("save", p)}
    ELSE Resolve([p EXCEPT !.state = "clean"], rest)

(* maybeSend with nothing in flight; the allowance of retries is that of    *)
(* the pipeline.                                                           *)
MaybeSend(p, rest) ==
  IF p.dirty THEN Pump([p EXCEPT !.tries = 0, !.timer = FALSE], rest)
             ELSE page' = [p EXCEPT !.state = "clean"] /\ wire' = rest

Rejected_Forgotten(p, state) == [p EXCEPT !.state = state]

(* The pipeline ends badly and rejects whoever waits for it. *)
Rejected(p, state) == [p EXCEPT !.state = state, !.act = "idle"]

(* The answer confirms what was sent, not what was typed since. *)
Confirmed(p, m) ==
  [p EXCEPT !.ver = m.row.ver, !.conf = m.text, !.dirty = p.newer]

Edit(v) ==
  /\ page.view = "open" /\ page.act \in {"idle", "export"}
  /\ edits < MaxEdits /\ v # page.text
  /\ page' = [page EXCEPT !.text = v, !.dirty = TRUE, !.newer = TRUE,
                          !.state = "dirty", !.timer = TRUE]
  /\ edits' = edits + 1
  /\ UNCHANGED <<row, past, wire, faults>>

(* The debounce timer; one set before a failure sends again after it.       *)
TimerFires ==
  /\ page.timer
  /\ IF InFlight(page)
       THEN page' = [page EXCEPT !.timer = FALSE] /\ UNCHANGED wire
       ELSE MaybeSend([page EXCEPT !.timer = FALSE], wire)
  /\ UNCHANGED <<row, past, edits, faults>>

SaveAnswer ==
  /\ \E m \in Awaited :
       /\ m.kind = "save" /\ ~OnItsWay(m)
       /\ IF m.answer = "ok"
            THEN Pump(Confirmed(page, m), wire \ {m})
            ELSE page' = Rejected(page, m.answer) /\ wire' = wire \ {m}
  /\ UNCHANGED <<row, past, edits, faults>>

BackoffOver ==
  /\ page.backoff
  /\ Pump([page EXCEPT !.backoff = FALSE], wire)
  /\ UNCHANGED <<row, past, edits, faults>>

(* What GET shows as text: the draft, or the attempt, or nothing. *)
Shown(r) == CASE r.status = "draft" -> r.text
              [] r.status = "sealed" -> r.attempt
              [] r.status = "discarded" -> Blank

Applied_AnyText(m) == m.row.ver = m.ver + 1

(* reconcile: the save that got no answer was done after all. *)
Applied(m) == Shown(m.row) = m.text /\ m.row.ver = m.ver + 1

ReconcileAnswer ==
  /\ \E m \in Awaited :
       /\ m.kind = "reconcile" /\ ~OnItsWay(m)
       /\ IF Applied(m)
            THEN Pump(Confirmed(page, m), wire \ {m})
            ELSE /\ page' = Rejected(page,
                       IF m.row.ver = m.ver /\ Shown(m.row) = page.conf
                         THEN "error" ELSE "conflict")
                 /\ wire' = wire \ {m}
  /\ UNCHANGED <<row, past, edits, faults>>

-----------------------------------------------------------------------------
(* The editor *)

Flush(p) ==
  CASE InFlight(page) -> page' = p /\ UNCHANGED wire
    [] ~InFlight(page) /\ p.dirty -> MaybeSend(p, wire)
    [] ~InFlight(page) /\ ~p.dirty -> Resolve(p, wire)

(* The text area is read-only while submitting. *)
Press(act) ==
  /\ page.view = "open" /\ page.act = "idle"
  /\ act = "flush" => ~page.refused
  /\ page.state # "conflict"
  /\ Flush([page EXCEPT !.act = act])
  /\ UNCHANGED <<row, past, edits, faults>>

(* The button of the error state. *)
Retry ==
  /\ page.view = "open" /\ page.state = "error" /\ ~InFlight(page)
  /\ MaybeSend([page EXCEPT !.state = "dirty"], wire)
  /\ UNCHANGED <<row, past, edits, faults>>

Precheck_Adopts(p, m) ==
  IF m.row.status = "draft" THEN <<"ok", m.row.ver>> ELSE <<"not-draft">>

(* evaluateSubmitPrecheck: what GET shows is compared with the receipt of    *)
(* the flush; the version submitted is that of the receipt.                *)
Precheck(p, m) ==
  CASE m.row.status # "draft" -> <<"not-draft">>
    [] m.row.status = "draft" /\ (m.row.text # p.conf \/ m.row.ver # p.ver) -> <<"mismatch">>
    [] OTHER -> <<"ok", p.ver>>

Reload == page' = [Away EXCEPT !.view = "loading"]

CheckAnswer ==
  /\ \E m \in Awaited :
       /\ m.kind = "check" /\ ~OnItsWay(m)
       /\ LET verdict == Precheck(page, m) IN
          CASE verdict[1] = "not-draft" ->
                 Reload /\ wire' = (wire \ {m}) \cup {Request("load", Away)}
            [] verdict[1] = "mismatch" ->
                 page' = [page EXCEPT !.act = "idle", !.refused = TRUE] /\ wire' = wire \ {m}
            [] verdict[1] = "ok" ->
                 /\ page' = [page EXCEPT !.act = "post"]
                 /\ wire' = (wire \ {m}) \cup
                              {[Request("submit", page) EXCEPT !.ver = verdict[2]]}
  /\ UNCHANGED <<row, past, edits, faults>>

SubmitAnswer ==
  /\ \E m \in Awaited :
       /\ m.kind = "submit" /\ ~OnItsWay(m)
       /\ IF m.answer = "ok"
            THEN Reload /\ wire' = (wire \ {m}) \cup {Request("load", Away)}
            ELSE /\ page' = [page EXCEPT !.act = "idle", !.refused = m.answer = "conflict"]
                 /\ wire' = wire \ {m}
  /\ UNCHANGED <<row, past, edits, faults>>

(* The page is opened, or loads the version of the server (the button of    *)
(* the conflict states): dispose() of the controller, and GET.             *)
Load ==
  /\ \/ page.view = "away"
     \/ page.view = "open" /\ (page.state = "conflict" \/ page.refused)
  /\ Reload
  /\ wire' = Forsaken \cup {Request("load", Away)}
  /\ UNCHANGED <<row, past, edits, faults>>

LoadAnswer ==
  /\ \E m \in Awaited :
       /\ m.kind = "load" /\ ~OnItsWay(m)
       /\ page' = Page(IF m.row.status = "draft" THEN "open" ELSE "done", Shown(m.row), m.row.ver)
       /\ wire' = wire \ {m}
  /\ UNCHANGED <<row, past, edits, faults>>

Leave ==
  /\ page.view \in {"open", "done"}
  /\ page' = Away
  /\ wire' = Forsaken
  /\ UNCHANGED <<row, past, edits, faults>>

-----------------------------------------------------------------------------
(* The server *)

Store(v) == /\ row' = [row EXCEPT !.ver = @ + 1, !.text = v]
            /\ past' = Append(past, v)

Seal == /\ row' = [row EXCEPT !.status = "sealed", !.ver = @ + 1,
                              !.text = Blank, !.attempt = row.text]
        /\ past' = Append(past, row.text)

SaveMatches_Last(m) == row.status = "draft"

SaveMatches_AnyStatus(m) == row.ver = m.ver

SaveMatches(m) == row.status = "draft" /\ row.ver = m.ver

HandleSave(m) ==
  /\ m.kind = "save"
  /\ IF SaveMatches(m) THEN Store(m.text) /\ Reply(m, "ok")
     ELSE UNCHANGED <<row, past>> /\ Reply(m, "conflict")

(* A sheet that is sealed already is answered with its attempt, whatever    *)
(* version was expected.                                                   *)
HandleSubmit(m) ==
  /\ m.kind = "submit"
  /\ CASE row.status = "sealed" -> UNCHANGED <<row, past>> /\ Reply(m, "ok")
       [] row.status = "discarded" \/ (row.status = "draft" /\ row.ver # m.ver) ->
            UNCHANGED <<row, past>> /\ Reply(m, "conflict")
       [] row.status = "draft" /\ row.ver = m.ver /\ row.text = Blank ->
            UNCHANGED <<row, past>> /\ Reply(m, "empty")
       [] row.status = "draft" /\ row.ver = m.ver /\ row.text # Blank ->
            Seal /\ Reply(m, "ok")

HandleRead(m) ==
  /\ m.kind \in {"check", "reconcile", "load"}
  /\ UNCHANGED <<row, past>> /\ Reply(m, "ok")

Handle(m) ==
  /\ OnItsWay(m)
  /\ HandleSave(m) \/ HandleSubmit(m) \/ HandleRead(m)
  /\ UNCHANGED <<page, edits, faults>>

(* Another device saves, submits or discards what it sees. *)
Elsewhere ==
  /\ edits < MaxEdits /\ row.status = "draft"
  /\ \/ \E v \in AllTexts : Store(v)
     \/ row.text # Blank /\ Seal
     \/ row' = [row EXCEPT !.status = "discarded", !.text = Blank] /\ UNCHANGED past
  /\ edits' = edits + 1
  /\ UNCHANGED <<page, wire, faults>>

-----------------------------------------------------------------------------
(* Faults: fetch rejects ("network"), browserRequest aborts with status 0    *)
(* ("timeout"), 429 and 5xx ("busy"), or 401 and 422 ("refused").  All but    *)
(* the last may leave the request on its way.                               *)

MayRetry(how) == how \in {"network", "busy"} /\ page.tries < MaxRetries

SaveFails(how, m) ==
  CASE MayRetry(how) ->
         /\ page' = [page EXCEPT !.state = "retrying", !.tries = @ + 1, !.backoff = TRUE]
         /\ wire' = Forsaken
    [] ~MayRetry(how) /\ how = "network" ->
         UNCHANGED page /\ wire' = Forsaken \cup {[m EXCEPT !.kind = "reconcile", !.answer = "none"]}
    [] ~MayRetry(how) /\ how # "network" ->
         page' = Rejected(page, "error") /\ wire' = IF how = "refused" THEN wire \ {m} ELSE Forsaken

(* A check, a submit and a load fail alike, whatever the fault. *)
OtherFails(m) ==
  /\ m.kind # "save"
  /\ page' = CASE m.kind = "reconcile" -> Rejected(page, "error")
               [] m.kind = "load" -> Away
               [] OTHER -> [page EXCEPT !.act = "idle"]
  /\ wire' = Forsaken

Fault ==
  /\ faults < MaxFaults
  /\ \E m \in Awaited :
       \/ \E how \in {"network", "timeout", "busy", "refused"} :
            /\ m.kind = "save" /\ (how = "refused" => OnItsWay(m))
            /\ SaveFails(how, m)
       \/ OtherFails(m)
  /\ faults' = faults + 1
  /\ UNCHANGED <<row, past, edits>>

-----------------------------------------------------------------------------
Init ==
  /\ row = Fresh
  /\ past = <<Blank>>
  /\ page = Away
  /\ wire = {}
  /\ edits = 0
  /\ faults = 0

User ==
  \/ \E v \in AllTexts : Edit(v)
  \/ \E act \in {"flush", "export"} : Press(act)
  \/ Retry \/ Load \/ Leave

Client == \/ TimerFires \/ BackoffOver \/ SaveAnswer \/ ReconcileAnswer
          \/ CheckAnswer \/ SubmitAnswer \/ LoadAnswer

Next == User \/ Client \/ (\E m \in wire : Handle(m)) \/ Elsewhere \/ Fault

(* Timers fire, answers that arrive are processed, and a request that is    *)
(* waited for is handled, unless one of the faults strikes.                *)
Fairness ==
  /\ WF_vars(BackoffOver)
  /\ WF_vars(SaveAnswer \/ ReconcileAnswer \/ CheckAnswer \/ SubmitAnswer \/ LoadAnswer)
  /\ WF_vars(\E m \in Awaited : Handle(m))

Spec == Init /\ [][Next]_vars /\ Fairness

-----------------------------------------------------------------------------
(* Properties *)

(* Type invariant; one request at a time is waited for. *)
TypeOK ==
  /\ row.status \in {"draft", "sealed", "discarded"} /\ {row.text, row.attempt} \subseteq AllTexts
  /\ row.ver + 1 = Len(past) /\ past \in Seq(AllTexts)
  /\ page.view \in {"away", "loading", "open", "done"}
  /\ page.state \in {"clean", "dirty", "saving", "retrying", "error", "conflict"}
  /\ page.act \in {"idle", "flush", "export", "check", "post"}
  /\ page.tries <= MaxRetries /\ page.newer => page.dirty
  /\ Cardinality(Awaited) <= 1
  /\ page.backoff => Awaited = {}

(* What the controller calls confirmed is what the server stored as that     *)
(* version, however the save was confirmed (an answer, or the GET after the  *)
(* last retry); and "saved" is shown of the text on the screen.  Of a draft  *)
(* that was discarded elsewhere the GET shows a blank text.  One request at *)
(* a time is waited for (TypeOK).                                          *)
ConfirmedIsStored ==
  /\ TypeOK
  /\ page.view = "open" /\ row.status # "discarded" =>
       /\ page.ver < Len(past) /\ page.conf = past[page.ver + 1]
       /\ page.state = "clean" => page.text = page.conf

(* A save of the page replaces only the text the page had confirmed when it  *)
(* sent it, also when it arrives late (saveDraft: never last-wins).         *)
NothingUnseenReplaced ==
  [][row'.status = "draft" /\ row'.ver # row.ver /\ edits' = edits =>
       \E m \in wire \ wire' : m.kind = "save" /\ m.seen = row.text]_vars

(* A submit of the page that seals the draft seals the text that was on the  *)
(* screen when the button was pressed (the receipt of flush, the check).    *)
SealsWhatIsShown ==
  [][row'.status = "sealed" /\ row.status = "draft" /\ edits' = edits =>
       \E m \in wire \ wire' : m.kind = "submit" /\ m.shown = row'.attempt]_vars

(* Who waits for a save is answered, well or badly: the editor does not stay *)
(* "submitting" (flush, rejectWaiters, resolveEligibleWaiters).             *)
EditorComesBack == page.act # "idle" ~> page.act = "idle"

(* The operations the server does, as the page and the other device call     *)
(* them, are those of a writing task with this one sheet.                   *)
Task ==
  INSTANCE WritingTask WITH
    Sheets <- {"sheet"}, NoSheet <- "no sheet", Keys <- {"key"}, NoKey <- "no key",
    MaxVersion <- MaxEdits + 1,
    task <- "active",
    status <- [s \in {"sheet"} |-> row.status],
    version <- [s \in {"sheet"} |-> row.ver],
    text <- [s \in {"sheet"} |-> row.text],
    parent <- [s \in {"sheet"} |-> "no sheet"],
    no <- [s \in {"sheet"} |-> IF row.status = "sealed" THEN 1 ELSE 0],
    attempt <- [s \in {"sheet"} |-> IF row.status = "sealed" THEN "active" ELSE "none"],
    body <- [s \in {"sheet"} |-> row.attempt],
    feedback <- [s \in {"sheet"} |-> [ver |-> 0, of |-> Blank, key |-> "no key"]]

(* Whatever arrives, in whatever order, the sheet only takes steps a writing *)
(* task allows.                                                            *)
ImplementsTask == Task!Spec
=============================================================================
