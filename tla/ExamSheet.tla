------------------------------ MODULE ExamSheet ------------------------------
(***************************************************************************)
(* The exam sheet (ADR-0034): answers are typed into the page, saved by    *)
(* the tab's save controller in versioned batches, and sealed into         *)
(* attempts.  The same sheet may be open in several tabs.                  *)
(*                                                                         *)
(* A request is a message: it is sent, handled by the server, answered.    *)
(* The tab may stop waiting for it (a network error, a time-out, the page  *)
(* is left) while it is still on its way, so that the server handles it    *)
(* later or never.  Sealing reads the sheet and then updates it on the     *)
(* condition that its version did not move; the other requests are one     *)
(* statement each.                                                         *)
(*                                                                         *)
(* An answer is a value; marks and flags are part of it.  Every question   *)
(* of the sheet is in its frozen list.  The 800 ms debounce and the        *)
(* back-off are steps that take place some time.                           *)
(***************************************************************************)
EXTENDS Naturals, Sequences, FiniteSets, FiniteSetsExt

CONSTANTS
  Tabs, Questions,
  Answers,      \* answers a question may get
  None,         \* no answer
  MaxBatch,     \* MAX_BATCH_KEYS
  MaxRetries,   \* MAX_AUTO_RETRIES
  MaxLoads,     \* bounds: loads of the server's version a tab has under way,
  MaxSheets, MaxEdits,   \* sheets, edits here and elsewhere,
  MaxFaults              \* faults

ASSUME ExamSheetAssumption ==
  /\ None \notin Answers
  /\ IsFiniteSet(Questions)
  /\ MaxBatch \in Nat \ {0}
  /\ MaxRetries \in Nat
  /\ {MaxLoads, MaxSheets, MaxEdits, MaxFaults} \subseteq Nat

VARIABLES
  sheets,   \* the rows of l3_submissions of this scope, with their attempts
  tab,      \* per tab: the page and its save controller
  net,      \* requests sent and not yet answered or lost
  edits,    \* edits so far
  faults    \* faults so far

vars == <<sheets, tab, net, edits, faults>>

Values == Answers \cup {None}
Empty == [q \in Questions |-> None]

NewSheet == [status |-> "draft", ver |-> 0, answers |-> Empty, attempts |-> Empty]

NoVer == 0 - 1
Clean == [seq |-> 0, val |-> None]

Nothing == [kind |-> "none", ack |-> FALSE]

(* want is the action that waits for flush(); held the payload that waits   *)
(* for the next retry; lock the lock a seal has on editing; asked: the      *)
(* dialogue shows how many questions are unanswered, and sealing goes on.   *)
(* astray is a history variable: the questions for which the page took over *)
(* an answer of the server while another one was to be saved.               *)
Page == [view |-> "away", sid |-> 0, screen |-> Empty, dirty |-> [q \in Questions |-> Clean],
         ver |-> NoVer, state |-> "clean", seq |-> 0, committed |-> 0, tries |-> 0,
         held |-> <<>>, frozen |-> FALSE, want |-> Nothing, lock |-> FALSE,
         asked |-> FALSE, astray |-> {}]

(* The unique index that openSheet relies on: one draft per scope. *)
Drafts == {s \in DOMAIN sheets : sheets[s].status = "draft"}

-----------------------------------------------------------------------------
(* Messages *)

Awaited(c) == {m \in net : m.from = c /\ m.awaited}
Awaits(c, kind) == \E m \in Awaited(c) : m.kind = kind
InFlight(c) == Awaits(c, "patch") \/ tab[c].held # <<>>

FreeNo(c) == CHOOSE n \in 1..(Cardinality(net) + 1) : \A m \in net : m.from = c => m.no # n

Request(c, kind, body) ==
  [from |-> c, no |-> FreeNo(c), kind |-> kind, body |-> body, at |-> "wire",
   answer |-> "none", row |-> <<>>, awaited |-> TRUE]

(* An answer nobody waits for is not kept. *)
Answered(m, how, row) ==
  IF m.awaited THEN {[m EXCEPT !.at = "answered", !.answer = how, !.row = row]} ELSE {}

Reply(m, how, row) == net' = (net \ {m}) \cup Answered(m, how, row)

(* What GET and POST of a sheet return. *)
Row(s, on) == [sid |-> s, status |-> on[s].status, ver |-> on[s].ver,
               answers |-> on[s].answers, attempts |-> on[s].attempts]

-----------------------------------------------------------------------------
(* The save controller *)

DirtyKeys(t) == {q \in Questions : t.dirty[q].seq > 0}

(* takeBatch: the keys with the lowest input numbers. *)
Batch(t) ==
  {q \in DirtyKeys(t) :
     Cardinality({p \in DirtyKeys(t) : t.dirty[p].seq < t.dirty[q].seq}) < MaxBatch}

(* The payload, frozen when it is sent; a retry sends the same one.        *)
Payload(t) == [sid |-> t.sid, ver |-> t.ver, batch |-> [q \in Batch(t) |-> t.dirty[q]]]

MaySend(t) == ~t.frozen /\ t.ver # NoVer /\ DirtyKeys(t) # {} /\ t.state # "conflict"

Post(c, kind, body, rest) == net' = rest \cup {Request(c, kind, body)}

(* What is left of a request its tab no longer waits for.  One that reads   *)
(* has no effect any more; an open may as well have been handled before.   *)
GivenUp(m) ==
  IF m.at = "answered" \/ m.kind \in {"open", "load"} THEN {}
  ELSE {[m EXCEPT !.awaited = FALSE]}

(* The page is gone: dispose() of the controller; what was sent stays on    *)
(* its way.                                                                *)
Forsaken(c, rest) ==
  {m \in rest : m.from # c} \cup UNION {GivenUp(m) : m \in {n \in rest : n.from = c}}

(* flush() resolves: the action that waits for it goes on.  shown is a      *)
(* history variable, what the page shows when the seal is sent, but for the *)
(* questions that are astray.                                              *)
Resolve(c, t, rest) ==
  CASE t.want.kind = "none" ->
         tab' = [tab EXCEPT ![c] = t] /\ net' = rest
    [] t.want.kind = "seal" ->
         /\ tab' = [tab EXCEPT ![c] = [t EXCEPT !.want = Nothing]]
         /\ Post(c, "seal", [sid |-> t.sid, ver |-> t.ver, ack |-> t.want.ack,
                             shown |-> [q \in Questions \ t.astray |-> t.screen[q]]], rest)
    [] t.want.kind = "leave" ->
         tab' = [tab EXCEPT ![c] = Page] /\ net' = Forsaken(c, rest)

(* maybeSend, and what runPipeline does when a batch is done: the next      *)
(* batch, or the end of the pipeline.                                      *)
Pump(c, t, rest) ==
  IF MaySend(t)
    THEN /\ tab' = [tab EXCEPT ![c] = [t EXCEPT !.state = "saving", !.tries = 0]]
         /\ Post(c, "patch", Payload(t), rest)
    ELSE IF t.frozen
      THEN tab' = [tab EXCEPT ![c] = t] /\ net' = rest
      ELSE Resolve(c, [t EXCEPT !.state = "clean", !.tries = 0], rest)

(* No sheet yet, or a draft. *)
Editable(t) == t.view \in {"opening", "failed", "draft"} /\ ~t.lock

(* setAnswer: the debounce timer is pending from now on. *)
Entered(t, q, v) ==
  [t EXCEPT !.seq = @ + 1,
            !.dirty[q] = [seq |-> t.seq + 1, val |-> v],
            !.state = IF @ = "conflict" THEN @ ELSE "dirty",
            !.astray = @ \ {q}]

(* commitAnswer; a frozen controller takes no answer.                      *)
Edit(c, q, v) ==
  LET t == [tab[c] EXCEPT !.screen[q] = v, !.asked = FALSE] IN
  /\ Editable(tab[c])
  /\ edits < MaxEdits
  /\ v # tab[c].screen[q]
  /\ tab' = [tab EXCEPT ![c] = IF t.frozen THEN t ELSE Entered(t, q, v)]
  /\ edits' = edits + 1
  /\ UNCHANGED <<sheets, net, faults>>

(* The debounce timer. *)
Autosave(c) ==
  /\ tab[c].state = "dirty" /\ ~InFlight(c) /\ MaySend(tab[c])
  /\ Pump(c, tab[c], net)
  /\ UNCHANGED <<sheets, edits, faults>>

(* The button of the error state. *)
Retry(c) ==
  /\ tab[c].view = "draft" /\ tab[c].state = "error" /\ ~tab[c].frozen
  /\ Pump(c, [tab[c] EXCEPT !.state = "dirty"], net)
  /\ UNCHANGED <<sheets, edits, faults>>

Confirmed_ClearsAll(t, m) ==
  [t EXCEPT !.ver = m.row.ver,
            !.dirty = [q \in Questions |-> IF q \in DOMAIN m.body.batch THEN Clean ELSE @[q]],
            !.committed = t.seq]

(* A key edited while its request was under way stays dirty. *)
Confirmed(t, m) ==
  LET cleared == {q \in DOMAIN m.body.batch : t.dirty[q].seq = m.body.batch[q].seq}
  IN [t EXCEPT
       !.ver = m.row.ver,
       !.dirty = [q \in Questions |-> IF q \in cleared THEN Clean ELSE @[q]],
       !.committed = Max({@} \cup {m.body.batch[q].seq : q \in cleared})]

Rejected_Forgotten(t, state) == [t EXCEPT !.state = state, !.tries = 0]

(* The flush is rejected: the action that waits for it is given up. *)
Rejected(t, state) ==
  [t EXCEPT !.state = state, !.tries = 0, !.want = Nothing,
            !.lock = IF t.want.kind = "seal" THEN FALSE ELSE @]

PatchAnswer(c) ==
  /\ \E m \in Awaited(c) :
       /\ m.kind = "patch" /\ m.at = "answered"
       /\ CASE m.answer = "ok" -> Pump(c, Confirmed(tab[c], m), net \ {m})
            [] m.answer \in {"conflict", "settled"} ->
                 tab' = [tab EXCEPT ![c] = Rejected(@, "conflict")] /\ net' = net \ {m}
            [] m.answer = "refused" ->
                 tab' = [tab EXCEPT ![c] = Rejected(@, "error")] /\ net' = net \ {m}
  /\ UNCHANGED <<sheets, edits, faults>>

(* The back-off is over. *)
Resend(c) ==
  LET t == tab[c] IN
  /\ t.held # <<>>
  /\ IF t.frozen
       THEN tab' = [tab EXCEPT ![c].held = <<>>] /\ UNCHANGED net
       ELSE /\ tab' = [tab EXCEPT ![c] = [t EXCEPT !.held = <<>>, !.state = "saving"]]
            /\ Post(c, "patch", t.held[1], net)
  /\ UNCHANGED <<sheets, edits, faults>>

-----------------------------------------------------------------------------
(* The page *)

(* Entering the paper calls openSheet.  A page that is entered while        *)
(* requests of its last visit are on their way is like another tab.        *)
Enter(c) ==
  /\ tab[c].view = "away"
  /\ \A m \in net : m.from # c
  /\ tab' = [tab EXCEPT ![c].view = "opening"]
  /\ Post(c, "open", <<>>, net)
  /\ UNCHANGED <<sheets, edits, faults>>

(* assembleSheet: an answer typed before wins over that of the server; one  *)
(* that was taken back does not, and is to be saved as taken back.         *)
Assembled(t, row) ==
  [t EXCEPT !.view = "draft", !.sid = row.sid, !.ver = row.ver,
            !.screen = [q \in Questions |-> IF @[q] # None THEN @[q] ELSE row.answers[q]],
            !.astray = {q \in DirtyKeys(t) : t.screen[q] = None /\ row.answers[q] # None}]

OpenAnswer(c) ==
  /\ \E m \in Awaited(c) :
       /\ m.kind = "open" /\ m.at = "answered"
       /\ IF m.answer = "ok"
            THEN Pump(c, Assembled(tab[c], m.row), net \ {m})
            ELSE tab' = [tab EXCEPT ![c].view = "failed"] /\ net' = net \ {m}
  /\ UNCHANGED <<sheets, edits, faults>>

Flush_Unconditional(c, t) ==
  IF InFlight(c) THEN tab' = [tab EXCEPT ![c] = t] /\ UNCHANGED net ELSE Resolve(c, t, net)

(* flush() at the start of submitSeal and of the leave barrier; the barrier *)
(* retries first when the last save failed.                                *)
Flush(c, t) ==
  CASE InFlight(c) -> tab' = [tab EXCEPT ![c] = t] /\ UNCHANGED net
    [] ~InFlight(c) /\ t.seq <= t.committed -> Resolve(c, t, net)
    [] ~InFlight(c) /\ t.seq > t.committed -> Pump(c, t, net)

PressSeal(c) ==
  LET t == tab[c] IN
  /\ t.view = "draft" /\ ~t.lock /\ t.want = Nothing
  /\ t.state \notin {"conflict", "error"}
  /\ Flush(c, [t EXCEPT !.lock = TRUE, !.want = [kind |-> "seal", ack |-> t.asked]])
  /\ UNCHANGED <<sheets, edits, faults>>

PressLeave(c) ==
  LET t == tab[c] IN
  /\ t.view \in {"draft", "settled"} /\ t.want = Nothing
  /\ t.state # "conflict" /\ (t.frozen => t.state # "error")
  /\ Flush(c, [t EXCEPT !.state = IF @ = "error" THEN "dirty" ELSE @,
                        !.want = [Nothing EXCEPT !.kind = "leave"]])
  /\ UNCHANGED <<sheets, edits, faults>>

(* adoptServerBaseline *)
Rebased(t, row) ==
  [t EXCEPT !.ver = row.ver, !.state = "clean",
            !.dirty = [q \in Questions |-> Clean], !.committed = t.seq]

(* assembleSheet(terminal) *)
Settled(t, row) == [Rebased(t, row) EXCEPT !.view = "settled", !.frozen = TRUE]

SealAnswer(c) ==
  /\ \E m \in Awaited(c) :
       /\ m.kind = "seal" /\ m.at = "answered"
       /\ tab' = [tab EXCEPT ![c] =
            IF m.answer = "ok" THEN [Settled(@, m.row) EXCEPT !.lock = FALSE]
            ELSE [@ EXCEPT !.lock = FALSE, !.asked = m.answer = "unanswered"]]
       /\ net' = net \ {m}
  /\ UNCHANGED <<sheets, edits, faults>>

(* loadServerBaseline, a button of the conflict state, which stays while a  *)
(* load is under way.                                                      *)
PressLoad(c) ==
  /\ tab[c].view = "draft" /\ tab[c].state = "conflict"
  /\ Cardinality({m \in Awaited(c) : m.kind = "load"}) < MaxLoads
  /\ Post(c, "load", [sid |-> tab[c].sid], net)
  /\ UNCHANGED <<sheets, tab, edits, faults>>

(* assembleSheet(server-baseline); busy: a save is in flight.  A controller *)
(* that is frozen stays so.                                                *)
Adopted(t, row, busy) ==
  [Rebased(t, row) EXCEPT !.view = "draft", !.screen = row.answers,
                          !.astray = IF busy THEN Questions ELSE {}]

LoadAnswer(c) ==
  /\ \E m \in Awaited(c) :
       /\ m.kind = "load" /\ m.at = "answered"
       /\ tab' = [tab EXCEPT ![c] = IF m.row.status = "draft" THEN Adopted(@, m.row, InFlight(c))
                                                              ELSE Settled(@, m.row)]
       /\ net' = net \ {m}
  /\ UNCHANGED <<sheets, edits, faults>>

(* Leaving without the barrier: the cleanup of the effect sends what it     *)
(* can, and disposes of the controller without waiting.                    *)
Close(c) ==
  LET t == tab[c]
      last == IF MaySend(t) /\ ~InFlight(c) /\ t.state # "error"
                THEN {Request(c, "patch", Payload(t))} ELSE {}
  IN
  /\ t.view # "away"
  /\ tab' = [tab EXCEPT ![c] = Page]
  /\ net' = Forsaken(c, net \cup last)
  /\ UNCHANGED <<sheets, edits, faults>>

-----------------------------------------------------------------------------
(* The server *)

HandleOpen(m) ==
  /\ m.kind = "open"
  /\ \/ \E s \in Drafts : UNCHANGED sheets /\ Reply(m, "ok", Row(s, sheets))
     \/ /\ Drafts = {} /\ Len(sheets) < MaxSheets
        /\ sheets' = Append(sheets, NewSheet)
        /\ Reply(m, "ok", Row(Len(sheets'), sheets'))
     \/ /\ Drafts = {} /\ Len(sheets) = MaxSheets
        /\ UNCHANGED sheets /\ Reply(m, "refused", <<>>)

(* patchAnswers: UPDATE ... WHERE status = 'draft' AND draft_version = $4. *)
PatchMatches(s, body) == sheets[s].status = "draft" /\ sheets[s].ver = body.ver

HandlePatch(m) ==
  LET s == m.body.sid IN
  /\ m.kind = "patch"
  /\ IF PatchMatches(s, m.body)
       THEN /\ sheets' = [sheets EXCEPT
                 ![s].ver = @ + 1,
                 ![s].answers = [q \in Questions |->
                    IF q \in DOMAIN m.body.batch THEN m.body.batch[q].val ELSE @[q]]]
            /\ Reply(m, "ok", Row(s, sheets'))
       ELSE /\ UNCHANGED sheets
            /\ Reply(m, IF sheets[s].status = "draft" THEN "conflict" ELSE "settled", <<>>)

HandleRead(m) ==
  /\ m.kind = "load"
  /\ UNCHANGED sheets /\ Reply(m, "ok", Row(m.body.sid, sheets))

Handle(m) ==
  /\ m.at = "wire"
  /\ HandleOpen(m) \/ HandlePatch(m) \/ HandleRead(m)
  /\ UNCHANGED <<tab, edits, faults>>

(* sealSheet, up to the conditional UPDATE. *)
SealRefusal(s, body) ==
  IF sheets[s].status # "draft" THEN "settled"
  ELSE IF sheets[s].ver # body.ver THEN "conflict"
  ELSE IF ~body.ack /\ \E q \in Questions : sheets[s].answers[q] = None THEN "unanswered"
  ELSE "none"

SealRead(m) ==
  /\ m.kind = "seal" /\ m.at = "wire"
  /\ LET refusal == SealRefusal(m.body.sid, m.body) IN
       IF refusal # "none"
         THEN Reply(m, refusal, <<>>)
         ELSE net' = (net \ {m}) \cup {[m EXCEPT !.at = "read", !.row = Row(m.body.sid, sheets)]}
  /\ UNCHANGED <<sheets, tab, edits, faults>>

SealMatches(s, body) == sheets[s].status = "draft" /\ sheets[s].ver = body.ver

(* The winner turns the answers it read into attempts (mode full), or drops *)
(* them (incremental, summary).                                            *)
SealCommit(m) ==
  LET s == m.body.sid IN
  /\ m.kind = "seal" /\ m.at = "read"
  /\ IF SealMatches(s, m.body)
       THEN /\ \E full \in BOOLEAN :
                 sheets' = [sheets EXCEPT
                   ![s].status = IF full THEN "sealed" ELSE "discarded",
                   ![s].answers = Empty,
                   ![s].attempts = IF full THEN m.row.answers ELSE Empty]
            /\ Reply(m, "ok", Row(s, sheets'))
       ELSE UNCHANGED sheets /\ Reply(m, "conflict", <<>>)
  /\ UNCHANGED <<tab, edits, faults>>

(* The sheet is also open on another device, whose requests succeed.        *)
Elsewhere ==
  /\ edits < MaxEdits
  /\ \E s \in Drafts :
       \/ \E q \in Questions, v \in Values :
            sheets' = [sheets EXCEPT ![s].ver = @ + 1, ![s].answers[q] = v]
       \/ sheets' = [sheets EXCEPT ![s].status = "sealed", ![s].answers = Empty,
                                   ![s].attempts = sheets[s].answers]
  /\ edits' = edits + 1
  /\ UNCHANGED <<tab, net, faults>>

-----------------------------------------------------------------------------
(* Faults *)

(* The tab gives up a request that the server may or may not have handled, *)
(* or still handles later.                                                 *)
Lost(m) == (net \ {m}) \cup GivenUp(m)

Failed(t, kind) ==
  CASE kind = "open" -> [t EXCEPT !.view = "failed"]
    [] kind = "seal" -> [t EXCEPT !.lock = FALSE]
    [] kind = "load" -> t

MayRetry(t) == t.tries < MaxRetries

(* fetch rejects: an error without a status, retried for a PATCH. *)
NetworkError(c) ==
  /\ faults < MaxFaults
  /\ \E m \in Awaited(c) :
       /\ net' = Lost(m)
       /\ tab' = [tab EXCEPT ![c] =
            IF m.kind # "patch" THEN Failed(@, m.kind)
            ELSE IF MayRetry(@)
              THEN [@ EXCEPT !.state = "retrying", !.tries = tab[c].tries + 1, !.held = <<m.body>>]
              ELSE Rejected(@, "error")]
  /\ faults' = faults + 1
  /\ UNCHANGED <<sheets, edits>>

(* browserRequest aborts after 20 s with status 0, which is not one of the  *)
(* statuses the controller retries.                                        *)
TimeOut(c) ==
  /\ faults < MaxFaults
  /\ \E m \in Awaited(c) :
       /\ m.at # "answered"
       /\ net' = Lost(m)
       /\ tab' = [tab EXCEPT ![c] =
            IF m.kind = "patch" THEN Rejected(@, "error") ELSE Failed(@, m.kind)]
  /\ faults' = faults + 1
  /\ UNCHANGED <<sheets, edits>>

(* 400, 401, 422: refused before anything is done. *)
Refuse(c) ==
  /\ faults < MaxFaults
  /\ \E m \in Awaited(c) : /\ m.kind = "patch" /\ m.at = "wire"
                           /\ Reply(m, "refused", <<>>)
  /\ faults' = faults + 1
  /\ UNCHANGED <<sheets, tab, edits>>

-----------------------------------------------------------------------------
Init ==
  /\ sheets = <<>>
  /\ tab = [c \in Tabs |-> Page]
  /\ net = {}
  /\ edits = 0
  /\ faults = 0

User(c) ==
  \/ Enter(c)
  \/ \E q \in Questions, v \in Values : Edit(c, q, v)
  \/ PressSeal(c) \/ PressLeave(c) \/ PressLoad(c) \/ Retry(c) \/ Close(c)

Client(c) ==
  \/ Autosave(c) \/ Resend(c)
  \/ OpenAnswer(c) \/ PatchAnswer(c) \/ SealAnswer(c) \/ LoadAnswer(c)

Server == \E m \in net : Handle(m) \/ SealRead(m) \/ SealCommit(m)

Fault == \E c \in Tabs : NetworkError(c) \/ TimeOut(c) \/ Refuse(c)

Next == (\E c \in Tabs : User(c) \/ Client(c)) \/ Server \/ Elsewhere \/ Fault

(* Timers fire, answers that arrive are processed, and a request that is    *)
(* waited for is handled, unless one of the faults strikes.                *)
Fairness ==
  /\ \A c \in Tabs : WF_vars(Client(c))
  /\ \A c \in Tabs :
       WF_vars(\E m \in Awaited(c) : Handle(m) \/ SealRead(m) \/ SealCommit(m))

Spec == Init /\ [][Next]_vars /\ Fairness

-----------------------------------------------------------------------------
(* Properties *)

(* Type invariant; a scope has one draft at a time. *)
TypeOK ==
  /\ \A r, s \in DOMAIN sheets :
       sheets[r].status = "draft" /\ sheets[s].status = "draft" => r = s
  /\ \A s \in DOMAIN sheets :
       /\ sheets[s].status \in {"draft", "sealed", "discarded"}
       /\ sheets[s].ver \in Nat
       /\ {sheets[s].answers, sheets[s].attempts} \subseteq [Questions -> Values]
  /\ \A c \in Tabs :
       /\ tab[c].view \in {"away", "opening", "failed", "draft", "settled"}
       /\ tab[c].state \in {"clean", "dirty", "saving", "retrying", "error", "conflict"}
       /\ tab[c].screen \in [Questions -> Values]
       /\ tab[c].committed <= tab[c].seq /\ tab[c].seq <= edits
       /\ tab[c].tries <= MaxRetries
  /\ \A m \in net : m.at \in {"wire", "read", "answered"}

(* A page that says "saved" and has the version of the server shows the     *)
(* answers of the server.                                                  *)
SaysSaved(t) ==
  /\ t.view = "draft" /\ t.state = "clean"
  /\ sheets[t.sid].status = "draft" /\ sheets[t.sid].ver = t.ver

Shows(t, questions) == \A q \in questions : t.screen[q] = sheets[t.sid].answers[q]

(* What assembleSheet promises ("the version's baseline first, answers may  *)
(* be given after that"), for every question.  It does not hold.           *)
SavedIsShown == \A c \in Tabs : SaysSaved(tab[c]) => Shows(tab[c], Questions)

(* It holds of every question whose answer of the server was not taken over *)
(* while another one was to be saved; a scope has one draft (TypeOK).       *)
SavedIsStored ==
  /\ TypeOK
  /\ \A c \in Tabs : SaysSaved(tab[c]) => Shows(tab[c], Questions \ tab[c].astray)

(* The attempts a seal leaves behind are what the page that sealed showed  *)
(* when its request went out, but for such questions: nothing typed is      *)
(* missing, nothing of another tab slips in (submitSeal, sealSheet).       *)
SealedIsSeen ==
  [][\A s \in DOMAIN sheets :
       sheets[s].status = "draft" /\ sheets'[s].status = "sealed" /\ net' # net =>
         \E m \in net : /\ m.kind = "seal" /\ m.body.sid = s
                        /\ m \notin net'
                        /\ \A q \in DOMAIN m.body.shown :
                             sheets'[s].attempts[q] = m.body.shown[q]]_vars

Flushing(t) == t.lock \/ t.want # Nothing

(* A flush that was begun is over some time, well or badly, so that the     *)
(* page is never locked for good (flush, runPipeline, submitSeal).  It does *)
(* not hold of a page that a load freezes while the flush waits.           *)
FlushDecides == \A c \in Tabs : Flushing(tab[c]) ~> ~Flushing(tab[c])

(* It holds of every other page, and of one whose seal is already sent.     *)
FlushSettles ==
  \A c \in Tabs : Flushing(tab[c]) ~>
                     \/ ~Flushing(tab[c])
                     \/ tab[c].frozen /\ tab[c].want # Nothing
=============================================================================
