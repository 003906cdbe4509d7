------------------------------ MODULE LadderSession ------------------------------
(***************************************************************************)
(* A ladder session of the review page: words are recognised, copied and   *)
(* at last written from dictation, and only then rated, by one request per *)
(* word.  The user may test a word again, step back, leave and continue,   *)
(* start over, or lose the page; requests may be given up and arrive late, *)
(* and their answers get lost.  What survives is in three keys of          *)
(* localStorage: the session, the idempotency keys, the count of the day.  *)
(*                                                                         *)
(* The server is the log of answers and its rule that a key rates once     *)
(* (ReviewTrack, KeyTakesEffectOnce).  One page is open at a time.         *)
(* Ratings, hints, new words (a card and a copy like others), the repair   *)
(* of neighbouring visits of a word and the 24 hours of the caches are     *)
(* left out.                                                               *)
(***************************************************************************)
EXTENDS Naturals, SequencesExt

CONSTANTS
  Words,      \* words that may be due
  Measured,   \* words of rung 3: dictation only, their meaning is asked at the end
  Limit,      \* ratings of a day after which a session asks before it begins, 0: never
  MaxRuns,    \* bound: sessions begun
  MaxSends    \* bound: requests made

VARIABLES
  answers,    \* review_logs: the ratings that took effect
  stored,     \* localStorage
  page,       \* the component, and where the review page is
  posts,      \* requests under way, and answers
  runs,       \* sessions begun
  sends       \* requests made; a new key is numbered by its first request

vars == <<answers, stored, page, posts, runs, sends>>

NoKey == 0
NoKeys == [w \in Words |-> NoKey]
KeysOfDay == [Words -> 0 .. MaxSends]

Visit == [word : Words, stage : {"card", "follow", "dictation", "meaning"}]
Visits(order, stage) == [i \in DOMAIN order |-> [word |-> order[i], stage |-> stage]]

(* buildLadderSession: three passes, the second and third in reverse order. *)
(* Measured words are in the last one only.                                 *)
BuildSession(easy, hard) ==
  Visits(easy, "card") \o Visits(Reverse(easy), "follow") \o Visits(hard \o Reverse(easy), "dictation")

(* What the cache of a session holds: where it is, the words settled, the  *)
(* words of which a dictation is there, and the keys used.                  *)
NoSession == [run |-> 0, visits |-> <<>>, pos |-> 1, rows |-> <<>>, written |-> {}, keys |-> NoKeys]

Select == [view |-> "select", session |-> NoSession, failed |-> 0, sending |-> FALSE, fired |-> FALSE]
Gate == [Select EXCEPT !.view = "gate"]
Shows(s) == [Select EXCEPT !.view = "session", !.session = s]

Session == page.session
Open == page.view = "session"
Finished(s) == s.pos > Len(s.visits)
Working == Open /\ ~Finished(Session)
Current == Session.visits[Session.pos]
Settled(w) == w \in ToSet(Session.rows)

(* The effect that writes the cache whenever visits, place or rows change.  *)
Cached(s) == stored' = [stored EXCEPT !.session = s]

Init ==
  /\ answers = {} /\ posts = {} /\ runs = 0 /\ sends = 0
  /\ stored = [session |-> NoSession, keys |-> NoKeys, count |-> 0]
  /\ page = Select

-----------------------------------------------------------------------------
(* Entering: the gate of the day, then the cached session or a new one      *)

(* A new queue.  The keys of earlier sessions stay in storage, unread.      *)
Begin ==
  /\ runs < MaxRuns
  /\ \E due \in (SUBSET Words) \ {{}} :
     \E easy \in SetToSeqs(due \ Measured), hard \in SetToSeqs(due \cap Measured) :
       LET s == [NoSession EXCEPT !.run = runs + 1, !.visits = BuildSession(easy, hard)]
       IN  page' = Shows(s) /\ Cached(s)
  /\ runs' = runs + 1

(* The keys kept apart count more than those cached with the session.       *)
RestoredKeys(s) == [w \in Words |-> IF stored.keys[w] # NoKey THEN stored.keys[w] ELSE s.keys[w]]

Restore(s) ==
  LET restored == [s EXCEPT !.keys = RestoredKeys(s)]
  IN  page' = Shows(restored) /\ Cached(restored) /\ UNCHANGED runs

Mount(s) == IF s.visits = <<>> THEN Begin ELSE Restore(s)

LimitReached == Limit > 0 /\ stored.count >= Limit

Enter(s) ==
  /\ page.view = "select"
  /\ IF LimitReached
     THEN page' = Gate /\ Cached(s) /\ UNCHANGED runs
     ELSE Mount(s)
  /\ UNCHANGED <<answers, posts, sends>>

Start == Enter(NoSession)

Continue == ~Finished(stored.session) /\ Enter(stored.session)

Sprint ==
  /\ page.view = "gate"
  /\ Mount(stored.session)
  /\ UNCHANGED <<answers, posts, sends>>

-----------------------------------------------------------------------------
(* The session                                                              *)

(* A card is rated or skipped, a word copied, a meaning looked at.          *)
Pass ==
  /\ Working /\ Current.stage # "dictation"
  /\ page' = [page EXCEPT !.session.pos = @ + 1]
  /\ Cached(page'.session)
  /\ UNCHANGED <<answers, posts, runs, sends>>

KeyFor(w) == IF Session.keys[w] = NoKey THEN sends + 1 ELSE Session.keys[w]

(* writeSubmitKeysCache, before the request.                                *)
KeptKeys_WithSession(keys) == stored.keys
KeptKeys(keys) == keys

Submit(w) ==
  /\ sends < MaxSends /\ sends' = sends + 1
  /\ page' = [page EXCEPT !.session.keys[w] = KeyFor(w), !.session.written = @ \cup {w},
                          !.sending = TRUE, !.fired = TRUE]
  /\ stored' = [stored EXCEPT !.keys = KeptKeys(page'.session.keys)]
  /\ posts' = posts \cup {[id |-> sends + 1, run |-> Session.run, word |-> w, key |-> KeyFor(w),
                           counted |-> Settled(w), at |-> "sent", waits |-> "page"]}
  /\ UNCHANGED <<answers, runs>>

(* The view of a dictation reports once that it is done.                    *)
Dictate ==
  /\ Working /\ Current.stage = "dictation" /\ ~page.sending /\ ~page.fired
  /\ Submit(Current.word)

(* The way out of a failure.  Without a dictation the visit is passed.      *)
RetrySubmit ==
  /\ Working /\ ~page.sending /\ page.failed = Session.pos
  /\ IF Current.word \in Session.written
     THEN Submit(Current.word)
     ELSE /\ page' = [page EXCEPT !.session.pos = @ + 1, !.fired = FALSE]
          /\ Cached(page'.session)
          /\ UNCHANGED <<answers, posts, runs, sends>>

(* Testing again and stepping back give up the way out of a failure.        *)
Forgiven_Kept(p) == p
Forgiven(p) == [p EXCEPT !.failed = 0]

(* retryCurrentWord: nothing that would write the cache changes.            *)
Retest ==
  /\ Working /\ ~page.sending
  /\ page' = [Forgiven(page) EXCEPT !.session.written = @ \ {Current.word}, !.fired = FALSE]
  /\ UNCHANGED <<answers, stored, posts, runs, sends>>

(* Also from the page of settlements, by keyboard.                          *)
StepBack ==
  /\ Open /\ Session.pos > 1 /\ ~page.sending
  /\ page' = [Forgiven(page) EXCEPT !.session.written = @ \ {Session.visits[Session.pos - 1].word},
                                    !.session.pos = @ - 1, !.fired = FALSE]
  /\ Cached(page'.session)
  /\ UNCHANGED <<answers, posts, runs, sends>>

-----------------------------------------------------------------------------
(* Leaving                                                                  *)

Waiting(from, to) == posts' = {IF p.waits \in from THEN [p EXCEPT !.waits = to] ELSE p : p \in posts}

(* Also while a request is under way: what follows its answer still runs,   *)
(* on a component that is no more.                                         *)
Leave ==
  /\ Working \/ page.view = "gate"
  /\ page' = Select
  /\ Waiting({"page"}, "left")
  /\ UNCHANGED <<answers, stored, runs, sends>>

(* The settlement is closed: session and keys are removed.                  *)
Close ==
  /\ Open /\ Finished(Session)
  /\ page' = Select
  /\ stored' = [stored EXCEPT !.session = NoSession, !.keys = NoKeys]
  /\ UNCHANGED <<answers, posts, runs, sends>>

(* The tab is reloaded, closed or killed.                                   *)
Reload ==
  /\ page # Select \/ \E p \in posts : p.waits = "left"
  /\ page' = Select
  /\ Waiting({"page", "left"}, "nobody")
  /\ UNCHANGED <<answers, stored, runs, sends>>

-----------------------------------------------------------------------------
(* Requests and answers                                                     *)

Known(key) == \E a \in answers : a.key = key

(* The server handles a request, however late.                              *)
Handle(p) ==
  /\ p.at = "sent"
  /\ answers' = IF Known(p.key) THEN answers ELSE answers \cup {[run |-> p.run, word |-> p.word, key |-> p.key]}
  /\ posts' = (posts \ {p}) \cup {[p EXCEPT !.at = IF Known(p.key) THEN "repeat" ELSE "done"]}
  /\ UNCHANGED <<stored, page, runs, sends>>

(* The request times out or is refused, or its answer is lost.  It may      *)
(* still arrive.                                                            *)
Fail(p) ==
  /\ p.waits # "nobody"
  /\ posts' = (posts \ {p}) \cup {[p EXCEPT !.waits = "nobody"]}
  /\ page' = IF p.waits = "page" THEN [page EXCEPT !.failed = Session.pos, !.sending = FALSE] ELSE page
  /\ UNCHANGED <<answers, stored, runs, sends>>

(* A word that was rated under its key before is settled and counted if the *)
(* page does not know it yet.                                               *)
Counts(p) == p.at = "done" \/ ~p.counted

AskMeaning(s, w) ==
  IF w \in Measured /\ [word |-> w, stage |-> "meaning"] \notin ToSet(s.visits)
  THEN [s EXCEPT !.visits = Append(@, [word |-> w, stage |-> "meaning"])] ELSE s

AfterAnswer(p) ==
  LET s == IF p.at = "done" THEN AskMeaning(Session, p.word) ELSE Session
  IN  [s EXCEPT !.rows = IF p.at = "repeat" /\ Settled(p.word) THEN @ ELSE Append(@, p.word),
                !.pos = @ + 1]

Answer(p) ==
  /\ p.at \in {"done", "repeat"} /\ p.waits # "nobody"
  /\ posts' = posts \ {p}
  /\ LET s == IF p.waits = "page" THEN AfterAnswer(p) ELSE stored.session
     IN  /\ page' = IF p.waits = "page" THEN Shows(s) ELSE page
         /\ stored' = [stored EXCEPT !.session = s, !.count = IF Counts(p) THEN @ + 1 ELSE @]
  /\ UNCHANGED <<answers, runs, sends>>

User == Start \/ Continue \/ Sprint \/ Pass \/ Dictate \/ RetrySubmit \/ Retest \/ StepBack
        \/ Leave \/ Close \/ Reload

Next == User \/ \E p \in posts : Handle(p) \/ Fail(p) \/ Answer(p)

Spec == Init /\ [][Next]_vars

-----------------------------------------------------------------------------
(* Properties *)

TypeOK ==
  /\ answers \subseteq [run : 1 .. MaxRuns, word : Words, key : 1 .. MaxSends]
  /\ \A s \in {stored.session, page.session} :
       /\ s.run \in 0 .. MaxRuns /\ ToSet(s.visits) \subseteq Visit /\ s.pos \in 1 .. Len(s.visits) + 1
       /\ ToSet(s.rows) \subseteq Words /\ s.written \subseteq Words /\ s.keys \in KeysOfDay
  /\ stored.keys \in KeysOfDay /\ stored.count \in 0 .. MaxSends
  /\ page.view \in {"select", "gate", "session"} /\ page.sending \in BOOLEAN /\ page.fired \in BOOLEAN
  /\ page.failed \in 0 .. Len(Session.visits)
  /\ \A p \in posts : /\ p.at \in {"sent", "done", "repeat"} /\ p.waits \in {"page", "left", "nobody"}
                      /\ p.counted \in BOOLEAN /\ p.word \in Words
  /\ runs \in 0 .. MaxRuns /\ sends \in 0 .. MaxSends

(* A session rates a word once at most, whatever is tested again, stepped   *)
(* back to, given up, lost, left and continued: LadderReviewSession keeps   *)
(* the key of a word and stores it before the request is made.              *)
RatedOncePerRun ==
  \A a, b \in answers : a.run = b.run /\ a.word = b.word => a = b

(* A session that came to its end has settled each of its words, once; each *)
(* was rated under its key; and the count of the day knows all of them.  So *)
(* no word is passed over after a failure (submitError), and no lost answer *)
(* leaves a gap in the settlement or in the quota.                          *)
FinishedIsSettled ==
  Open /\ Finished(Session) =>
    /\ ToSet(Session.rows) = {v.word : v \in ToSet(Session.visits)}
    /\ IsInjective(Session.rows)
    /\ \A w \in ToSet(Session.rows) : \E a \in answers : a.word = w /\ a.key = Session.keys[w]
    /\ stored.count >= Len(Session.rows)
=============================================================================
