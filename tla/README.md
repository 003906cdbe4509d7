# Verification of vocab-ob: models, checks and proofs

vocab-ob is a self-hosted vocabulary trainer: a TypeScript server over PostgreSQL,
a web front end, and a worker process for what answers cause afterwards. A word of a
wordbook is learnt on two tracks: **L1** (cards reviewed under FSRS scheduling) and
**L2** (discrimination and production drills, for words L1 has made stable), next to
**L3**, a space for reading material, exam papers, answer sheets and notes.

Nearly all of what is hard in it happens in the database: requests of several tabs and
devices, their retries, and the worker all run READ COMMITTED transactions on the same
few rows, and lean on row locks, advisory locks, partial unique indexes, conditional
UPDATEs and idempotency keys, each in a way of its own. That is what the modules here
are about. A path below is relative to the repository; `services/` and `repositories/`
are short for `src/services/` and `src/repositories/`, and the SQL of the migrations is
under `drizzle-release/`.

## 1. Inventory

### The parts, their state and their operations

| part | state it keeps | operations that change it | hard behaviours | what makes it correct |
|---|---|---|---|---|
| **Review outbox** (`repositories/outbox.repository.ts`, `src/outbox/`, `scripts/run-review-outbox-worker.ts`, `scripts/review-outbox-admin.ts`) | `outbox_events` (status, attempts, lease, available_at), `outbox_effect_receipts` | enqueue, recover expired leases, claim, begin an effect, mark processed, mark failed, replay a dead letter, purge | workers crash at any point; leases lapse under a working worker; the acknowledgement of a COMMIT is lost; replays and purges | every event's effects happen exactly once, or the event ends as a dead letter after its whole allowance; nothing is left behind |
| **L1 review track** (`services/review.service.ts`, `repositories/review.repository.ts`, `repositories/session.repository.ts`, `0002_session_scope.sql`) | `user_word_progress`, `review_logs`, `sessions` | submit, skip, suspend, undo, enqueue and remove cards, end a session | concurrent requests on a card, retries with the same key, undo out of order, sessions ended meanwhile | a schedule is what its surviving answers make it; a key takes effect once |
| **Card state** (`services/forgetting.service.ts`, `repositories/review.repository.ts`, `services/hulu-plan.service.ts`) | `user_word_progress.state`, the `bulk_forget` rows of `review_logs`, `hulu_plans.suspend_snapshot` | forget a wordbook, restore a batch, suspend the words of a sprint and give them back, besides answers, undo and suspend | bulk statements overlap with answers and with each other; four owners of one column | a suspension can be lifted by what made it; the end of a sprint spares what was done meanwhile |
| **Cross-track cascade and promotion** (`services/cross-track.service.ts`, `services/l2-transition.service.ts`, `repositories/l2-progress.repository.ts`) | `user_word_l2_progress` (existence, paused, reason), `l1_weak_signal` | promote, pause and resume after L1 collapses and recovers, flag after failing drills | driven by events that come late, twice and out of order; undo, forgetting and removal send none | the two tracks converge on what the latest ratings ask for |
| **L2 drill** (`services/l2-drill.service.ts`, `services/l2-review.service.ts`, `0013_*.sql`) | `l2_drill_session_steps`, `user_word_l2_progress` (schedule, payload), L2 rows of `review_logs` | build the queue, submit, self-assess, undo | two sessions on one word, undo against submit, keys that are or are not recorded | a step rates once; undo takes back exactly one answer |
| **Hulu sprint plans** (`services/hulu-plan.service.ts`, `repositories/hulu.repository.ts`, `0050_*.sql`, `0051_*.sql`) | `hulu_plans`, `hulu_rounds` | create, start a round, settle a page, finish a round, abandon | retries and two devices, legacy rounds, completion against abandonment | one open round, completion earned, words given back once |
| **Ladder session** (`src/frontend/components/review/LadderReviewSession.tsx`, `src/frontend/reviewFlow/sessionScheduler.ts`, `src/frontend/utils/dailyReviewLimit.ts`) | in `localStorage`, the session (visits, place, settled words), the idempotency keys, the count of the day; on the page, what was dictated, a failure, a request under way | start, continue, pass a stage, submit a word, retry, test again, step back, leave, close | requests that are given up and arrive late, lost answers, a page left or reloaded in between | a word is rated once in a session; a session at its end has settled and counted each of its words |
| **L1 queue and scheduling** (`services/review-queue.ts`, `services/review-cards.service.ts`, `src/fsrs/`, `src/domain/ladder-rung.ts`) | none (pure) | order the queue, compute the next schedule and ladder rung | boundaries of buckets and limits | order and limits of the queue, monotone rungs |
| **Review sessions** (`0001_routines.sql`, `repositories/session.repository.ts`) | `sessions` | get or create today's session, end, count cards seen | two tabs open the day together | one open session per mode |
| **Upgrade work orders** (`services/upgrade-work-order.service.ts`, `repositories/upgrade-work-order.repository.ts`, `0028_*.sql`) | `upgrade_work_orders` (status), the seeded row of `user_word_l2_progress` and its log | mark, start, cancel, complete | status is read without a lock and written without a condition; completion takes three transactions and may die between them | one active order per word; an order that is done has its word promoted; a seed is logged once |
| **L3 sheets, attempts and grading** (`services/l3-sheets.service.ts`, `services/l3-annotations.service.ts`, `services/l3-grading.service.ts`, `src/frontend/state/examSheetSaveController.ts`, `L3ExamPaper.tsx`) | `l3_submissions` (draft_version, status, question list), `l3_question_attempts`, `l3_grading_results`, `l3_question_annotations`; in the tab, dirty answers and a version | open, save a batch, flush, seal, load the version of the server, leave; delete an attempt; annotate, withdraw, confirm; submit a grading | saves that are lost, late, retried or overtaken by edits; sealing against saving; gradings by an agent against the owner's edits | what is sealed is what was on the screen; what is called saved is stored; verdicts are about attempts |
| **L3 writing and feedback** (`services/l3-writing-sheet.service.ts`, `services/l3-writing-task.service.ts`, `services/l3-writing-feedback.service.ts`, `src/frontend/state/writingSaveController.ts`, `WritingEditor.tsx`) | tasks, sheets (drafts and revisions), attempts, feedback with version; in the page, a text, its confirmed version and a retry state | save a draft, submit, discard, create the next draft, clear a revision, put feedback, archive and restore a task | saves without an answer that are reconciled, drafts edited on two devices, replays | no text is replaced unseen; what is submitted was on the screen; revisions are numbered and final; feedback is of a text that is there |
| **L3 study notes** (`services/l3-study-notes.service.ts`, `repositories/l3-study-topics.repository.ts`, `src/frontend/state/studyTopicCoordinator.ts`) | notes with venues, topics, members with positions, versions and last request ids; in the page, the list of a venue, its cursor, one conflict, a queue of writes | create by request id, save by version, move and remove members, retitle and archive a topic; load, continue, search, write, create in the page | a save that takes a venue against a move that needs it; requests sent again; answers of lists and writes in any order | members belong to the venue of their topic; a request acts once; a write moves one note; a page never goes back by reading |
| **L3 papers, import, assessments** (`services/l3-paper.service.ts`) | questions with status and face, papers, imports by input hash, proposals | edit, accept, reject, delete a question; import, propose, confirm | agents edit what the owner is accepting; deletion against sealing | an accepted question is the owner's; import once |
| **Daily capture** (`services/capture.service.ts`, `services/daily-capture.service.ts`, `repositories/daily-capture.repository.ts`) | entries with a number per day, status and receipts; types | capture a word, append, patch, absorb | numbers drawn by two requests at once; work done before the entry is closed; an error swallowed inside a transaction | numbers dense; receipts tell what was done |
| **Browser sessions and login limits** | `auth_sessions`, `login_rate_limits` | exchange, revoke, consume, clear | windows of time | a limit that holds |
| **LLM usage and budget** (`repositories/llm-usage.repository.ts`, `src/llm/`, `services/l2-content.service.ts`) | `llm_usage` (status, tokens, expires_at) | reserve, renew, settle, release, expire | processes reserve at once; outcomes come late or never | a row tells how its call ended; reservations end; the budget is not exceeded (it is) |
| **Plaza cache** (`services/plaza-cache.ts`) | in-process cache | load, invalidate | invalidation during a load | nothing stale is kept |
| **Data lifecycle** (`repositories/data-lifecycle.repository.ts`) | none of its own | purges by age | against the outbox | only settled rows go |
| **Front end** (`src/frontend/`) | review queue, pending requests; the save controllers of sheets and writing (above) and of study notes | submit, undo, save, retry | retries with keys, versions, lost answers | one key per act; nothing typed is lost silently |
| wordbooks, words, notes, highlights; vocabulary import; statistics and recommendations; translation and dictionary; HTTP; observability | rows without a protocol of their own, or none | | | |

### How they interact

* `submitAnswer` (L1) and `submitTaskAnswer` (L2) write the schedule, the log row **and** an
  outbox event in one transaction; the worker takes the event later and calls
  `checkAndTransition`, `checkL1Cascade`, `checkL2FailureCascade` and the counter of cards seen.
* Undo runs in SQL (`undo_review_log`) or in the service (L2), and sends no event.
* Forgetting a wordbook suspends L1 cards and pauses L2 rows in one transaction; a sprint
  plan suspends L1 cards at its creation and gives them back at its end.
* A ladder session rates each of its words by one L1 answer with a key of its own, and keeps session, keys and the count of
  the day in the browser; the server knows the keys only (`KeyTakesEffectOnce`).
* Promotion is done by the worker, by hand (`promoteNow`) and by a completed work order.
* A removed card is deleted, so that its events find nothing and end as dead letters.
* An exam sheet or a draft is edited in a page whose save controller sends one versioned PATCH
  at a time; sealing and submitting wait for it (`flush`) and carry the version of its receipt.
  The server answers 409 to any other version. Agents grade sealed sheets and edit pending questions.
* A completed work order promotes its word with the seed of another book; a captured word enters a
  wordbook and, after its transaction, the diary of the day. Study notes and their topics meet nothing else.
* `generateDraft` reserves tokens of the day before it calls the language model, and a worker of
  its own (the reaper) expires reservations whose process went away.

## 2. The modules

| module | models | its state | refines |
|---|---|---|---|
| `EffectLedger` | what the outbox promises: an event is recorded, its effects happen once or it is given up | `ledger`, `count` | |
| `Outbox` | the review outbox, whole | the columns of the rows; per worker its place in the loop | `EffectLedger` |
| `AnswerStack` | what the L1 track promises: a schedule is a stack of answers | `place`, `stack`, `last` | |
| `ReviewTrack` | submit, skip, suspend, undo, removal, sessions | `row`, `logs`, `open`, `tx` | `AnswerStack` |
| `ReviewTrackProofs` | theorems about `ReviewTrack` | | |
| `CardState` | everything that writes the state column | `state`, `prior`, `flight`, `batch`, `sprint` | |
| `CrossTrack` | what the tracks of one word do to each other | `card`, `answers`, `flag`, `pause`, `failures`, `events`, `worker` | |
| `L2Drill` | the drill's steps, rows and log | `row`, `steps`, `logs`, `tx` | |
| `WordRowsProofs` | theorems about `L2Drill`, `CardState` and `CrossTrack` | | |
| `SprintLedger` | what sprint plans promise a wordbook | `phase`, `todo`, `work`, `owed`, `given` | |
| `HuluPlan` | sprint plans and rounds | `plan`, `rounds`, `tx` | `SprintLedger` |
| `HuluPlanProofs` | theorems about `HuluPlan` | | |
| `ExamSheet` | the page of an exam sheet, its save controller, the requests between tab and server | `sheets`, `tab`, `net` | |
| `ExamSheetProofs` | theorems about `ExamSheet` | | |
| `ExamArchive` | the server side of sheets: sealing, attempts, questions, notes, gradings | `question`, `sheets`, `note`, `tx` | |
| `WritingTask` | a writing task on the server: drafts, revisions, feedback | `task`, `status`, `version`, `text`, `no`, `attempt`, `body`, `feedback`, ... | |
| `WritingDraft` | the page of a draft, its save controller, the barrier before submitting | `row`, `page`, `wire` | `WritingTask` |
| `WritingDraftProofs` | theorems about `WritingDraft` | | |
| `L3SheetsProofs` | theorems about `ExamArchive` and `WritingTask` | | |
| `UpgradeOrder` | work orders of one word in one book, with the promotion they end in | `status`, `card`, `l2`, `elsewhere`, `req` | |
| `StudyShelf` | study notes, topics and their members on the server | `note`, `topic`, `at`, `asked`, `tx` | |
| `DailyCapture` | capturing a word, and the entries of a day | `inBook`, `bound`, `cards`, `entry`, `req` | |
| `TopicBoard` | the topics of a venue as a page of the browser keeps them | `store`, `view`, `reads`, `write`, `creates` | |
| `LadderSession` | a ladder session of the review page, its requests and what of it survives in the browser | `answers`, `stored`, `page`, `posts`, `runs`, `sends` | |
| `ServicesProofs` | theorems about `UpgradeOrder`, `StudyShelf`, `DailyCapture`, `LadderSession` and `TopicBoard` | | |
| `LlmBudget` | reservations against the daily token budget, and the reaper | `row`, `call`, `reading` | |
| `WorkersProofs` | theorems about `Outbox` and `LlmBudget` | | |

`MC*` modules add the symmetry sets; the `.cfg` files of the same name give the constants. `MCServices` (five components),
`MCL3Sheets` (two), `MCWordRows` (three) and `MCWorkers` (the outbox and the budget, with a `.cfg` for each) are about components that run one at a time (section 3); their proof modules extend them, so that a theorem is about the specification the run checks.
The modules meet at interfaces that are stated in one and used in the other: `CrossTrack`
counts events because `Outbox` shows that an event takes effect once or is given up;
`ReviewTrack` lets forgetting, restores and sprints write the state column at any time
(`SetState`), and `CardState` says which states they write. `ExamSheet` and `ExamArchive` share the
seal, once with the tab that asks for it and once with what the other transactions of the server do
meanwhile. `WritingDraft` shows one sheet and one page, and that what arrives at the server only makes
steps of `WritingTask`, whose operations take any version and text.

### How the code corresponds to state and actions

**Transactions.** PostgreSQL under READ COMMITTED gives each statement a snapshot of its own
and makes writers of a row wait for each other. So a transaction is one action only if it
locks a single row first and does all its reads after that; otherwise it is split at its reads
and locks, with a record per request (`tx`) of how far it is and what it read. Locks are not
variables: an open transaction holds what its progress says (`HoldsCard`, `PlanFree`, `RowFree`,
...), and `Abort` ends it anywhere, as an error, a deadlock, a timeout or a lost connection
does. Writes appear at the commit, as they do to others.

**Outbox.** One action per SQL statement: `Enqueue` (`enqueue`), `RecoverExpiredLeases`,
`ClaimBatch`, `BeginTransaction`/`BeginEffect`/`CommitEffects` (the effect transaction, whose
`now()` is frozen at BEGIN and whose row is locked at `beginEffect`), `Fail` and `MarkFailed`
(the catch branch), `MarkFailedThrows`, `Crash`, `Restart`, `ReplayDeadLetter`, `PurgeProcessed`.
The clock is reduced to two facts of a row, that its lease ran out and that its
`available_at` has come.

**Review track.** `Begin`/`BeginUndo` are the idempotency check under its advisory lock;
`LockCard`, `LockSession`, `LockLog` are the `FOR UPDATE`s in the code's order (submit: card,
session; undo: log, session, card); `SubmitAnswer`, `SkipCard`, `SuspendCard`, `UndoReview` are the writes and
the COMMIT. All columns that scheduling writes in one statement are one value, the set of
answers the schedule was computed from, which is what properties about lost and doubled
answers need.

**Card state.** The bulk statements of forgetting and of sprints are two steps: a statement reads
from its snapshot, without locks; its UPDATE then waits for rows and overwrites
their newest version (`ForgetRead`/`ForgetWrite`, `SprintRead`/`SprintWrite`, and for the end of a plan `EndRead`/`EndWrite`, whose
condition on the state is asked of the newest version again). Nothing serialises them: `flight` has
a place for every batch, for the making of a plan and for its end, so that several are under way with what each has read. Only a plan
excludes itself, by its row. What a batch or a plan keeps is written in the same step as the suspensions: the log rows are inserted by
the very statement, the snapshot is saved by the same transaction, and neither is seen before the COMMIT. `cause` records
who suspended a card last.

**Cross track.** An L1 event is `Take` (BEGIN, the lock of the L1 row, its reads) and `Apply`
(promotion and cascade); an L2 event is one step, as its window is read and written by one
statement that matters. Events are not kept in order: a worker that takes one reads what the row has by then, so that which of the waiting
events it took makes no difference. Ratings good and easy are one; how stable a card is is left open.

**L2 drill.** A submit is `SubmitBegin`, `SubmitLockStep`, `SubmitLockRow`, `SubmitWrite`; an undo reads the last
step without a lock (`UndoRead`) and then takes one of three ways by what it read. The
schedule (`sched`) and the scheduler's payload are two copies, as in the row.

**Sprint plans.** `start`, `finish` and `abandon` lock the plan first; `settlePage` is one
conditional UPDATE of the round; `create` relies on the partial unique index, on which its
INSERT waits. Plans from before migration 0051, with legacy rounds, are initial states. The ledger
they refine keeps only what a plan promises: its phase, the rounds worked through, the words owed.

**Requests of a page.** In `ExamSheet` and `WritingDraft` a request is a message: sent, handled by the
server, answered. Whoever waits for it may give up (a fetch that rejects, the abort after 20 s, the page
left) while it is still on its way, so it is handled later or never. `browserRequest.ts` is the source of
that; the HTTP layer in between is not modelled. The controllers are translated step by step: the dirty
keys with their input numbers (`setAnswer`), the batch frozen for its retries (`takeBatch`,
`materializeBatch`; answers are accepted before `openSheet` has returned, too), the loop of `runPipeline` (`Pump`), waiters of `flush` that are resolved or rejected
(`Resolve`, `Rejected`), back-off (`Resend`, `BackoffOver`), `adoptServerBaseline`, `freeze` and `dispose`. A load of the version of
the server is not serialised with anything: it is answered while a save, a seal or another load is under way. `astray` is a history variable,
the questions for which the page took over an answer of the server while another one was to be saved. The
writing controller keeps one text and tells by two flags whether it is ahead of what was sent and of what
was confirmed; its `reconcile` is `ReconcileAnswer`. Timers are steps that may take place any time.

**Sealing.** `sealSheet` is `SealRead` (the refusals and the reads) and `SealCommit`/`SealWrite` (the UPDATE under
`draft_version` and what follows from it). In `ExamArchive` every transaction that reads first and writes
under what it read has this form: `EditRead`/`EditWrite`, `DeleteRead`/`DeleteWrite`, `DraftNoteRead`/`DraftNoteWrite`,
`WithdrawRead`/`WithdrawWrite`, `GradeRead`/`GradeWrite`; the second step evaluates the WHERE of its statements again
and nothing else. The rows that go with a deleted question are the cascades of `src/db/schema.ts`.

**Writing task.** Every operation locks the task and then the sheet and is one action. A hash is the text
it is of. Requests carry any version and any text, so repeated and late ones are among them.

**Budget.** `reserveDailyTokens` is one statement in three steps: `Reserve` is its snapshot, `LockDay` the advisory
lock it waits for, `Admit` the INSERT and the COMMIT. The reaper is `ReapRead` (LIMIT, from the snapshot) and `ReapWrite`
(the rows as they are by then). `Lapses` is the passing of `expires_at`, `Renew` the heartbeat.

**Work orders.** `start`, `cancel` and `mark` are a read and a write (`StartRead`/`StartWrite`, ...), for the order is read
without a lock. `complete` is `CompleteRead`, `PromoteRead`, `PromoteWrite` and `Close`, three transactions; `Dies` may come before
each of them. The partial unique index is `Collides`: a write that would break it is an error, which ends the request. The
worker, a promotion by hand, a removal of the card and a promotion in another book are `PromotedOtherwise`, `CardComesAndGoes`
and `PromotedElsewhere`.

**Diary.** `Capture` is its transaction as a whole, of which nothing is left when the statement of the sentence failed
(`KeptBook`). An entry is numbered by the snapshot of its INSERT (`AppendBegin`) and meets the unique index at the end
(`AppendEnd`), after which it is tried again in a new transaction. `patchEntry` and `absorbEntry` read the entry without a lock; `AbsorbWrite`
does the work of the proposal and then closes the entry under the condition that it is open, and commits in both cases.

**Shelf of study notes.** A move locks the topic and then the note (`MoveLocksTopic`, `MoveLocksNote`, `MoveWrites`); a save locks
the note and reads the topics without a lock (`SaveLocksNote`, `SaveWrites`); removal and retitling lock one row and are one step.
A request is made once, from what its page was shown (`Ask`), and sent any number of times (`Sends`); a row
remembers its last request and its version, which is all `Takes` looks at. `effects` counts, for the property only, how often a
request took effect.

**Page of topics.** A read is sent, answered by the server from its rows at that moment, and received later, or fails; the
sequence numbers of `studyTopicCoordinator.ts` only tell whether a read still counts, so that a read that does not is
`outdated`. One write is under way at a time (`enqueue`); a write of a topic not on the page searches for it first. `updated_at`, by
which lists are ordered, is the moment a write takes effect. A topic is written elsewhere, too (`Elsewhere`).

**Ladder session.** `submitWordAnswer` is `Submit` (key, stored keys, request), then `Handle` at the server, and `Answer` or `Fail` in the
page; a request is awaited by the page, by a component that was left (`Leave`: what follows the answer runs all the same), or by
nobody. The effect that writes the cache is part of each action that changes visits, place or rows. `Mount` is the first effect of the
component, which restores the cached session with its keys or begins a new one; `Gate` is the page of the daily limit.

## 3. What is checked

TLC, two workers. Where a state invariant relates values to each other, the types of the module are its first conjunct, or are
proved (section 4); the type invariant that is a property of its own is, of the five
components together, `AllTypesOK` of `services`, which is proved as well.

| run | instance and bounds | properties | what it shows |
|---|---|---|---|
| `outbox` | 2 workers, 2 events (one per track), 2 attempts, batch 1, with fairness | `EffectsExactlyOnce`, `ImplementsLedger`, `EventuallySettled` | effects exactly once through lapses, crashes, lost acknowledgements, replays, purges; every recorded answer is settled |
| `review_track` | 1 card, 1 session, 1 key, 2 requests, 3 log rows | `ScheduleFollowsAnswers`, `KeyTakesEffectOnce`, `CommitsAreCurrent`, `ImplementsAnswerStack` | no answer is lost, doubled or left behind by its undo; a key takes effect once; what commits was checked of the card and session as they are then |
| `word_rows` | one of: 1 word, 2 sessions, 1 key, 2 requests, 4 log rows, 3 creations of steps; 1 card, 2 batches and a sprint, 2 scheduled states, 2 standing answers; 2 workers, 3 standing answers, 2 events waiting or in work | `AnswersRateOnce`, `ScheduleMovesWithLog`, `SuspensionsAreRecorded`, `GivingBackKeepsWork`, `TracksConverge`, `PausesFollowCurrentRatings` | a step and a key rate once, the schedule moves only with the log, a paused row is not rated; no suspension by forgetting or a sprint without a record of it, however their statements overlap, and the end of a sprint writes only cards that are suspended then; pauses and flags end where the latest ratings want them, also when events overtake each other or are answered over |
| `hulu_plan` | 2 plans (new or legacy), 2 requests, 2 rounds, 1 page | `RoundsNeverClash`, `ImplementsSprintLedger` | rounds never overlap, numbers never collide; a plan completes once it is worked through, ends once, and gives its words back once |
| `exam_sheet` | 1 tab and another device, 2 questions, 1 key per batch, 1 retry, 2 loads at once, 3 edits, 1 fault | `SavedIsStored`, `SealedIsSeen`, `FlushSettles` | "saved" is stored and a seal seals what was shown, of all questions but those astray; no flush hangs, but in a page that a load froze |
| `exam_saved` | 1 tab and another device, 1 question, 1 load at once, 3 edits, no fault | `SavedIsShown` | a violation: of a question astray, "saved" is said of an answer that is not stored (see below) |
| `exam_flush` | 1 tab and another device, 1 question, 2 loads at once, 3 edits, 1 fault, with fairness | `FlushDecides` | a violation: a flush that waits while a load freezes the page is never over (see below) |
| `l3_sheets` | one of: 2 transactions, 1 question, 1 note, 2 sheets, 1 edit, 1 save; or 3 sheets, 2 texts, 2 feedback keys, 2 versions | `GradedHasAttempt`, `SealKeepsAnswers`, `AgentLeavesActiveAlone`, `RevisionsAreNumbered`, `FeedbackBindsContent` | attempts are the answers of the seal, verdicts have attempts, agents leave accepted questions alone; revisions are 1, 2, ... in order, feedback is of a text that is there |
| `writing_draft` | 1 page and another device, 2 texts (one blank), 1 retry, 3 edits, 2 faults | `ConfirmedIsStored`, `NothingUnseenReplaced`, `SealsWhatIsShown`, `EditorComesBack`, `ImplementsTask` | "confirmed" is stored also after a reconcile, no late save replaces what its page had not seen, a submit seals what was shown, the editor comes back |
| `llm_budget` | 3 calls, budget of two reservations, a usage above the estimate, batch 1, with fairness | `RowTellsOutcome`, `ReservationsEnd` | a row tells how its call ended, reservations end |
| `services` | one of: 2 orders, 3 requests, 5 calls; 3 notes, 1 topic, 2 venues, 2 requests, 2 callers, 3 calls; 3 entries, 3 requests, 4 calls; 3 topics of 2 venues, 1 topic per answer, 3 reads, 1 write; 2 words of which one is measured, a limit of 1, 2 sessions, 3 requests | `AllTypesOK`, `OneActiveOrder`, `DoneIsPromoted`, `MembersHaveVenue`, `RequestsActOnce`, `DiaryIsTrue`, `RatedOncePerRun`, `FinishedIsSettled`, `OnlyOneMoves`, `PageFollowsReads` | one order in progress, done means promoted; members keep the venue, a request acts once, a write moves one note; diary numbers are dense, receipts true; reads never take a page back and a loading page has a load; a session rates a word once, and ends with all of them settled and counted |
| `ladder_quota` | 2 words, 1 session, 3 requests | `QuotaCountsOnce` | a violation: one rating is counted twice in the quota of the day (see below) |

Deadlock is checked in every run but four: the requests of `l3_sheets`, `services` and `ladder_quota` run into their bounds, and
the calls of a day (`llm_budget`) come to an end.

`MCServices` puts five components side by side and `MCL3Sheets` two, that share no row and send each other
nothing in what is modelled. To interleave them would multiply their states and show nothing more, so that a behaviour chooses
one at its start and leaves the others as they are; each has the bounds that bring out its own cases. `MCWordRows` does the same with
its three. `MCWorkers` has `OutboxSpec` and
`BudgetSpec`, each with the fairness of its component.

**Why the bounds are enough.** The interleavings that matter are between two requests, or a
request and a worker, on one row: two suffice to overlap. Two events exercise the queue order of the outbox
and both event types; two attempts tell the last attempt from the one before it. Three log
rows hold an answer, an undo with its audit row, or two answers and the undo of the second;
four in the drill add the answer after an undone one. The cascade's windows are two and three
ratings; three standing answers hold a window with an answer before or after it and, with an undo, a collapse and a recovery one after the other. Two
events, on either track, waiting or in work, let a second answer be given while the event of the first waits, an event be
processed late, and each worker hold one of them. A plan of two rounds
has a first and a last one, an exposure round before them in the newer schemes, and a legacy plan to start from; one page has the page
behind it, so that a cursor can be off by one; two plans let a creation meet a plan that is active. (Two pages or a third
request take TLC beyond five minutes; what holds for any of them is proved.) Cards and
words do not share rows, which is why one of each is enough; the bulk statements of `CardState` write several, but
treat each by itself, and what holds of them is proved for any cards and batches. Two batches and a plan let two statements of forgetting
overlap, and each of them the beginning and the end of a plan. Two questions with one key per batch give the exam sheet a
batch that is left while another is under way, which 200 keys per batch would hide; one retry tells the
retried request from the last one. Two loads let the second be answered after an edit that followed the first, or while its save is under way. A device elsewhere saves, seals, submits and discards in one step and
stands for any number of other tabs. Two faults let a save fail and its reconcile too. Three sheets hold
a revision, one made from it and a draft; three calls a reservation that lapses, one that is reaped and
one that starts. Two orders and three requests let an order be cancelled, the next one be marked, and a start that read the
first come late. Three notes give a moved note one before and one after it; one topic is enough, for positions and locks are
per topic, and a second venue is there to be taken away. Three entries give a number that is drawn twice and one after it; answers
of one topic each make a list of three pages, with a cursor that can be overtaken. Two words, one of them measured, give a session
every stage and a dictation after another; three requests let an answer be lost, the word be sent again, and another word follow.

Every property of a passing run is broken by a mutant of the model that a plausible change
of the code would make (a lock left out, an off-by-one, a snapshot taken too late, a lookup
without its lock); these definitions stand next to the ones they replace, under names
like `CardFree_PlainSelect`.

**Fairness.** In `outbox`: time passes (leases lapse, retries become
available), a dead worker is restarted by its service manager (`compose.production.yaml`),
a live worker goes on with its loop (weak fairness), and it is not killed for ever just
before recovery or claim (strong fairness, for crashes are not bounded). Nothing is assumed
about effects succeeding or leases lasting. In `exam_sheet` and `writing_draft`: timers fire, an answer that
arrived is processed, and a request that is waited for is handled unless a fault ends the wait
(`browserRequest` gives up after 20 s, so every wait ends); nothing is assumed about users, nor about
requests nobody waits for. In `llm_budget`: providers answer or time out, what follows an answer is done or fails,
`expires_at` passes, and the reaper is kept running (`scripts/run-llm-reservation-reaper.ts`); no heartbeat
and no outcome is assumed.

### Where code and documents differ

All of this was met while modelling: the modules take the steps as the code does, so that a property stating the words
of the comment would fail. Three runs state such a property, `exam_saved`, `exam_flush` and `ladder_quota`, and find it violated.

On the first two tracks:

* The statement that forgets a wordbook is said to log the state *before the update*
  (`repositories/review.repository.ts:1092-1094`). It logs the state of the statement's snapshot; an answer that
  commits in between is overwritten and the log keeps the state before it. So does a suspension: of two batches, or of a batch and a plan, that
  overlap on a card, both keep the state from before either, and restoring one lifts the suspension of the other. `restoreBulkForget` asks
  nothing of the state a card has by then and may be repeated (line 1144 promises no more).
* Pausing a paused row is said to be a no-op and manual pauses to be left alone
  (`services/cross-track.service.ts:12-13,114`). `pause` has no such condition, and turns a manual pause into one
  that a recovery of L1 lifts.
* The loser of two concurrent creations of a plan is said to get the existing one
  (`services/hulu-plan.service.ts:246`). Its transaction is aborted by the unique violation, and the query in the catch
  branch fails. The same pattern is in `promoteWithSeed`, in the work orders' `mark` and in the creation of a
  writing task (`services/l3-writing-task.service.ts:276-280`).
* The payload that an undo of a drill answer leaves behind is said to be rebuilt by the next answer
  (`repositories/l2-progress.repository.ts:614`). Only an unusable payload is rebuilt, and this one is usable.
* A pending drill step is said to be free to delete as its user has not answered
  (`services/l2-drill.service.ts:429`). It was read without a lock, and may have been answered since. An undo that only
  deleted such a step does not record its key, so that its retry takes back the step before.
* The end of a sprint lifts every suspension of a card it keeps, also one that was made during the plan: by a forgetting
  that overlapped its beginning, or by hand, if an old queue or
  a second device offers the card (design document of the sprint, line 376). The fingerprint of an exposure
  round misses a page settled while the round is being finished (`0051`, line 11). A legacy plan whose last
  legacy round was open is never completed, only abandoned.
* Undo of an L1 answer drops a weak signal raised since, and does not restore the ladder rung; a drill
  answer given in another session is overwritten by the undo of an older one.
* The states of a work order are drawn as one way (`repositories/upgrade-work-order.repository.ts:7`), and cancelling is said to refuse a
  completed order (`services/upgrade-work-order.service.ts:290`). Its status is read without a lock and written without a condition
  (`repositories/upgrade-work-order.repository.ts:103`): a start that read it as marked revives an order cancelled since, and a cancel that
  overlaps a completion turns a done order into a cancelled one. What is done was promoted all the same (`DoneIsPromoted`).

On the diary and study notes:

* Absorbed and archived are said to be final (`src/domain/daily-capture.ts:163`). `patchEntry` tests the status it read without
  a lock, and `updateEntryFields` writes without a condition (`services/daily-capture.service.ts:270`): a review writes "reviewed" over
  them, and the entry can be absorbed once more.
* The context of a capture is said to be best effort: its failure is swallowed and the capture stays (`services/capture.service.ts:15-16`). The
  catch (line 147) is inside the transaction and without a savepoint: after an SQL error the COMMIT is a ROLLBACK that
  the driver does not report, and the capture is answered ok without the word.
* A repeated adoption is said to end idempotently (`services/daily-capture.service.ts:477`). By then it has written its source, context and
  occurrence, or its card, and commits them. The cap of visible types is counted without a lock (line 512).
* A load is said to replace the local list by that of its venue (`src/tests/frontend/study-note-topics.test.ts:72`). A creation confirmed
  meanwhile makes the load outdated, and `settleSupersededLoad` (`src/frontend/state/studyTopicCoordinator.ts:182`) ends it as ready: the
  page shows the list of the venue it was on before.
* A topic that was refused is said to be refused until a refresh (`studyTopicCoordinator.ts:8-9`). There is room for one
  (line 301), so that a second refusal frees the first; a load answered before the refusal clears the conflict with the version that was
  refused (lines 158-159); and a conflict on a topic of a later page is not cleared by a load. A write whose answer was lost is
  sent again under a new request id and refused as if somebody else had written.
* A late confirmation of a write or of a creation may put back an older version than a load has brought. The key of a creation is
  kept for the last title only (line 375), so that a title tried in between makes the retry of the first a second topic.
* Two saves of notes that refer to each other wait for each other's row (`repositories/l3-study-references.repository.ts:383`), until
  PostgreSQL ends one.

On the ladder session:

* A repeated answer is said not to be counted again, because the settled words are rebuilt from the cached rows
  (`LadderReviewSession.tsx:254-255`). The button that leaves the session (line 814) stays enabled during a request. Its answer then
  counts (line 580), but its row is set on a component that is gone and never cached: continued, the session does the word
  again, and the quota of the day grows twice for one rating. This is `QuotaCountsOnce`.
* The keys kept apart are said to serve across sessions (comment near line 306). A new session does not read them; but when it is
  reloaded before its first request they come back with the cache, and the first answer to a word of the former session is taken
  for a repetition: it is shown as settled and not scheduled.
* After a lost answer the meaning of a word of rung 3 is not asked (the repetition takes another branch), against line 12 of the file.

On budget and cache:

* A reservation is said to check the usage and insert atomically, "so concurrent processes cannot all pass"
  (`src/llm/usage-tracker.ts:10-13`; likewise `services/l2-content.service.ts:589-590`). The advisory lock is taken by a CTE of the very
  statement that adds up the usage (`repositories/llm-usage.repository.ts:46`). Under READ COMMITTED the snapshot of that statement
  is older than its wait for the lock: the sum misses the reservation committed meanwhile, and both pass.
* The cache of the plaza is said to be invalidated by captures (`services/plaza-cache.ts:9-10`); only the import and the batch
  creation of words do it (`services/vocab-import.service.ts:161`, `services/word.service.ts:124`). A load begun before a write may store
  its value after the invalidation.

On exam sheets and writing:

* A time-out is said to be retried (`src/frontend/state/examSheetSaveController.ts:131`), but `browserRequest.ts:119` gives
  it the status 0, which neither controller retries nor reconciles.
* A save whose answer was lost is retried with its old version and refused, so that the tab reports its own
  write as a conflict.
* The baseline is said to be there before editing is allowed
  (`L3ExamPaper.tsx:1522`), but `commitAnswer` (line 1832) accepts answers while `openSheet` is under way: one given and taken back by
  then is saved as empty while the page shows what the sheet had. The button that loads the version of
  the server is not disabled while a load is under way: the answer of a second one replaces, in the page only, what was typed after the first
  and is being saved. In both cases the page says "saved" and shows, of that question, an answer that is not stored, and a seal
  makes an attempt of what is not shown. This is `SavedIsShown`; `SavedIsStored` and `SealedIsSeen` are about every other question (`astray`).
* A flush is said to be decidable also in a page that is read-only (`L3ExamPaper.tsx:1532`), and the barrier before leaving to let go or to
  refuse (lines 1766-1768). When a load finds the sheet sealed elsewhere it freezes the controller; a flush that waits for
  the save in flight is then neither resolved nor rejected, for the `finally` of `runPipeline` (`examSheetSaveController.ts:369`) resolves
  only when it is not frozen. The barrier stays, and a seal that waits keeps its lock. This is `FlushDecides`.
* The deletion of a question is said to be decided without a window (`services/l3-paper.service.ts:772`). A seal or grading
  that commits between the counts and the DELETE is cascaded away; `updateQuestion` counts likewise, and never
  counts answers of a draft.
* A confirmed note is said never to go back (`services/l3-grading.service.ts:9-10`). The stage that a grading writes was
  computed from its read, so that it takes back a confirmation made in between; and a note withdrawn and
  submitted again meanwhile gets the review of its former content.
* A note created or withdrawn into a draft while that sheet is being sealed stays a draft note of a
  settled sheet, which nothing promotes any more.
* A submit of a writing sheet that another device has sealed is answered 200 with the other text
  (`components/writing/WritingEditor.tsx:117`). After an error a debounce that was still pending sends once more.

## 4. What is proved

`WorkersProofs` holds about the outbox, with TLAPS, for any finite set of events and any workers, allowance and batch size:

| theorem | statement |
|---|---|
| `TypeCorrect` | `Spec => []TypeOK` |
| `ExactlyOnce` | `Spec => []EffectsExactlyOnce` |
| `RowHeld` | `Spec => []RowHeldWhileApplying` |
| `AttemptsBounded` | `Spec => []AttemptsWithinAllowance` |
| `LeaseRespected` | `Spec => LeaseProtectsAttempt` |
| `Refinement` | `Spec => ImplementsLedger` |

Assumptions: `OutboxAssumption` (events are finitely many, allowance and batch size are
positive, the null values are not members).

The argument is one inductive invariant, `Inv`. The four safety properties are not inductive
with the types alone, and `Inv` adds three facts. `HandsFull`: a worker that processes has an event in hand.
`ReadyIsWaiting`: the queue lists waiting rows, each once, so that a claim never takes a row somebody
works on. `ReceiptsWithStatus`: an event has its receipts exactly while it is processed. The last
carries exactly-once: a commit comes from a row in processing, which therefore has neither
receipts nor counted effects, applies all of them and makes the row processed at once; and
`RowHeldWhileApplying` holds because recovery waits for the row lock (`RecoveryMayRun`) and every
other writer needs a status the row does not have. There is one step per action, under it one per
conjunct the action can disturb. `LeaseRespected` and `Refinement` follow from the invariant step by
step; in the refinement every step of the outbox is a step of the ledger or leaves its view as it
is. One result of doing it: receipts are never what prevents a double effect, since the
status commits with them; they are a second line of defence.

`ReviewTrackProofs` holds, for any cards, sessions, keys, requests and bound on the log:

| theorem | statement |
|---|---|
| `ReviewTypes` | `Spec => []TypeOK` |
| `ReviewSchedules` | `Spec => []ScheduleFollowsAnswers` |
| `ReviewSnapshots` | `Spec => []SnapshotsChain` |
| `ReviewReads` | `Spec => []ReadsStayCurrent` |
| `ReviewKeys` | `Spec => []KeyTakesEffectOnce` |
| `ReviewSessionsClose` | `Spec => SessionsClose` |
| `ReviewAnswersLiveCards` | `Spec => OnlyLiveCardsAnswered` |
| `ReviewCommits` | `Spec => CommitsAreCurrent` |
| `ReviewRefinement` | `Spec => ImplementsAnswerStack` |

Assumptions: `ReviewAssumption` (the null values of session, key and card are not members, the
bound is a number). They matter most here, since a run has one session and one key only.

The inductive invariant has three layers, each preserved with the help of those before it.
`Types` adds to `TypeOK` what a transaction may look like at each of its steps (`TxShape`), above all
that an undo names a log row of its own card. `Locks` says that no two transactions hold a card
(`CardLocks`), that a key belongs to one open transaction and is then not in the log (`KeyLocks`), that a
locked session is open (`SessionLocks`), and `ReadsStayCurrent`: a commit writes only the card its
transaction holds, so what the others read stays true. `Data` holds the properties of rows and log.
`ScheduleFollowsAnswers` is not inductive without `SnapshotsChain`, for an undo writes a snapshot back;
neither is inductive over cards that exist alone, for a card is blank before it is enqueued
(`Sound`); and the refinement needs `SnapshotsAreActive`, that an undo never suspends or removes the
card it restores. Steps that only read and lock (`Reading`), commits (`Committing`) and one-statement writers
(`OneStatement`) each have one lemma per layer.

`CommitsAreCurrent`, which the run checks, is the conjunction of `SessionsClose` and `OnlyLiveCardsAnswered`, and
`ReviewCommits` puts their theorems together.

`L3SheetsProofs` holds, about `WritingTask`, for any sheets, texts, keys and bound on versions:

| theorem | statement |
|---|---|
| `WritingTypes` | `Spec => []TypeOK` |
| `NumbersInOrder` | `Spec => []RevisionsAreNumbered` |
| `FeedbackOnItsText` | `Spec => []FeedbackBindsContent` |
| `AtMostOneDraft` | `Spec => []OneOpenDraft` |
| `RevisionsStay` | `Spec => RevisionsAreFinal` |

Assumptions: `WritingTaskAssumption` (the null values are not members). The invariant is the conjunction of
the first four with two facts more: that the numbers given so far have a greatest one (`HasHighest`; `NextNo`
takes it with CHOOSE, and nothing says that the sheets are finitely many), and that a draft is made from a
revision (`DraftParents`), which has its number by then. `NextNoIsNext` gets from it that `NextNo` is
new and one above some revision, which is what a submit needs. No number is left out because revisions are never removed
(`SealedGrows`): clearing a text keeps its row. `FeedbackBindsContent` needs that a text is in the draft or in
the attempt, never in both.

And about `ExamArchive`, for any questions, sheets, notes and transactions:

| theorem | statement |
|---|---|
| `GradedCorrect` | `Exam!Spec => []GradedHasAttempt` |
| `SealsCorrect` | `Exam!Spec => SealKeepsAnswers` |
| `AgentsCorrect` | `Exam!Spec => AgentLeavesActiveAlone` |

All three are about what a transaction read and what is there when it writes, without a lock in between. The invariant (`Inv`,
theorem `InvHolds`) says how much of a read stays true: a grader saw an attempt, which only goes with its question
(`GradersSawAttempts`); a seal has the answers of its version as long as the version stands, and its scope holds every answered
question that still exists (`SealsAreCurrent`); answers are of questions in the scope of their sheet (`AnswersAreScoped`).
`Onward` states once what any writer may do to the rows, and each read is shown to survive it.

`ExamSheetProofs` holds, for any tabs, any finite set of questions, any answers, batch size, retries and faults, from
`ExamSheetAssumption`:

| theorem | statement |
|---|---|
| `SheetInvariant` | `Spec => []SheetInv` |
| `SavedStored` | `Spec => []SavedIsStored` |
| `SealedSeen` | `Spec => SealedIsSeen` |

No bound of the run is assumed: answers may be given before there is a sheet, and any number of loads may be under way.

The invariant, `SheetInv`, says four things. Of the store (`Store`): one sheet at most is a draft, and a version has one set of
answers. Of a page (`PageSound`): before it has a sheet it shows what was typed (`Early`); a draft shows, for every question that is not
open, the answer stored under its version (`DraftSound`); and a page that is frozen has nothing to save, of a sheet that is no draft any
more (`Over`). Open (`Open`) are the questions that are dirty, whose save is to come, and those astray. Of a request (`Sound`): it was made
from a version there was, and an answer on its way tells what
the sheet was at some version (`RowTrue`), so that it is right about the present one if that version still stands. Of both
(`Fits`): the page waits for one request at most besides loads (`OneAwaited`), and a save, sent or held for its retry, carries questions that are open still
and was made from the version of the page, unless a load replaced that one, and then every question is astray (`Carries`). When it is
accepted, the sheet has what it carried and else what the page shows, but for what is open (`Stored`); so whatever is confirmed closes
only what is stored, and the seal, which is sent when nothing is dirty, finds all it shows. Steps are sorted by what they touch: the page
alone (`PageStep`), rows that are only read (`ReplyStep`), rows
that are written (`StoreStep`), where `Evolves` says once what any writer may do and each fact about versions is shown to
survive it. `takeBatch` takes the keys that were typed first, and leaves none that is older than one it took (`BatchIsLow`); that the
numbers it orders have a largest one (`MaxIs`) is shown like the sum of the budget, along strict subsets.

`WritingDraftProofs` holds, for any texts, retries, edits and faults, from `WritingDraftAssumption`:

| theorem | statement |
|---|---|
| `Confirms` | `Spec => []ConfirmedIsStored` |
| `NothingUnseen` | `Spec => NothingUnseenReplaced` |
| `SealsTheShown` | `Spec => SealsWhatIsShown` |
| `DraftRefinement` | `Spec => ImplementsTask` |

The invariant, `DraftInv`, ties page, wire and server together by versions. The row is its last version (`RowIsLast`). Every message
was made from a version and the text of that version (`Sound`), so that a save the server takes replaces the text its page had
seen, however late it comes; an answer carries a row that was stored. The request a page waits for fits what the page does (`Fits`):
there is one at most (`OneAwaited`), and its text is the page's unless a newer one was typed. Then "saved" is said only of what is
stored. Page steps are grouped by what becomes of the request (`Rests`, `Sends`, `Waits`), steps of the server by what becomes of the
row (`Onward`, `StoreOnward`, `SealOnward`, `DiscardOnward`). The refinement needs one fact more, that versions are not more than
edits (`VersionsAreEdits`): a save is owed to an edit of its own, which bounds the versions of the task by `MaxEdits`.

`WorkersProofs` holds about the budget, for any finite number of calls, any budget, any usage and any batch of the reaper, from
`LlmAssumption`:

| theorem | statement |
|---|---|
| `OutcomeOfCalls` | `Llm!Spec => []RowTellsOutcome` |

The invariant adds that until its outcome is written the
reservation of a call in flight is pending or expired (`InFlight`), that is, that only the reaper can have taken it:
then a settlement, which accepts both, always finds its row.
The types, which the property has as its first conjunct, need that the usage of a day is a number, and it is the sum over a set of rows, taken by a fold. `SumIsNat` shows it
without induction over data: the recursion of the fold is solved along the strict subsets of the set, which are well founded
when it is finite, and a set with no number for its sum and no smaller one like it cannot be.

`ServicesProofs` has six parts, one for each component and one for their types together. Work orders, for any orders, requests and bound on calls, from `UpgradeAssumption`:

| theorem | statement |
|---|---|
| `UpgradeTypes` | `OrderSpec => []OrderTypeOK` |
| `OneActive` | `OrderSpec => []OneActiveOrder` |
| `PromotedWhenDone` | `OrderSpec => []DoneIsPromoted` |
| `SeedsLogged` | `OrderSpec => []SeedsAreLogged` |

The invariant adds what a request that is elsewhere in its work knows: that a request about to close an order has seen its word
promoted (`ClosersSawPromotion`), which stays true because nothing takes an L2 row away, and that a request at work has an order
(`BusyWithOrder`).

The shelf of study notes, for finitely many notes and any topics, venues, requests, callers and bounds, from `ShelfAssumption`:

| theorem | statement |
|---|---|
| `Belonging` | `Spec => []MembersHaveVenue` |
| `OncePerRequest` | `Spec => []RequestsActOnce` |
| `OneMoves` | `Spec => OnlyOneMoves` |

`MembersHaveVenue` is between a transaction that holds topic and note and one that holds the note and has only looked at the topics. The
invariant says that rows are locked once (`TopicsLockedOnce`, `NotesLockedOnce`), that the version under a lock is the one the
request was made from (`HeldIsCurrent`), that a mover's note has the venue (`JoinersBelong`), and that a saver's new
venues still serve every topic the note is in (`SaversKeepTopics`): nobody can join the note to another topic meanwhile, for
that needs the lock of the note. For `RequestsActOnce` it says that a request that took effect is past: the row it asked for has a greater version than
it expects (`DoneIsPast`), so that neither the memory of the last request nor its loss matters. `OneMoves` needs that the positions in
a topic are always 1 to n, each taken once (`Numbered`): `Removal` and `Insertion` show of any numbering that closing a gap and opening one
keep it and the order of all others, and the code's renumbering is both.

The diary, for finitely many entries, any requests and any number of calls: `DiaryTrue` (`Diary!Spec => []DiaryIsTrue`). The invariant adds that a
number a request has drawn is at most one above the entries there are (`DrawnInReach`): numbers are drawn without a lock, and the unique index turns
away the second of two; the first fills the gap, so that numbers stay dense.

The ladder session, for finitely many words, any measured ones, any limit and any bounds: `RatedOnce` (`Ladder!Spec => []RatedOncePerRun`) and
`SettledAtTheEnd` (`Ladder!Spec => []FinishedIsSettled`). `KeysInv` is about keys: a run uses one key for a word and a key is of one word, which the
browser's storage still has when the page is left and mounted again. `SessionInv` is about the session: what the page shows is cached
(`PageIsCached`), the answer it waits for is of the dictation it stands at (`AnswerIsCurrent`), what lies behind its place is settled (`Sound`), under
the key that is stored (`Rated`), and counted.

The page of topics, for finitely many topics, any venues, page size and number of reads and writes, from `BoardAssumption`:
`ShownFollowsReads` (`Board!Spec => PageFollowsReads`). The property is about three orders at once, in which the server writes, in
which it answers, and in which answers arrive. The invariant (`BoardInv`) says that whatever is shown, read or confirmed was stored and
is not newer than the row (`ShownIsStored`, `ReadsSound`); that a read that still counts is of the venue the page is on; that one load
counts at most (`OneLoadCounts`); and that a cursor is of the past (`Past`). The part that carries the theorem is `LoadIsNewest`:
of the topics it brings, a load that was answered and still counts has no older version than what is shown or was read, nor than what lies
behind a cursor and will be read from there. What would make it older, above all a confirmed write, makes the load outdated, which is why
`load` may replace the list without looking at versions. A continuation only adds topics that are not shown. That an answer has a last topic, and the
server a latest moment, holds because the topics are finitely many (`Extremes`, along strict subsets again).

The types of the five together: `AllTypes` (`ServicesSpec => []AllTypesOK`), from the assumptions above and `BoundsAssumption`. `AllTypesOK`
includes the bounds of counters, which are the bounds of the model and not of the code; what the proof shows is that each
counter is accounted for. A version of a row grows once per call, and who holds the lock to write it has made his call already
(`ShelfReach`); the cards a request is about to bind and those bound are no more than the calls (`DiaryReach`); the count of the day
and the requests under way are no more than the requests made (`LadderReach`). `ServicesStep` puts the five invariants together:
the service that runs makes a step of its own and the others stutter.

`WordRowsProofs` has three parts. The drill, for any words, sessions, keys, open requests and bounds, from `L2DrillAssumption`:

| theorem | statement |
|---|---|
| `AnswersOnce` | `Spec => []AnswersRateOnce` |
| `ScheduleMoves` | `Spec => ScheduleMovesWithLog` |

The invariant (`DrillInv`) says what the locks are for: a submit that holds a step has read it as it is, pending (`HeldStep`), nobody else holds it
(`OneHolder`), a row that is held is not paused (`HeldRow`), the answer an undo holds stands (`HeldLog`). No key is used twice, by open requests or
in the log (`OpenKeysDiffer`). A queue may rebuild a step that was deleted; it is younger than any rating in the log (`BornInReach`, `PendingIsFresh`),
which is why a step rates once though its place in the session may do so again. `GoesOn` is shown once for every request that ends, `ReadsOn` for every
one that reads on.

The state column, for any cards and batches and any overlap of the bulk statements, from `CardStateAssumption`
(the null values are not members, and no batch has the name of another cause of a suspension):

| theorem | statement |
|---|---|
| `GivenBack` | `L1!Spec => []SuspensionsAreRecorded` |
| `WorkKept` | `L1!Spec => GivingBackKeepsWork` |

The invariant (`StateInv`) adds what is true while a statement is under way. A batch that is being forgotten is still empty, so that nobody was
suspended by it before, and a plan that is being made is not active, while one that is ending is (`RunsOnce`): then the record a statement writes
holds whoever it suspends, whatever the others suspended or gave back since it read. The end of a plan has read every card the plan suspended
that is suspended still, and of each card the state the plan keeps (`EndReadsAll`): a card that becomes suspended after the read was
suspended by somebody else, so that none is left suspended by a plan that has ended.

What the tracks do to each other, for any workers, answers and events:

| theorem | statement |
|---|---|
| `Converges` | `Cross!Spec => []TracksConverge` |
| `PausesCurrent` | `Cross!Spec => PausesFollowCurrentRatings` |

The invariant adds one fact to the property, `ReadsAreCurrent`: a worker that is busy with an L1 event has read the ratings there are, because
it holds the row every writer of them waits for. Then the order of the events does not matter: the last one that is applied sees the latest ratings, and
as long as one is left the property asks for nothing.

`HuluPlanProofs` holds, for any plans, requests, numbers of rounds and of pages, from `HuluAssumption`:

| theorem | statement |
|---|---|
| `RoundsApart` | `Spec => []RoundsNeverClash` |
| `SprintsKept` | `Spec => ImplementsSprintLedger` |

Nothing but the lock of the plan row stands behind them, and the invariant says how. `PlanSound` is about a plan and its rounds: they are
numbered 1, 2, ... without a gap, with round 0, if any, before them; one is open at most; a page that was passed was settled; and an ended
recall round has passed all pages. `RequestSound` is about a transaction: the plan it locked still is what it read, a start still
sees no open round, a finish still may finish. `Exclusive` makes that inductive: two transactions do not hold a plan, and the
partial index lets one insert through. Settlements take no lock, but they neither end a round nor take back a page. So
the number of a new round is always the count plus one (`Counting`), which no other round has, and the last round of a plan can end
only when all the others have. In the refinement, creation, the end of a round and the ends of a plan are steps of the ledger; starts
and settlements are invisible.

**Only model-checked**: liveness (`EventuallySettled`, `FlushSettles`, `EditorComesBack`, `ReservationsEnd`), for fairness and
ENABLED are out of the prover's reach, and `SavedIsShown`, `FlushDecides` and `QuotaCountsOnce`, which fail. Every other property of the runs is a theorem. The theorems
about components of `MCServices`, `MCL3Sheets`, `MCWordRows` and `MCWorkers` are about the specification of the component (`Board!Spec`,
...), of which the run checks the behaviours that leave the others as they are.

## 5. Assumptions and what is left out

* `reviewed_at` grows with the order of commits on a card. It is written by application servers;
  with clocks apart, undo could take another answer for the latest.
* `created_at` of drill steps is the start of their transaction and taken to be in the order of commits.
* Submit locks the card and then the session, undo the session and then the card. The cycle is in
  the model and left by `Abort`, as PostgreSQL leaves it.
* FSRS arithmetic, ladder rungs, queue order, gates, elapsed times, payload formats, wording and
  row-level security are left out; where a result of them matters it is a nondeterministic choice.
* A page behind the last of a plan may be settled in the code without end; the model lets one in.

* One scope of exam sheets, a file, is taken; papers, whose question list is realigned at reopening, proposals and
  exports are left out. `MAX_BATCH_KEYS` and `MAX_AUTO_RETRIES` are constants, smaller in the run than in the code.
* `MaxLoads` bounds the loads of the version of the server that a tab has under way in a run; the page has no bound. What a page shows of a
  sheet that is settled (the attempts it derives) is not modelled, nor export, which flushes like a seal does.
* Compositions in an input method only make a debounce longer; the lists, the settings and the prompt of a
  writing task, sharing and exports are left out.
* The budget is that of one day. The semaphore of calls in flight, the purge of old rows and the trigger
  that serves processes of the former release are left out.

* Of work orders, directions, suggestions and the arithmetic of seeds; of the diary, the registry of types, the text and the
  proposals; of study notes, titles, bodies, references, search and export, and the editor of a note in the browser.
* The limit of members of a topic is as large as the notes of the run, so that it is never met there.
* Of the ladder session, one page is open at a time; ratings, hints, new words (a card and a copy like others), the repair of neighbouring
  visits of a word and the 24 hours after which its caches lapse are left out.

Not modelled: the parts `PROJECT.json` lists with status `not_modelled`, each with its reason.

## 6. Plan

Done: the outbox with its ledger, the L1 track with its stack; card state, cross track and drill; sprint plans with their
ledger; exam sheets from the page to the archive; writing from the page to the task; the token budget; work orders and the shelf of study
notes; the diary; the page of topics; the ladder session. All of them have proofs. The order was by what a user
would lose: answers first, then the effects of answers, then what overlays them, then the texts of L3.

Next, in this order:

1. `StudyNote`: the third save controller, which creates by request id and saves by version, with the two
   barriers of a paper (`sheetLeaveBarrier.ts`).
2. `ReviewSession`: the session of the day under its advisory lock, composed with `ReviewTrack`.
3. Pure algorithms as operators against reference definitions: queue order, ladder rung, page gate.
4. The plaza cache, login windows.

Of the proofs, a refinement of `ExamSheet` comes next: the page and the requests of one sheet against the seal of `ExamArchive`, as
`WritingDraft` is shown to implement `WritingTask`.
