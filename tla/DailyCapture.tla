------------------------------ MODULE DailyCapture ------------------------------
(***************************************************************************)
(* A word is captured with its sentence, which also notes it in the diary  *)
(* of the day; entries of the diary are reviewed, and absorbed by what an  *)
(* agent proposed: the sentence bound to the word, a review card, or no    *)
(* more than a receipt.  Here one word, one sentence and one day.          *)
(*                                                                         *)
(* An error inside a transaction aborts it: a COMMIT after it rolls back   *)
(* and reports no error to the driver.  An absorption reads its entry      *)
(* without a lock, does its work, and then closes the entry if it is open. *)
(* The registry of types, notes and the text of the diary are left out.    *)
(***************************************************************************)
EXTENDS Naturals, FiniteSets, FiniteSetsExt

CONSTANTS
  Entries,    \* ids of entries
  Requests,   \* requests that may overlap
  SeqRetryLimit,
  MaxCalls    \* bound: calls made

VARIABLES
  inBook,    \* the word is in the wordbook
  bound,     \* contexts that bind the sentence to the word
  cards,     \* review cards of the word
  entry,     \* daily_capture_entries: number (0 without a row), status, receipts
  req,       \* per request: where it is, and what it has done and read
  calls

vars == <<inBook, bound, cards, entry, req, calls>>

Final == {"absorbed", "archived"}
Actions == {"bind_l3", "add_word", "enqueue_review", "file_method", "none"}
Receipts == [action : Actions, deduped : BOOLEAN]

Row == [seq : Nat, status : {"raw", "reviewed"} \cup Final, receipts : SUBSET Receipts]
NoRow == [seq |-> 0, status |-> "raw", receipts |-> {}]
Free == [at |-> "free"]

Rows == {e \in Entries : entry[e].seq # 0}
Numbers == {entry[e].seq : e \in Rows}

Init ==
  /\ inBook = FALSE /\ bound = 0 /\ cards = 0
  /\ entry = [e \in Entries |-> NoRow]
  /\ req = [r \in Requests |-> Free]
  /\ calls = 0

Begins(r) == req[r].at = "free" /\ calls < MaxCalls /\ calls' = calls + 1
Goes(r, rec) == req' = [req EXCEPT ![r] = rec]

-----------------------------------------------------------------------------
(* Capture: the word into the book and its sentence bound, one transaction *)
(* the sentence of which may fail; then the diary.                         *)

(* What is left of the transaction when the sentence failed.               *)
KeptBook(failed) == IF failed THEN inBook ELSE TRUE

Capture(r) ==
  /\ Begins(r)
  /\ \E failed \in BOOLEAN :
       /\ inBook' = KeptBook(failed)
       /\ bound' = IF failed THEN bound ELSE bound + 1
  /\ Goes(r, [at |-> "captured", attempt |-> 0])
  /\ UNCHANGED <<cards, entry>>

-----------------------------------------------------------------------------
(* appendEntry: by its own call, or after a capture                        *)

(* The snapshot of INSERT .. SELECT max(seq) + 1.                          *)
NextSeq == Max(Numbers \cup {0}) + 1

AppendBegin(r) ==
  /\ \/ Begins(r) /\ Goes(r, [at |-> "append", attempt |-> 0, seq |-> NextSeq])
     \/ /\ req[r].at = "captured"
        /\ Goes(r, [at |-> "append", attempt |-> req[r].attempt, seq |-> NextSeq])
        /\ UNCHANGED calls
  /\ UNCHANGED <<inBook, bound, cards, entry>>

(* daily_capture_entries_day_seq_unique.                                   *)
Taken_Unindexed(seq) == FALSE
Taken(seq) == seq \in Numbers

MayRetry(attempt) == attempt < SeqRetryLimit - 1

(* An id is drawn at random; the ones of the model are given out in turn.  *)
NewId == CHOOSE e \in Entries : e \notin Rows

(* The transaction is begun again after the unique violation.              *)
AppendEnd(r) ==
  /\ req[r].at = "append"
  /\ IF Taken(req[r].seq)
       THEN /\ UNCHANGED entry
            /\ Goes(r, IF MayRetry(req[r].attempt)
                         THEN [at |-> "captured", attempt |-> req[r].attempt + 1] ELSE Free)
       ELSE /\ Rows # Entries
            /\ entry' = [entry EXCEPT ![NewId] = [NoRow EXCEPT !.seq = req[r].seq]]
            /\ Goes(r, Free)
  /\ UNCHANGED <<inBook, bound, cards, calls>>

-----------------------------------------------------------------------------
(* patchEntry *)

(* A status may be set again: the write then repeats what was read.       *)
Transitions == [raw |-> {"raw", "reviewed", "archived"}, reviewed |-> {"reviewed"} \cup Final,
                absorbed |-> {"absorbed"}, archived |-> {"archived"}]

PatchRead(r, e, s) ==
  /\ Begins(r)
  /\ e \in Rows /\ s \in Transitions[entry[e].status]
  /\ Goes(r, [at |-> "patch", entry |-> e, status |-> s])
  /\ UNCHANGED <<inBook, bound, cards, entry>>

(* updateEntryFields: no condition on the status.                          *)
PatchWrite(r) ==
  /\ req[r].at = "patch"
  /\ entry' = [entry EXCEPT ![req[r].entry].status = req[r].status]
  /\ Goes(r, Free)
  /\ UNCHANGED <<inBook, bound, cards, calls>>

-----------------------------------------------------------------------------
(* absorbEntry *)

(* findWordContextIdByText, without a lock.                                *)
AbsorbRead(r, e, a) ==
  /\ Begins(r)
  /\ e \in Rows /\ entry[e].status \notin Final
  /\ Goes(r, [at |-> "absorb", entry |-> e, action |-> a, found |-> bound > 0])
  /\ UNCHANGED <<inBook, bound, cards, entry>>

(* insertNewCard: ON CONFLICT DO NOTHING.                                  *)
NewCards(r) == IF cards = 0 THEN 1 ELSE 0

Outcome(r) ==
  [action |-> req[r].action,
   deduped |-> CASE req[r].action = "bind_l3" -> req[r].found
                 [] req[r].action = "enqueue_review" -> NewCards(r) = 0
                 [] OTHER -> FALSE]

(* appendAbsorption: only an open entry.                                   *)
Absorbable(e) == entry[e].status \notin Final

(* What an entry that was closed meanwhile makes of the rest: the answer   *)
(* says deduped, and the transaction commits what it has written.          *)
AbsorbWrite(r) ==
  LET e == req[r].entry IN
  /\ req[r].at = "absorb"
  /\ bound' = IF req[r].action = "bind_l3" /\ ~req[r].found THEN bound + 1 ELSE bound
  /\ cards' = IF req[r].action = "enqueue_review" THEN cards + NewCards(r) ELSE cards
  /\ entry' = IF Absorbable(e)
                THEN [entry EXCEPT ![e].receipts = @ \cup {Outcome(r)},
                                   ![e].status = IF req[r].action = "none" THEN "archived" ELSE "absorbed"]
                ELSE entry
  /\ inBook' = (inBook \/ req[r].action = "add_word")
  /\ Goes(r, Free)
  /\ UNCHANGED calls

-----------------------------------------------------------------------------

(* The connection is lost, or the process ends.                            *)
Dies(r) ==
  /\ req[r].at # "free"
  /\ Goes(r, Free)
  /\ UNCHANGED <<inBook, bound, cards, entry, calls>>

Step(r) ==
  \/ Capture(r) \/ AppendBegin(r) \/ AppendEnd(r)
  \/ \E e \in Entries :
       \/ \E s \in {"raw", "reviewed"} \cup Final : PatchRead(r, e, s)
       \/ \E a \in Actions : AbsorbRead(r, e, a)
  \/ PatchWrite(r) \/ AbsorbWrite(r) \/ Dies(r)

Next == \E r \in Requests : Step(r)

Spec == Init /\ [][Next]_vars
-----------------------------------------------------------------------------

Requesting ==
  {Free}
  \cup [at : {"captured"}, attempt : 0..SeqRetryLimit - 1]
  \cup [at : {"append"}, attempt : 0..SeqRetryLimit - 1, seq : 1..Cardinality(Entries) + 1]
  \cup [at : {"patch"}, entry : Entries, status : {"raw", "reviewed"} \cup Final]
  \cup [at : {"absorb"}, entry : Entries, action : Actions, found : BOOLEAN]

(* Rows and requests have their types, and a word has one review card.     *)
TypeOK ==
  /\ inBook \in BOOLEAN /\ bound \in 0..MaxCalls /\ cards \in 0..1
  /\ entry \in [Entries -> Row]
  /\ req \in [Requests -> Requesting]
  /\ calls \in 0..MaxCalls

(* The entries of a day are numbered 1, 2, ... without a gap or a double,  *)
(* though requests draw the same number and begin again: [#seq] is what    *)
(* proposals and receipts refer to (daily-capture.service.ts:93-123).      *)
DenseNumbers == Numbers = 1..Cardinality(Rows)

(* Receipts tell what was done: what one says was made is there, and not   *)
(* two of them made the one card.                                          *)
Makers(a) == {e \in Entries : [action |-> a, deduped |-> FALSE] \in entry[e].receipts}
ReceiptsAreTrue ==
  /\ Cardinality(Makers("bind_l3")) <= bound
  /\ Cardinality(Makers("enqueue_review")) <= cards
  /\ Makers("add_word") # {} => inBook

(* What the numbers of the diary and its receipts tell is true.            *)
DiaryIsTrue == DenseNumbers /\ ReceiptsAreTrue
=============================================================================
