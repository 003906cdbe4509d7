------------------------------- MODULE MCServices -------------------------------
(***************************************************************************)
(* Five components that share no rows and send each other nothing: work     *)
(* orders, the shelf of study notes, the diary, the page of topics and the  *)
(* ladder session.                                                          *)
(* Interleaving them would only multiply their states, so a behaviour runs  *)
(* one of them, chosen at the start, and leaves the others blank.           *)
(***************************************************************************)
EXTENDS UpgradeOrder, StudyShelf, TLC

CONSTANTS
  Entries, Writers, SeqRetryLimit, MaxDiaryCalls,
  BoardTopics, NoVenue, NoTopic, PageSize, MaxReads, MaxWrites,
  t1, t3, v1, v2,
  Words, Measured, Limit, MaxRuns, MaxSends

(* A day has finitely many entries, a book finitely many words.             *)
ASSUME EntriesAssumption == IsFiniteSet(Entries)
ASSUME WordsAssumption == IsFiniteSet(Words)

(* An entry is tried once at least.                                         *)
ASSUME BoundsAssumption ==
  /\ SeqRetryLimit \in Nat \ {0}
  /\ MaxDiaryCalls \in Nat /\ MaxRuns \in Nat /\ MaxSends \in Nat

(* An answer brings something if there is anything to bring.                *)
ASSUME BoardAssumption ==
  /\ IsFiniteSet(BoardTopics)
  /\ PageSize \in Nat \ {0} /\ MaxReads \in Nat /\ MaxWrites \in Nat

ShelfVenueOf == t1 :> v1
BoardVenueOf == [t \in BoardTopics |-> IF t = t3 THEN v2 ELSE v1]

VARIABLES
  service,                              \* the component that runs
  inBook, bound, cards, entry, writers, captures,
  store, view, reads, write, creates,
  answers, stored, page, posts, runs, sends

diary == <<inBook, bound, cards, entry, writers, captures>>
board == <<store, view, reads, write, creates>>
ladder == <<answers, stored, page, posts, runs, sends>>

Diary == INSTANCE DailyCapture WITH Requests <- Writers, MaxCalls <- MaxDiaryCalls,
                                    req <- writers, calls <- captures

Board == INSTANCE TopicBoard WITH Topics <- BoardTopics, VenueOf <- BoardVenueOf

Ladder == INSTANCE LadderSession

ServicesInit ==
  /\ service \in {"orders", "shelf", "diary", "board", "ladder"}
  /\ OrderInit /\ (service # "orders" => ~elsewhere)
  /\ Init /\ (service # "shelf" => /\ \A n \in Notes : note[n].version = 0
                                   /\ \A t \in Topics : topic[t] = [version |-> 0, last |-> NoRequest, status |-> "active"])
  /\ Diary!Init
  /\ Board!Init /\ (service # "board" => \A t \in BoardTopics : store[t].version = 0)
  /\ Ladder!Init

ServicesNext ==
  \/ service = "orders" /\ OrderNext /\ UNCHANGED <<service, vars, diary, board, ladder>>
  \/ service = "shelf" /\ Next /\ UNCHANGED <<service, orderVars, diary, board, ladder>>
  \/ service = "diary" /\ Diary!Next /\ UNCHANGED <<service, orderVars, vars, board, ladder>>
  \/ service = "board" /\ Board!Next /\ UNCHANGED <<service, orderVars, vars, diary, ladder>>
  \/ service = "ladder" /\ Ladder!Next /\ UNCHANGED <<service, orderVars, vars, diary, board>>

allVars == <<service, orderVars, vars, diary, board, ladder>>

ServicesSpec == ServicesInit /\ [][ServicesNext]_allVars

(* Sets of three are the same set, and so are sets of two.                  *)
Symmetry == Permutations(Notes) \cup Permutations(Requests) \cup Permutations(Callers)

-----------------------------------------------------------------------------
(* Properties of the components that are instances here *)

(* The values of every component have their types: the type invariants of   *)
(* the five modules.                                                       *)
AllTypesOK == OrderTypeOK /\ TypeOK /\ Diary!TypeOK /\ Board!TypeOK /\ Ladder!TypeOK

(* The numbers of the diary are dense and its receipts true, though         *)
(* requests draw the same number and absorb one entry (DailyCapture).       *)
DiaryIsTrue == Diary!DiaryIsTrue

(* What a page of topics shows follows what it reads, in whatever order     *)
(* answers come (TopicBoard).                                              *)
PageFollowsReads == Board!PageFollowsReads

(* A ladder session rates a word once, whatever is done again (LadderSession). *)
RatedOncePerRun == Ladder!RatedOncePerRun

(* A ladder session that ended has settled and counted all its words        *)
(* (LadderSession).                                                        *)
FinishedIsSettled == Ladder!FinishedIsSettled
=============================================================================
