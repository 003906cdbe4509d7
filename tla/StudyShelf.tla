------------------------------- MODULE StudyShelf -------------------------------
(***************************************************************************)
(* Study notes and the topics they are arranged in, on the server.  A note  *)
(* belongs to venues (types of questions), a topic to one; its members are  *)
(* notes of that venue, in an order.  Every write names a request id and    *)
(* the version it is made from, so that a client may send it again.         *)
(*                                                                         *)
(* A transaction on a topic locks its row first, and is one step unless it  *)
(* goes on to lock a note; one on a note locks the note, and then reads the *)
(* topics without a lock.  Titles, bodies and references are left out.      *)
(***************************************************************************)
EXTENDS Integers, FiniteSets, Functions

CONSTANTS
  Notes, Topics, Venues,
  VenueOf,      \* the venue of each topic
  Requests,     \* request ids
  NoRequest, NoNote,
  Callers,      \* transactions that may overlap
  MemberMax,    \* STUDY_TOPIC_MEMBER_MAX
  MaxCalls      \* bound: transactions begun

ASSUME ShelfAssumption ==
  /\ VenueOf \in [Topics -> Venues]
  /\ NoRequest \notin Requests /\ NoNote \notin Notes
  /\ MemberMax \in Nat /\ MaxCalls \in Nat
  /\ IsFiniteSet(Notes)

VARIABLES
  note,     \* l3_study_notes and l3_study_note_venues
  topic,    \* l3_study_topics
  at,       \* l3_study_topic_notes: the position of each member of a topic
  asked,    \* what each request id was used for, as the client sends it
  effects,  \* history variable: how often each request took effect
  tx,       \* per caller: the transaction under way
  calls

vars == <<note, topic, at, asked, effects, tx, calls>>

Statuses == {"active", "archived"}

Unasked == [kind |-> "none"]

(* The contents of requests; expected is the version they are made from.    *)
Writes ==
  [kind : {"move"}, topic : Topics, note : Notes, before : Notes \cup {NoNote}, expected : Nat]
  \cup [kind : {"remove"}, topic : Topics, note : Notes, expected : Nat]
  \cup [kind : {"retitle"}, topic : Topics, status : Statuses, expected : Nat]
  \cup [kind : {"save"}, note : Notes, venues : SUBSET Venues, expected : Nat]

Free == [step |-> "free"]

Members(t) == DOMAIN at[t]

(* The place of a member among some of them: listMembers goes by position.  *)
Rank(t, ms, m) == Cardinality({k \in ms : at[t][k] < at[t][m]})

-----------------------------------------------------------------------------
(* Locks: what the open transactions hold.                                  *)

HoldsTopic(c, t) == tx[c].step \in {"topic", "both"} /\ asked[tx[c].req].topic = t

HoldsNote_PlainSelect(c, n) == tx[c].step = "note" /\ asked[tx[c].req].note = n

HoldsNote(c, n) == tx[c].step \in {"note", "both"} /\ asked[tx[c].req].note = n

TopicFree(t) == \A c \in Callers : ~HoldsTopic(c, t)
NoteFree(n) == \A c \in Callers : ~HoldsNote(c, n)

Goes(c, rec) == tx' = [tx EXCEPT ![c] = rec]

(* A page makes a request from what it was shown.                           *)
Ask(r, w) ==
  /\ asked[r] = Unasked
  /\ asked' = [asked EXCEPT ![r] = w]
  /\ UNCHANGED <<note, topic, at, effects, tx, calls>>

AskAny(r) ==
  \/ \E t \in Topics, n \in Notes :
       /\ topic[t].version > 0 /\ note[n].version > 0
       /\ \/ \E b \in Notes \cup {NoNote} :
                Ask(r, [kind |-> "move", topic |-> t, note |-> n, before |-> b, expected |-> topic[t].version])
          \/ Ask(r, [kind |-> "remove", topic |-> t, note |-> n, expected |-> topic[t].version])
  \/ \E t \in Topics, s \in Statuses :
       /\ topic[t].version > 0
       /\ Ask(r, [kind |-> "retitle", topic |-> t, status |-> s, expected |-> topic[t].version])
  \/ \E n \in Notes, vs \in (SUBSET Venues) \ {{}} :
       /\ note[n].version > 0
       /\ Ask(r, [kind |-> "save", note |-> n, venues |-> vs, expected |-> note[n].version])

(* It is sent, for the first time or again.                                 *)
Sends(c, r, kind) ==
  /\ tx[c] = Free /\ calls < MaxCalls
  /\ asked[r].kind = kind
  /\ calls' = calls + 1
  /\ UNCHANGED asked

(* It is refused, or answered as the last write was; nothing is written.    *)
Answered(c) == Goes(c, Free) /\ UNCHANGED <<note, topic, at, effects>>

(* The last request again is answered with the row as it is; anything else  *)
(* needs the version it was made from.                                      *)
Takes_AnyVersion(row, r, w) == row.last # r
Takes(row, r, w) == row.last # r /\ row.version = w.expected

Bumped(row, r) == [row EXCEPT !.version = @ + 1, !.last = r]
Counted(r) == effects' = [effects EXCEPT ![r] = @ + 1]

-----------------------------------------------------------------------------
(* create and createTopic: INSERT .. ON CONFLICT (create_request_id) DO      *)
(* NOTHING; what is there already is answered as it is.                     *)

CreateNote(n) ==
  /\ note[n].version = 0
  /\ \E v \in Venues : note' = [note EXCEPT ![n] = [version |-> 1, last |-> NoRequest, venues |-> {v}]]
  /\ UNCHANGED <<topic, at, asked, effects, tx, calls>>

CreateTopic(t) ==
  /\ topic[t].version = 0
  /\ topic' = [topic EXCEPT ![t] = [version |-> 1, last |-> NoRequest, status |-> "active"]]
  /\ UNCHANGED <<note, at, asked, effects, tx, calls>>

-----------------------------------------------------------------------------
(* moveTopicMember: join, or move before another member or to the end       *)

MoveLocksTopic(c, r) ==
  /\ Sends(c, r, "move")
  /\ LET w == asked[r] IN
       /\ TopicFree(w.topic)
       /\ IF Takes(topic[w.topic], r, w) /\ topic[w.topic].status = "active"
            THEN Goes(c, [step |-> "topic", req |-> r]) /\ UNCHANGED <<note, topic, at, effects>>
            ELSE Answered(c)

(* The note is locked and its venues are read.                              *)
MoveLocksNote(c) ==
  /\ tx[c].step = "topic"
  /\ LET w == asked[tx[c].req] IN
       /\ NoteFree(w.note)
       /\ IF VenueOf[w.topic] \in note[w.note].venues
            THEN Goes(c, [tx[c] EXCEPT !.step = "both"]) /\ UNCHANGED <<note, topic, at, effects>>
            ELSE Answered(c)
  /\ UNCHANGED <<asked, calls>>

Admitted(w) ==
  /\ w.note \in Members(w.topic) \/ Cardinality(Members(w.topic)) < MemberMax
  /\ w.before = NoNote \/ (w.before # w.note /\ w.before \in Members(w.topic))

Others(w) == Members(w.topic) \ {w.note}

(* The place counted in a list that still has the note.                     *)
Place_OldIndex(w) ==
  IF w.before = NoNote THEN Cardinality(Others(w)) ELSE Rank(w.topic, Members(w.topic), w.before)

(* indexOf(beforeNoteId) among the others, or the end.                      *)
Place(w) ==
  IF w.before = NoNote THEN Cardinality(Others(w)) ELSE Rank(w.topic, Others(w), w.before)

(* splice, and replaceMemberPositions: 0, 1, .. along the new order.        *)
Reordered(w) ==
  [m \in Others(w) \cup {w.note} |->
     LET i == Rank(w.topic, Others(w), m) IN
     IF m = w.note THEN Place(w) ELSE IF i < Place(w) THEN i ELSE i + 1]

MoveWrites(c) ==
  /\ tx[c].step = "both"
  /\ LET r == tx[c].req
         w == asked[r] IN
       IF Admitted(w)
         THEN /\ at' = [at EXCEPT ![w.topic] = Reordered(w)]
              /\ topic' = [topic EXCEPT ![w.topic] = Bumped(@, r)]
              /\ Counted(r) /\ Goes(c, Free) /\ UNCHANGED note
         ELSE Answered(c)
  /\ UNCHANGED <<asked, calls>>

(* removeTopicMember: who is no member is removed all the same.             *)
Removed(w) == [m \in Others(w) |-> Rank(w.topic, Others(w), m)]

RemoveMember(c, r) ==
  /\ Sends(c, r, "remove")
  /\ LET w == asked[r] IN
       /\ TopicFree(w.topic)
       /\ IF Takes(topic[w.topic], r, w) /\ topic[w.topic].status = "active"
            THEN /\ at' = [at EXCEPT ![w.topic] = Removed(w)]
                 /\ topic' = [topic EXCEPT ![w.topic] = Bumped(@, r)]
                 /\ Counted(r) /\ UNCHANGED <<note, tx>>
            ELSE Answered(c)

(* saveTopic: title and status; archived topics keep their members.         *)
SaveTopic(c, r) ==
  /\ Sends(c, r, "retitle")
  /\ LET w == asked[r] IN
       /\ TopicFree(w.topic)
       /\ IF Takes(topic[w.topic], r, w)
            THEN /\ topic' = [topic EXCEPT ![w.topic] = [Bumped(@, r) EXCEPT !.status = w.status]]
                 /\ Counted(r) /\ UNCHANGED <<note, at, tx>>
            ELSE Answered(c)

-----------------------------------------------------------------------------
(* save of a note                                                           *)

Blockers(w) ==
  {t \in Topics : w.note \in Members(t) /\ VenueOf[t] \in note[w.note].venues \ w.venues}

(* The note is locked; venues and topics are read.                          *)
SaveLocksNote(c, r) ==
  /\ Sends(c, r, "save")
  /\ LET w == asked[r] IN
       /\ NoteFree(w.note)
       /\ IF Takes(note[w.note], r, w) /\ Blockers(w) = {}
            THEN Goes(c, [step |-> "note", req |-> r]) /\ UNCHANGED <<note, topic, at, effects>>
            ELSE Answered(c)

SaveWrites(c) ==
  /\ tx[c].step = "note"
  /\ LET r == tx[c].req
         w == asked[r] IN
       /\ note' = [note EXCEPT ![w.note] = [Bumped(@, r) EXCEPT !.venues = w.venues]]
       /\ Counted(r)
  /\ Goes(c, Free) /\ UNCHANGED <<topic, at, asked, calls>>

(* An error, a deadlock, a lost connection.                                 *)
Abort(c) ==
  /\ tx[c] # Free
  /\ Goes(c, Free) /\ UNCHANGED <<note, topic, at, asked, effects, calls>>

-----------------------------------------------------------------------------
(* A shelf that was arranged before; its last requests are forgotten.       *)
Arranged(t) ==
  UNION {{f \in Bijection(ms, 0..Cardinality(ms) - 1) : Cardinality(ms) <= MemberMax} :
           ms \in SUBSET {n \in Notes : topic[t].version > 0 /\ VenueOf[t] \in note[n].venues}}

Init ==
  /\ note \in [Notes -> {[version |-> 0, last |-> NoRequest, venues |-> {}]}
                         \cup [version : {1}, last : {NoRequest}, venues : (SUBSET Venues) \ {{}}]]
  /\ topic \in [Topics -> {[version |-> 0, last |-> NoRequest, status |-> "active"]}
                           \cup [version : {1}, last : {NoRequest}, status : Statuses]]
  /\ at \in {f \in [Topics -> UNION {Arranged(t) : t \in Topics}] : \A t \in Topics : f[t] \in Arranged(t)}
  /\ asked = [r \in Requests |-> Unasked]
  /\ effects = [r \in Requests |-> 0]
  /\ tx = [c \in Callers |-> Free]
  /\ calls = 0

Begin(c, r) ==
  MoveLocksTopic(c, r) \/ RemoveMember(c, r) \/ SaveTopic(c, r) \/ SaveLocksNote(c, r)

Continue(c) == MoveLocksNote(c) \/ MoveWrites(c) \/ SaveWrites(c) \/ Abort(c)

Next ==
  \/ \E n \in Notes : CreateNote(n)
  \/ \E t \in Topics : CreateTopic(t)
  \/ \E r \in Requests : AskAny(r)
  \/ \E c \in Callers :
       \/ \E r \in Requests : Begin(c, r)
       \/ Continue(c)

Spec == Init /\ [][Next]_vars

-----------------------------------------------------------------------------
(* Properties *)

(* Type invariant; a topic has MemberMax members at most. *)
TypeOK ==
  /\ note \in [Notes -> [version : 0..MaxCalls + 1, last : Requests \cup {NoRequest},
                         venues : SUBSET Venues]]
  /\ topic \in [Topics -> [version : 0..MaxCalls + 1, last : Requests \cup {NoRequest},
                           status : Statuses]]
  /\ \A t \in Topics : Members(t) \subseteq Notes /\ at[t] \in [Members(t) -> 0..MemberMax - 1]
  /\ asked \in [Requests -> Writes \cup {Unasked}]
  /\ effects \in [Requests -> Nat]
  /\ tx \in [Callers -> {Free} \cup [step : {"topic", "both", "note"}, req : Requests]]
  /\ calls \in 0..MaxCalls

(* A member of a topic belongs to its venue, though one transaction puts the *)
(* note into the topic and another takes the venue from the note: topic,     *)
(* then note, against note, then a look at the topics                       *)
(* (l3-study-notes.service.ts:660-661).                                     *)
MembersHaveVenue ==
  \A t \in Topics : \A n \in Members(t) : VenueOf[t] \in note[n].venues

(* A request takes effect once at most, however often it is sent and         *)
(* whatever was written between (last_write_request_id, expectedVersion).    *)
RequestsActOnce == \A r \in Requests : effects[r] <= 1

(* One write moves one note: the others keep their order, it stands         *)
(* directly before the note that was named, or last, and the members are    *)
(* numbered 0, 1, .. again without a gap or a double (splice, and           *)
(* replaceMemberPositions).                                                *)
Precedes(t, m, n) == at[t][m] < at[t][n]

OnlyOneMoves ==
  [][\A t \in Topics : at'[t] # at[t] =>
       LET w == asked[topic'[t].last] IN
         /\ w.topic = t
         /\ DOMAIN at'[t] \ {w.note} = Members(t) \ {w.note}
         /\ {at'[t][m] : m \in DOMAIN at'[t]} = 0..Cardinality(DOMAIN at'[t]) - 1
         /\ \A m, n \in Members(t) \ {w.note} : Precedes(t, m, n) <=> Precedes(t, m, n)'
         /\ w.kind = "move" =>
              \A m \in DOMAIN at'[t] \ {w.note} :
                at'[t][m] > at'[t][w.note] <=>
                  w.before # NoNote /\ (m = w.before \/ Precedes(t, w.before, m))]_vars
=============================================================================
