------------------------------- MODULE TopicBoard -------------------------------
(***************************************************************************)
(* The topics of a venue as a page of study notes shows them: a list that   *)
(* is loaded, continued with a cursor, or searched for a topic that is not  *)
(* on it yet; writes one at a time, and creations beside them.              *)
(*                                                                         *)
(* A read is answered by the server at one moment and received at another.  *)
(* The sequence numbers of the code tell a read only whether it still       *)
(* counts: here a read that does not is "outdated".  The queue of writes    *)
(* may hold any topic; a creation is named by the topic it makes.  What is  *)
(* lost is lost before the server handles it, or after; handled later, it   *)
(* would be a write from elsewhere.                                        *)
(***************************************************************************)
EXTENDS Naturals, FiniteSets, FiniteSetsExt

CONSTANTS
  Topics, Venues,
  VenueOf,               \* the venue of each topic
  NoVenue, NoTopic,
  PageSize,              \* topics in an answer
  MaxReads, MaxWrites    \* bounds: reads begun, writes that the server does

VARIABLES
  store,    \* the rows of the server: version, and the moment of the last write (updated_at)
  view,     \* what the page shows
  reads,    \* the lists that were asked for, in order
  write,    \* the write under way
  creates   \* per topic: the creation that makes it

vars == <<store, view, reads, write, creates>>

NoCursor == [venue |-> NoVenue, at |-> 0]
NoWrite == [step |-> "none", topic |-> NoTopic, version |-> 0, read |-> 0]
NoPage == [t \in Topics |-> 0]

-----------------------------------------------------------------------------
(* The server *)

Now == Max({store[t].at : t \in Topics}) + 1
AtFirst == {t \in Topics : creates[t] = [step |-> "done", version |-> 0]}
Written == Now <= Cardinality(AtFirst) + MaxWrites

Bump(t) == store' = [store EXCEPT ![t] = [version |-> @.version + 1, at |-> Now]]

(* ORDER BY updated_at DESC, from the cursor on.                            *)
After(v, cursor) ==
  {t \in Topics : VenueOf[t] = v /\ store[t].version > 0 /\ (cursor = NoCursor \/ store[t].at < cursor.at)}

FirstOf(ts) == {t \in ts : Cardinality({u \in ts : store[u].at > store[t].at}) < PageSize}

(* The cursor of another venue is no cursor of this one.                    *)
Fits(v, cursor) == cursor = NoCursor \/ cursor.venue = v

Elsewhere(t) ==
  /\ Written /\ store[t].version > 0
  /\ Bump(t) /\ UNCHANGED <<view, reads, write, creates>>

-----------------------------------------------------------------------------
(* Reads *)

Read(kind, v, cursor, t) ==
  [kind |-> kind, venue |-> v, cursor |-> cursor, topic |-> t, step |-> "sent",
   page |-> NoPage, next |-> NoCursor]

Ids == DOMAIN reads
LoadingMore == \E i \in Ids : reads[i].kind = "more" /\ reads[i].step # "outdated"

(* Reads of these kinds no longer count: they only end.                     *)
Outdated(rs, kinds) ==
  [i \in DOMAIN rs |-> IF rs[i].kind \in kinds
                         THEN [Read(rs[i].kind, NoVenue, NoCursor, rs[i].topic) EXCEPT !.step = "outdated"]
                         ELSE rs[i]]

Sent(rs, read) == [i \in 1..Cardinality(DOMAIN rs) + 1 |-> IF i \in DOMAIN rs THEN rs[i] ELSE read]
MaySend == Cardinality(Ids) < MaxReads

(* The server answers, or something fails.                                  *)
Answer(i) ==
  /\ reads[i].step = "sent"
  /\ \/ LET all == After(reads[i].venue, reads[i].cursor)
            page == FirstOf(all) IN
          /\ Fits(reads[i].venue, reads[i].cursor)
          /\ reads' = [reads EXCEPT ![i].step = "answered",
                         ![i].page = [t \in Topics |-> IF t \in page THEN store[t].version ELSE 0],
                         ![i].next = IF page = all THEN NoCursor
                                     ELSE [venue |-> reads[i].venue, at |-> Min({store[t].at : t \in page})]]
     \/ reads' = [reads EXCEPT ![i].step = "failed"]
  /\ UNCHANGED <<store, view, write, creates>>

Settles(i) == reads[i].step \in {"answered", "failed", "outdated"}

(* A load takes the place of every read before it.                          *)
Superseded == {"load", "more", "seek"}

Load(v) ==
  /\ MaySend
  /\ view' = [view EXCEPT !.venue = v, !.state = "loading"]
  /\ reads' = Sent(Outdated(reads, Superseded), Read("load", v, NoCursor, NoTopic))
  /\ UNCHANGED <<store, write, creates>>

LoadMore ==
  /\ MaySend
  /\ view.state = "ready" /\ ~LoadingMore /\ view.cursor # NoCursor
  /\ reads' = Sent(Outdated(reads, {"more", "seek"}), Read("more", view.venue, view.cursor, NoTopic))
  /\ UNCHANGED <<store, view, write, creates>>

Close(rs, i) == [rs EXCEPT ![i] = [Read("closed", NoVenue, NoCursor, NoTopic) EXCEPT !.step = "closed"]]

(* settleSupersededLoad: nobody else ends the loading.                      *)
Settled(v, rs) ==
  IF v.state = "loading" /\ \A i \in DOMAIN rs : rs[i].kind # "load" THEN [v EXCEPT !.state = "ready"] ELSE v

(* Topics that are shown already stay as they are.                          *)
Merged(v, read) ==
  [v EXCEPT !.shown = [t \in Topics |-> IF v.shown[t] > 0 THEN v.shown[t] ELSE read.page[t]],
            !.cursor = read.next]

Replaced(v, read) ==
  [v EXCEPT !.shown = read.page, !.cursor = read.next, !.state = "ready",
            !.conflict = IF @ # NoTopic /\ read.page[@] > 0 THEN NoTopic ELSE @]

ReceiveLoad(i) ==
  /\ reads[i].kind = "load" /\ Settles(i)
  /\ reads' = Close(reads, i)
  /\ view' = IF reads[i].step = "outdated" THEN Settled(view, reads')
             ELSE IF reads[i].step = "failed" THEN [view EXCEPT !.state = "error"]
             ELSE Replaced(view, reads[i])
  /\ UNCHANGED <<store, write, creates>>

ReceiveMore(i) ==
  /\ reads[i].kind = "more" /\ Settles(i)
  /\ reads' = Close(reads, i)
  /\ view' = IF reads[i].step = "answered" THEN Merged(view, reads[i]) ELSE view
  /\ UNCHANGED <<store, write, creates>>

-----------------------------------------------------------------------------
(* Writes *)

WriteOf(t, version) == [step |-> "sent", topic |-> t, version |-> version, read |-> 0]

(* ensureTopicLoaded, for a write or for a link to the topic.               *)
Seek(t) ==
  /\ MaySend
  /\ view.shown[t] = 0 /\ view.venue # NoVenue /\ view.cursor # NoCursor
  /\ reads' = Sent(reads, Read("seek", view.venue, view.cursor, t))

Deeplink(t) == Seek(t) /\ UNCHANGED <<store, view, write, creates>>

(* The version is taken when the write's turn comes.                        *)
WriteShown(t) == view.shown[t] > 0

BeginWrite(t) ==
  /\ write = NoWrite /\ store[t].version > 0 /\ view.conflict # t
  /\ \/ WriteShown(t) /\ write' = WriteOf(t, view.shown[t]) /\ UNCHANGED reads
     \/ Seek(t) /\ write' = [step |-> "seek", topic |-> t, version |-> 0, read |-> Cardinality(Ids) + 1]
  /\ UNCHANGED <<store, view, creates>>

(* A search ends, with the topic or without; a write that waits for it goes *)
(* on or is given up.                                                      *)
Ends(i, version) ==
  IF write.read = i
    THEN write' = IF version > 0 THEN WriteOf(write.topic, version) ELSE NoWrite
    ELSE UNCHANGED write

ReceiveSeek(i) ==
  /\ reads[i].kind = "seek" /\ Settles(i)
  /\ LET t == reads[i].topic
         merged == Merged(view, reads[i]) IN
       IF reads[i].step # "answered"
         THEN reads' = Close(reads, i) /\ Ends(i, 0) /\ UNCHANGED view
         ELSE /\ view' = merged
              /\ IF merged.shown[t] > 0 \/ merged.cursor = NoCursor
                   THEN reads' = Close(reads, i) /\ Ends(i, merged.shown[t])
                   ELSE /\ reads' = [reads EXCEPT ![i] = Read("seek", @.venue, merged.cursor, t)]
                        /\ UNCHANGED write
  /\ UNCHANGED <<store, creates>>

HandleWrite ==
  /\ write.step = "sent"
  /\ LET t == write.topic IN
       IF store[t].version = write.version
         THEN Written /\ Bump(t) /\ write' = [write EXCEPT !.step = "ok", !.version = @ + 1]
         ELSE write' = [write EXCEPT !.step = "refused"] /\ UNCHANGED store
  /\ UNCHANGED <<view, reads, creates>>

LoseWrite ==
  /\ write.step \in {"sent", "ok", "refused"}
  /\ write' = NoWrite /\ UNCHANGED <<store, view, reads, creates>>

(* upsertTopic: in its venue only; loads that are under way no longer count. *)
Upserted_LoadsCount(t, version) ==
  IF VenueOf[t] = view.venue
    THEN view' = [view EXCEPT !.shown[t] = version] /\ UNCHANGED reads
    ELSE UNCHANGED <<view, reads>>

Upserted(t, version) ==
  IF VenueOf[t] = view.venue
    THEN view' = [view EXCEPT !.shown[t] = version] /\ reads' = Outdated(reads, {"load"})
    ELSE UNCHANGED <<view, reads>>

ReceiveWrite ==
  /\ \/ write.step = "ok" /\ Upserted(write.topic, write.version)
     \/ /\ write.step = "refused" /\ UNCHANGED reads
        /\ view' = IF VenueOf[write.topic] = view.venue
                     THEN [view EXCEPT !.conflict = write.topic]
                     ELSE view
  /\ write' = NoWrite /\ UNCHANGED <<store, creates>>

-----------------------------------------------------------------------------
(* createTopic: the key of the last title is kept until it succeeds.        *)

Create(t) ==
  /\ VenueOf[t] = view.venue
  /\ creates[t].step = "unused" \/ (creates[t].step = "failed" /\ view.pending = t)
  /\ creates' = [creates EXCEPT ![t].step = "sent"]
  /\ view' = [view EXCEPT !.pending = t]
  /\ UNCHANGED <<store, reads, write>>

HandleCreate(t) ==
  /\ creates[t].step = "sent"
  /\ IF store[t].version = 0 THEN Written /\ Bump(t) ELSE UNCHANGED store
  /\ creates' = [creates EXCEPT ![t] = [step |-> "made", version |-> store'[t].version]]
  /\ UNCHANGED <<view, reads, write>>

LoseCreate(t) ==
  /\ creates[t].step \in {"sent", "made"}
  /\ creates' = [creates EXCEPT ![t].step = "failed"]
  /\ UNCHANGED <<store, view, reads, write>>

ReceiveCreate(t) ==
  /\ creates[t].step = "made"
  /\ creates' = [creates EXCEPT ![t].step = "done"]
  /\ Upserted(t, creates[t].version)
  /\ UNCHANGED <<store, write>>

-----------------------------------------------------------------------------
(* Some topics are there, written one after the other.                      *)
Init ==
  /\ store \in {s \in [Topics -> [version : {0, 1}, at : 0..Cardinality(Topics)]] :
                  /\ \A t \in Topics : s[t].version = 0 <=> s[t].at = 0
                  /\ {s[t].at : t \in Topics} \ {0} = 1..Cardinality({t \in Topics : s[t].version = 1})}
  /\ view = [venue |-> NoVenue, shown |-> NoPage, cursor |-> NoCursor, state |-> "idle",
             conflict |-> NoTopic, pending |-> NoTopic]
  /\ reads = [i \in {} |-> Read("load", NoVenue, NoCursor, NoTopic)]
  /\ write = NoWrite
  /\ creates = [t \in Topics |-> [step |-> IF store[t].version = 0 THEN "unused" ELSE "done", version |-> 0]]

Arrives(i) == Answer(i) \/ ReceiveLoad(i) \/ ReceiveMore(i) \/ ReceiveSeek(i)

Next ==
  \/ \E v \in Venues : Load(v)
  \/ LoadMore
  \/ \E i \in Ids : Arrives(i)
  \/ \E t \in Topics : \/ Deeplink(t) \/ BeginWrite(t) \/ Elsewhere(t)
                       \/ Create(t) \/ HandleCreate(t) \/ LoseCreate(t) \/ ReceiveCreate(t)
  \/ HandleWrite \/ LoseWrite \/ ReceiveWrite

Spec == Init /\ [][Next]_vars

-----------------------------------------------------------------------------
(* Properties *)

(* Type invariant; a write names a version that was shown.                  *)
TypeOK ==
  /\ store \in [Topics -> [version : 0..Cardinality(Topics) + MaxWrites, at : 0..Cardinality(Topics) + MaxWrites]]
  /\ view.venue \in Venues \cup {NoVenue} /\ view.shown \in [Topics -> 0..Cardinality(Topics) + MaxWrites]
  /\ view.state \in {"idle", "loading", "ready", "error"}
  /\ view.conflict \in Topics \cup {NoTopic} /\ view.pending \in Topics \cup {NoTopic}
  /\ Cardinality(Ids) <= MaxReads /\ \A i \in Ids : reads[i].page \in [Topics -> 0..Cardinality(Topics) + MaxWrites]
  /\ write.step = "none" \/ (write.topic \in Topics /\ (write.step = "seek" \/ write.version > 0))
  /\ creates \in [Topics -> [step : {"unused", "sent", "made", "failed", "done"}, version : 0..Cardinality(Topics) + MaxWrites]]

(* A read never takes back a version that is shown, in whatever order the   *)
(* answers come (loadSeq, topicsPageSeq); the late confirmation of a write  *)
(* or of a creation may.                                                   *)
Confirmation == creates' # creates \/ (write.step = "ok" /\ write' # write)

ReadsNeverRegress ==
  [][Confirmation \/ \A t \in Topics : view'.shown[t] # 0 => view'.shown[t] >= view.shown[t]]_vars

(* A topic that comes to be shown is one of the venue the page is on.       *)
NothingForeignArrives ==
  [][\A t \in Topics : view.shown[t] = 0 /\ view'.shown[t] > 0 => VenueOf[t] = view'.venue]_vars

(* A page that is loading has a load under way, which will end it, however  *)
(* many loads a confirmed write has made outdated (settleSupersededLoad).   *)
LoadingIsOwed == view.state = "loading" => \E i \in Ids : reads[i].kind = "load"

(* What a page shows follows what it reads.                                 *)
PageFollowsReads == ReadsNeverRegress /\ NothingForeignArrives /\ []LoadingIsOwed
=============================================================================
