----------------------------- MODULE TableEvents -----------------------------
(***************************************************************************)
(* What becomes of an event: Hub.handleTableEvent (called from one         *)
(* processTableEvent goroutine per message) with EventService,             *)
(* EventRepository and RoomCache.PushEvent behind it, and                  *)
(* Hub.handleSystemEvent for the hub's own announcements.                  *)
(*                                                                         *)
(* A roll is saved in Postgres, pushed to the room's feed in Redis and     *)
(* broadcast under the id of its row.  Any other table event is answered   *)
(* as a roll too, with id 0, and is only pushed and broadcast.  Each step  *)
(* below is one call to a store, so the goroutines interleave between the  *)
(* stores, a call may fail or have its answer lost, and the process may    *)
(* end between two of them.                                                *)
(*                                                                         *)
(* The broadcast channel is the history of what was put into it; that a    *)
(* sender may have to wait for room is the concern of module Hub.          *)
(***************************************************************************)
EXTENDS Naturals, Sequences, FiniteSets

CONSTANTS
  Tables,
  Messages,     \* the events of a behaviour, each handled once
  KindOf,       \* what is asked for: "roll", another table event ("other"),
                \* or an announcement of the hub ("system")
  TableOf,      \* WSEvent.TableID
  Faulty,       \* messages without an event, or rolls of a die without faces
  FeedCap,      \* length LTRIM leaves a room's feed (100 in the code)
  FeedLimit,    \* rows GetTableFeed returns (50 in the code)
  MaxTime,      \* bound on the clock
  MaxRestarts   \* bound on the restarts of the process

ASSUME EventsAssumption ==
  /\ KindOf \in [Messages -> {"roll", "other", "system"}]
  /\ TableOf \in [Messages -> Tables]
  /\ Faulty \subseteq Messages
  /\ FeedCap \in Nat \ {0}
  /\ FeedLimit \in Nat \ {0}
  /\ MaxTime \in Nat
  /\ MaxRestarts \in Nat

VARIABLES
  stage,      \* where the goroutine of each message is
  stamp,      \* the created_at it has taken
  eventId,    \* the id of its answer, 0 without a row
  rows,       \* Postgres: table_events ...
  nextId,     \* ... and the sequence behind its key
  feed,       \* Redis list  room:feed:<table>, newest first
  eventCount, \* Redis field room:state:<table> "event_count"
  lastEvent,  \* Redis field room:state:<table> "last_event", as a queue of one
  sent,       \* everything put into Hub.broadcast, in order
  clock,
  restarts

workVars  == <<stage, stamp, eventId>>
dbVars    == <<rows, nextId>>
redisVars == <<feed, eventCount, lastEvent>>
vars == <<stage, stamp, eventId, rows, nextId, feed, eventCount, lastEvent,
          sent, clock, restarts>>

\* The stages of a goroutine; "failed" is an error that was logged, "lost" a
\* goroutine that went with its process.
Stages == {"unsent", "received", "saving", "pushing", "sending", "done",
           "failed", "lost"}
InFlight == {"received", "saving", "pushing", "sending"}

\* An event as it is pushed and broadcast, the type being that of the answer,
\* and a row of table_events.
Events == [type : {"roll", "system"}, msg : Messages, id : Nat]
Rows   == [id : Nat, msg : Messages, table : Tables, created : Nat]

TypeOK ==
  /\ stage \in [Messages -> Stages]
  /\ stamp \in [Messages -> Nat]
  /\ eventId \in [Messages -> Nat]
  /\ rows \in SUBSET Rows
  /\ nextId \in Nat
  /\ feed \in [Tables -> Seq(Events)]
  /\ eventCount \in [Tables -> Nat]
  /\ lastEvent \in [Tables -> Seq(Events)]
  /\ sent \in Seq(Events)
  /\ clock \in 0..MaxTime
  /\ restarts \in 0..MaxRestarts

Init ==
  /\ stage = [m \in Messages |-> "unsent"]
  /\ stamp = [m \in Messages |-> 0]
  /\ eventId = [m \in Messages |-> 0]
  /\ rows = {}
  /\ nextId = 1
  /\ feed = [t \in Tables |-> <<>>]
  /\ eventCount = [t \in Tables |-> 0]
  /\ lastEvent = [t \in Tables |-> <<>>]
  /\ sent = <<>>
  /\ clock = 0
  /\ restarts = 0

-----------------------------------------------------------------------------
Goto(m, s) == stage' = [stage EXCEPT ![m] = s]

\* ProcessTableEvent answers every table event as a roll, whatever its type.
AnswerType(m) == IF KindOf[m] = "system" THEN "system" ELSE "roll"

Event(m) == [type |-> AnswerType(m), msg |-> m, id |-> eventId[m]]

Row_TimestampAsTable(m) ==
  [id |-> nextId, msg |-> m, table |-> stamp[m], created |-> stamp[m]]
Row(m) == [id |-> nextId, msg |-> m, table |-> TableOf[m], created |-> stamp[m]]

\* RoomCache.PushEvent: LPUSH, LTRIM, HINCRBY and HSET in one transaction.
PushEvent_OneTooMany(t, e) ==
  /\ feed' = [feed EXCEPT ![t] =
                IF Len(@) <= FeedCap THEN <<e>> \o @ ELSE <<e>> \o SubSeq(@, 1, FeedCap)]
  /\ eventCount' = [eventCount EXCEPT ![t] = @ + 1]
  /\ lastEvent' = [lastEvent EXCEPT ![t] = <<e>>]
PushEvent(t, e) ==
  /\ feed' = [feed EXCEPT ![t] =
                IF Len(@) < FeedCap THEN <<e>> \o @ ELSE <<e>> \o SubSeq(@, 1, FeedCap - 1)]
  /\ eventCount' = [eventCount EXCEPT ![t] = @ + 1]
  /\ lastEvent' = [lastEvent EXCEPT ![t] = <<e>>]

-----------------------------------------------------------------------------
\* readPump has decoded a message and starts its goroutine.
Receive(m) ==
  /\ stage[m] = "unsent"
  /\ KindOf[m] # "system"
  /\ Goto(m, "received")
  /\ UNCHANGED <<stamp, eventId, dbVars, redisVars, sent, clock, restarts>>

\* ProcessTableEvent, a roll: the dice are rolled and SaveEvent takes the time.
Roll(m) ==
  /\ stage[m] = "received"
  /\ KindOf[m] = "roll"
  /\ m \notin Faulty
  /\ stamp' = [stamp EXCEPT ![m] = clock]
  /\ Goto(m, "saving")
  /\ UNCHANGED <<eventId, dbVars, redisVars, sent, clock, restarts>>

\* ProcessTableEvent, any other type: the request is the content of a roll with
\* id 0, and nothing is saved.
Answer(m) ==
  /\ stage[m] = "received"
  /\ KindOf[m] = "other"
  /\ m \notin Faulty
  /\ Goto(m, "pushing")
  /\ UNCHANGED <<stamp, eventId, dbVars, redisVars, sent, clock, restarts>>

\* INSERT ... RETURNING *: the row is in, and its id comes back.
Insert(m) ==
  /\ stage[m] = "saving"
  /\ rows' = rows \cup {Row(m)}
  /\ nextId' = nextId + 1
  /\ eventId' = [eventId EXCEPT ![m] = nextId]
  /\ Goto(m, "pushing")
  /\ UNCHANGED <<stamp, redisVars, sent, clock, restarts>>

\* The row is in, but the deadline of the event's context passes, or the
\* connection to Postgres fails, before the answer arrives.
InsertAnswerLost_Retried(m) ==
  /\ stage[m] = "saving"
  /\ nextId < 4
  /\ rows' = rows \cup {Row(m)}
  /\ nextId' = nextId + 1
  /\ UNCHANGED <<workVars, redisVars, sent, clock, restarts>>
InsertAnswerLost(m) ==
  /\ stage[m] = "saving"
  /\ rows' = rows \cup {Row(m)}
  /\ nextId' = nextId + 1
  /\ Goto(m, "failed")
  /\ UNCHANGED <<stamp, eventId, redisVars, sent, clock, restarts>>

\* No row: the statement was not executed, or it was rolled back, which
\* leaves a gap in the sequence.
InsertFails_Ignored(m) ==
  /\ stage[m] = "saving"
  /\ nextId' = nextId + 1
  /\ Goto(m, "pushing")
  /\ UNCHANGED <<stamp, eventId, rows, redisVars, sent, clock, restarts>>
InsertFails(m) ==
  /\ stage[m] = "saving"
  /\ nextId' \in {nextId, nextId + 1}
  /\ Goto(m, "failed")
  /\ UNCHANGED <<stamp, eventId, rows, redisVars, sent, clock, restarts>>

\* The push to Redis.  handleTableEvent only logs an error, so whether the
\* answer of an applied push arrives makes no difference.
Push(m) ==
  /\ stage[m] = "pushing"
  /\ PushEvent(TableOf[m], Event(m))
  /\ Goto(m, "sending")
  /\ UNCHANGED <<stamp, eventId, dbVars, sent, clock, restarts>>

PushFails(m) ==
  /\ stage[m] = "pushing"
  /\ Goto(m, "sending")
  /\ UNCHANGED <<stamp, eventId, dbVars, redisVars, sent, clock, restarts>>

\* h.broadcast <- resultEvent, whatever the deadline.
Send(m) ==
  /\ stage[m] = "sending"
  /\ sent' = Append(sent, Event(m))
  /\ Goto(m, "done")
  /\ UNCHANGED <<stamp, eventId, dbVars, redisVars, clock, restarts>>

\* Hub.handleSystemEvent: ProcessSystemEvent does nothing, the event is
\* broadcast.
HandleSystemEvent(m) ==
  /\ stage[m] = "unsent"
  /\ KindOf[m] = "system"
  /\ sent' = Append(sent, Event(m))
  /\ Goto(m, "done")
  /\ UNCHANGED <<stamp, eventId, dbVars, redisVars, clock, restarts>>

Tick ==
  /\ clock < MaxTime
  /\ clock' = clock + 1
  /\ UNCHANGED <<workVars, dbVars, redisVars, sent, restarts>>

\* The process ends, and its goroutines with it, and starts again.  The stores
\* keep what they have.
EndProcess ==
  /\ stage' = [m \in Messages |-> IF stage[m] \in InFlight THEN "lost" ELSE stage[m]]
  /\ UNCHANGED <<stamp, eventId, dbVars, redisVars, sent, clock>>

\* A signal, or a crash from elsewhere.
Restart == restarts < MaxRestarts /\ restarts' = restarts + 1 /\ EndProcess

\* ProcessTableEvent dereferences a nil event, or asks rand.IntN for a face of
\* none: nobody recovers, and the panic of one goroutine ends them all.
Panic_Recovered(m) ==
  /\ stage[m] = "received"
  /\ m \in Faulty
  /\ Goto(m, "pushing")
  /\ UNCHANGED <<stamp, eventId, dbVars, redisVars, sent, clock, restarts>>
Panic(m) ==
  /\ stage[m] = "received"
  /\ m \in Faulty
  /\ EndProcess
  /\ UNCHANGED restarts

Handle(m) ==
  \/ Roll(m) \/ Answer(m) \/ Insert(m) \/ InsertAnswerLost(m) \/ InsertFails(m)
  \/ Push(m) \/ PushFails(m) \/ Send(m) \/ Panic(m)

Next ==
  \/ \E m \in Messages : Receive(m) \/ Handle(m) \/ HandleSystemEvent(m)
  \/ Tick
  \/ Restart

Spec == Init /\ [][Next]_vars

-----------------------------------------------------------------------------
\* EventRepository.GetTableFeed, as TableService calls it: the answers
\* ORDER BY created_at DESC LIMIT FeedLimit allows, ties in any order.
RowsOf(t) == {r \in rows : r.table = t}

Pages_OldestFirst(t) ==
  {P \in SUBSET RowsOf(t) :
     /\ Cardinality(P) = FeedLimit \/ (P = RowsOf(t) /\ Cardinality(P) < FeedLimit)
     /\ \A r \in P : \A s \in RowsOf(t) \ P : r.created <= s.created}
Pages(t) ==
  {P \in SUBSET RowsOf(t) :
     /\ Cardinality(P) = FeedLimit \/ (P = RowsOf(t) /\ Cardinality(P) < FeedLimit)
     /\ \A r \in P : \A s \in RowsOf(t) \ P : r.created >= s.created}

-----------------------------------------------------------------------------
IsRowOf(r, e) == r.id = e.id /\ r.msg = e.msg /\ r.table = TableOf[e.msg]

Saved(e) == \E r \in rows : IsRowOf(r, e)

\* A table that is told of a roll, live or from the Redis feed, can trust its
\* id: it is the id of a row that holds this roll, or 0 for an event that asked
\* for no roll and has no row.  Failed and lost calls, crashes and the
\* interleaving of the goroutines notwithstanding, no other roll is told with
\* id 0, and none under the id of a row that is not there.
TrueToItsId(e) ==
  e.type = "roll" =>
    IF e.id = 0 THEN KindOf[e.msg] = "other" /\ \A r \in rows : r.msg # e.msg
    ELSE Saved(e)

ToldRollsAreSaved ==
  /\ \A i \in 1..Len(sent) : TrueToItsId(sent[i])
  /\ \A t \in Tables : \A i \in 1..Len(feed[t]) : TrueToItsId(feed[t][i])

\* No roll is saved twice and no two rolls share an id, with answers of the
\* database lost between the insert and its goroutine.
NoDuplicateRows ==
  \A r, s \in rows : r.id = s.id \/ r.msg = s.msg => r = s

\* A room's feed and its state in Redis tell the same story: the feed has as
\* many events as were counted, up to its cap, and begins with the last one.
FeedAgreesWithState ==
  \A t \in Tables :
    /\ Len(feed[t]) = IF eventCount[t] < FeedCap THEN eventCount[t] ELSE FeedCap
    /\ lastEvent[t] = IF feed[t] = <<>> THEN <<>> ELSE <<feed[t][1]>>

\* What a page of a table's history, as GetTableFeed may answer it, shows of a
\* roll the table was told about: the roll, unless the page is full of rolls as
\* new, and nothing of one with id 0.
Shown(P, e) ==
  \/ \E r \in P : IsRowOf(r, e)
  \/ Cardinality(P) = FeedLimit /\ \A r \in P : r.created >= stamp[e.msg]

ShownByItsId(P, e) ==
  e.type = "roll" => IF e.id = 0 THEN \A r \in P : r.msg # e.msg ELSE Shown(P, e)

\* A player who reloads sees the rolls its table has been told about, but for
\* those with id 0, which nobody sees again: whatever page the database answers
\* with.
HistoryShowsToldRolls ==
  \A i \in 1..Len(sent) :
    \A P \in Pages(TableOf[sent[i].msg]) : ShownByItsId(P, sent[i])
=============================================================================
