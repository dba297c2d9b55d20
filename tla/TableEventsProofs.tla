-------------------------- MODULE TableEventsProofs --------------------------
(***************************************************************************)
(* Theorems about TableEvents, for every value of its constants.           *)
(***************************************************************************)
EXTENDS TableEvents, TLAPS

LEMMA EmptyQueue == <<>> \in Seq(Events)
OBVIOUS

\* The events that are pushed and sent, and the rows that are inserted.
LEMMA BuiltTypes ==
  ASSUME TypeOK, NEW m \in Messages
  PROVE  Event(m) \in Events /\ Row(m) \in Rows
BY EventsAssumption DEF TypeOK, Event, AnswerType, Row, Events, Rows

\* What PushEvent makes of a room's feed: the event, then the old feed without
\* what exceeds the cap.
LEMMA PushedFeed ==
  ASSUME TypeOK, NEW t \in Tables, NEW e \in Events, PushEvent(t, e)
  PROVE  /\ feed' \in [Tables -> Seq(Events)]
         /\ \A s \in Tables : s # t => feed'[s] = feed[s]
         /\ Len(feed'[t]) = IF Len(feed[t]) < FeedCap THEN Len(feed[t]) + 1 ELSE FeedCap
         /\ feed'[t][1] = e
         /\ \A i \in 2..Len(feed'[t]) : feed'[t][i] = feed[t][i - 1]
<1>1. feed[t] \in Seq(Events) /\ Len(feed[t]) \in Nat /\ FeedCap \in Nat /\ FeedCap >= 1
  BY EventsAssumption DEF TypeOK
<1>2. CASE Len(feed[t]) < FeedCap
  <2>1. feed' = [feed EXCEPT ![t] = <<e>> \o feed[t]]
    BY <1>2 DEF PushEvent, TypeOK
  <2>2. <<e>> \o feed[t] \in Seq(Events)
    BY <1>1
  <2>3. Len(<<e>> \o feed[t]) = Len(feed[t]) + 1 /\ (<<e>> \o feed[t])[1] = e
    BY <1>1
  <2>4. \A i \in 2..Len(<<e>> \o feed[t]) : (<<e>> \o feed[t])[i] = feed[t][i - 1]
    BY <1>1
  <2>5. QED BY <1>2, <2>1, <2>2, <2>3, <2>4 DEF TypeOK
<1>3. CASE ~(Len(feed[t]) < FeedCap)
  <2> DEFINE kept == SubSeq(feed[t], 1, FeedCap - 1)
  <2>1. feed' = [feed EXCEPT ![t] = <<e>> \o kept]
    BY <1>3 DEF PushEvent, TypeOK
  <2>2. kept \in Seq(Events) /\ Len(kept) = FeedCap - 1
    BY <1>1, <1>3
  <2>3. \A i \in 1..FeedCap - 1 : kept[i] = feed[t][i]
    BY <1>1, <1>3
  <2> HIDE DEF kept
  <2>4. <<e>> \o kept \in Seq(Events) /\ Len(<<e>> \o kept) = FeedCap /\ (<<e>> \o kept)[1] = e
    BY <1>1, <2>2
  <2>5. \A i \in 2..FeedCap : (<<e>> \o kept)[i] = feed[t][i - 1]
    BY <1>1, <2>2, <2>3
  <2>6. QED BY <1>3, <2>1, <2>4, <2>5 DEF TypeOK
<1>4. QED BY <1>2, <1>3

-----------------------------------------------------------------------------
LEMMA TypeOKNext == TypeOK /\ [Next]_vars => TypeOK'
<1> SUFFICES ASSUME TypeOK, [Next]_vars PROVE TypeOK'
  OBVIOUS
<1> USE EventsAssumption DEF TypeOK
<1>1. ASSUME NEW m \in Messages, Receive(m) \/ Roll(m) \/ Answer(m) PROVE TypeOK'
  <2>1. CASE Receive(m)
    BY <2>1 DEF Receive, Goto, Stages, dbVars, redisVars
  <2>2. CASE Roll(m)
    BY <2>2 DEF Roll, Goto, Stages, dbVars, redisVars
  <2>3. CASE Answer(m)
    BY <2>3 DEF Answer, Goto, Stages, dbVars, redisVars
  <2>4. QED BY <1>1, <2>1, <2>2, <2>3
<1>2. ASSUME NEW m \in Messages, Insert(m) \/ InsertAnswerLost(m) PROVE TypeOK'
  <2>1. rows' \in SUBSET Rows /\ nextId' \in Nat
    BY <1>2, BuiltTypes DEF Insert, InsertAnswerLost
  <2>2. stage' \in [Messages -> Stages] /\ eventId' \in [Messages -> Nat]
    BY <1>2 DEF Insert, InsertAnswerLost, Goto, Stages
  <2>3. QED BY <1>2, <2>1, <2>2 DEF Insert, InsertAnswerLost, redisVars
<1>3. ASSUME NEW m \in Messages, InsertFails(m) PROVE TypeOK'
  BY <1>3 DEF InsertFails, Goto, Stages, redisVars
<1>4. ASSUME NEW m \in Messages, Push(m) PROVE TypeOK'
  <2>1. TableOf[m] \in Tables /\ Event(m) \in Events
    BY BuiltTypes
  <2>2. feed' \in [Tables -> Seq(Events)]
    BY <1>4, <2>1, PushedFeed DEF Push
  <2>3. lastEvent' \in [Tables -> Seq(Events)]
    <3>1. <<Event(m)>> \in Seq(Events)
      BY <2>1
    <3>2. QED BY <1>4, <2>1, <3>1 DEF Push, PushEvent
  <2>4. eventCount' \in [Tables -> Nat]
    BY <1>4, <2>1 DEF Push, PushEvent
  <2>5. QED BY <1>4, <2>2, <2>3, <2>4 DEF Push, Goto, Stages, dbVars
<1>5. ASSUME NEW m \in Messages, PushFails(m) PROVE TypeOK'
  BY <1>5 DEF PushFails, Goto, Stages, dbVars, redisVars
<1>6. ASSUME NEW m \in Messages, Send(m) \/ HandleSystemEvent(m) PROVE TypeOK'
  <2>1. sent' \in Seq(Events)
    <3>1. Event(m) \in Events
      BY BuiltTypes
    <3>2. sent' = Append(sent, Event(m))
      BY <1>6 DEF Send, HandleSystemEvent
    <3>3. QED BY <3>1, <3>2
  <2>2. stage' \in [Messages -> Stages]
    BY <1>6 DEF Send, HandleSystemEvent, Goto, Stages
  <2>3. QED BY <1>6, <2>1, <2>2 DEF Send, HandleSystemEvent, dbVars, redisVars
<1>7. CASE Tick
  BY <1>7 DEF Tick, workVars, dbVars, redisVars
<1>8. ASSUME EndProcess, restarts' \in 0..MaxRestarts PROVE TypeOK'
  BY <1>8 DEF EndProcess, Stages, dbVars, redisVars
<1>9. CASE UNCHANGED vars
  BY <1>9 DEF vars
<1>10. CASE Restart \/ \E m \in Messages : Panic(m)
  BY <1>8, <1>10 DEF Restart, Panic
<1>11. QED
  BY <1>1, <1>2, <1>3, <1>4, <1>5, <1>6, <1>7, <1>9, <1>10 DEF Next, Handle

LEMMA TypeOKInit == Init => TypeOK
BY EventsAssumption, EmptyQueue DEF Init, TypeOK, Stages

\* The state of the goroutines and of both stores always has its type.
THEOREM TypeCorrect == Spec => []TypeOK
BY TypeOKInit, TypeOKNext, PTL DEF Spec

-----------------------------------------------------------------------------
(***************************************************************************)
(* Postgres.  The invariant relates a goroutine's stage to the table: up   *)
(* to the insert there is no row of its message, and beyond it the row is  *)
(* there with the id the goroutine carries.  Only a roll is ever saved or  *)
(* given an id, and no row has the id 0.                                   *)
(***************************************************************************)
RowsInv ==
  /\ nextId > 0
  /\ \A r \in rows : r.id > 0 /\ r.id < nextId /\ KindOf[r.msg] = "roll"
  /\ NoDuplicateRows
  /\ \A m \in Messages : stage[m] = "saving" => KindOf[m] = "roll"
  /\ \A m \in Messages : KindOf[m] # "roll" => eventId[m] = 0
  /\ \A m \in Messages : stage[m] \in {"unsent", "received", "saving"} =>
       \A r \in rows : r.msg # m
  /\ \A m \in Messages : stage[m] \in {"pushing", "sending"} /\ KindOf[m] = "roll" =>
       Saved(Event(m))

LEMMA RowsInvInit == Init => RowsInv
BY EventsAssumption DEF Init, RowsInv, NoDuplicateRows

LEMMA RowsInvNext == TypeOK /\ RowsInv /\ [Next]_vars => RowsInv'
<1> SUFFICES ASSUME TypeOK, RowsInv, [Next]_vars PROVE RowsInv'
  OBVIOUS
<1> USE EventsAssumption
<1>1. ASSUME NEW m \in Messages, Insert(m) \/ InsertAnswerLost(m) PROVE RowsInv'
  <2> DEFINE new == Row(m)
  <2>1. /\ new.id = nextId /\ new.msg = m /\ new.table = TableOf[m]
        /\ rows' = rows \cup {new} /\ nextId' = nextId + 1
        /\ stage' = [stage EXCEPT ![m] = IF Insert(m) THEN "pushing" ELSE "failed"]
        /\ stage[m] = "saving"
    BY <1>1 DEF Insert, InsertAnswerLost, Row, Goto
  <2>2. /\ nextId \in Nat /\ nextId > 0 /\ KindOf[m] = "roll"
        /\ \A r \in rows : /\ r.id \in Nat /\ r.id > 0 /\ r.id < nextId
                           /\ r.msg # m /\ KindOf[r.msg] = "roll"
    BY <2>1 DEF TypeOK, Rows, RowsInv
  <2> HIDE DEF new
  <2>3. nextId' > 0 /\ \A r \in rows' : r.id > 0 /\ r.id < nextId' /\ KindOf[r.msg] = "roll"
    BY <2>1, <2>2
  <2>4. NoDuplicateRows'
    BY <2>1, <2>2 DEF RowsInv, NoDuplicateRows
  <2>5. ASSUME NEW n \in Messages, stage'[n] \in {"unsent", "received", "saving"},
               NEW r \in rows'
        PROVE  r.msg # n
    BY <2>1, <2>5 DEF TypeOK, RowsInv
  <2>6. ASSUME NEW n \in Messages, stage'[n] \in {"pushing", "sending"}, KindOf[n] = "roll"
        PROVE  Saved(Event(n))'
    <3>1. CASE n = m
      <4>1. eventId' = [eventId EXCEPT ![m] = nextId]
        BY <1>1, <2>1, <2>6, <3>1 DEF Insert, TypeOK
      <4>2. eventId'[m] = nextId
        BY <4>1 DEF TypeOK
      <4>3. QED BY <2>1, <3>1, <4>2 DEF Saved, IsRowOf, Event
    <3>2. CASE n # m
      <4>1. stage[n] \in {"pushing", "sending"} /\ eventId'[n] = eventId[n]
        BY <1>1, <2>1, <2>6, <3>2 DEF TypeOK, Insert, InsertAnswerLost
      <4>2. QED BY <2>1, <2>6, <4>1 DEF RowsInv, Saved, IsRowOf, Event
    <3>3. QED BY <3>1, <3>2
  <2>7. \A n \in Messages : /\ stage'[n] = "saving" => KindOf[n] = "roll"
                            /\ KindOf[n] # "roll" => eventId'[n] = 0
    BY <1>1, <2>1, <2>2 DEF Insert, InsertAnswerLost, RowsInv, TypeOK
  <2>8. QED BY <2>3, <2>4, <2>5, <2>6, <2>7 DEF RowsInv
<1>2. ASSUME UNCHANGED <<rows, eventId>>, nextId' \in {nextId, nextId + 1},
             \A m \in Messages :
               \/ stage'[m] = stage[m]
               \/ stage[m] = "unsent" /\ stage'[m] = "received"
               \/ KindOf[m] = "roll" /\ stage[m] = "received" /\ stage'[m] = "saving"
               \/ stage'[m] \in {"done", "failed", "lost"}
               \/ stage[m] = "pushing" /\ stage'[m] = "sending"
               \/ KindOf[m] = "other" /\ stage'[m] = "pushing"
      PROVE  RowsInv'
  <2>1. nextId' > 0 /\ \A r \in rows' : r.id > 0 /\ r.id < nextId' /\ KindOf[r.msg] = "roll"
    BY <1>2 DEF RowsInv, TypeOK, Rows
  <2>2. NoDuplicateRows'
    BY <1>2 DEF RowsInv, NoDuplicateRows
  <2>3. QED BY <1>2, <2>1, <2>2 DEF RowsInv, Saved, IsRowOf, Event
<1>3. ASSUME NEW m \in Messages,
             \/ Receive(m) \/ Roll(m) \/ Answer(m) \/ InsertFails(m) \/ Push(m)
             \/ PushFails(m) \/ Send(m) \/ HandleSystemEvent(m)
      PROVE  RowsInv'
  <2>1. UNCHANGED <<rows, eventId>> /\ nextId' \in {nextId, nextId + 1}
    BY <1>3 DEF Receive, Roll, Answer, InsertFails, Push, PushFails, Send,
                HandleSystemEvent, dbVars
  <2>2. ASSUME NEW n \in Messages
        PROVE  \/ stage'[n] = stage[n]
               \/ stage[n] = "unsent" /\ stage'[n] = "received"
               \/ KindOf[n] = "roll" /\ stage[n] = "received" /\ stage'[n] = "saving"
               \/ stage'[n] \in {"done", "failed", "lost"}
               \/ stage[n] = "pushing" /\ stage'[n] = "sending"
               \/ KindOf[n] = "other" /\ stage'[n] = "pushing"
    BY <1>3 DEF TypeOK, Receive, Roll, Answer, InsertFails, Push, PushFails, Send,
                HandleSystemEvent, Goto
  <2>3. QED BY <1>2, <2>1, <2>2
<1>4. CASE Restart \/ \E m \in Messages : Panic(m)
  BY <1>2, <1>4 DEF Restart, Panic, EndProcess, dbVars
<1>5. CASE Tick \/ UNCHANGED vars
  BY <1>2, <1>5 DEF Tick, workVars, dbVars, vars
<1>6. QED
  BY <1>1, <1>3, <1>4, <1>5 DEF Next, Handle

\* No roll has two rows and no two rows share an id.
THEOREM RowsUnique == Spec => []NoDuplicateRows
<1>1. RowsInv => NoDuplicateRows
  BY DEF RowsInv
<1>2. QED
  BY <1>1, TypeOKInit, TypeOKNext, RowsInvInit, RowsInvNext, PTL DEF Spec

-----------------------------------------------------------------------------
\* Rows are never taken away.
LEMMA RowsGrow == [Next]_vars => rows \subseteq rows'
BY DEF Next, Receive, Handle, Roll, Answer, Insert, InsertAnswerLost, InsertFails,
       Push, PushFails, Send, HandleSystemEvent, Tick, Restart, Panic,
       EndProcess, workVars, dbVars, vars

(***************************************************************************)
(* What is told.  An event carries the type of its answer and, if it asked *)
(* for a roll, the id of its row; any other has id 0.                      *)
(***************************************************************************)
AsAnswered(R, e) ==
  /\ e.type = AnswerType(e.msg)
  /\ IF KindOf[e.msg] = "roll" THEN \E r \in R : IsRowOf(r, e) ELSE e.id = 0

ToldInv ==
  /\ \A i \in 1..Len(sent) : AsAnswered(rows, sent[i])
  /\ \A t \in Tables : \A i \in 1..Len(feed[t]) : AsAnswered(rows, feed[t][i])

\* An event that is pushed, sent or announced is as answered, and so it stays.
LEMMA EventIsAsAnswered ==
  ASSUME RowsInv, NEW m \in Messages,
         stage[m] \in {"pushing", "sending"} \/ KindOf[m] = "system"
  PROVE  AsAnswered(rows, Event(m))
BY DEF RowsInv, AsAnswered, Event, Saved

LEMMA AnswersStay ==
  ASSUME [Next]_vars, NEW e, AsAnswered(rows, e)
  PROVE  AsAnswered(rows', e)
BY RowsGrow DEF AsAnswered

\* By the invariants such an event is true to its id.
LEMMA AnswersAreTrue ==
  ASSUME TypeOK, RowsInv, NEW e \in Events, AsAnswered(rows, e)
  PROVE  TrueToItsId(e)
<1>1. e.msg \in Messages /\ KindOf[e.msg] \in {"roll", "other", "system"}
  BY EventsAssumption DEF Events
<1>2. CASE KindOf[e.msg] = "roll"
  BY <1>2 DEF AsAnswered, RowsInv, IsRowOf, TrueToItsId, Saved
<1>3. CASE KindOf[e.msg] # "roll"
  BY <1>1, <1>3 DEF AsAnswered, AnswerType, RowsInv, TrueToItsId
<1>4. QED BY <1>2, <1>3

LEMMA ToldNext == TypeOK /\ RowsInv /\ ToldInv /\ [Next]_vars => ToldInv'
<1> SUFFICES ASSUME TypeOK, RowsInv, ToldInv, [Next]_vars
             PROVE  ToldInv'
  OBVIOUS
<1> USE EventsAssumption
<1>1. ASSUME NEW i \in 1..Len(sent') PROVE AsAnswered(rows', sent'[i])
  <2>1. CASE i \in 1..Len(sent) /\ sent'[i] = sent[i]
    BY <2>1, AnswersStay DEF ToldInv
  <2>2. ASSUME NEW m \in Messages, Send(m) \/ HandleSystemEvent(m), sent'[i] = Event(m)
        PROVE  AsAnswered(rows', sent'[i])
    <3>1. AsAnswered(rows, Event(m))
      BY <2>2, EventIsAsAnswered DEF Send, HandleSystemEvent
    <3>2. QED BY <2>2, <3>1, AnswersStay
  <2>3. \/ i \in 1..Len(sent) /\ sent'[i] = sent[i]
        \/ \E m \in Messages : (Send(m) \/ HandleSystemEvent(m)) /\ sent'[i] = Event(m)
    <3>1. ASSUME NEW m \in Messages, Send(m) \/ HandleSystemEvent(m)
          PROVE  (i \in 1..Len(sent) /\ sent'[i] = sent[i]) \/ sent'[i] = Event(m)
      <4>1. sent \in Seq(Events) /\ sent' = Append(sent, Event(m)) /\ Event(m) \in Events
        BY <3>1, BuiltTypes DEF TypeOK, Send, HandleSystemEvent
      <4>2. QED BY <1>1, <4>1
    <3>2. CASE \A m \in Messages : ~Send(m) /\ ~HandleSystemEvent(m)
      <4>1. sent' = sent
        BY <3>2 DEF Next, Receive, Handle, Roll, Answer, Insert, InsertAnswerLost,
                    InsertFails, Push, PushFails, Tick, Restart, Panic, EndProcess, vars
      <4>2. QED BY <1>1, <4>1
    <3>3. QED BY <3>1, <3>2
  <2>4. QED BY <2>1, <2>2, <2>3
<1>2. ASSUME NEW t \in Tables, NEW i \in 1..Len(feed'[t])
      PROVE  AsAnswered(rows', feed'[t][i])
  <2>1. CASE feed'[t] = feed[t]
    BY <1>2, <2>1, AnswersStay DEF ToldInv
  <2>2. CASE feed'[t] # feed[t]
    <3>1. PICK m \in Messages : Push(m)
      BY <2>2 DEF Next, Receive, Handle, Roll, Answer, Insert, InsertAnswerLost,
                  InsertFails, PushFails, Send, HandleSystemEvent, Tick, Restart,
                  Panic, EndProcess, redisVars, vars
    <3>2. TableOf[m] \in Tables /\ Event(m) \in Events /\ PushEvent(TableOf[m], Event(m))
      BY <3>1, BuiltTypes DEF Push
    <3>3. t = TableOf[m]
      BY <2>2, <3>2, PushedFeed
    <3>4. CASE i = 1
      <4>1. feed'[t][i] = Event(m)
        BY <3>2, <3>3, <3>4, PushedFeed
      <4>2. AsAnswered(rows, Event(m))
        BY <3>1, EventIsAsAnswered DEF Push
      <4>3. QED BY <4>1, <4>2, AnswersStay
    <3>5. CASE i # 1
      <4>1. Len(feed'[t]) \in Nat /\ Len(feed[t]) \in Nat
        BY <3>2, PushedFeed DEF TypeOK
      <4>2. i \in 2..Len(feed'[t]) /\ feed'[t][i] = feed[t][i - 1]
        BY <1>2, <3>2, <3>3, <3>5, <4>1, PushedFeed
      <4>3. i - 1 \in 1..Len(feed[t])
        BY <3>2, <3>3, <4>1, <4>2, PushedFeed
      <4>4. AsAnswered(rows, feed[t][i - 1])
        BY <4>3 DEF ToldInv
      <4>5. QED BY <4>2, <4>4, AnswersStay
    <3>6. QED BY <3>4, <3>5
  <2>3. QED BY <2>1, <2>2
<1>3. QED BY <1>1, <1>2 DEF ToldInv

LEMMA ToldInvIsTrue == TypeOK /\ RowsInv /\ ToldInv => ToldRollsAreSaved
<1> SUFFICES ASSUME TypeOK, RowsInv, ToldInv PROVE ToldRollsAreSaved
  OBVIOUS
<1>1. ASSUME NEW i \in 1..Len(sent) PROVE TrueToItsId(sent[i])
  <2>1. sent \in Seq(Events)
    BY DEF TypeOK
  <2>2. sent[i] \in Events
    BY <1>1, <2>1
  <2>3. QED BY <2>2, AnswersAreTrue DEF ToldInv
<1>2. ASSUME NEW t \in Tables, NEW i \in 1..Len(feed[t]) PROVE TrueToItsId(feed[t][i])
  <2>1. feed[t] \in Seq(Events)
    BY DEF TypeOK
  <2>2. feed[t][i] \in Events
    BY <1>2, <2>1
  <2>3. QED BY <2>2, AnswersAreTrue DEF ToldInv
<1>3. QED BY <1>1, <1>2 DEF ToldRollsAreSaved

LEMMA ToldInvInit == Init => ToldInv
BY DEF Init, ToldInv

\* A table that is told of a roll, live or from the Redis feed, is told the id
\* of its row in Postgres, or 0 of an event that asked for no roll and has no
\* row.
THEOREM ToldIsSaved == Spec => []ToldRollsAreSaved
BY TypeOKInit, TypeOKNext, RowsInvInit, RowsInvNext, ToldInvInit, ToldNext, ToldInvIsTrue,
   PTL DEF Spec

-----------------------------------------------------------------------------
LEMMA FeedNext == TypeOK /\ FeedAgreesWithState /\ [Next]_vars => FeedAgreesWithState'
<1> SUFFICES ASSUME TypeOK, FeedAgreesWithState, [Next]_vars PROVE FeedAgreesWithState'
  OBVIOUS
<1> USE EventsAssumption
<1>1. ASSUME NEW m \in Messages, Push(m) PROVE FeedAgreesWithState'
  <2>1. TableOf[m] \in Tables /\ Event(m) \in Events /\ PushEvent(TableOf[m], Event(m))
    BY <1>1, BuiltTypes DEF Push
  <2>2. /\ eventCount' = [eventCount EXCEPT ![TableOf[m]] = @ + 1]
        /\ lastEvent' = [lastEvent EXCEPT ![TableOf[m]] = <<Event(m)>>]
    BY <2>1 DEF PushEvent
  <2>3. SUFFICES ASSUME NEW t \in Tables
                 PROVE  /\ Len(feed'[t]) = IF eventCount'[t] < FeedCap THEN eventCount'[t] ELSE FeedCap
                        /\ lastEvent'[t] = IF feed'[t] = <<>> THEN <<>> ELSE <<feed'[t][1]>>
    BY DEF FeedAgreesWithState
  <2>4. CASE t # TableOf[m]
    <3>1. feed'[t] = feed[t]
      BY <2>1, <2>4, PushedFeed
    <3>2. QED BY <2>2, <2>4, <3>1 DEF TypeOK, FeedAgreesWithState
  <2>5. CASE t = TableOf[m]
    <3>1. /\ eventCount[t] \in Nat /\ eventCount'[t] = eventCount[t] + 1
          /\ lastEvent'[t] = <<Event(m)>>
      BY <2>2, <2>5 DEF TypeOK
    <3>2. Len(feed[t]) = IF eventCount[t] < FeedCap THEN eventCount[t] ELSE FeedCap
      BY DEF FeedAgreesWithState
    <3>3. /\ feed' \in [Tables -> Seq(Events)]
          /\ Len(feed'[t]) = IF Len(feed[t]) < FeedCap THEN Len(feed[t]) + 1 ELSE FeedCap
          /\ feed'[t][1] = Event(m)
      BY <2>1, <2>5, PushedFeed
    <3>4. Len(feed'[t]) = IF eventCount'[t] < FeedCap THEN eventCount'[t] ELSE FeedCap
      BY <3>1, <3>2, <3>3
    <3>5. feed'[t] # <<>>
      BY <3>1, <3>3, <3>4
    <3>6. QED BY <3>1, <3>3, <3>4, <3>5
  <2>6. QED BY <2>4, <2>5
<1>2. ASSUME UNCHANGED redisVars PROVE FeedAgreesWithState'
  BY <1>2 DEF redisVars, FeedAgreesWithState
<1>3. CASE \A m \in Messages : ~Push(m)
  <2>1. UNCHANGED redisVars
    BY <1>3 DEF Next, Receive, Handle, Roll, Answer, Insert, InsertAnswerLost,
                InsertFails, PushFails, Send, HandleSystemEvent, Tick, Restart,
                Panic, EndProcess,
                redisVars, vars
  <2>2. QED BY <1>2, <2>1
<1>4. QED BY <1>1, <1>3

\* The feed of a room and its state in Redis agree, whichever goroutines push
\* in whichever order.
THEOREM FeedAgrees == Spec => []FeedAgreesWithState
<1>1. Init => FeedAgreesWithState
  BY EventsAssumption DEF Init, FeedAgreesWithState
<1>2. QED
  BY <1>1, TypeOKInit, TypeOKNext, FeedNext, PTL DEF Spec

-----------------------------------------------------------------------------
\* A row carries the time its goroutine took, which does not change once it is in.
StampInv == \A r \in rows : r.created = stamp[r.msg]

LEMMA StampNext == TypeOK /\ RowsInv /\ StampInv /\ [Next]_vars => StampInv'
<1> SUFFICES ASSUME TypeOK, RowsInv, StampInv, [Next]_vars PROVE StampInv'
  OBVIOUS
<1>1. ASSUME NEW m \in Messages, Insert(m) \/ InsertAnswerLost(m) PROVE StampInv'
  <2>1. rows' = rows \cup {Row(m)} /\ stamp' = stamp
    BY <1>1 DEF Insert, InsertAnswerLost
  <2>2. Row(m).created = stamp[m] /\ Row(m).msg = m
    BY DEF Row
  <2>3. QED BY <2>1, <2>2 DEF StampInv
<1>2. ASSUME NEW m \in Messages, Roll(m) PROVE StampInv'
  <2>1. rows' = rows /\ stamp' = [stamp EXCEPT ![m] = clock] /\ stage[m] = "received"
    BY <1>2 DEF Roll, dbVars
  <2>2. \A r \in rows : r.msg # m /\ r.msg \in Messages
    BY <2>1 DEF RowsInv, TypeOK, Rows
  <2>3. QED BY <2>1, <2>2 DEF StampInv, TypeOK
<1>3. CASE \A m \in Messages : ~Insert(m) /\ ~InsertAnswerLost(m) /\ ~Roll(m)
  <2>1. rows' = rows /\ stamp' = stamp
    BY <1>3 DEF Next, Receive, Handle, Answer, InsertFails, Push, PushFails, Send,
                HandleSystemEvent, Tick, Restart, Panic, EndProcess, workVars, dbVars, vars
  <2>2. QED BY <2>1 DEF StampInv
<1>4. QED BY <1>1, <1>2, <1>3

\* What any page of a table's history shows of what the table was told.
LEMMA PagesShowRows ==
  ASSUME TypeOK, RowsInv, StampInv, NEW t \in Tables, NEW P \in Pages(t),
         NEW e \in Events, AsAnswered(rows, e), TableOf[e.msg] = t
  PROVE  ShownByItsId(P, e)
<1>1. TrueToItsId(e) /\ P \subseteq rows
  BY AnswersAreTrue DEF Pages, RowsOf
<1>2. ASSUME Saved(e) PROVE Shown(P, e)
  <2>1. PICK row \in rows : IsRowOf(row, e)
    BY <1>2 DEF Saved
  <2>2. row \in RowsOf(t) /\ row.created = stamp[e.msg]
    BY <2>1 DEF IsRowOf, RowsOf, StampInv
  <2>3. CASE row \in P
    BY <2>1, <2>3 DEF Shown
  <2>4. CASE row \notin P
    BY <2>2, <2>4 DEF Pages, Shown
  <2>5. QED BY <2>3, <2>4
<1>3. QED BY <1>1, <1>2 DEF ShownByItsId, TrueToItsId

\* A player who reloads sees the rolls the table has been told about, and none
\* of those with id 0, whichever page the database answers with.
THEOREM HistoryShows == Spec => []HistoryShowsToldRolls
<1>1. Init => StampInv
  BY DEF Init, StampInv
<1>2. ASSUME TypeOK, RowsInv, StampInv, ToldInv PROVE HistoryShowsToldRolls
  <2>1. SUFFICES ASSUME NEW i \in 1..Len(sent), NEW P \in Pages(TableOf[sent[i].msg])
                 PROVE  ShownByItsId(P, sent[i])
    BY DEF HistoryShowsToldRolls
  <2>2. sent[i] \in Events /\ TableOf[sent[i].msg] \in Tables
    <3>1. sent \in Seq(Events)
      BY <1>2 DEF TypeOK
    <3>2. sent[i] \in Events
      BY <2>1, <3>1
    <3>3. QED BY <3>2, EventsAssumption DEF Events
  <2>3. AsAnswered(rows, sent[i])
    BY <1>2 DEF ToldInv
  <2>4. QED BY <1>2, <2>2, <2>3, PagesShowRows
<1>3. TypeOK /\ RowsInv /\ StampInv /\ ToldInv => HistoryShowsToldRolls
  BY <1>2
<1>4. QED
  BY <1>1, <1>3, TypeOKInit, TypeOKNext, RowsInvInit, RowsInvNext, ToldInvInit, ToldNext,
     StampNext, PTL DEF Spec
=============================================================================
