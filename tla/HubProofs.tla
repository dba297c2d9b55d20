----------------------------- MODULE HubProofs -----------------------------
(***************************************************************************)
(* Theorems about Hub, for every value of its constants.                   *)
(***************************************************************************)
EXTENDS Hub, TLAPS

\* What each place of Hub.Run knows about its local variables.
LocalsOK ==
  /\ hubPc \in {"addUser", "announceJoin", "removeUser", "announceLeave"}
       => hubClient \in Clients
  /\ hubPc = "fanout" => hubEvent \in Events

TypeInv == TypeOK /\ LocalsOK

\* The events the goroutines build are events.
LEMMA EventTypes ==
  /\ \A c \in Clients : \A tag \in SystemTags : SystemEvent(tag, c) \in Events
  /\ \A m \in Messages : TableEvent(m) \in Events
BY HubAssumption DEF SystemEvent, TableEvent, Events, SystemTags

LEMMA EmptyQueue == <<>> \in Seq(Events)
OBVIOUS

LEMMA TypeInvInit == Init => TypeInv
<1> SUFFICES ASSUME Init PROVE TypeInv
  OBVIOUS
<1>1. ClientTypes
  BY EmptyQueue DEF Init, ClientTypes
<1>2. HubTypes
  <2>1. tables \in [Tables -> SUBSET Clients]
    BY DEF Init
  <2>2. restarts \in 0..MaxRestarts
    BY HubAssumption DEF Init
  <2>3. broadcast \in Seq(Events) /\ tableKeys \in SUBSET Tables /\ todo \in SUBSET Clients
    BY EmptyQueue DEF Init
  <2>4. hubClient \in Clients \cup {None} /\ hubEvent \in Events \cup {None}
    BY DEF Init
  <2>5. QED
    BY <2>1, <2>2, <2>3, <2>4 DEF Init, HubTypes
<1>3. RedisTypes
  BY DEF Init, RedisTypes
<1>4. LocalsOK
  BY DEF Init, LocalsOK
<1>5. QED
  BY <1>1, <1>2, <1>3, <1>4 DEF TypeInv, TypeOK

\* A Redis pipeline writes user ids to room sets and table ids to user records.
LEMMA RedisWriteTypes ==
  ASSUME NEW t \in Tables, NEW u \in Users, RedisTypes,
         AddUser(t, u) \/ RemoveUser(t, u)
  PROVE  RedisTypes'
<1>1. CASE AddUser(t, u)
  BY <1>1 DEF AddUser, redisVars, RedisTypes
<1>2. CASE RemoveUser(t, u)
  BY <1>2 DEF RemoveUser, redisVars, RedisTypes
<1>3. QED BY <1>1, <1>2

LEMMA TypeInvNext == TypeInv /\ [Next]_vars => TypeInv'
<1> SUFFICES ASSUME TypeInv, [Next]_vars PROVE TypeInv'
  OBVIOUS
<1> USE HubAssumption, EmptyQueue DEF TypeInv, TypeOK, LocalsOK, ClientTypes, HubTypes, RedisTypes
<1>1. ASSUME NEW c \in Clients, Connect(c) PROVE TypeInv'
  BY <1>1 DEF Connect, clientVars, sendVars, writerVars, mapVars, hubVars, redisVars
<1>2. ASSUME NEW c \in Clients, Lose(c) PROVE TypeInv'
  BY <1>2 DEF Lose, clientVars, sendVars, writerVars, mapVars, hubVars, redisVars
<1>3. ASSUME NEW c \in Clients, ReaderStep(c) PROVE TypeInv'
  <2>1. CASE StartPumps(c)
    BY <2>1 DEF StartPumps, sendVars, mapVars, hubVars, redisVars
  <2>2. CASE ReadFails(c)
    BY <2>2 DEF ReadFails, sendVars, writerVars, mapVars, hubVars, redisVars
  <2>3. CASE CloseConn(c)
    BY <2>3 DEF CloseConn, sendVars, writerVars, mapVars, hubVars, redisVars
  <2>4. QED BY <1>3, <2>1, <2>2, <2>3 DEF ReaderStep
<1>4. ASSUME NEW c \in Clients, WriterStep(c) PROVE TypeInv'
  <2>1. CASE WriterTake(c)
    BY <2>1 DEF WriterTake, clientVars, sendVars, writerVars, mapVars, hubVars, redisVars
  <2>2. CASE WriteOk(c)
    BY <2>2 DEF WriteOk, clientVars, sendVars, mapVars, hubVars, redisVars
  <2>3. CASE StopWriter(c)
    BY <2>3 DEF StopWriter, sendVars, mapVars, hubVars, redisVars
  <2>4. QED BY <1>4, <2>1, <2>2, <2>3 DEF WriterStep, WriteFails, WriterSeesClose
<1>5. ASSUME NEW m \in Messages, ReadMessage(m) \/ ProcessStep(m) PROVE TypeInv'
  BY <1>5 DEF ReadMessage, ProcessStep, ProcessOk, ProcessError,
              clientVars, sendVars, writerVars, mapVars, hubVars, redisVars
<1>6. ASSUME NEW m \in Messages, SendBroadcast(m) PROVE TypeInv'
  BY <1>6, EventTypes DEF SendBroadcast, EnqueueBroadcast,
              clientVars, sendVars, writerVars, mapVars, hubVars, redisVars
<1>7. ASSUME NEW c \in Clients, HubRegister(c) PROVE TypeInv'
  BY <1>7 DEF HubRegister, clientVars, sendVars, writerVars, mapVars, hubVars, redisVars
<1>8. ASSUME NEW c \in Clients, HubUnregister(c) PROVE TypeInv'
  <2>1. sendClosed' \in SUBSET Clients /\ panicked' \in BOOLEAN
    <3>1. CASE InRoom(c)
      BY <1>8, <3>1 DEF HubUnregister, CloseSend
    <3>2. CASE ~InRoom(c)
      BY <1>8, <3>2 DEF HubUnregister
    <3>3. QED BY <3>1, <3>2
  <2>2. tables' \in [Tables -> SUBSET Clients] /\ tableKeys' \in SUBSET Tables
    <3>1. CASE InRoom(c)
      <4>1. tableKeys' \in SUBSET Tables
        BY <1>8, <3>1 DEF HubUnregister
      <4>2. tables' = [tables EXCEPT ![TableOf[c]] = @ \ {c}]
        BY <1>8, <3>1 DEF HubUnregister
      <4>3. QED BY <4>1, <4>2
    <3>2. CASE ~InRoom(c)
      BY <1>8, <3>2 DEF HubUnregister, mapVars
    <3>3. QED BY <3>1, <3>2
  <2>3. /\ pc' = [pc EXCEPT ![c] = "left"]
        /\ hubPc' = "removeUser" /\ hubClient' = c
        /\ UNCHANGED <<conn, sendq, writer, hand, worker, broadcast, hubEvent,
                       todo, roomUsers, userRoom, restarts>>
    BY <1>8 DEF HubUnregister, writerVars, redisVars
  <2>4. QED BY <2>1, <2>2, <2>3
<1>9. CASE HubAddUser
  <2>1. TableOf[hubClient] \in Tables /\ UserOf[hubClient] \in Users
    BY <1>9 DEF HubAddUser
  <2>2. RedisTypes'
    BY <1>9, <2>1, RedisWriteTypes DEF HubAddUser
  <2>3. QED
    BY <1>9, <2>2 DEF HubAddUser, clientVars, sendVars, writerVars, mapVars
<1>10. CASE HubRemoveUser
  <2>1. TableOf[hubClient] \in Tables /\ UserOf[hubClient] \in Users
    BY <1>10 DEF HubRemoveUser
  <2>2. RedisTypes'
    BY <1>10, <2>1, RedisWriteTypes DEF HubRemoveUser
  <2>3. QED
    BY <1>10, <2>2 DEF HubRemoveUser, clientVars, sendVars, writerVars, mapVars
<1>11. ASSUME HubAnnounceJoin \/ HubAnnounceLeave PROVE TypeInv'
  <2>1. PICK tag \in SystemTags : Announce(tag) /\ hubClient \in Clients
    BY <1>11 DEF HubAnnounceJoin, HubAnnounceLeave, ConnectTag, DisconnectTag, SystemTags
  <2>2. broadcast' \in Seq(Events)
    BY <2>1, EventTypes DEF Announce, EnqueueBroadcast
  <2>3. QED
    BY <2>1, <2>2 DEF Announce, clientVars, sendVars, writerVars, mapVars, redisVars
<1>12. CASE HubReceive
  <2>1. Head(broadcast) \in Events /\ Tail(broadcast) \in Seq(Events)
    BY <1>12 DEF HubReceive
  <2>2. Recipients(Head(broadcast)) \in SUBSET Clients
    BY <2>1 DEF Recipients, Events
  <2>3. QED
    BY <1>12, <2>1, <2>2 DEF HubReceive,
              clientVars, sendVars, writerVars, mapVars, hubVars, redisVars
<1>13. ASSUME NEW c \in Clients, FanoutSend(c) PROVE TypeInv'
  BY <1>13 DEF FanoutSend, Visited,
              clientVars, sendVars, writerVars, mapVars, hubVars, redisVars
<1>14. ASSUME NEW c \in Clients, FanoutDrop(c) PROVE TypeInv'
  BY <1>14 DEF FanoutDrop, CloseSend, Visited, Events,
              clientVars, sendVars, writerVars, mapVars, hubVars, redisVars
<1>15. CASE Restart
  <2>1. ClientTypes'
    BY <1>15 DEF Restart
  <2>2. HubTypes'
    <3>1. tables' \in [Tables -> SUBSET Clients]
      BY <1>15 DEF Restart
    <3>2. restarts' \in 0..MaxRestarts
      BY <1>15 DEF Restart
    <3>3. QED BY <1>15, <3>1, <3>2 DEF Restart
  <2>3. RedisTypes'
    BY <1>15 DEF Restart, redisVars
  <2>4. LocalsOK'
    BY <1>15 DEF Restart
  <2>5. QED BY <2>1, <2>2, <2>3, <2>4
<1>16. CASE UNCHANGED vars
  BY <1>16 DEF vars
<1>17. QED
  BY <1>1, <1>2, <1>3, <1>4, <1>5, <1>6, <1>7, <1>8, <1>9, <1>10, <1>11, <1>12,
     <1>13, <1>14, <1>15, <1>16
     DEF Next, Registering, Unregistering, HubStep, FanoutStep

\* The state of the hub, of its clients and of Redis always has its type.
THEOREM TypeCorrect == Spec => []TypeOK
<1>1. TypeInv => TypeOK
  BY DEF TypeInv
<1>2. QED
  BY <1>1, TypeInvInit, TypeInvNext, PTL DEF Spec

-----------------------------------------------------------------------------
(***************************************************************************)
(* Channels.  The set of clients of a table and the state of their send    *)
(* channels agree: this is what makes every close the first one and every  *)
(* send one on an open channel.                                            *)
(***************************************************************************)
MembersOK ==
  \A t \in Tables : \A c \in tables[t] :
    /\ t \in tableKeys
    /\ TableOf[c] = t
    /\ Attached(c)
    /\ c \notin sendClosed

OthersOK ==
  \A c \in Clients :
    /\ pc[c] \in {"new", "registering"} => c \notin sendClosed
    /\ Attached(c) /\ c \notin tables[TableOf[c]] => c \in sendClosed
    /\ pc[c] = "left" => c \in sendClosed

FanoutOK == hubPc = "fanout" => todo \subseteq tables[hubEvent.table]

ChannelInv == ~panicked /\ MembersOK /\ OthersOK /\ FanoutOK

LEMMA ChannelInvInit == Init => ChannelInv
BY HubAssumption DEF Init, ChannelInv, MembersOK, OthersOK, FanoutOK, Attached

\* A goroutine of one client may only move that client along, without
\* crossing between new, attached and left.
LEMMA ChannelInvPc ==
  ASSUME TypeInv, ChannelInv,
         UNCHANGED <<tables, tableKeys, sendClosed, panicked>>,
         hubPc' = "fanout" => UNCHANGED <<hubPc, todo, hubEvent>>,
         \A c \in Clients :
           \/ pc'[c] = pc[c]
           \/ pc[c] = "new" /\ pc'[c] = "registering"
           \/ Attached(c) /\ Attached(c)'
           \/ pc[c] = "left" /\ pc'[c] = "gone"
  PROVE  ChannelInv'
<1>1. MembersOK'
  BY DEF TypeInv, TypeOK, HubTypes, ChannelInv, MembersOK, Attached
<1>2. OthersOK'
  BY HubAssumption DEF ChannelInv, OthersOK, Attached
<1>3. FanoutOK' /\ ~panicked'
  BY DEF ChannelInv, FanoutOK
<1>4. QED BY <1>1, <1>2, <1>3 DEF ChannelInv

LEMMA ChannelInvNext == TypeInv /\ ChannelInv /\ [Next]_vars => ChannelInv'
<1> SUFFICES ASSUME TypeInv, ChannelInv, [Next]_vars PROVE ChannelInv'
  OBVIOUS
<1> USE HubAssumption
<1>1. pc \in [Clients -> {"new", "registering", "registered", "reading",
                         "leaving", "left", "gone"}]
  BY DEF TypeInv, TypeOK, ClientTypes
<1>2. ASSUME NEW c \in Clients, Connect(c) PROVE ChannelInv'
  BY <1>1, <1>2, ChannelInvPc DEF Connect, sendVars, mapVars, hubVars
<1>3. ASSUME NEW c \in Clients, Lose(c) PROVE ChannelInv'
  BY <1>1, <1>3, ChannelInvPc DEF Lose, sendVars, mapVars, hubVars
<1>4. ASSUME NEW c \in Clients, ReaderStep(c) PROVE ChannelInv'
  <2>1. CASE StartPumps(c)
    BY <1>1, <2>1, ChannelInvPc DEF StartPumps, sendVars, mapVars, hubVars, Attached
  <2>2. CASE ReadFails(c)
    BY <1>1, <2>2, ChannelInvPc DEF ReadFails, sendVars, mapVars, hubVars, Attached
  <2>3. CASE CloseConn(c)
    BY <1>1, <2>3, ChannelInvPc DEF CloseConn, sendVars, mapVars, hubVars, Attached
  <2>4. QED BY <1>4, <2>1, <2>2, <2>3 DEF ReaderStep
<1>5. ASSUME NEW c \in Clients, WriterStep(c) PROVE ChannelInv'
  BY <1>1, <1>5, ChannelInvPc
     DEF WriterStep, WriterTake, WriteOk, WriteFails, WriterSeesClose, StopWriter,
         clientVars, sendVars, mapVars, hubVars
<1>6. ASSUME NEW m \in Messages, ReadMessage(m) \/ ProcessStep(m) \/ SendBroadcast(m)
      PROVE  ChannelInv'
  BY <1>1, <1>6, ChannelInvPc
     DEF ReadMessage, ProcessStep, ProcessOk, ProcessError, SendBroadcast,
         clientVars, sendVars, mapVars, hubVars
<1>7. CASE HubAddUser \/ HubRemoveUser \/ HubAnnounceJoin \/ HubAnnounceLeave
  BY <1>1, <1>7, ChannelInvPc
     DEF HubAddUser, HubRemoveUser, HubAnnounceJoin, HubAnnounceLeave, Announce,
         clientVars, sendVars, mapVars, hubVars
<1>8. ASSUME NEW c \in Clients, HubRegister(c) PROVE ChannelInv'
  <2> USE <1>8 DEF TypeInv, TypeOK, ClientTypes, HubTypes, HubRegister, sendVars, Attached
  <2>1. MembersOK'
    BY DEF ChannelInv, MembersOK, OthersOK
  <2>2. OthersOK'
    BY DEF ChannelInv, OthersOK
  <2>3. QED BY <2>1, <2>2 DEF ChannelInv, FanoutOK
<1>9. ASSUME NEW c \in Clients, HubUnregister(c) PROVE ChannelInv'
  <2> USE <1>9 DEF TypeInv, TypeOK, ClientTypes, HubTypes, HubUnregister, Attached
  <2>1. CASE InRoom(c)
    <3>1. /\ ~panicked' /\ sendClosed' = sendClosed \cup {c}
          /\ tables' = [tables EXCEPT ![TableOf[c]] = @ \ {c}]
      BY <2>1 DEF ChannelInv, MembersOK, CloseSend, InRoom
    <3>2. MembersOK'
      BY <2>1, <3>1 DEF ChannelInv, MembersOK
    <3>3. OthersOK'
      BY <3>1 DEF ChannelInv, OthersOK
    <3>4. QED BY <3>1, <3>2, <3>3 DEF ChannelInv, FanoutOK
  <2>2. CASE ~InRoom(c)
    <3>1. c \notin tables[TableOf[c]] /\ c \in sendClosed
      BY <2>2 DEF InRoom, ChannelInv, MembersOK, OthersOK
    <3>2. UNCHANGED <<tables, tableKeys, sendClosed, panicked>>
      BY <2>2 DEF mapVars
    <3>3. MembersOK'
      BY <3>1, <3>2 DEF ChannelInv, MembersOK
    <3>4. OthersOK'
      BY <3>1, <3>2 DEF ChannelInv, OthersOK
    <3>5. QED BY <3>2, <3>3, <3>4 DEF ChannelInv, FanoutOK
  <2>3. QED BY <2>1, <2>2
<1>10. CASE HubReceive
  <2>1. MembersOK' /\ OthersOK' /\ ~panicked'
    BY <1>10 DEF HubReceive, clientVars, sendVars, mapVars, ChannelInv, MembersOK, OthersOK, Attached
  <2>2. FanoutOK'
    BY <1>10 DEF HubReceive, FanoutOK, mapVars, hubVars, Recipients
  <2>3. QED BY <2>1, <2>2 DEF ChannelInv
<1>11. ASSUME NEW c \in Clients, FanoutSend(c) PROVE ChannelInv'
  <2>1. hubEvent.table \in Tables
    BY <1>11 DEF TypeInv, LocalsOK, FanoutSend, Events
  <2>2. c \notin sendClosed
    BY <1>11, <2>1 DEF FanoutSend, ChannelInv, FanoutOK, MembersOK
  <2>3. MembersOK' /\ OthersOK' /\ ~panicked'
    BY <1>11, <2>2 DEF FanoutSend, clientVars, mapVars, ChannelInv, MembersOK, OthersOK, Attached
  <2>4. FanoutOK'
    BY <1>11 DEF FanoutSend, Visited, mapVars, ChannelInv, FanoutOK
  <2>5. QED BY <2>3, <2>4 DEF ChannelInv
<1>12. ASSUME NEW c \in Clients, FanoutDrop(c) PROVE ChannelInv'
  <2> USE <1>12 DEF FanoutDrop, CloseSend, clientVars, Attached
  <2>1. hubEvent.table \in Tables
    BY DEF TypeInv, LocalsOK, Events
  <2>2. c \notin sendClosed /\ c \in tables[hubEvent.table] /\ TableOf[c] = hubEvent.table
    BY <2>1 DEF ChannelInv, FanoutOK, MembersOK
  <2>3. /\ tables' = [tables EXCEPT ![hubEvent.table] = @ \ {c}]
        /\ tables \in [Tables -> SUBSET Clients]
    BY DEF TypeInv, TypeOK, HubTypes
  <2>4. MembersOK'
    BY <2>1, <2>2, <2>3 DEF ChannelInv, MembersOK
  <2>5. ~panicked'
    BY <2>2 DEF ChannelInv
  <2>6. OthersOK'
    BY <2>1, <2>2, <2>3, <1>1 DEF ChannelInv, OthersOK, MembersOK
  <2>7. FanoutOK'
    BY <2>1, <2>2, <2>3 DEF ChannelInv, FanoutOK, Visited
  <2>8. QED BY <2>4, <2>5, <2>6, <2>7 DEF ChannelInv
<1>13. CASE Restart
  BY <1>13 DEF Restart, ChannelInv, MembersOK, OthersOK, FanoutOK, Attached
<1>14. CASE UNCHANGED vars
  BY <1>14, <1>1, ChannelInvPc DEF vars
<1>15. QED
  BY <1>2, <1>3, <1>4, <1>5, <1>6, <1>7, <1>8, <1>9, <1>10, <1>11, <1>12, <1>13, <1>14
     DEF Next, Registering, Unregistering, HubStep, FanoutStep

\* The inductive invariant of the hub and its channels.
LEMMA ChannelsCorrect == Spec => [](TypeInv /\ ChannelInv)
BY TypeInvInit, TypeInvNext, ChannelInvInit, ChannelInvNext, PTL DEF Spec

\* No interleaving of connections, departures, slow clients and restarts
\* makes the hub close a send channel twice or send on a closed one.
THEOREM ChannelSafety == Spec => []NoChannelPanic
<1>1. ChannelInv => NoChannelPanic
  BY DEF ChannelInv, NoChannelPanic
<1>2. QED BY <1>1, ChannelsCorrect, PTL

\* A connection the hub knows is either served or being hung up.
THEOREM NobodyInLimbo == Spec => []NoLimbo
<1>1. TypeInv /\ ChannelInv => NoLimbo
  BY HubAssumption DEF ChannelInv, MembersOK, OthersOK, NoLimbo
<1>2. QED BY <1>1, ChannelsCorrect, PTL

-----------------------------------------------------------------------------
(***************************************************************************)
(* Delivery.  What is queued for a client are events of its table: a       *)
(* broadcast visits only clients of the event's table (FanoutOK) and a     *)
(* client is in the set of its own table only (MembersOK).                 *)
(***************************************************************************)
LEMMA TableIsolationNext ==
  TypeInv /\ ChannelInv /\ TableIsolation /\ [Next]_vars => TableIsolation'
<1> SUFFICES ASSUME TypeInv, ChannelInv, TableIsolation, [Next]_vars
             PROVE  TableIsolation'
  OBVIOUS
<1> USE DEF TableIsolation
<1>1. /\ sendq \in [Clients -> Seq(Events)]
      /\ hand \in [Clients -> Seq(Events)]
  BY DEF TypeInv, TypeOK, ClientTypes
<1>2. ASSUME NEW c \in Clients, WriterTake(c) PROVE TableIsolation'
  <2>1. SUFFICES ASSUME NEW d \in Clients
                 PROVE  /\ \A i \in 1..Len(sendq'[d]) : sendq'[d][i].table = TableOf[d]
                        /\ \A i \in 1..Len(hand'[d]) : hand'[d][i].table = TableOf[d]
    OBVIOUS
  <2>2. CASE d # c
    BY <1>1, <1>2, <2>2 DEF WriterTake
  <2>3. CASE d = c
    <3>1. /\ sendq[c] \in Seq(Events) /\ sendq[c] # <<>>
          /\ sendq'[c] = Tail(sendq[c]) /\ hand'[c] = <<Head(sendq[c])>>
      BY <1>1, <1>2 DEF WriterTake
    <3>2. \A i \in 1..Len(sendq[c]) : sendq[c][i].table = TableOf[c]
      OBVIOUS
    <3>3. \A i \in 1..Len(Tail(sendq[c])) : Tail(sendq[c])[i] = sendq[c][i + 1] /\ i + 1 \in 1..Len(sendq[c])
      BY <3>1
    <3>4. Head(sendq[c]) = sendq[c][1] /\ 1 \in 1..Len(sendq[c])
      BY <3>1
    <3>5. QED BY <2>3, <3>1, <3>2, <3>3, <3>4
  <2>4. QED BY <2>2, <2>3
<1>3. ASSUME NEW c \in Clients, FanoutSend(c) PROVE TableIsolation'
  <2>1. hubEvent \in Events /\ hubEvent.table = TableOf[c]
    BY <1>3 DEF TypeInv, LocalsOK, Events, FanoutSend, ChannelInv, FanoutOK, MembersOK
  <2>2. sendq' = [sendq EXCEPT ![c] = Append(@, hubEvent)] /\ hand' = hand
    BY <1>3 DEF FanoutSend, writerVars
  <2>3. ASSUME NEW d \in Clients, NEW i \in 1..Len(sendq'[d])
        PROVE  sendq'[d][i].table = TableOf[d]
    <3>1. CASE d # c
      BY <1>1, <2>2, <3>1
    <3>2. CASE d = c
      <4>1. sendq[c] \in Seq(Events) /\ sendq'[c] = Append(sendq[c], hubEvent)
        BY <1>1, <2>2
      <4>2. i \in 1..Len(sendq[c]) \/ sendq'[c][i] = hubEvent
        BY <2>1, <2>3, <3>2, <4>1
      <4>3. i \in 1..Len(sendq[c]) => sendq'[c][i] = sendq[c][i]
        BY <2>1, <4>1
      <4>4. QED BY <2>1, <3>2, <4>2, <4>3
    <3>3. QED BY <3>1, <3>2
  <2>4. QED BY <2>2, <2>3
<1>4. ASSUME NEW c \in Clients, WriteOk(c) \/ StopWriter(c) PROVE TableIsolation'
  <2>1. sendq' = sendq /\ hand' = [hand EXCEPT ![c] = <<>>]
    BY <1>4 DEF WriteOk, StopWriter, sendVars
  <2>2. ASSUME NEW d \in Clients, NEW i \in 1..Len(hand'[d])
        PROVE  hand'[d][i].table = TableOf[d]
    <3>1. CASE d # c
      BY <1>1, <2>1, <3>1
    <3>2. d = c => Len(hand'[d]) = 0
      BY <1>1, <2>1
    <3>3. QED BY <3>1, <3>2
  <2>3. QED BY <2>1, <2>2
<1>5. CASE Restart
  BY <1>5 DEF Restart
<1>6. ASSUME UNCHANGED <<sendq, hand>> PROVE TableIsolation'
  BY <1>6
<1>7. ASSUME NEW c \in Clients, Connect(c) \/ Lose(c) \/ ReaderStep(c)
      PROVE  UNCHANGED <<sendq, hand>>
  BY <1>7 DEF Connect, Lose, ReaderStep, StartPumps, ReadFails, CloseConn, sendVars, writerVars
<1>8. ASSUME NEW m \in Messages, ReadMessage(m) \/ ProcessStep(m) \/ SendBroadcast(m)
      PROVE  UNCHANGED <<sendq, hand>>
  BY <1>8 DEF ReadMessage, ProcessStep, ProcessOk, ProcessError, SendBroadcast,
              sendVars, writerVars
<1>9. ASSUME NEW c \in Clients, HubRegister(c) \/ HubUnregister(c) \/ FanoutDrop(c)
      PROVE  UNCHANGED <<sendq, hand>>
  BY <1>9 DEF HubRegister, HubUnregister, FanoutDrop, sendVars, writerVars
<1>10. ASSUME HubAddUser \/ HubAnnounceJoin \/ HubRemoveUser \/ HubAnnounceLeave \/ HubReceive
       PROVE  UNCHANGED <<sendq, hand>>
  BY <1>10 DEF HubAddUser, HubAnnounceJoin, HubRemoveUser, HubAnnounceLeave,
               Announce, HubReceive, sendVars, writerVars
<1>11. CASE UNCHANGED vars
  BY <1>11 DEF vars
<1>12. QED
  BY <1>2, <1>3, <1>4, <1>5, <1>6, <1>7, <1>8, <1>9, <1>10, <1>11
     DEF Next, WriterStep, WriteFails, WriterSeesClose,
         Registering, Unregistering, HubStep, FanoutStep

\* No connection is ever sent an event of a table it did not join.
THEOREM Isolation == Spec => []TableIsolation
<1>1. Init => TableIsolation
  BY DEF Init, TableIsolation
<1>2. QED
  BY <1>1, TypeInvInit, TypeInvNext, ChannelInvInit, ChannelInvNext,
     TableIsolationNext, PTL DEF Spec

-----------------------------------------------------------------------------
(***************************************************************************)
(* Redis presence.                                                         *)
(***************************************************************************)

\* Only the two room pipelines write to Redis.
LEMMA RedisUnchanged ==
  ASSUME [Next]_vars, ~HubAddUser, ~HubRemoveUser
  PROVE  UNCHANGED redisVars
<1>1. ASSUME NEW c \in Clients, Connect(c) \/ Lose(c) \/ ReaderStep(c) \/ WriterStep(c)
      PROVE  UNCHANGED redisVars
  BY <1>1 DEF Connect, Lose, ReaderStep, StartPumps, ReadFails, CloseConn, WriterStep,
              WriterTake, WriteOk, WriteFails, WriterSeesClose, StopWriter
<1>2. ASSUME NEW m \in Messages, ReadMessage(m) \/ ProcessStep(m) \/ SendBroadcast(m)
      PROVE  UNCHANGED redisVars
  BY <1>2 DEF ReadMessage, ProcessStep, ProcessOk, ProcessError, SendBroadcast
<1>3. ASSUME NEW c \in Clients,
             HubRegister(c) \/ HubUnregister(c) \/ FanoutSend(c) \/ FanoutDrop(c)
      PROVE  UNCHANGED redisVars
  BY <1>3 DEF HubRegister, HubUnregister, FanoutSend, FanoutDrop
<1>4. CASE HubAnnounceJoin \/ HubAnnounceLeave \/ HubReceive \/ Restart \/ UNCHANGED vars
  BY <1>4 DEF HubAnnounceJoin, HubAnnounceLeave, Announce, HubReceive, Restart,
              vars, redisVars
<1>5. QED
  BY <1>1, <1>2, <1>3, <1>4 DEF Next, Registering, Unregistering, HubStep, FanoutStep

LEMMA UserRoomNext == TypeInv /\ UserRoomListed /\ [Next]_vars => UserRoomListed'
<1> SUFFICES ASSUME TypeInv, UserRoomListed, [Next]_vars PROVE UserRoomListed'
  OBVIOUS
<1> USE HubAssumption DEF UserRoomListed
<1>1. RedisTypes
  BY DEF TypeInv, TypeOK
<1>2. ASSUME NEW t \in Tables, NEW u \in Users, AddUser(t, u) PROVE UserRoomListed'
  BY <1>1, <1>2 DEF AddUser, redisVars, RedisTypes
<1>3. ASSUME NEW t \in Tables, NEW u \in Users, RemoveUser(t, u) PROVE UserRoomListed'
  BY <1>1, <1>3 DEF RemoveUser, redisVars, RedisTypes
<1>4. CASE HubAddUser \/ HubRemoveUser
  <2>1. TableOf[hubClient] \in Tables /\ UserOf[hubClient] \in Users
    BY <1>4 DEF HubAddUser, HubRemoveUser, TypeInv, LocalsOK
  <2>2. QED BY <1>2, <1>3, <1>4, <2>1 DEF HubAddUser, HubRemoveUser
<1>5. CASE ~HubAddUser /\ ~HubRemoveUser
  BY <1>5, RedisUnchanged DEF redisVars
<1>6. QED BY <1>4, <1>5

\* Whatever pipelines fail, wherever the process restarts and however many
\* tables a user sits at, the room a user's record names lists that user.
THEOREM UserRoomsListed == Spec => []UserRoomListed
<1>1. Init => UserRoomListed
  BY DEF Init, UserRoomListed
<1>2. QED
  BY <1>1, TypeInvInit, TypeInvNext, UserRoomNext, PTL DEF Spec

\* The inductive invariant behind NoGhostUsers: the client whose join the hub
\* is writing to Redis is attached, as its departure has to wait for the hub.
GhostInv ==
  /\ NoGhostUsers
  /\ hubPc = "addUser" => Attached(hubClient)

\* Only the hub and the start of a connection end or begin an attachment.
LEMMA AttachedNext ==
  ASSUME TypeInv, [Next]_vars, NEW c \in Clients, Attached(c),
         ~HubUnregister(c), ~Restart
  PROVE  Attached(c)'
<1> USE DEF Attached
<1>1. pc \in [Clients -> {"new", "registering", "registered", "reading",
                         "leaving", "left", "gone"}]
  BY DEF TypeInv, TypeOK, ClientTypes
<1>2. ASSUME NEW d \in Clients, Connect(d) \/ StartPumps(d) PROVE Attached(c)'
  BY <1>1, <1>2 DEF Connect, StartPumps
<1>3. ASSUME NEW d \in Clients, ReadFails(d) \/ CloseConn(d) PROVE Attached(c)'
  BY <1>1, <1>3 DEF ReadFails, CloseConn
<1>4. ASSUME NEW d \in Clients, HubRegister(d) \/ HubUnregister(d) PROVE Attached(c)'
  BY <1>1, <1>4 DEF HubRegister, HubUnregister
<1>5. ASSUME NEW d \in Clients,
             Lose(d) \/ WriterStep(d) \/ FanoutSend(d) \/ FanoutDrop(d)
      PROVE  pc' = pc
  BY <1>5 DEF Lose, WriterStep, WriterTake, WriteOk, WriteFails, WriterSeesClose,
              StopWriter, FanoutSend, FanoutDrop, clientVars
<1>6. ASSUME NEW m \in Messages, ReadMessage(m) \/ ProcessStep(m) \/ SendBroadcast(m)
      PROVE  pc' = pc
  BY <1>6 DEF ReadMessage, ProcessStep, ProcessOk, ProcessError, SendBroadcast, clientVars
<1>7. ASSUME HubAddUser \/ HubAnnounceJoin \/ HubRemoveUser \/ HubAnnounceLeave
               \/ HubReceive \/ UNCHANGED vars
      PROVE  pc' = pc
  BY <1>7 DEF HubAddUser, HubAnnounceJoin, HubRemoveUser, HubAnnounceLeave, Announce,
              HubReceive, clientVars, vars
<1>8. QED
  BY <1>2, <1>3, <1>4, <1>5, <1>6, <1>7
     DEF Next, ReaderStep, Registering, Unregistering, HubStep, FanoutStep

\* Of the hub's local variables those of the register and unregister cases
\* are written by the hub's own steps only.
LEMMA HubClientNext ==
  ASSUME [Next]_vars, hubPc' \in {"addUser", "removeUser"}
  PROVE  \/ UNCHANGED <<hubPc, hubClient>>
         \/ \E c \in Clients : HubRegister(c) \/ HubUnregister(c)
<1>1. ASSUME NEW c \in Clients, Connect(c) \/ Lose(c) \/ ReaderStep(c) \/ WriterStep(c)
      PROVE  UNCHANGED <<hubPc, hubClient>>
  BY <1>1 DEF Connect, Lose, ReaderStep, StartPumps, ReadFails, CloseConn, WriterStep,
              WriterTake, WriteOk, WriteFails, WriterSeesClose, StopWriter, hubVars
<1>2. ASSUME NEW m \in Messages, ReadMessage(m) \/ ProcessStep(m) \/ SendBroadcast(m)
      PROVE  UNCHANGED <<hubPc, hubClient>>
  BY <1>2 DEF ReadMessage, ProcessStep, ProcessOk, ProcessError, SendBroadcast, hubVars
<1>3. ASSUME NEW c \in Clients, FanoutSend(c) \/ FanoutDrop(c) PROVE FALSE
  BY <1>3 DEF FanoutSend, FanoutDrop, Visited
<1>4. CASE HubAddUser \/ HubAnnounceJoin \/ HubRemoveUser \/ HubAnnounceLeave
             \/ HubReceive \/ Restart \/ UNCHANGED vars
  BY <1>4 DEF HubAddUser, HubAnnounceJoin, HubRemoveUser, HubAnnounceLeave,
              Announce, HubReceive, Restart, vars, hubVars
<1>5. QED
  BY <1>1, <1>2, <1>3, <1>4 DEF Next, Registering, Unregistering, HubStep, FanoutStep

LEMMA GhostNext == TypeInv /\ GhostInv /\ [Next]_vars => GhostInv'
<1> SUFFICES ASSUME TypeInv, GhostInv, [Next]_vars PROVE GhostInv'
  OBVIOUS
<1> USE HubAssumption
<1>1. /\ RedisTypes
      /\ pc \in [Clients -> {"new", "registering", "registered", "reading",
                            "leaving", "left", "gone"}]
      /\ restarts \in Nat
  BY DEF TypeInv, TypeOK, ClientTypes, HubTypes
<1>2. hubPc' = "addUser" => Attached(hubClient)'
  <2> SUFFICES ASSUME hubPc' = "addUser" PROVE Attached(hubClient)'
    OBVIOUS
  <2>1. CASE UNCHANGED <<hubPc, hubClient>>
    <3>1. hubClient \in Clients /\ hubPc = "addUser" /\ Attached(hubClient)
      BY <2>1 DEF TypeInv, LocalsOK, GhostInv
    <3>2. ~HubUnregister(hubClient) /\ ~Restart
      BY <2>1, <3>1 DEF HubUnregister, Restart
    <3>3. pc'[hubClient] \in {"registered", "reading", "leaving"}
      BY <3>1, <3>2, AttachedNext DEF Attached
    <3>4. QED BY <2>1, <3>3 DEF Attached
  <2>2. ASSUME NEW c \in Clients, HubRegister(c) PROVE Attached(hubClient)'
    BY <1>1, <2>2 DEF HubRegister, Attached
  <2>3. ASSUME NEW c \in Clients, HubUnregister(c) PROVE FALSE
    BY <2>3 DEF HubUnregister
  <2>4. QED BY <2>1, <2>2, <2>3, HubClientNext
<1>3. NoGhostUsers'
  <2>1. SUFFICES ASSUME RedisOutcomes = {"applied"}, restarts' = 0,
                        NEW t \in Tables, NEW u \in roomUsers'[t]
                 PROVE  \/ \E c \in Clients : Attached(c)' /\ TableOf[c] = t /\ UserOf[c] = u
                        \/ BeingRemoved(t, u)'
    BY DEF NoGhostUsers
  <2>2. restarts = 0 /\ ~Restart
    <3>1. CASE Restart
      BY <1>1, <2>1, <3>1 DEF Restart
    <3>2. CASE ~Restart
      <4>1. restarts' = restarts
        BY <3>2 DEF Next, Connect, Lose, ReaderStep, StartPumps, ReadFails, CloseConn,
              WriterStep, WriterTake, WriteOk, WriteFails, WriterSeesClose, StopWriter,
              ReadMessage, ProcessStep, ProcessOk, ProcessError, SendBroadcast,
              Registering, HubRegister, Unregistering, HubUnregister, HubReceive,
              HubStep, HubAddUser, HubRemoveUser, HubAnnounceJoin, HubAnnounceLeave,
              Announce, FanoutStep, FanoutSend, FanoutDrop, vars
      <4>2. QED BY <2>1, <3>2, <4>1
    <3>3. QED BY <3>1, <3>2
  <2>3. CASE HubAddUser /\ t = TableOf[hubClient] /\ u = UserOf[hubClient]
    <3>1. hubClient \in Clients /\ Attached(hubClient)
      BY <2>3 DEF HubAddUser, TypeInv, LocalsOK, GhostInv
    <3>2. Attached(hubClient) => Attached(hubClient)'
      BY <2>3 DEF HubAddUser, clientVars, Attached
    <3>3. pc'[hubClient] \in {"registered", "reading", "leaving"}
      BY <2>3, <3>1 DEF HubAddUser, clientVars, Attached
    <3>4. QED BY <2>3, <3>1, <3>3 DEF Attached
  <2>4. CASE ~(HubAddUser /\ t = TableOf[hubClient] /\ u = UserOf[hubClient])
    <3>1. u \in roomUsers[t]
      <4>1. CASE HubAddUser
        <5>1. TableOf[hubClient] \in Tables /\ UserOf[hubClient] \in Users
          BY <4>1 DEF HubAddUser, TypeInv, LocalsOK
        <5>2. QED BY <1>1, <2>1, <2>4, <4>1, <5>1 DEF HubAddUser, AddUser, RedisTypes
      <4>2. CASE HubRemoveUser
        <5>1. TableOf[hubClient] \in Tables /\ UserOf[hubClient] \in Users
          BY <4>2 DEF HubRemoveUser, TypeInv, LocalsOK
        <5>2. QED BY <1>1, <2>1, <4>2, <5>1 DEF HubRemoveUser, RemoveUser, RedisTypes
      <4>3. CASE ~HubAddUser /\ ~HubRemoveUser
        BY <2>1, <4>3, RedisUnchanged DEF redisVars
      <4>4. QED BY <4>1, <4>2, <4>3
    <3>2. CASE BeingRemoved(t, u)
      <4>1. ~HubRemoveUser
        <5>1. CASE HubRemoveUser
          BY <1>1, <2>1, <3>1, <3>2, <5>1
             DEF HubRemoveUser, RemoveUser, RedisTypes, BeingRemoved
        <5>2. QED BY <5>1
      <4>2. UNCHANGED <<hubPc, hubClient>>
        BY <2>2, <3>2, <4>1 DEF BeingRemoved,
              Next, Connect, Lose, ReaderStep, StartPumps, ReadFails, CloseConn,
              WriterStep, WriterTake, WriteOk, WriteFails, WriterSeesClose, StopWriter,
              ReadMessage, ProcessStep, ProcessOk, ProcessError, SendBroadcast,
              Registering, HubRegister, Unregistering, HubUnregister, HubReceive,
              HubStep, HubAddUser, HubAnnounceJoin, HubAnnounceLeave,
              FanoutStep, FanoutSend, FanoutDrop, vars, hubVars
      <4>3. QED BY <3>2, <4>2 DEF BeingRemoved
    <3>3. ASSUME NEW c \in Clients, Attached(c), TableOf[c] = t, UserOf[c] = u
          PROVE  Attached(c)' \/ BeingRemoved(t, u)'
      <4>1. CASE HubUnregister(c)
        BY <3>3, <4>1 DEF HubUnregister, BeingRemoved
      <4>2. CASE ~HubUnregister(c)
        BY <2>2, <3>3, <4>2, AttachedNext
      <4>3. QED BY <4>1, <4>2
    <3>4. \/ \E c \in Clients : Attached(c) /\ TableOf[c] = t /\ UserOf[c] = u
          \/ BeingRemoved(t, u)
      BY <2>1, <2>2, <3>1 DEF GhostInv, NoGhostUsers
    <3>5. QED BY <3>2, <3>3, <3>4
  <2>5. QED BY <2>3, <2>4
<1>4. QED BY <1>2, <1>3 DEF GhostInv

\* While Redis answers and the process lives, every user a room lists has a
\* connection attached to that table.
THEOREM GhostFree == Spec => []NoGhostUsers
<1>1. Init => GhostInv
  BY DEF Init, GhostInv, NoGhostUsers
<1>2. GhostInv => NoGhostUsers
  BY DEF GhostInv
<1>3. QED
  BY <1>1, <1>2, TypeInvInit, TypeInvNext, GhostNext, PTL DEF Spec

-----------------------------------------------------------------------------
(***************************************************************************)
(* The hub and Redis implement Presence.                                   *)
(***************************************************************************)

AttachedClients == {c \in Clients : Attached(c)}

\* The inductive invariant: while the hub writes an arrival to Redis the client
\* is attached, and while it writes a departure the client is not.
PlaceInv ==
  /\ hubPc = "addUser" => Attached(hubClient)
  /\ hubPc = "removeUser" => ~Attached(hubClient)

\* Only the register case begins an attachment.
LEMMA DetachedNext ==
  ASSUME TypeInv, [Next]_vars, NEW c \in Clients, ~Attached(c), ~HubRegister(c)
  PROVE  ~Attached(c)'
<1> USE DEF Attached
<1>1. pc \in [Clients -> {"new", "registering", "registered", "reading",
                         "leaving", "left", "gone"}]
  BY DEF TypeInv, TypeOK, ClientTypes
<1>2. ASSUME NEW d \in Clients, Connect(d) \/ StartPumps(d) PROVE ~Attached(c)'
  BY <1>1, <1>2 DEF Connect, StartPumps
<1>3. ASSUME NEW d \in Clients, ReadFails(d) \/ CloseConn(d) PROVE ~Attached(c)'
  BY <1>1, <1>3 DEF ReadFails, CloseConn
<1>4. ASSUME NEW d \in Clients, HubRegister(d) \/ HubUnregister(d) PROVE ~Attached(c)'
  BY <1>1, <1>4 DEF HubRegister, HubUnregister
<1>5. ASSUME NEW d \in Clients,
             Lose(d) \/ WriterStep(d) \/ FanoutSend(d) \/ FanoutDrop(d)
      PROVE  pc' = pc
  BY <1>5 DEF Lose, WriterStep, WriterTake, WriteOk, WriteFails, WriterSeesClose,
              StopWriter, FanoutSend, FanoutDrop, clientVars
<1>6. ASSUME NEW m \in Messages, ReadMessage(m) \/ ProcessStep(m) \/ SendBroadcast(m)
      PROVE  pc' = pc
  BY <1>6 DEF ReadMessage, ProcessStep, ProcessOk, ProcessError, SendBroadcast, clientVars
<1>7. ASSUME HubAddUser \/ HubAnnounceJoin \/ HubRemoveUser \/ HubAnnounceLeave
               \/ HubReceive \/ UNCHANGED vars
      PROVE  pc' = pc
  BY <1>7 DEF HubAddUser, HubAnnounceJoin, HubRemoveUser, HubAnnounceLeave, Announce,
              HubReceive, clientVars, vars
<1>8. CASE Restart
  BY <1>1, <1>8 DEF Restart
<1>9. QED
  BY <1>2, <1>3, <1>4, <1>5, <1>6, <1>7, <1>8
     DEF Next, ReaderStep, Registering, Unregistering, HubStep, FanoutStep

\* What the two rendezvous and a restart make of the attached clients.
LEMMA AttachedSteps ==
  ASSUME TypeInv, [Next]_vars
  PROVE  /\ \A c \in Clients : HubRegister(c) =>
              AttachedClients' = AttachedClients \cup {c}
         /\ \A c \in Clients : HubUnregister(c) =>
              AttachedClients' = AttachedClients \ {c}
         /\ Restart => AttachedClients' = {}
         /\ ~Registering /\ ~Unregistering /\ ~Restart =>
              AttachedClients' = AttachedClients
<1> USE DEF AttachedClients
<1>1. pc \in [Clients -> {"new", "registering", "registered", "reading",
                         "leaving", "left", "gone"}]
  BY DEF TypeInv, TypeOK, ClientTypes
<1>2. ASSUME NEW c \in Clients, HubRegister(c)
      PROVE  AttachedClients' = AttachedClients \cup {c}
  BY <1>1, <1>2 DEF HubRegister, Attached
<1>3. ASSUME NEW c \in Clients, HubUnregister(c)
      PROVE  AttachedClients' = AttachedClients \ {c}
  BY <1>1, <1>3 DEF HubUnregister, Attached
<1>4. Restart => AttachedClients' = {}
  BY <1>1 DEF Restart, Attached
<1>5. ASSUME ~Registering, ~Unregistering, ~Restart
      PROVE  AttachedClients' = AttachedClients
  <2>1. \A c \in Clients : Attached(c)' <=> Attached(c)
    BY <1>5, AttachedNext, DetachedNext DEF Registering, Unregistering
  <2>2. QED BY <2>1
<1>6. QED BY <1>2, <1>3, <1>4, <1>5

LEMMA PlaceInvNext == TypeInv /\ PlaceInv /\ [Next]_vars => PlaceInv'
<1> SUFFICES ASSUME TypeInv, PlaceInv, [Next]_vars,
                    hubPc' \in {"addUser", "removeUser"}
             PROVE  PlaceInv'
  BY DEF PlaceInv
<1>1. pc \in [Clients -> {"new", "registering", "registered", "reading",
                         "leaving", "left", "gone"}]
  BY DEF TypeInv, TypeOK, ClientTypes
<1>2. ASSUME NEW c \in Clients, HubRegister(c) PROVE PlaceInv'
  BY <1>1, <1>2 DEF HubRegister, PlaceInv, Attached
<1>3. ASSUME NEW c \in Clients, HubUnregister(c) PROVE PlaceInv'
  BY <1>1, <1>3 DEF HubUnregister, PlaceInv, Attached
<1>4. CASE UNCHANGED <<hubPc, hubClient>>
  <2>1. hubClient \in Clients /\ hubPc \in {"addUser", "removeUser"}
    BY <1>4 DEF TypeInv, LocalsOK
  <2>2. ~HubRegister(hubClient) /\ ~HubUnregister(hubClient) /\ ~Restart
    BY <1>4, <2>1 DEF HubRegister, HubUnregister, Restart
  <2>3. Attached(hubClient) => pc'[hubClient] \in {"registered", "reading", "leaving"}
    BY <2>1, <2>2, AttachedNext DEF Attached
  <2>4. ~Attached(hubClient) => pc'[hubClient] \notin {"registered", "reading", "leaving"}
    BY <2>1, <2>2, DetachedNext DEF Attached
  <2>5. QED BY <1>4, <2>3, <2>4 DEF PlaceInv, Attached
<1>5. QED BY <1>2, <1>3, <1>4, HubClientNext

\* Every other step leaves alone what the hub has still to tell Redis.
LEMMA DueNext ==
  ASSUME TypeInv, [Next]_vars, ~Registering, ~Unregistering, ~Restart,
         ~HubAddUser, ~HubRemoveUser
  PROVE  DueClients' = DueClients
<1> USE DEF DueClients
<1>1. ASSUME NEW c \in Clients,
             Connect(c) \/ Lose(c) \/ ReaderStep(c) \/ WriterStep(c)
      PROVE  UNCHANGED <<hubPc, hubClient>>
  BY <1>1 DEF Connect, Lose, ReaderStep, StartPumps, ReadFails, CloseConn,
              WriterStep, WriterTake, WriteOk, WriteFails, WriterSeesClose, StopWriter, hubVars
<1>2. ASSUME NEW m \in Messages, ReadMessage(m) \/ ProcessStep(m) \/ SendBroadcast(m)
      PROVE  UNCHANGED <<hubPc, hubClient>>
  BY <1>2 DEF ReadMessage, ProcessStep, ProcessOk, ProcessError, SendBroadcast, hubVars
<1>3. ASSUME HubAnnounceJoin \/ HubAnnounceLeave
      PROVE  hubPc \notin {"addUser", "removeUser"} /\ hubPc' = "select"
  BY <1>3 DEF HubAnnounceJoin, HubAnnounceLeave, Announce
<1>4. ASSUME HubReceive
      PROVE  hubPc = "select" /\ hubPc' \in {"select", "fanout"}
  BY <1>4 DEF HubReceive, hubVars
<1>5. ASSUME FanoutStep
      PROVE  hubPc = "fanout" /\ hubPc' \in {"select", "fanout"}
  BY <1>5 DEF FanoutStep, FanoutSend, FanoutDrop, Visited
<1>6. ASSUME UNCHANGED vars PROVE UNCHANGED <<hubPc, hubClient>>
  BY <1>6 DEF vars
<1>7. QED
  BY <1>1, <1>2, <1>3, <1>4, <1>5, <1>6 DEF Next, HubStep

-----------------------------------------------------------------------------
\* Every step of the hub is a step of Presence, or none that it sees.
LEMMA PresenceStep ==
  TypeInv /\ PlaceInv /\ [Next]_vars
    => [PresenceBook!PresenceNext]_<<AttachedClients, roomUsers, DueClients>>
<1> SUFFICES ASSUME TypeInv, PlaceInv, [Next]_vars
             PROVE  [PresenceBook!PresenceNext]_<<AttachedClients, roomUsers, DueClients>>
  OBVIOUS
<1> USE HubAssumption DEF PresenceBook!PresenceNext
<1>0. AttachedClients = {c \in Clients : Attached(c)}
  BY DEF AttachedClients
<1>1. ASSUME NEW c \in Clients, HubRegister(c)
      PROVE  PresenceBook!Attach(c)
  <2>1. AttachedClients' = AttachedClients \cup {c}
    BY <1>1, AttachedSteps
  <2>2. c \notin AttachedClients
    BY <1>1 DEF HubRegister, AttachedClients, Attached
  <2>3. DueClients = {} /\ DueClients' = {c}
    BY <1>1 DEF HubRegister, DueClients
  <2>4. QED BY <1>1, <2>1, <2>2, <2>3 DEF PresenceBook!Attach, PresenceBook!UpToDate,
                 HubRegister, redisVars, AttachedClients
<1>2. ASSUME NEW c \in Clients, HubUnregister(c)
      PROVE  PresenceBook!Detach(c)
  <2>1. AttachedClients' = AttachedClients \ {c}
    BY <1>2, AttachedSteps
  <2>2. c \in AttachedClients
    BY <1>2 DEF HubUnregister, AttachedClients, Attached
  <2>3. DueClients = {} /\ DueClients' = {c}
    BY <1>2 DEF HubUnregister, DueClients
  <2>4. QED BY <1>2, <2>1, <2>2, <2>3 DEF PresenceBook!Detach, PresenceBook!UpToDate,
                 HubUnregister, redisVars, AttachedClients
<1>3. ASSUME Restart PROVE PresenceBook!Crash
  <2>1. AttachedClients' = {} /\ DueClients' = {}
    BY <1>3, AttachedSteps DEF Restart, DueClients
  <2>2. QED BY <1>3, <2>1 DEF PresenceBook!Crash, Restart, redisVars, AttachedClients
<1>4. ASSUME HubAddUser
      PROVE  PresenceBook!List(hubClient) \/ PresenceBook!Miss(hubClient)
  <2>1. hubClient \in AttachedClients
    BY <1>4 DEF HubAddUser, PlaceInv, TypeInv, LocalsOK, AttachedClients
  <2>2. AttachedClients' = AttachedClients
    BY <1>4 DEF HubAddUser, clientVars, AttachedClients, Attached
  <2>3. DueClients = {hubClient} /\ DueClients' = {}
    BY <1>4 DEF HubAddUser, DueClients
  <2>4. QED BY <1>4, <2>1, <2>2, <2>3 DEF PresenceBook!List, PresenceBook!Miss, HubAddUser,
                 AddUser, redisVars, AttachedClients
<1>5. ASSUME HubRemoveUser
      PROVE  PresenceBook!Unlist(hubClient) \/ PresenceBook!Miss(hubClient)
  <2>1. hubClient \in Clients \ AttachedClients
    BY <1>5 DEF HubRemoveUser, PlaceInv, TypeInv, LocalsOK, AttachedClients
  <2>2. AttachedClients' = AttachedClients
    BY <1>5 DEF HubRemoveUser, clientVars, AttachedClients, Attached
  <2>3. DueClients = {hubClient} /\ DueClients' = {}
    BY <1>5 DEF HubRemoveUser, DueClients
  <2>4. QED BY <1>5, <2>1, <2>2, <2>3 DEF PresenceBook!Unlist, PresenceBook!Miss,
                 HubRemoveUser, RemoveUser, redisVars, AttachedClients
<1>6. CASE ~Registering /\ ~Unregistering /\ ~Restart /\ ~HubAddUser /\ ~HubRemoveUser
  BY <1>6, AttachedSteps, DueNext, RedisUnchanged DEF redisVars
<1>7. HubAddUser \/ HubRemoveUser => hubClient \in Clients
  BY DEF HubAddUser, HubRemoveUser, TypeInv, LocalsOK
<1>8. QED
  BY <1>1, <1>2, <1>3, <1>4, <1>5, <1>6, <1>7 DEF Registering, Unregistering

\* Who a room lists follows the arrivals and departures of its users'
\* connections in the order in which the hub serves them, for any number of
\* connections of a user, at any tables, whatever pipelines fail and whenever
\* the process restarts.
THEOREM HubKeepsPresence == Spec => PresenceImplemented
<1>1. Init => TypeInv /\ PlaceInv /\ PresenceBook!PresenceInit
  BY TypeInvInit DEF Init, PlaceInv, PresenceBook!PresenceInit, Attached, DueClients
<1>2. TypeInv /\ PlaceInv /\ [Next]_vars => TypeInv' /\ PlaceInv'
  BY TypeInvNext, PlaceInvNext
<1>3. TypeInv /\ PlaceInv /\ [Next]_vars
        => [PresenceBook!PresenceNext]_PresenceBook!presenceVars
  BY PresenceStep DEF PresenceBook!presenceVars, AttachedClients
<1>4. QED
  BY <1>1, <1>2, <1>3, PTL DEF Spec, PresenceImplemented, PresenceBook!PresenceSpec
=============================================================================
