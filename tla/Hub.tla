-------------------------------- MODULE Hub --------------------------------
(***************************************************************************)
(* The websocket hub of personae-tabula (internal/websocket).              *)
(*                                                                         *)
(* One goroutine, Hub.Run, owns the map of tables and serves three         *)
(* channels: register and unregister (unbuffered, so a rendezvous) and     *)
(* broadcast (buffered).  Every websocket connection is a WSClient with    *)
(* three goroutines around it: HandleConnection, which registers it, then  *)
(* readPump, which turns inbound messages into processTableEvent           *)
(* goroutines, and writePump, which drains the client's buffered send      *)
(* channel.  Every step below is one blocking operation of one of these    *)
(* goroutines together with the code up to the next one.                   *)
(*                                                                         *)
(* A WSClient is never reused: a user who reconnects is another client of  *)
(* the same table and user.                                                *)
(***************************************************************************)
EXTENDS Naturals, Sequences, FiniteSets

CONSTANTS
  Tables,         \* table ids
  Users,          \* user ids
  Clients,        \* the WSClient values of a behaviour, one per connection
  Messages,       \* the table events the connections send, each sent once
  TableOf,        \* WSClient.tableID
  UserOf,         \* WSClient.userID
  SenderOf,       \* the connection a message arrives on
  SendCap,        \* capacity of WSClient.send (256 in the code)
  BroadcastCap,   \* capacity of Hub.broadcast (512 in the code)
  RedisOutcomes,  \* what may become of a Redis pipeline
  MaxRestarts,    \* bound on the restarts of the process
  None            \* no table, no client, no event

SystemTags == {"join", "leave"}

\* domain.WSEvent: the body of a system event is its tag, the body of a
\* table event the message it answers.
Events == [type  : {"system", "table"},
           event : SystemTags \cup Messages,
           table : Tables,
           user  : Users]

ASSUME HubAssumption ==
  /\ TableOf \in [Clients -> Tables]
  /\ UserOf \in [Clients -> Users]
  /\ SenderOf \in [Messages -> Clients]
  /\ SendCap \in Nat \ {0}
  /\ BroadcastCap \in Nat \ {0}
  /\ RedisOutcomes \subseteq {"applied", "lost"}
  /\ MaxRestarts \in Nat
  /\ None \notin Tables \cup Clients \cup Events

VARIABLES
  pc,         \* HandleConnection, then readPump, of each client
  conn,       \* its connection: "up", "lost" (peer gone) or "closed" (by us)
  sendq,      \* contents of WSClient.send
  sendClosed, \* the clients whose send channel has been closed
  writer,     \* writePump of each client
  hand,       \* the message writePump has taken and is writing, if any
  worker,     \* processTableEvent of each message
  broadcast,  \* contents of Hub.broadcast
  tables,     \* Hub.tables: the clients of each table ...
  tableKeys,  \* ... and the tables that have an entry in the map
  hubPc,      \* where Hub.Run is
  hubClient,  \* the client of the register/unregister case being served
  hubEvent,   \* the event of the broadcast case being served
  todo,       \* the clients that case still has to visit
  roomUsers,  \* Redis set   room:users:<table>
  userRoom,   \* Redis field user:<user> "room"
  panicked,   \* a send on, or a close of, a closed channel has happened
  restarts

clientVars == <<pc, conn>>
sendVars   == <<sendq, sendClosed>>
writerVars == <<writer, hand>>
mapVars    == <<tables, tableKeys>>
hubVars    == <<hubPc, hubClient, hubEvent, todo>>
redisVars  == <<roomUsers, userRoom>>
vars == <<pc, conn, sendq, sendClosed, writer, hand, worker, broadcast,
          tables, tableKeys, hubPc, hubClient, hubEvent, todo,
          roomUsers, userRoom, panicked, restarts>>

ClientTypes ==
  /\ pc \in [Clients -> {"new", "registering", "registered", "reading",
                         "leaving", "left", "gone"}]
  /\ conn \in [Clients -> {"none", "up", "lost", "closed"}]
  /\ sendq \in [Clients -> Seq(Events)]
  /\ sendClosed \in SUBSET Clients
  /\ writer \in [Clients -> {"off", "running", "done"}]
  /\ hand \in [Clients -> Seq(Events)]
  /\ worker \in [Messages -> {"unsent", "processing", "sending", "done"}]

HubTypes ==
  /\ broadcast \in Seq(Events)
  /\ tables \in [Tables -> SUBSET Clients]
  /\ tableKeys \in SUBSET Tables
  /\ hubPc \in {"select", "addUser", "announceJoin",
                "removeUser", "announceLeave", "fanout"}
  /\ hubClient \in Clients \cup {None}
  /\ hubEvent \in Events \cup {None}
  /\ todo \in SUBSET Clients
  /\ panicked \in BOOLEAN
  /\ restarts \in 0..MaxRestarts

RedisTypes ==
  /\ roomUsers \in [Tables -> SUBSET Users]
  /\ userRoom \in [Users -> Tables \cup {None}]

TypeOK == ClientTypes /\ HubTypes /\ RedisTypes

Init ==
  /\ pc = [c \in Clients |-> "new"]
  /\ conn = [c \in Clients |-> "none"]
  /\ sendq = [c \in Clients |-> <<>>]
  /\ sendClosed = {}
  /\ writer = [c \in Clients |-> "off"]
  /\ hand = [c \in Clients |-> <<>>]
  /\ worker = [m \in Messages |-> "unsent"]
  /\ broadcast = <<>>
  /\ tables = [t \in Tables |-> {}]
  /\ tableKeys = {}
  /\ hubPc = "select"
  /\ hubClient = None
  /\ hubEvent = None
  /\ todo = {}
  /\ roomUsers = [t \in Tables |-> {}]
  /\ userRoom = [u \in Users |-> None]
  /\ panicked = FALSE
  /\ restarts = 0

-----------------------------------------------------------------------------
\* The events the hub builds.

SystemEvent(tag, c) ==
  [type |-> "system", event |-> tag, table |-> TableOf[c], user |-> UserOf[c]]

TableEvent(m) ==
  [type |-> "table", event |-> m,
   table |-> TableOf[SenderOf[m]], user |-> UserOf[SenderOf[m]]]

\* The tags as Hub.Run writes them: the event it creates for a connection
\* carries "leave", the one for a disconnection "join".
ConnectTag == "leave"
DisconnectTag_AsConnect == "leave"
DisconnectTag == "join"

\* Is c still a client of its table (the two lookups of the unregister case).
InRoom_KeyOnly(c) == TableOf[c] \in tableKeys
InRoom(c) == TableOf[c] \in tableKeys /\ c \in tables[TableOf[c]]

\* h.tables[event.TableID], nil for a table without an entry.
Recipients_Everyone(e) == UNION {tables[t] : t \in Tables}
Recipients(e) == IF e.table \in tableKeys THEN tables[e.table] ELSE {}

\* close(client.send): closing a closed channel panics.
CloseSend_LeftOpen(c) == UNCHANGED <<sendClosed, panicked>>
CloseSend(c) ==
  /\ sendClosed' = sendClosed \cup {c}
  /\ panicked' = (panicked \/ c \in sendClosed)

\* h.broadcast <- event: blocks while the buffer is full.
EnqueueBroadcast_Unbuffered(e) ==
  /\ hubPc = "select"
  /\ Len(broadcast) < BroadcastCap
  /\ broadcast' = Append(broadcast, e)
EnqueueBroadcast(e) ==
  /\ Len(broadcast) < BroadcastCap
  /\ broadcast' = Append(broadcast, e)

\* RoomCache.AddUser and RemoveUser: a transaction, so both writes or none.
\* Hub.Run ignores the error.
AddUser_TableAsMember(t, u) ==
  /\ roomUsers' = [roomUsers EXCEPT ![t] = @ \cup {t}]
  /\ userRoom' = [userRoom EXCEPT ![u] = t]
AddUser_OneRoomOnly(t, u) ==
  /\ roomUsers' = [r \in Tables |-> IF r = t THEN roomUsers[r] \cup {u} ELSE roomUsers[r] \ {u}]
  /\ userRoom' = [userRoom EXCEPT ![u] = t]
AddUser_NoTransaction(t, u) ==
  /\ \/ roomUsers' = [roomUsers EXCEPT ![t] = @ \cup {u}]
     \/ UNCHANGED roomUsers
  /\ \/ userRoom' = [userRoom EXCEPT ![u] = t]
     \/ UNCHANGED userRoom
AddUser(t, u) ==
  \/ /\ "applied" \in RedisOutcomes
     /\ roomUsers' = [roomUsers EXCEPT ![t] = @ \cup {u}]
     /\ userRoom' = [userRoom EXCEPT ![u] = t]
  \/ /\ "lost" \in RedisOutcomes
     /\ UNCHANGED redisVars

RemoveUser_KeepsRecord(t, u) ==
  /\ roomUsers' = [roomUsers EXCEPT ![t] = @ \ {u}]
  /\ UNCHANGED userRoom
RemoveUser_KeepsMember(t, u) ==
  /\ userRoom' = [userRoom EXCEPT ![u] = None]
  /\ UNCHANGED roomUsers
RemoveUser_EveryRoom(t, u) ==
  /\ roomUsers' = [r \in Tables |-> roomUsers[r] \ {u}]
  /\ userRoom' = [userRoom EXCEPT ![u] = None]
RemoveUser(t, u) ==
  \/ /\ "applied" \in RedisOutcomes
     /\ roomUsers' = [roomUsers EXCEPT ![t] = @ \ {u}]
     /\ userRoom' = [userRoom EXCEPT ![u] = None]
  \/ /\ "lost" \in RedisOutcomes
     /\ UNCHANGED redisVars

-----------------------------------------------------------------------------
\* HandleConnection: the request is valid, the upgrade has succeeded and the
\* handler now offers the client on register.
Connect(c) ==
  /\ pc[c] = "new"
  /\ pc' = [pc EXCEPT ![c] = "registering"]
  /\ conn' = [conn EXCEPT ![c] = "up"]
  /\ UNCHANGED <<sendVars, writerVars, worker, broadcast, mapVars, hubVars,
                 redisVars, panicked, restarts>>

\* HandleConnection starts the two pumps once the hub has taken the client.
StartPumps(c) ==
  /\ pc[c] = "registered"
  /\ pc' = [pc EXCEPT ![c] = "reading"]
  /\ writer' = [writer EXCEPT ![c] = "running"]
  /\ UNCHANGED <<conn, sendVars, hand, worker, broadcast, mapVars, hubVars,
                 redisVars, panicked, restarts>>

\* The peer closes, the network fails, an oversized frame arrives or the
\* read deadline (pongWait) passes: the next read will fail.
Lose(c) ==
  /\ conn[c] = "up"
  /\ conn' = [conn EXCEPT ![c] = "lost"]
  /\ UNCHANGED <<pc, sendVars, writerVars, worker, broadcast, mapVars, hubVars,
                 redisVars, panicked, restarts>>

\* readPump decodes a message and starts its processTableEvent goroutine.  A
\* message that does not decode is skipped (sendError is empty): a stutter.
ReadMessage(m) ==
  /\ worker[m] = "unsent"
  /\ pc[SenderOf[m]] = "reading"
  /\ conn[SenderOf[m]] = "up"
  /\ worker' = [worker EXCEPT ![m] = "processing"]
  /\ UNCHANGED <<clientVars, sendVars, writerVars, broadcast, mapVars, hubVars,
                 redisVars, panicked, restarts>>

\* NextReader fails: readPump leaves its loop and offers c on unregister.
ReadFails(c) ==
  /\ pc[c] = "reading"
  /\ conn[c] \in {"lost", "closed"}
  /\ pc' = [pc EXCEPT ![c] = "leaving"]
  /\ UNCHANGED <<conn, sendVars, writerVars, worker, broadcast, mapVars, hubVars,
                 redisVars, panicked, restarts>>

\* ... and once the hub has taken it, closes the connection.
CloseConn(c) ==
  /\ pc[c] = "left"
  /\ pc' = [pc EXCEPT ![c] = "gone"]
  /\ conn' = [conn EXCEPT ![c] = "closed"]
  /\ UNCHANGED <<sendVars, writerVars, worker, broadcast, mapVars, hubVars,
                 redisVars, panicked, restarts>>

-----------------------------------------------------------------------------
\* writePump receives a message from send (also from a closed one, as long
\* as it is not drained) ...
WriterTake(c) ==
  /\ writer[c] = "running"
  /\ hand[c] = <<>>
  /\ sendq[c] # <<>>
  /\ hand' = [hand EXCEPT ![c] = <<Head(sendq[c])>>]
  /\ sendq' = [sendq EXCEPT ![c] = Tail(@)]
  /\ UNCHANGED <<clientVars, sendClosed, writer, worker, broadcast, mapVars,
                 hubVars, redisVars, panicked, restarts>>

\* ... and writes it; a write to a peer that is gone may still succeed.
WriteOk(c) ==
  /\ writer[c] = "running"
  /\ hand[c] # <<>>
  /\ conn[c] \in {"up", "lost"}
  /\ hand' = [hand EXCEPT ![c] = <<>>]
  /\ UNCHANGED <<clientVars, sendVars, writer, worker, broadcast, mapVars,
                 hubVars, redisVars, panicked, restarts>>

\* writePump returns and closes the connection.
StopWriter_KeepsConn(c) ==
  /\ writer' = [writer EXCEPT ![c] = "done"]
  /\ hand' = [hand EXCEPT ![c] = <<>>]
  /\ UNCHANGED <<clientVars, sendVars, worker, broadcast, mapVars, hubVars,
                 redisVars, panicked, restarts>>
StopWriter(c) ==
  /\ writer' = [writer EXCEPT ![c] = "done"]
  /\ hand' = [hand EXCEPT ![c] = <<>>]
  /\ conn' = [conn EXCEPT ![c] = "closed"]
  /\ UNCHANGED <<pc, sendVars, worker, broadcast, mapVars, hubVars,
                 redisVars, panicked, restarts>>

\* A write, or the ping of the ticker, fails or misses its deadline.
WriteFails(c) ==
  /\ writer[c] = "running"
  /\ StopWriter(c)

\* The drained channel is closed: send the close frame and return.
WriterSeesClose(c) ==
  /\ writer[c] = "running"
  /\ hand[c] = <<>>
  /\ sendq[c] = <<>>
  /\ c \in sendClosed
  /\ StopWriter(c)

-----------------------------------------------------------------------------
\* processTableEvent: ProcessTableEvent returns an event, or an error that
\* only gets logged ...
ProcessOk(m) ==
  /\ worker[m] = "processing"
  /\ worker' = [worker EXCEPT ![m] = "sending"]
  /\ UNCHANGED <<clientVars, sendVars, writerVars, broadcast, mapVars, hubVars,
                 redisVars, panicked, restarts>>

ProcessError(m) ==
  /\ worker[m] = "processing"
  /\ worker' = [worker EXCEPT ![m] = "done"]
  /\ UNCHANGED <<clientVars, sendVars, writerVars, broadcast, mapVars, hubVars,
                 redisVars, panicked, restarts>>

\* ... and the result is sent to the hub, whatever became of the deadline.
SendBroadcast(m) ==
  /\ worker[m] = "sending"
  /\ EnqueueBroadcast(TableEvent(m))
  /\ worker' = [worker EXCEPT ![m] = "done"]
  /\ UNCHANGED <<clientVars, sendVars, writerVars, mapVars, hubVars,
                 redisVars, panicked, restarts>>

-----------------------------------------------------------------------------
\* Hub.Run, case register.
HubRegister(c) ==
  /\ hubPc = "select"
  /\ pc[c] = "registering"
  /\ pc' = [pc EXCEPT ![c] = "registered"]
  /\ tableKeys' = tableKeys \cup {TableOf[c]}
  /\ tables' = [tables EXCEPT ![TableOf[c]] = @ \cup {c}]
  /\ hubPc' = "addUser"
  /\ hubClient' = c
  /\ UNCHANGED <<conn, sendVars, writerVars, worker, broadcast, hubEvent, todo,
                 redisVars, panicked, restarts>>

HubAddUser ==
  /\ hubPc = "addUser"
  /\ AddUser(TableOf[hubClient], UserOf[hubClient])
  /\ hubPc' = "announceJoin"
  /\ UNCHANGED <<clientVars, sendVars, writerVars, worker, broadcast, mapVars,
                 hubClient, hubEvent, todo, panicked, restarts>>

\* handleSystemEvent: the hub sends on the channel that it alone drains.
Announce(tag) ==
  /\ EnqueueBroadcast(SystemEvent(tag, hubClient))
  /\ hubPc' = "select"
  /\ hubClient' = None
  /\ UNCHANGED <<clientVars, sendVars, writerVars, worker, mapVars,
                 hubEvent, todo, redisVars, panicked, restarts>>

HubAnnounceJoin == hubPc = "announceJoin" /\ Announce(ConnectTag)

\* Hub.Run, case unregister.  A client that a broadcast has already dropped
\* is no longer in the map, and its channel is closed.
HubUnregister(c) ==
  /\ hubPc = "select"
  /\ pc[c] = "leaving"
  /\ pc' = [pc EXCEPT ![c] = "left"]
  /\ \/ /\ InRoom(c)
        /\ tables' = [tables EXCEPT ![TableOf[c]] = @ \ {c}]
        /\ CloseSend(c)
        /\ tableKeys' = IF tables[TableOf[c]] \ {c} = {}
                          THEN tableKeys \ {TableOf[c]} ELSE tableKeys
     \/ /\ ~InRoom(c)
        /\ UNCHANGED <<mapVars, sendClosed, panicked>>
  /\ hubPc' = "removeUser"
  /\ hubClient' = c
  /\ UNCHANGED <<conn, sendq, writerVars, worker, broadcast, hubEvent, todo,
                 redisVars, restarts>>

HubRemoveUser ==
  /\ hubPc = "removeUser"
  /\ RemoveUser(TableOf[hubClient], UserOf[hubClient])
  /\ hubPc' = "announceLeave"
  /\ UNCHANGED <<clientVars, sendVars, writerVars, worker, broadcast, mapVars,
                 hubClient, hubEvent, todo, panicked, restarts>>

HubAnnounceLeave == hubPc = "announceLeave" /\ Announce(DisconnectTag)

\* Hub.Run, case broadcast: take the event and look its clients up.
HubReceive ==
  /\ hubPc = "select"
  /\ broadcast # <<>>
  /\ broadcast' = Tail(broadcast)
  /\ LET e == Head(broadcast) IN
       \/ /\ Recipients(e) = {}
          /\ UNCHANGED hubVars
       \/ /\ Recipients(e) # {}
          /\ hubPc' = "fanout"
          /\ hubEvent' = e
          /\ todo' = Recipients(e)
          /\ UNCHANGED hubClient
  /\ UNCHANGED <<clientVars, sendVars, writerVars, worker, mapVars,
                 redisVars, panicked, restarts>>

\* The loop over the clients ends after the last of them.
Visited(c) ==
  /\ todo' = todo \ {c}
  /\ hubPc' = IF todo = {c} THEN "select" ELSE "fanout"
  /\ hubEvent' = IF todo = {c} THEN None ELSE hubEvent
  /\ UNCHANGED hubClient

\* client.send <- data: there is room in the buffer.
FanoutSend(c) ==
  /\ hubPc = "fanout"
  /\ c \in todo
  /\ Len(sendq[c]) < SendCap
  /\ sendq' = [sendq EXCEPT ![c] = Append(@, hubEvent)]
  /\ panicked' = (panicked \/ c \in sendClosed)
  /\ Visited(c)
  /\ UNCHANGED <<clientVars, sendClosed, writerVars, worker, broadcast, mapVars,
                 redisVars, restarts>>

\* The message is dropped instead of the client.
FanoutDrop_MessageOnly(c) ==
  /\ hubPc = "fanout"
  /\ c \in todo
  /\ Len(sendq[c]) >= SendCap
  /\ Visited(c)
  /\ UNCHANGED <<clientVars, sendVars, writerVars, worker, broadcast, mapVars,
                 panicked, redisVars, restarts>>
\* default: the buffer is full, so the client is dropped.  Unlike in the
\* unregister case an emptied table keeps its entry in the map.
FanoutDrop(c) ==
  /\ hubPc = "fanout"
  /\ c \in todo
  /\ Len(sendq[c]) >= SendCap
  /\ CloseSend(c)
  /\ tables' = [tables EXCEPT ![hubEvent.table] = @ \ {c}]
  /\ Visited(c)
  /\ UNCHANGED <<clientVars, sendq, writerVars, worker, broadcast, tableKeys,
                 redisVars, restarts>>

-----------------------------------------------------------------------------
\* The process ends (a signal, a crash, a redeployment: Shutdown does not
\* know the hub) and a new one starts.  Only Redis keeps its state.
Restart ==
  /\ restarts < MaxRestarts
  /\ restarts' = restarts + 1
  /\ pc' = [c \in Clients |-> IF pc[c] = "new" THEN "new" ELSE "gone"]
  /\ conn' = [c \in Clients |-> IF conn[c] = "none" THEN "none" ELSE "closed"]
  /\ sendq' = [c \in Clients |-> <<>>]
  /\ sendClosed' = {}
  /\ writer' = [c \in Clients |-> IF pc[c] = "new" THEN "off" ELSE "done"]
  /\ hand' = [c \in Clients |-> <<>>]
  /\ worker' = [m \in Messages |-> IF worker[m] = "unsent" THEN "unsent" ELSE "done"]
  /\ broadcast' = <<>>
  /\ tables' = [t \in Tables |-> {}]
  /\ tableKeys' = {}
  /\ hubPc' = "select"
  /\ hubClient' = None
  /\ hubEvent' = None
  /\ todo' = {}
  /\ panicked' = FALSE
  /\ UNCHANGED redisVars

-----------------------------------------------------------------------------
Registering   == \E c \in Clients : HubRegister(c)
Unregistering == \E c \in Clients : HubUnregister(c)
FanoutStep    == \E c \in Clients : FanoutSend(c) \/ FanoutDrop(c)
HubStep       == HubAddUser \/ HubAnnounceJoin \/ HubRemoveUser
                   \/ HubAnnounceLeave \/ FanoutStep
ReaderStep(c) == StartPumps(c) \/ ReadFails(c) \/ CloseConn(c)
WriterStep(c) == WriterTake(c) \/ WriteOk(c) \/ WriteFails(c) \/ WriterSeesClose(c)
\* What writePump does without the peer's or the ticker's doing: on a closed
\* connection the next ping fails at the latest.
WriterProgress(c) ==
  \/ WriterTake(c) \/ WriteOk(c) \/ WriterSeesClose(c)
  \/ (hand[c] # <<>> \/ conn[c] = "closed") /\ WriteFails(c)
ProcessStep(m) == ProcessOk(m) \/ ProcessError(m)

Next ==
  \/ \E c \in Clients : Connect(c) \/ Lose(c) \/ ReaderStep(c) \/ WriterStep(c)
  \/ \E m \in Messages : ReadMessage(m) \/ ProcessStep(m) \/ SendBroadcast(m)
  \/ Registering \/ Unregistering \/ HubReceive \/ HubStep
  \/ Restart

Spec == Init /\ [][Next]_vars

(***************************************************************************)
(* Every goroutine that can run does run: calls to Redis and Postgres      *)
(* return (the event context expires after 20s), a write to a connection   *)
(* ends within writeWait.  Hub.Run's select picks at random among the      *)
(* ready cases, so a case that is ready again and again is taken: strong   *)
(* fairness.  Nothing makes a peer connect, speak, or disconnect.          *)
(***************************************************************************)
Fairness ==
  /\ WF_vars(HubStep)
  /\ SF_vars(Registering) /\ SF_vars(Unregistering) /\ SF_vars(HubReceive)
  /\ \A c \in Clients : WF_vars(ReaderStep(c)) /\ WF_vars(WriterProgress(c))
  /\ \A m \in Messages : WF_vars(ProcessStep(m)) /\ WF_vars(SendBroadcast(m))

FairSpec == Spec /\ Fairness

-----------------------------------------------------------------------------
\* A client the hub has registered and not yet been told to unregister.
Attached(c) == pc[c] \in {"registered", "reading", "leaving"}

\* The hub never closes a send channel twice (unregister after a drop) and
\* never sends on a closed one: either would end the process for every table.
NoChannelPanic == ~panicked

\* No connection is left in limbo: an attached client either receives its
\* table's events or has had its send channel closed, so that its writePump
\* hangs up, and a client the hub has let go is closed and in no table.
NoLimbo ==
  \A c \in Clients :
    /\ c \in tables[TableOf[c]] => Attached(c) /\ c \notin sendClosed
    /\ Attached(c) /\ c \notin tables[TableOf[c]] => c \in sendClosed
    /\ pc[c] = "left" => c \in sendClosed

\* What is queued for a connection, or being written to it, are events of
\* the table it joined, whichever tables the others joined.
TableIsolation ==
  \A c \in Clients :
    /\ \A i \in 1..Len(sendq[c]) : sendq[c][i].table = TableOf[c]
    /\ \A i \in 1..Len(hand[c]) : hand[c][i].table = TableOf[c]

\* The room a user's Redis record names is a room that lists the user,
\* through failed pipelines, restarts and users at several tables.
UserRoomListed ==
  \A u \in Users : userRoom[u] # None => u \in roomUsers[userRoom[u]]

\* The unregister case has let go of the client but not reached Redis yet.
BeingRemoved(t, u) ==
  /\ hubPc = "removeUser"
  /\ TableOf[hubClient] = t
  /\ UserOf[hubClient] = u

\* While Redis answers and the process lives, a room lists nobody who has no
\* connection attached to that table.
NoGhostUsers ==
  RedisOutcomes = {"applied"} /\ restarts = 0 =>
    \A t \in Tables : \A u \in roomUsers[t] :
      \/ \E c \in Clients : Attached(c) /\ TableOf[c] = t /\ UserOf[c] = u
      \/ BeingRemoved(t, u)

\* The hub waits for room in the channel that only it drains.
Wedged ==
  /\ hubPc \in {"announceJoin", "announceLeave"}
  /\ Len(broadcast) = BroadcastCap

\* A connection that is lost, or that we close, or whose client the hub has
\* dropped for being slow, leaves: the hub lets go of its client and both pumps
\* end.  Nothing but a wedged hub keeps it.
EndedConnectionsLeave ==
  \A c \in Clients :
    conn[c] \in {"lost", "closed"} \/ c \in sendClosed
      ~> (pc[c] = "gone" /\ writer[c] = "done") \/ Wedged

\* Every processed table event gets into the broadcast channel, and the hub comes
\* back to its select and finds it empty: no goroutine stays behind, and the hub
\* waits for ever nowhere but for itself.
EventsGetThrough ==
  /\ \A m \in Messages : worker[m] = "sending" ~> worker[m] = "done" \/ Wedged
  /\ []<>(hubPc = "select" /\ broadcast = <<>>) \/ <>[]Wedged

\* hub.go:79 "Сохраняем в БД и отправляем всем" (we save to the database and
\* send to everyone): an announcement the hub has begun is sent.
AnnouncementsAreSent ==
  hubPc \in {"announceJoin", "announceLeave"} ~> hubPc = "select"

\* hub.go:67 "Создаем событие о подключении" (we create an event about a
\* connection): what the hub sends for a new connection is a join.
ConnectionsSentAsJoin ==
  [][HubAnnounceJoin => broadcast'[Len(broadcast')].event = "join"]_vars

\* The client whose coming or going the hub has still to tell Redis.
DueClients == IF hubPc \in {"addUser", "removeUser"} THEN {hubClient} ELSE {}

PresenceBook == INSTANCE Presence WITH
  attached <- {c \in Clients : Attached(c)},
  listed <- roomUsers,
  due <- DueClients

\* Who a room lists follows the arrivals and departures of its users'
\* connections as the hub serves them: an entry changes only with an arrival or
\* a departure of a connection of that user at that table, at most once with each,
\* and before the user's next one there is served.  A departure takes off what
\* arrivals before it put on (also that of another connection which is still
\* there) and never what one after it did, and no other room's list is touched,
\* whoever reconnects, whatever pipelines fail and whenever the process restarts.
PresenceImplemented == PresenceBook!PresenceSpec
=============================================================================
