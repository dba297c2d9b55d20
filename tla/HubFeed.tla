------------------------------ MODULE HubFeed -------------------------------
(***************************************************************************)
(* The hub with a record of what its peers get to see, and the claim that  *)
(* it implements TableFeed: behind one broadcast channel, a loop over the  *)
(* clients that other steps interleave with, a buffer and a goroutine per  *)
(* client, each peer still receives one gapless run of its table's events. *)
(*                                                                         *)
(* The record is history only: no step of the hub reads it.                *)
(***************************************************************************)
EXTENDS Hub

VARIABLES
  log,    \* the events of each table in the order the hub took them
  joined, \* the clients the hub has ever registered
  start,  \* the length of their table's log at that moment
  got     \* what writePump has written to each connection

recordVars == <<log, joined, start, got>>
allVars == <<vars, recordVars>>

RecordInit ==
  /\ Init
  /\ log = [t \in Tables |-> <<>>]
  /\ joined = {}
  /\ start = [c \in Clients |-> 0]
  /\ got = [c \in Clients |-> <<>>]

\* The hub registers a client: from here on it is sent its table's events.
RecordRegister(c) ==
  /\ HubRegister(c)
  /\ joined' = joined \cup {c}
  /\ start' = [start EXCEPT ![c] = Len(log[TableOf[c]])]
  /\ UNCHANGED <<log, got>>

\* The hub takes an event from the broadcast channel.
RecordReceive ==
  /\ HubReceive
  /\ LET e == Head(broadcast) IN log' = [log EXCEPT ![e.table] = Append(@, e)]
  /\ UNCHANGED <<joined, start, got>>

\* A message has been written to a connection.
RecordWrite(c) ==
  /\ WriteOk(c)
  /\ got' = [got EXCEPT ![c] = @ \o hand[c]]
  /\ UNCHANGED <<log, joined, start>>

\* Every other step of Hub leaves the record alone.
Unrecorded ==
  \/ \E c \in Clients :
       \/ Connect(c) \/ Lose(c) \/ ReaderStep(c)
       \/ WriterTake(c) \/ WriteFails(c) \/ WriterSeesClose(c)
  \/ \E m \in Messages : ReadMessage(m) \/ ProcessStep(m) \/ SendBroadcast(m)
  \/ Unregistering \/ HubStep \/ Restart

RecordNext ==
  \/ \E c \in Clients : RecordRegister(c) \/ RecordWrite(c)
  \/ RecordReceive
  \/ Unrecorded /\ UNCHANGED recordVars

RecordSpec == RecordInit /\ [][RecordNext]_allVars

-----------------------------------------------------------------------------
Feed == INSTANCE TableFeed

\* Each peer receives, from the event that was next when the hub registered
\* it, its table's events in the order the hub took them and without gaps.
FeedImplemented == Feed!FeedSpec

\* The event the hub is handing out, if c is still to be visited.
Undelivered(c) == IF hubPc = "fanout" /\ c \in todo THEN 1 ELSE 0

\* What a client has been sent, what is being written and what is queued are
\* together the run of the log from its start: for a client in the set of its
\* table up to the event being handed out, for a dropped one up to some place.
Sent(c) == got[c] \o hand[c] \o sendq[c]
HoldsItsRun(c) ==
  LET t == TableOf[c] IN
    /\ start[c] + Len(Sent(c)) <= Len(log[t])
    /\ \A i \in 1..Len(Sent(c)) : Sent(c)[i] = log[t][start[c] + i]
    /\ c \in tables[t] => start[c] + Len(Sent(c)) + Undelivered(c) = Len(log[t])
QueuesHoldTheLog == \A c \in Clients : writer[c] # "done" => HoldsItsRun(c)

\* The places in a sequence of events where user u of table t is announced.
Places(q, tag, t, u) ==
  {i \in 1..Len(q) :
     q[i].type = "system" /\ q[i].event = tag /\ q[i].table = t /\ q[i].user = u}

\* How often he has been, in the table's log and in the broadcast channel.
Announced(tag, t, u) ==
  Cardinality(Places(log[t], tag, t, u)) + Cardinality(Places(broadcast, tag, t, u))

\* The hub is between letting c in (or go) and announcing it.
Announcing(places, t, u) ==
  IF hubPc \in places /\ TableOf[hubClient] = t /\ UserOf[hubClient] = u THEN 1 ELSE 0

\* His connections the hub has let in and not yet let go.
Here(t, u) == {c \in Clients : Attached(c) /\ TableOf[c] = t /\ UserOf[c] = u}

\* Peers can keep the list of who is at a table from the announcements alone:
\* in the table's log and the broadcast channel, and but for the one the hub is
\* about to make, a user's connects exceed his disconnects by his attached
\* connections.
Balanced(t, u) ==
  Announced(ConnectTag, t, u) + Announcing({"addUser", "announceJoin"}, t, u)
    = Announced(DisconnectTag, t, u)
        + Announcing({"removeUser", "announceLeave"}, t, u) + Cardinality(Here(t, u))
PresenceFromAnnouncements ==
  restarts = 0 => \A t \in Tables : \A u \in Users : Balanced(t, u)

\* The announcements of table t so far, in order: the log, the channel, and the
\* one the hub is about to make.
OwedAnnouncement(t) ==
  IF hubPc \in {"announceJoin", "announceLeave"} /\ TableOf[hubClient] = t
    THEN <<SystemEvent(IF hubPc = "announceJoin" THEN ConnectTag ELSE DisconnectTag, hubClient)>>
    ELSE <<>>
Story(t) == log[t] \o broadcast \o OwedAnnouncement(t)

\* The last announcement of user u at table t is one of a connection.
LastSeenComing(t, u) ==
  LET q == Story(t)
      about == Places(q, ConnectTag, t, u) \cup Places(q, DisconnectTag, t, u)
  IN  \E i \in about : q[i].event = ConnectTag /\ \A j \in about : j <= i

\* The room in Redis lists exactly the users whom the peers of the table were
\* last told to have come, also while a user has several connections: where the
\* departure of one hides another that is still there, it does so to both.
ListFollowsAnnouncements ==
  RedisOutcomes = {"applied"} /\ restarts = 0 =>
    \A t \in Tables : \A u \in Users : u \in roomUsers[t] <=> LastSeenComing(t, u)
=============================================================================
