--------------------------- MODULE HubFeedProofs ----------------------------
(***************************************************************************)
(* The hub implements TableFeed, for every value of its constants: however *)
(* many clients, tables and messages, however small the buffers, through   *)
(* slow clients, failing writes and restarts.                              *)
(***************************************************************************)
EXTENDS HubFeed, HubProofs, FiniteSetTheorems, FunctionTheorems, SequenceTheorems

RecordTypes ==
  /\ log \in [Tables -> Seq(Events)]
  /\ joined \in SUBSET Clients
  /\ start \in [Clients -> Nat]
  /\ got \in [Clients -> Seq(Events)]

\* Who has joined, and that nothing is sent to a client before it has.
JoinedOK ==
  \A c \in Clients :
    /\ pc[c] \in {"new", "registering"} =>
         c \notin joined /\ writer[c] = "off" /\ Sent(c) = <<>>
    /\ pc[c] = "registered" => writer[c] = "off"
    /\ Attached(c) \/ writer[c] = "running" => c \in joined

\* writePump holds at most one message.
HandOK == \A c \in Clients : hand[c] = <<>> \/ \E e \in Events : hand[c] = <<e>>

\* What the hub hands out is the last event it took.
FanoutIsLast ==
  hubPc = "fanout" =>
    /\ Len(log[hubEvent.table]) > 0
    /\ log[hubEvent.table][Len(log[hubEvent.table])] = hubEvent

LogInv == RecordTypes /\ JoinedOK /\ HandOK /\ FanoutIsLast /\ QueuesHoldTheLog

HubInv == TypeInv /\ ChannelInv

-----------------------------------------------------------------------------
\* The record adds nothing to and takes nothing from what the hub can do.
LEMMA RecordedStep == [RecordNext]_allVars => [Next]_vars
BY DEF RecordNext, RecordRegister, RecordReceive, RecordWrite, Unrecorded, allVars,
       Next, Registering, WriterStep

LEMMA RecordedHub == RecordSpec => []HubInv
<1>1. RecordInit => HubInv
  BY TypeInvInit, ChannelInvInit DEF RecordInit, HubInv
<1>2. HubInv /\ [RecordNext]_allVars => HubInv'
  BY RecordedStep, TypeInvNext, ChannelInvNext DEF HubInv
<1>3. QED BY <1>1, <1>2, PTL DEF RecordSpec

LEMMA QueueTypes ==
  ASSUME HubInv, RecordTypes, NEW c \in Clients
  PROVE  /\ got[c] \in Seq(Events) /\ hand[c] \in Seq(Events) /\ sendq[c] \in Seq(Events)
         /\ Sent(c) \in Seq(Events)
         /\ Len(Sent(c)) \in Nat
         /\ start[c] \in Nat /\ TableOf[c] \in Tables
         /\ log[TableOf[c]] \in Seq(Events) /\ Len(log[TableOf[c]]) \in Nat
BY HubAssumption DEF HubInv, TypeInv, TypeOK, ClientTypes, RecordTypes, Sent

\* A step that leaves log, the client's start and what it has been sent alone
\* keeps its run, if it does not visit the client either.
LEMMA RunFrame ==
  ASSUME NEW c \in Clients, HoldsItsRun(c), log' = log, start'[c] = start[c],
         Sent(c)' = Sent(c),
         c \in tables'[TableOf[c]] =>
           c \in tables[TableOf[c]] /\ Undelivered(c)' = Undelivered(c)
  PROVE  HoldsItsRun(c)'
BY DEF HoldsItsRun

\* The same for the whole invariant: a step of a goroutine that touches neither
\* the record, nor the queues, nor the hub's tables.
LEMMA LogInvFrame ==
  ASSUME LogInv, UNCHANGED <<recordVars, sendq, hand, tables>>,
         hubPc = "fanout" <=> hubPc' = "fanout",
         hubPc = "fanout" => UNCHANGED <<todo, hubEvent>>,
         \A c \in Clients :
           \/ writer'[c] \in {"done", writer[c]}
           \/ pc[c] = "registered" /\ writer'[c] = "running",
         \A c \in Clients : writer[c] = "done" => writer'[c] = "done",
         \A c \in Clients :
           /\ pc'[c] \in {"new", "registering"}
                => pc[c] \in {"new", "registering"} /\ writer'[c] = writer[c]
           /\ pc'[c] = "registered" => UNCHANGED <<pc[c], writer[c]>>
           /\ Attached(c)' => Attached(c)
  PROVE  LogInv'
<1>1. RecordTypes' /\ HandOK' /\ FanoutIsLast'
  BY DEF LogInv, recordVars, RecordTypes, HandOK, FanoutIsLast
<1>2. ASSUME NEW c \in Clients PROVE Sent(c)' = Sent(c) /\ Undelivered(c)' = Undelivered(c)
  BY DEF recordVars, Sent, Undelivered
<1>3. JoinedOK'
  BY <1>2 DEF LogInv, recordVars, JoinedOK, Attached
<1>4. QueuesHoldTheLog'
  BY <1>2, RunFrame DEF LogInv, recordVars, QueuesHoldTheLog
<1>5. QED BY <1>1, <1>3, <1>4 DEF LogInv

-----------------------------------------------------------------------------
\* The steps of the hub's clients.

LEMMA PcType ==
  HubInv => /\ pc \in [Clients -> {"new", "registering", "registered", "reading",
                                   "leaving", "left", "gone"}]
            /\ writer \in [Clients -> {"off", "running", "done"}]
BY DEF HubInv, TypeInv, TypeOK, ClientTypes

\* Every step but those below leaves the queues and the hub's tables alone.
LEMMA QuietStep ==
  ASSUME HubInv, LogInv, Unrecorded, UNCHANGED recordVars,
         ~\E c \in Clients : \/ WriterTake(c) \/ WriteFails(c) \/ WriterSeesClose(c)
                             \/ FanoutSend(c) \/ FanoutDrop(c) \/ HubUnregister(c),
         ~Restart
  PROVE  LogInv'
<1> USE PcType
<1>1. ASSUME NEW c \in Clients, Connect(c) PROVE LogInv'
  BY <1>1, LogInvFrame DEF Connect, sendVars, writerVars, mapVars, hubVars, Attached
<1>2. ASSUME NEW c \in Clients, Lose(c) PROVE LogInv'
  BY <1>2, LogInvFrame DEF Lose, sendVars, writerVars, mapVars, hubVars, Attached
<1>3. ASSUME NEW c \in Clients, StartPumps(c) PROVE LogInv'
  <2>1. writer[c] # "done"
    BY <1>3 DEF LogInv, JoinedOK, StartPumps
  <2>2. QED BY <1>3, <2>1, LogInvFrame DEF StartPumps, sendVars, mapVars, hubVars, Attached
<1>4. ASSUME NEW c \in Clients, ReadFails(c) \/ CloseConn(c) PROVE LogInv'
  BY <1>4, LogInvFrame DEF ReadFails, CloseConn, sendVars, writerVars, mapVars, hubVars, Attached
<1>5. ASSUME NEW m \in Messages, ReadMessage(m) \/ ProcessStep(m) \/ SendBroadcast(m)
      PROVE  LogInv'
  BY <1>5, LogInvFrame
     DEF ReadMessage, ProcessStep, ProcessOk, ProcessError, SendBroadcast,
         clientVars, sendVars, writerVars, mapVars, hubVars, Attached
<1>6. CASE HubAddUser \/ HubRemoveUser \/ HubAnnounceJoin \/ HubAnnounceLeave
  BY <1>6, LogInvFrame
     DEF HubAddUser, HubRemoveUser, HubAnnounceJoin, HubAnnounceLeave, Announce,
         clientVars, sendVars, writerVars, mapVars, Attached
<1>7. QED
  BY <1>1, <1>2, <1>3, <1>4, <1>5, <1>6
     DEF Unrecorded, ReaderStep, HubStep, FanoutStep, Unregistering

\* Taking a message from the buffer and finishing a write move it along what
\* the client has been sent.
LEMMA SentMoves ==
  ASSUME NEW g \in Seq(Events), NEW h \in Seq(Events), NEW q \in Seq(Events)
  PROVE  /\ (g \o h) \o <<>> \o q = g \o h \o q
         /\ q # <<>> => g \o <<Head(q)>> \o Tail(q) = g \o <<>> \o q
<1>1. (g \o h) \o <<>> = g \o h
  BY ConcatProperties, ConcatEmptySeq
<1>2. ASSUME q # <<>> PROVE g \o <<Head(q)>> \o Tail(q) = g \o <<>> \o q
  <2>1. Head(q) \in Events /\ Tail(q) \in Seq(Events)
    BY <1>2, HeadTailProperties
  <2>2. <<Head(q)>> \in Seq(Events)
    BY <2>1
  <2>3. <<Head(q)>> \o Tail(q) = q
    BY <1>2, <2>1
  <2>4. g \o <<Head(q)>> \o Tail(q) = g \o (<<Head(q)>> \o Tail(q))
    BY <2>1, <2>2, ConcatAssociative
  <2>5. g \o <<>> = g
    BY ConcatEmptySeq
  <2>6. QED BY <2>3, <2>4, <2>5
<1>3. QED BY <1>1, <1>2

LEMMA TakeStep ==
  ASSUME HubInv, LogInv, NEW c \in Clients, WriterTake(c), UNCHANGED recordVars
  PROVE  LogInv'
<1>1. /\ hand \in [Clients -> Seq(Events)] /\ sendq \in [Clients -> Seq(Events)]
      /\ sendq[c] # <<>> /\ hand[c] = <<>>
      /\ hand' = [hand EXCEPT ![c] = <<Head(sendq[c])>>]
      /\ sendq' = [sendq EXCEPT ![c] = Tail(@)]
      /\ UNCHANGED <<log, joined, start, got, pc, writer, tables, hubPc, hubEvent, todo>>
  BY DEF WriterTake, HubInv, TypeInv, TypeOK, ClientTypes, clientVars, mapVars, hubVars, recordVars
<1>2. Head(sendq[c]) \in Events
  BY <1>1, HeadTailProperties
<1>3. ASSUME NEW d \in Clients PROVE Sent(d)' = Sent(d)
  <2>1. CASE d = c
    <3>1. Sent(c)' = got[c] \o <<Head(sendq[c])>> \o Tail(sendq[c])
      BY <1>1 DEF Sent
    <3>2. Sent(c) = got[c] \o <<>> \o sendq[c]
      BY <1>1 DEF Sent
    <3>3. got[c] \in Seq(Events) /\ sendq[c] \in Seq(Events)
      BY QueueTypes DEF LogInv
    <3>4. QED BY <1>1, <2>1, <3>1, <3>2, <3>3, SentMoves
  <2>2. CASE d # c
    BY <1>1, <2>2 DEF Sent
  <2>3. QED BY <2>1, <2>2
<1>4. RecordTypes' /\ FanoutIsLast'
  BY <1>1 DEF LogInv, RecordTypes, FanoutIsLast
<1>5. JoinedOK'
  BY <1>1, <1>3 DEF LogInv, JoinedOK, Attached
<1>6. HandOK'
  BY <1>1, <1>2 DEF LogInv, HandOK
<1>7. QueuesHoldTheLog'
  BY <1>1, <1>3, RunFrame DEF LogInv, QueuesHoldTheLog, Undelivered
<1>8. QED BY <1>4, <1>5, <1>6, <1>7 DEF LogInv

LEMMA StopStep ==
  ASSUME HubInv, LogInv, NEW c \in Clients, WriteFails(c) \/ WriterSeesClose(c),
         UNCHANGED recordVars
  PROVE  LogInv'
<1>1. /\ writer[c] = "running"
      /\ hand \in [Clients -> Seq(Events)] /\ writer \in [Clients -> {"off", "running", "done"}]
      /\ hand' = [hand EXCEPT ![c] = <<>>]
      /\ writer' = [writer EXCEPT ![c] = "done"]
      /\ UNCHANGED <<log, joined, start, got, pc, sendq, tables, hubPc, hubEvent, todo>>
  BY DEF WriteFails, WriterSeesClose, StopWriter, HubInv, TypeInv, TypeOK, ClientTypes,
         sendVars, mapVars, hubVars, recordVars
<1>2. pc[c] \notin {"new", "registering", "registered"}
  BY <1>1 DEF LogInv, JoinedOK
<1>3. ASSUME NEW d \in Clients, d # c PROVE Sent(d)' = Sent(d)
  BY <1>1, <1>3 DEF Sent
<1>4. RecordTypes' /\ FanoutIsLast'
  BY <1>1 DEF LogInv, RecordTypes, FanoutIsLast
<1>5. JoinedOK'
  BY <1>1, <1>2, <1>3 DEF LogInv, JoinedOK, Attached
<1>6. HandOK'
  BY <1>1 DEF LogInv, HandOK
<1>7. QueuesHoldTheLog'
  BY <1>1, <1>3, RunFrame DEF LogInv, QueuesHoldTheLog, Undelivered
<1>8. QED BY <1>4, <1>5, <1>6, <1>7 DEF LogInv

LEMMA UnregisterStep ==
  ASSUME HubInv, LogInv, NEW c \in Clients, HubUnregister(c), UNCHANGED recordVars
  PROVE  LogInv'
<1>1. /\ pc' = [pc EXCEPT ![c] = "left"] /\ pc[c] = "leaving"
      /\ UNCHANGED <<log, joined, start, got, sendq, writer, hand, hubEvent, todo>>
      /\ hubPc = "select" /\ hubPc' = "removeUser"
  BY DEF HubUnregister, writerVars, recordVars
<1>2. \A d \in Clients : d \in tables'[TableOf[d]] => d \in tables[TableOf[d]]
  <2>1. CASE InRoom(c)
    BY <2>1, HubAssumption DEF HubUnregister, HubInv, TypeInv, TypeOK, HubTypes
  <2>2. CASE ~InRoom(c)
    BY <2>2 DEF HubUnregister, mapVars
  <2>3. QED BY <2>1, <2>2
<1>3. ASSUME NEW d \in Clients PROVE Sent(d)' = Sent(d) /\ Undelivered(d)' = Undelivered(d)
  BY <1>1 DEF Sent, Undelivered
<1>4. RecordTypes' /\ FanoutIsLast' /\ HandOK'
  BY <1>1 DEF LogInv, RecordTypes, FanoutIsLast, HandOK
<1>5. JoinedOK'
  BY <1>1, <1>3, PcType DEF LogInv, JoinedOK, Attached
<1>6. QueuesHoldTheLog'
  BY <1>1, <1>2, <1>3, RunFrame DEF LogInv, QueuesHoldTheLog
<1>7. QED BY <1>4, <1>5, <1>6 DEF LogInv

-----------------------------------------------------------------------------
\* The steps of the hub.

\* A client the fan-out has yet to visit is attached, in the set of the
\* event's table, which is its own.
LEMMA Visitable ==
  ASSUME HubInv, NEW c \in Clients, hubPc = "fanout", c \in todo
  PROVE  /\ hubEvent \in Events /\ hubEvent.table = TableOf[c] /\ hubEvent.table \in Tables
         /\ c \in tables[TableOf[c]]
         /\ Attached(c)
BY DEF HubInv, TypeInv, LocalsOK, Events, ChannelInv, FanoutOK, MembersOK

LEMMA ConcatAppend ==
  ASSUME NEW p \in Seq(Events), NEW q \in Seq(Events), NEW e \in Events
  PROVE  p \o Append(q, e) = Append(p \o q, e)
<1>1. <<e>> \in Seq(Events)
  OBVIOUS
<1>2. p \o (q \o <<e>>) = (p \o q) \o <<e>>
  BY <1>1, ConcatAssociative
<1>3. Append(q, e) = q \o <<e>>
  BY AppendIsConcat
<1>4. p \o q \in Seq(Events)
  BY ConcatProperties
<1>5. Append(p \o q, e) = (p \o q) \o <<e>>
  BY <1>4, AppendIsConcat
<1>6. QED BY <1>2, <1>3, <1>5

LEMMA SendStep ==
  ASSUME HubInv, LogInv, NEW c \in Clients, FanoutSend(c), UNCHANGED recordVars
  PROVE  LogInv'
<1>1. /\ hubPc = "fanout" /\ c \in todo
      /\ sendq' = [sendq EXCEPT ![c] = Append(@, hubEvent)]
      /\ todo' = todo \ {c}
      /\ hubPc' = IF todo = {c} THEN "select" ELSE "fanout"
      /\ hubEvent' = IF todo = {c} THEN None ELSE hubEvent
      /\ UNCHANGED <<log, joined, start, got, pc, writer, hand, tables>>
  BY DEF FanoutSend, Visited, clientVars, writerVars, mapVars, recordVars
<1>2. sendq \in [Clients -> Seq(Events)]
  BY DEF HubInv, TypeInv, TypeOK, ClientTypes
<1>3. /\ hubEvent \in Events /\ hubEvent.table = TableOf[c]
      /\ c \in tables[TableOf[c]] /\ Attached(c)
  BY <1>1, Visitable
<1> DEFINE l == log[TableOf[c]]
<1>4. Sent(c)' = Append(Sent(c), hubEvent)
  <2>1. Sent(c)' = got[c] \o hand[c] \o Append(sendq[c], hubEvent)
    BY <1>1, <1>2 DEF Sent
  <2>2. got[c] \o hand[c] \in Seq(Events) /\ sendq[c] \in Seq(Events)
    BY QueueTypes, ConcatProperties DEF LogInv
  <2>3. QED BY <1>3, <2>1, <2>2, ConcatAppend DEF Sent
<1>5. RecordTypes' /\ HandOK' /\ FanoutIsLast'
  BY <1>1 DEF LogInv, RecordTypes, HandOK, FanoutIsLast
<1>6. ASSUME NEW d \in Clients, d # c
      PROVE  Sent(d)' = Sent(d) /\ Undelivered(d)' = Undelivered(d)
  BY <1>1, <1>2, <1>6 DEF Sent, Undelivered
<1>7. JoinedOK'
  <2>1. ASSUME NEW d \in Clients, pc'[d] \in {"new", "registering"}
        PROVE  d \notin joined' /\ writer'[d] = "off" /\ Sent(d)' = <<>>
    <3>1. d # c
      BY <1>1, <1>3, <2>1 DEF Attached
    <3>2. QED BY <1>1, <1>6, <2>1, <3>1 DEF LogInv, JoinedOK
  <2>2. QED BY <1>1, <2>1 DEF LogInv, JoinedOK, Attached
<1>8. ASSUME HoldsItsRun(c) PROVE HoldsItsRun(c)'
  <2>1. /\ Sent(c) \in Seq(Events) /\ Len(Sent(c)) \in Nat /\ start[c] \in Nat
        /\ l \in Seq(Events) /\ Len(l) \in Nat
    BY QueueTypes DEF LogInv
  <2>2. start[c] + Len(Sent(c)) + 1 = Len(l)
    BY <1>1, <1>3, <1>8 DEF HoldsItsRun, Undelivered
  <2>3. l[Len(l)] = hubEvent
    BY <1>1, <1>3 DEF LogInv, FanoutIsLast
  <2>4. Len(Sent(c)') = Len(Sent(c)) + 1
    BY <1>3, <1>4, <2>1, AppendProperties
  <2>5. ASSUME NEW i \in 1..(Len(Sent(c)) + 1) PROVE Sent(c)'[i] = l[start[c] + i]
    <3>1. CASE i \in 1..Len(Sent(c))
      <4>1. Sent(c)'[i] = Sent(c)[i]
        BY <1>3, <1>4, <2>1, <3>1, AppendProperties
      <4>2. QED BY <1>8, <3>1, <4>1 DEF HoldsItsRun
    <3>2. CASE i = Len(Sent(c)) + 1
      <4>1. Sent(c)'[i] = hubEvent
        BY <1>3, <1>4, <2>1, <3>2, AppendProperties
      <4>2. QED BY <2>1, <2>2, <2>3, <3>2, <4>1
    <3>3. QED BY <2>1, <3>1, <3>2
  <2>6. Undelivered(c)' = 0
    BY <1>1 DEF Undelivered
  <2>7. QED BY <1>1, <2>1, <2>2, <2>4, <2>5, <2>6 DEF HoldsItsRun
<1>9. QueuesHoldTheLog'
  BY <1>1, <1>6, <1>8, RunFrame DEF LogInv, QueuesHoldTheLog
<1>10. QED BY <1>5, <1>7, <1>9 DEF LogInv

LEMMA DropStep ==
  ASSUME HubInv, LogInv, NEW c \in Clients, FanoutDrop(c), UNCHANGED recordVars
  PROVE  LogInv'
<1>1. /\ hubPc = "fanout" /\ c \in todo
      /\ tables' = [tables EXCEPT ![hubEvent.table] = @ \ {c}]
      /\ todo' = todo \ {c}
      /\ hubPc' = IF todo = {c} THEN "select" ELSE "fanout"
      /\ hubEvent' = IF todo = {c} THEN None ELSE hubEvent
      /\ UNCHANGED <<log, joined, start, got, pc, writer, hand, sendq>>
  BY DEF FanoutDrop, Visited, clientVars, writerVars, recordVars
<1>2. hubEvent.table = TableOf[c] /\ hubEvent.table \in Tables
  BY <1>1, Visitable
<1>3. tables \in [Tables -> SUBSET Clients]
  BY DEF HubInv, TypeInv, TypeOK, HubTypes
<1>4. ASSUME NEW d \in Clients PROVE Sent(d)' = Sent(d)
  BY <1>1 DEF Sent
<1>5. RecordTypes' /\ HandOK' /\ FanoutIsLast' /\ JoinedOK'
  BY <1>1, <1>4 DEF LogInv, RecordTypes, HandOK, FanoutIsLast, JoinedOK, Attached
<1>6. c \notin tables'[TableOf[c]]
  BY <1>1, <1>2, <1>3
<1>7. ASSUME NEW d \in Clients, d # c
      PROVE  /\ Undelivered(d)' = Undelivered(d)
             /\ d \in tables'[TableOf[d]] => d \in tables[TableOf[d]]
  BY <1>1, <1>3, <1>7, HubAssumption DEF Undelivered
<1>8. QueuesHoldTheLog'
  BY <1>1, <1>4, <1>6, <1>7, RunFrame DEF LogInv, QueuesHoldTheLog
<1>9. QED BY <1>5, <1>8 DEF LogInv

LEMMA RestartStep ==
  ASSUME HubInv, LogInv, Restart, UNCHANGED recordVars
  PROVE  LogInv'
<1>1. /\ pc' = [c \in Clients |-> IF pc[c] = "new" THEN "new" ELSE "gone"]
      /\ writer' = [c \in Clients |-> IF pc[c] = "new" THEN "off" ELSE "done"]
      /\ sendq' = [c \in Clients |-> <<>>] /\ hand' = [c \in Clients |-> <<>>]
      /\ tables' = [t \in Tables |-> {}] /\ hubPc' = "select"
      /\ UNCHANGED <<log, joined, start, got>>
  BY DEF Restart, recordVars
<1>2. ASSUME NEW c \in Clients, pc[c] = "new"
      PROVE  Sent(c)' = <<>> /\ Sent(c) = <<>> /\ writer[c] = "off" /\ c \notin joined
  <2>1. Sent(c) = <<>> /\ writer[c] = "off" /\ c \notin joined
    BY <1>2 DEF LogInv, JoinedOK
  <2>2. got[c] \in Seq(Events) /\ hand[c] \in Seq(Events) /\ sendq[c] \in Seq(Events)
    BY QueueTypes DEF LogInv
  <2>3. got[c] \o hand[c] = <<>>
    BY <2>1, <2>2, ConcatProperties, ConcatEqualIffEmpty DEF Sent
  <2>4. got[c] = <<>>
    BY <2>2, <2>3, ConcatEqualIffEmpty
  <2>5. Sent(c)' = <<>> \o <<>> \o <<>>
    BY <1>1, <2>4 DEF Sent
  <2>6. QED BY <2>1, <2>5, EmptyQueue, ConcatEmptySeq
<1>3. RecordTypes' /\ HandOK' /\ FanoutIsLast'
  BY <1>1 DEF LogInv, RecordTypes, HandOK, FanoutIsLast
<1>4. JoinedOK'
  BY <1>1, <1>2 DEF LogInv, JoinedOK, Attached
<1>5. ASSUME NEW c \in Clients, writer'[c] # "done" PROVE HoldsItsRun(c)'
  <2>1. pc[c] = "new"
    BY <1>1, <1>5
  <2>2. Sent(c)' = Sent(c) /\ HoldsItsRun(c)
    BY <1>2, <2>1 DEF LogInv, QueuesHoldTheLog
  <2>3. c \notin tables'[TableOf[c]]
    BY <1>1, HubAssumption
  <2>4. QED BY <1>1, <2>2, <2>3, RunFrame
<1>6. QED BY <1>3, <1>4, <1>5 DEF LogInv, QueuesHoldTheLog

LEMMA RegisterStep ==
  ASSUME HubInv, LogInv, NEW c \in Clients, RecordRegister(c)
  PROVE  LogInv' /\ Feed!Join(c)
<1>1. /\ hubPc = "select" /\ pc[c] = "registering" /\ hubPc' = "addUser"
      /\ pc' = [pc EXCEPT ![c] = "registered"]
      /\ tables' = [tables EXCEPT ![TableOf[c]] = @ \cup {c}]
      /\ joined' = joined \cup {c}
      /\ start' = [start EXCEPT ![c] = Len(log[TableOf[c]])]
      /\ UNCHANGED <<log, got, sendq, hand, writer, hubEvent, todo>>
  BY DEF RecordRegister, HubRegister, sendVars, writerVars
<1>2. c \notin joined /\ writer[c] = "off" /\ Sent(c) = <<>>
  BY <1>1 DEF LogInv, JoinedOK
<1>3. Feed!Join(c)
  BY <1>1, <1>2 DEF Feed!Join
<1>4. /\ log[TableOf[c]] \in Seq(Events) /\ Len(log[TableOf[c]]) \in Nat
      /\ start \in [Clients -> Nat]
  BY QueueTypes DEF LogInv, RecordTypes
<1>5. RecordTypes' /\ HandOK' /\ FanoutIsLast'
  BY <1>1, <1>4 DEF LogInv, RecordTypes, HandOK, FanoutIsLast
<1>6. ASSUME NEW d \in Clients PROVE Sent(d)' = Sent(d) /\ Undelivered(d)' = Undelivered(d)
  BY <1>1 DEF Sent, Undelivered
<1>7. JoinedOK'
  BY <1>1, <1>2, <1>6, PcType DEF LogInv, JoinedOK, Attached
<1>8. HoldsItsRun(c)'
  <2>1. start'[c] = Len(log[TableOf[c]])
    BY <1>1, <1>4
  <2>2. Sent(c)' = <<>> /\ Undelivered(c)' = 0
    BY <1>1, <1>2, <1>6 DEF Undelivered
  <2>3. Len(Sent(c)') = 0
    BY <2>2
  <2>4. QED BY <1>1, <1>4, <2>1, <2>2, <2>3 DEF HoldsItsRun
<1>9. ASSUME NEW d \in Clients, d # c, HoldsItsRun(d) PROVE HoldsItsRun(d)'
  <2>1. start'[d] = start[d]
    BY <1>1, <1>4, <1>9
  <2>2. d \in tables'[TableOf[d]] => d \in tables[TableOf[d]]
    BY <1>1, <1>9, HubAssumption DEF HubInv, TypeInv, TypeOK, HubTypes
  <2>3. QED BY <1>1, <1>6, <1>9, <2>1, <2>2, RunFrame
<1>10. QueuesHoldTheLog'
  BY <1>1, <1>8, <1>9 DEF LogInv, QueuesHoldTheLog
<1>11. QED BY <1>3, <1>5, <1>7, <1>10 DEF LogInv

LEMMA ReceiveStep ==
  ASSUME HubInv, LogInv, RecordReceive
  PROVE  LogInv' /\ \E t \in Tables, e \in Events : Feed!Publish(t, e)
<1> DEFINE e == Head(broadcast)
<1>1. /\ hubPc = "select"
      /\ log' = [log EXCEPT ![e.table] = Append(@, e)]
      /\ \/ Recipients(e) = {} /\ UNCHANGED hubVars
         \/ hubPc' = "fanout" /\ hubEvent' = e /\ todo' = Recipients(e)
      /\ UNCHANGED <<joined, start, got, pc, writer, hand, sendq, tables, tableKeys>>
  BY DEF RecordReceive, HubReceive, clientVars, sendVars, writerVars, mapVars
<1>2. e \in Events /\ e.table \in Tables
  <2>1. broadcast \in Seq(Events) /\ broadcast # <<>>
    BY DEF RecordReceive, HubReceive, HubInv, TypeInv, TypeOK, HubTypes
  <2>2. e \in Events
    BY <2>1, HeadTailProperties
  <2>3. QED BY <2>2 DEF Events
<1> HIDE DEF e
<1>3. Feed!Publish(e.table, e)
  BY <1>1 DEF Feed!Publish
<1>4. log \in [Tables -> Seq(Events)]
  BY DEF LogInv, RecordTypes
<1>5. /\ log'[e.table] = Append(log[e.table], e)
      /\ \A t \in Tables : t # e.table => log'[t] = log[t]
      /\ log' \in [Tables -> Seq(Events)]
  BY <1>1, <1>2, <1>4, AppendProperties
<1>6. /\ Len(log[e.table]) \in Nat
      /\ Len(log'[e.table]) = Len(log[e.table]) + 1
      /\ \A i \in 1..Len(log[e.table]) : log'[e.table][i] = log[e.table][i]
      /\ log'[e.table][Len(log[e.table]) + 1] = e
  BY <1>2, <1>4, <1>5, AppendProperties
<1>7. RecordTypes' /\ HandOK'
  BY <1>1, <1>5 DEF LogInv, RecordTypes, HandOK
<1>8. FanoutIsLast'
  BY <1>1, <1>6 DEF FanoutIsLast, hubVars
<1>9. ASSUME NEW c \in Clients PROVE Sent(c)' = Sent(c)
  BY <1>1 DEF Sent
<1>10. JoinedOK'
  BY <1>1, <1>9 DEF LogInv, JoinedOK, Attached
<1>11. ASSUME NEW c \in Clients, HoldsItsRun(c) PROVE HoldsItsRun(c)'
  <2>1. /\ Sent(c) \in Seq(Events) /\ Len(Sent(c)) \in Nat /\ start[c] \in Nat
        /\ TableOf[c] \in Tables /\ Len(log[TableOf[c]]) \in Nat
    BY QueueTypes DEF LogInv
  <2>2. \A i \in 1..Len(Sent(c)) : start[c] + i \in 1..Len(log[TableOf[c]])
    BY <1>11, <2>1 DEF HoldsItsRun
  <2>3. CASE TableOf[c] = e.table
    <3>1. /\ start[c] + Len(Sent(c)) <= Len(log'[TableOf[c]])
          /\ \A i \in 1..Len(Sent(c)) : Sent(c)[i] = log'[TableOf[c]][start[c] + i]
      <4>1. start[c] + Len(Sent(c)) <= Len(log[TableOf[c]])
        BY <1>11 DEF HoldsItsRun
      <4>2. \A i \in 1..Len(Sent(c)) : Sent(c)[i] = log[TableOf[c]][start[c] + i]
        BY <1>11 DEF HoldsItsRun
      <4>3. start[c] + Len(Sent(c)) <= Len(log'[TableOf[c]])
        BY <1>6, <2>1, <2>3, <4>1
      <4>4. QED BY <1>6, <2>2, <2>3, <4>2, <4>3
    <3>2. ASSUME c \in tables[TableOf[c]]
          PROVE  start[c] + Len(Sent(c)) + Undelivered(c)' = Len(log'[TableOf[c]])
      <4>1. Undelivered(c) = 0
        BY <1>1 DEF Undelivered
      <4>2. c \in Recipients(e)
        BY <1>2, <2>3, <3>2 DEF Recipients, HubInv, ChannelInv, MembersOK
      <4>3. Undelivered(c)' = 1
        BY <1>1, <4>2 DEF Undelivered
      <4>4. QED BY <1>6, <1>11, <2>1, <2>3, <3>2, <4>1, <4>3 DEF HoldsItsRun
    <3>3. QED BY <1>1, <1>9, <3>1, <3>2 DEF HoldsItsRun
  <2>4. CASE TableOf[c] # e.table
    <3>1. log'[TableOf[c]] = log[TableOf[c]]
      BY <1>5, <2>1, <2>4
    <3>2. c \notin Recipients(e)
      BY <1>2, <2>4 DEF Recipients, HubInv, ChannelInv, MembersOK
    <3>3. Undelivered(c)' = 0 /\ Undelivered(c) = 0
      BY <1>1, <3>2 DEF Undelivered, hubVars
    <3>4. QED BY <1>1, <1>9, <1>11, <3>1, <3>3 DEF HoldsItsRun
  <2>5. QED BY <2>3, <2>4
<1>12. QueuesHoldTheLog'
  BY <1>1, <1>11 DEF LogInv, QueuesHoldTheLog
<1>13. QED BY <1>2, <1>3, <1>7, <1>8, <1>10, <1>12 DEF LogInv

LEMMA WriteStep ==
  ASSUME HubInv, LogInv, NEW c \in Clients, RecordWrite(c)
  PROVE  LogInv' /\ Feed!Receive(c)
<1>1. /\ writer[c] = "running" /\ hand[c] # <<>>
      /\ hand' = [hand EXCEPT ![c] = <<>>]
      /\ got' = [got EXCEPT ![c] = @ \o hand[c]]
      /\ UNCHANGED <<log, joined, start, pc, writer, sendq, tables, hubPc, hubEvent, todo>>
  BY DEF RecordWrite, WriteOk, clientVars, sendVars, mapVars, hubVars
<1>2. /\ hand \in [Clients -> Seq(Events)] /\ got \in [Clients -> Seq(Events)]
  BY DEF HubInv, TypeInv, TypeOK, ClientTypes, LogInv, RecordTypes
<1>3. PICK e \in Events : hand[c] = <<e>>
  BY <1>1 DEF LogInv, HandOK
<1>4. c \in joined /\ HoldsItsRun(c)
  BY <1>1 DEF LogInv, JoinedOK, QueuesHoldTheLog
<1>5. /\ got[c] \in Seq(Events) /\ hand[c] \in Seq(Events) /\ sendq[c] \in Seq(Events)
      /\ Len(got[c]) \in Nat /\ Len(sendq[c]) \in Nat /\ start[c] \in Nat
      /\ Len(log[TableOf[c]]) \in Nat
  BY QueueTypes, LenProperties DEF LogInv
<1>6. got[c] \o hand[c] = Append(got[c], e)
  BY <1>3, <1>5, AppendIsConcat
<1>7. Append(got[c], e) \in Seq(Events)
  BY <1>5, AppendProperties
<1>8. /\ Len(Sent(c)) = Len(got[c]) + 1 + Len(sendq[c])
      /\ Sent(c)[Len(got[c]) + 1] = e
  <2>1. Len(Append(got[c], e)) = Len(got[c]) + 1 /\ Append(got[c], e)[Len(got[c]) + 1] = e
    BY <1>5, AppendProperties
  <2>2. Sent(c) = Append(got[c], e) \o sendq[c]
    BY <1>6 DEF Sent
  <2>3. QED BY <1>5, <1>7, <2>1, <2>2, ConcatProperties
<1>9. Feed!Receive(c)
  <2>1. /\ start[c] + Len(got[c]) < Len(log[TableOf[c]])
        /\ log[TableOf[c]][start[c] + (Len(got[c]) + 1)] = e
    <3>1. /\ start[c] + Len(Sent(c)) <= Len(log[TableOf[c]])
          /\ \A i \in 1..Len(Sent(c)) : Sent(c)[i] = log[TableOf[c]][start[c] + i]
      BY <1>4 DEF HoldsItsRun
    <3> DEFINE g == Len(got[c])
               s == Len(Sent(c))
               q == Len(sendq[c])
               k == start[c]
               l == Len(log[TableOf[c]])
    <3>2. g \in Nat /\ q \in Nat /\ k \in Nat /\ l \in Nat /\ s = g + 1 + q /\ k + s <= l
      BY <1>5, <1>8, <3>1
    <3> HIDE DEF g, s, q, k, l
    <3>3. g + 1 \in 1..s /\ k + g < l
      BY <3>2
    <3>4. QED BY <1>8, <3>1, <3>3 DEF g, s, k, l
  <2>2. start[c] + Len(got[c]) + 1 = start[c] + (Len(got[c]) + 1)
    BY <1>5
  <2>3. got' = [got EXCEPT ![c] = Append(@, log[TableOf[c]][start[c] + Len(@) + 1])]
    BY <1>1, <1>2, <1>6, <2>1, <2>2
  <2>4. QED BY <1>1, <1>4, <2>1, <2>3 DEF Feed!Receive
<1>10. ASSUME NEW d \in Clients PROVE Sent(d)' = Sent(d) /\ Undelivered(d)' = Undelivered(d)
  <2>1. CASE d = c
    <3>1. Sent(c)' = (got[c] \o hand[c]) \o <<>> \o sendq[c]
      BY <1>1, <1>2 DEF Sent
    <3>2. QED BY <1>1, <1>5, <2>1, <3>1, SentMoves DEF Sent, Undelivered
  <2>2. CASE d # c
    BY <1>1, <1>2, <2>2 DEF Sent, Undelivered
  <2>3. QED BY <2>1, <2>2
<1>11. RecordTypes' /\ HandOK' /\ FanoutIsLast'
  BY <1>1, <1>2, <1>6, <1>7 DEF LogInv, RecordTypes, HandOK, FanoutIsLast
<1>12. JoinedOK'
  BY <1>1, <1>10 DEF LogInv, JoinedOK, Attached
<1>13. QueuesHoldTheLog'
  BY <1>1, <1>10, RunFrame DEF LogInv, QueuesHoldTheLog
<1>14. QED BY <1>9, <1>11, <1>12, <1>13 DEF LogInv

-----------------------------------------------------------------------------
\* Every recorded step keeps the invariant and is a step of TableFeed or
\* leaves the record alone.
LEMMA LogInvNext ==
  ASSUME HubInv, LogInv, [RecordNext]_allVars
  PROVE  LogInv' /\ [Feed!FeedNext]_recordVars
<1>1. ASSUME NEW c \in Clients, RecordRegister(c) PROVE LogInv' /\ Feed!FeedNext
  BY <1>1, RegisterStep DEF Feed!FeedNext
<1>2. ASSUME NEW c \in Clients, RecordWrite(c) PROVE LogInv' /\ Feed!FeedNext
  BY <1>2, WriteStep DEF Feed!FeedNext
<1>3. CASE RecordReceive
  BY <1>3, ReceiveStep DEF Feed!FeedNext
<1>4. ASSUME Unrecorded, UNCHANGED recordVars PROVE LogInv'
  <2>1. CASE Restart
    BY <1>4, <2>1, RestartStep
  <2>2. CASE \E c \in Clients : \/ WriterTake(c) \/ WriteFails(c) \/ WriterSeesClose(c)
                                \/ FanoutSend(c) \/ FanoutDrop(c) \/ HubUnregister(c)
    BY <1>4, <2>2, TakeStep, StopStep, SendStep, DropStep, UnregisterStep
  <2>3. QED BY <1>4, <2>1, <2>2, QuietStep
<1>5. CASE UNCHANGED allVars
  BY <1>5, PcType, LogInvFrame DEF allVars, vars, Attached
<1>6. QED BY <1>1, <1>2, <1>3, <1>4, <1>5 DEF RecordNext, allVars

LEMMA LogInvInit == RecordInit => LogInv /\ Feed!FeedInit
<1> SUFFICES ASSUME RecordInit PROVE LogInv /\ Feed!FeedInit
  OBVIOUS
<1> USE DEF RecordInit, Init
<1>1. RecordTypes /\ HandOK /\ FanoutIsLast
  BY EmptyQueue DEF RecordTypes, HandOK, FanoutIsLast
<1>2. ASSUME NEW c \in Clients PROVE Sent(c) = <<>>
  BY EmptyQueue, ConcatEmptySeq DEF Sent
<1>3. JoinedOK
  BY <1>2 DEF JoinedOK, Attached
<1>4. QueuesHoldTheLog
  <2>1. ASSUME NEW c \in Clients PROVE HoldsItsRun(c)
    <3>1. Sent(c) = <<>> /\ TableOf[c] \in Tables
      BY <1>2, HubAssumption
    <3>2. Len(Sent(c)) = 0 /\ start[c] = 0 /\ log[TableOf[c]] = <<>> /\ tables[TableOf[c]] = {}
      BY <3>1
    <3>3. Len(log[TableOf[c]]) = 0
      BY <3>2
    <3>4. ~(c \in tables[TableOf[c]])
      BY <3>2
    <3>5. start[c] + Len(Sent(c)) <= Len(log[TableOf[c]]) /\ 1..Len(Sent(c)) = {}
      BY <3>2, <3>3
    <3>6. QED BY <3>4, <3>5 DEF HoldsItsRun
  <2>2. QED BY <2>1 DEF QueuesHoldTheLog
<1>5. Feed!FeedInit
  BY DEF Feed!FeedInit
<1>6. QED BY <1>1, <1>3, <1>4, <1>5 DEF LogInv

\* Between the log and a connection nothing is lost, doubled or reordered: what
\* a client has been sent and what waits for it is a run of its table's log.
THEOREM QueuesCorrect == RecordSpec => []QueuesHoldTheLog
<1>1. RecordInit => LogInv
  BY LogInvInit
<1>2. HubInv /\ LogInv /\ [RecordNext]_allVars => LogInv'
  BY LogInvNext
<1>3. LogInv => QueuesHoldTheLog
  BY DEF LogInv
<1>4. QED BY <1>1, <1>2, <1>3, RecordedHub, PTL DEF RecordSpec

\* The hub, with its channels, goroutines, slow clients and restarts, does what
\* TableFeed promises.
THEOREM HubImplementsFeed == RecordSpec => FeedImplemented
<1>1. RecordInit => LogInv /\ Feed!FeedInit
  BY LogInvInit
<1>2. HubInv /\ LogInv /\ [RecordNext]_allVars => LogInv' /\ [Feed!FeedNext]_recordVars
  BY LogInvNext
<1>3. recordVars = Feed!feedVars
  BY DEF recordVars, Feed!feedVars
<1>4. HubInv /\ LogInv /\ [RecordNext]_allVars => LogInv' /\ [Feed!FeedNext]_Feed!feedVars
  BY <1>2, <1>3 DEF recordVars, Feed!feedVars
<1>5. QED BY <1>1, <1>4, RecordedHub, PTL DEF RecordSpec, FeedImplemented, Feed!FeedSpec

-----------------------------------------------------------------------------
(***************************************************************************)
(* What follows from TableFeed.                                            *)
(***************************************************************************)
\* Each client has received one gapless run of its table's sequence.
RunOf(c) ==
  /\ start[c] + Len(got[c]) <= Len(log[TableOf[c]])
  /\ \A i \in 1..Len(got[c]) : got[c][i] = log[TableOf[c]][start[c] + i]

RunsInv ==
  \A c \in Clients : RunOf(c) /\ (c \notin joined => got[c] = <<>>)

FeedInv == Feed!FeedTypeOK /\ RunsInv

LEMMA EmptyFeed == <<>> \in Seq(Events) /\ Len(<<>>) = 0
OBVIOUS

LEMMA FeedInvInit == Feed!FeedInit => FeedInv
BY EmptyFeed, HubAssumption DEF Feed!FeedInit, FeedInv, Feed!FeedTypeOK, RunsInv, RunOf

LEMMA JoinInv ==
  ASSUME FeedInv, NEW c \in Clients, Feed!Join(c)
  PROVE  FeedInv'
<1> USE HubAssumption DEF FeedInv, Feed!FeedTypeOK, Feed!Join
<1>1. Feed!FeedTypeOK'
  OBVIOUS
<1>2. ASSUME NEW d \in Clients PROVE RunOf(d)' /\ (d \notin joined' => got'[d] = <<>>)
  <2>1. CASE d = c
    BY <2>1 DEF RunsInv, RunOf
  <2>2. CASE d # c
    BY <2>2 DEF RunsInv, RunOf
  <2>3. QED BY <2>1, <2>2
<1>3. QED BY <1>1, <1>2 DEF RunsInv

LEMMA PublishInv ==
  ASSUME FeedInv,
         NEW t \in Tables, NEW e \in Events, Feed!Publish(t, e)
  PROVE  FeedInv'
<1> USE HubAssumption DEF FeedInv, Feed!FeedTypeOK, Feed!Publish
<1>1. Feed!FeedTypeOK'
  OBVIOUS
<1>2. ASSUME NEW d \in Clients PROVE RunOf(d)'
  <2>1. log[TableOf[d]] \in Seq(Events) /\ got[d] \in Seq(Events) /\ start[d] \in Nat
    OBVIOUS
  <2>2. /\ Len(log'[TableOf[d]]) >= Len(log[TableOf[d]])
        /\ \A i \in 1..Len(log[TableOf[d]]) : log'[TableOf[d]][i] = log[TableOf[d]][i]
    BY <2>1
  <2>3. \A i \in 1..Len(got[d]) : start[d] + i \in 1..Len(log[TableOf[d]])
    BY <2>1 DEF RunsInv, RunOf
  <2>4. Len(log'[TableOf[d]]) \in Nat /\ Len(log[TableOf[d]]) \in Nat /\ Len(got[d]) \in Nat
    BY <1>1, <2>1
  <2>5. QED BY <2>1, <2>2, <2>3, <2>4 DEF RunsInv, RunOf
<1>3. QED BY <1>1, <1>2 DEF RunsInv

LEMMA ReceiveInv ==
  ASSUME FeedInv, NEW c \in Clients, Feed!Receive(c)
  PROVE  FeedInv'
<1> USE HubAssumption DEF FeedInv, Feed!FeedTypeOK, Feed!Receive
<1> DEFINE e == log[TableOf[c]][start[c] + Len(got[c]) + 1]
<1>1. /\ log[TableOf[c]] \in Seq(Events) /\ got[c] \in Seq(Events) /\ start[c] \in Nat
      /\ e \in Events
  <2>1. log[TableOf[c]] \in Seq(Events) /\ got[c] \in Seq(Events) /\ start[c] \in Nat
    OBVIOUS
  <2>2. start[c] + Len(got[c]) + 1 \in 1..Len(log[TableOf[c]])
    BY <2>1
  <2>3. QED BY <2>1, <2>2
<1>2. Feed!FeedTypeOK'
  BY <1>1
<1>3. ASSUME NEW d \in Clients PROVE RunOf(d)' /\ (d \notin joined' => got'[d] = <<>>)
  <2>1. CASE d # c
    BY <2>1 DEF RunsInv, RunOf
  <2>2. CASE d = c
    <3>1. got'[c] = Append(got[c], e)
      OBVIOUS
    <3>2. /\ Len(got'[c]) = Len(got[c]) + 1
          /\ \A i \in 1..Len(got[c]) : got'[c][i] = got[c][i]
          /\ got'[c][Len(got[c]) + 1] = e
      BY <1>1, <3>1
    <3>3. \A i \in 1..Len(got'[c]) : got'[c][i] = log[TableOf[c]][start[c] + i]
      <4>1. TAKE i \in 1..Len(got'[c])
      <4>2. CASE i \in 1..Len(got[c])
        BY <3>2, <4>2 DEF RunsInv, RunOf
      <4>3. CASE i = Len(got[c]) + 1
        BY <1>1, <3>2, <4>3
      <4>4. QED BY <1>1, <3>2, <4>2, <4>3
    <3>4. start[c] + Len(got'[c]) <= Len(log[TableOf[c]])
      BY <1>1, <3>2
    <3>5. QED BY <2>2, <3>3, <3>4 DEF RunOf
  <2>3. QED BY <2>1, <2>2
<1>4. QED BY <1>2, <1>3 DEF RunsInv

LEMMA FeedInvNext ==
  FeedInv /\ [Feed!FeedNext]_Feed!feedVars => FeedInv'
<1> SUFFICES ASSUME FeedInv, [Feed!FeedNext]_Feed!feedVars
             PROVE  FeedInv'
  OBVIOUS
<1>1. CASE UNCHANGED Feed!feedVars
  BY <1>1 DEF Feed!feedVars, FeedInv, Feed!FeedTypeOK, RunsInv, RunOf
<1>2. QED BY <1>1, JoinInv, PublishInv, ReceiveInv DEF Feed!FeedNext

\* Two clients of one table have both received runs of one and the same
\* sequence, so where their runs overlap they are the same.
LEMMA RunsAgree == ASSUME FeedInv PROVE Feed!PeersAgree
<1> SUFFICES ASSUME NEW c \in Clients, NEW d \in Clients, TableOf[c] = TableOf[d],
                    NEW i \in 1..Len(got[c]), NEW j \in 1..Len(got[d]),
                    start[c] + i = start[d] + j
             PROVE  got[c][i] = got[d][j]
  BY DEF Feed!PeersAgree
<1>1. got[c][i] = log[TableOf[c]][start[c] + i]
  BY DEF FeedInv, RunsInv, RunOf
<1>2. got[d][j] = log[TableOf[d]][start[d] + j]
  BY DEF FeedInv, RunsInv, RunOf
<1>3. QED BY <1>1, <1>2

\* Whoever joins when, and wherever each of them stops receiving, two peers of
\* a table have seen the same event at every place of its sequence that both
\* have seen: what Hub.Run's order of fanouts is worth to its clients.
THEOREM FeedsAgree == Feed!FeedSpec => []Feed!PeersAgree
<1>1. Feed!FeedInit => FeedInv
  BY FeedInvInit
<1>2. FeedInv /\ [Feed!FeedNext]_Feed!feedVars => FeedInv'
  BY FeedInvNext
<1>3. FeedInv => Feed!PeersAgree
  BY RunsAgree
<1>4. QED BY <1>1, <1>2, <1>3, PTL DEF Feed!FeedSpec

\* So two peers of a table never see its events in different orders, nor one of
\* them an event between two that the other saw next to each other.
THEOREM PeersSeeTheSame == RecordSpec => []Feed!PeersAgree
BY HubImplementsFeed, FeedsAgree, PTL DEF FeedImplemented

-----------------------------------------------------------------------------
(***************************************************************************)
(* Who is there, from the announcements.                                   *)
(***************************************************************************)
Announces(e, tag, t, u) ==
  e.type = "system" /\ e.event = tag /\ e.table = t /\ e.user = u

LEMMA PlacesFinite ==
  ASSUME NEW q \in Seq(Events), NEW tag, NEW t, NEW u
  PROVE  IsFiniteSet(Places(q, tag, t, u)) /\ Cardinality(Places(q, tag, t, u)) \in Nat
<1>1. Places(q, tag, t, u) \subseteq 1..Len(q) /\ Len(q) \in Nat
  BY DEF Places
<1>2. IsFiniteSet(1..Len(q))
  BY <1>1, FS_Interval
<1>3. IsFiniteSet(Places(q, tag, t, u))
  BY <1>1, <1>2, FS_Subset
<1>4. QED BY <1>3, FS_CardinalityType

\* One more event is one more place if it announces the user.
LEMMA PlacesAppend ==
  ASSUME NEW q \in Seq(Events), NEW e \in Events, NEW tag, NEW t, NEW u
  PROVE  Cardinality(Places(Append(q, e), tag, t, u))
           = Cardinality(Places(q, tag, t, u)) + (IF Announces(e, tag, t, u) THEN 1 ELSE 0)
<1> DEFINE n == Len(q) + 1
           S == Places(q, tag, t, u)
<1>1. /\ Len(Append(q, e)) = n /\ Append(q, e)[n] = e /\ Len(q) \in Nat
      /\ \A i \in 1..Len(q) : Append(q, e)[i] = q[i]
  BY AppendProperties
<1>2. n \notin S
  BY <1>1 DEF Places
<1>3. Places(Append(q, e), tag, t, u) = IF Announces(e, tag, t, u) THEN S \cup {n} ELSE S
  <2>1. 1..n = 1..Len(q) \cup {n} /\ n \notin 1..Len(q)
    BY <1>1
  <2>2. ASSUME NEW i PROVE i \in Places(Append(q, e), tag, t, u) <=>
                             i \in S \/ (i = n /\ Announces(e, tag, t, u))
    BY <1>1, <2>1 DEF Places, Announces
  <2>3. QED BY <2>2
<1>4. IsFiniteSet(S) /\ Cardinality(S) \in Nat
  BY PlacesFinite
<1> HIDE DEF n, S
<1>5. Cardinality(S \cup {n}) = Cardinality(S) + 1
  BY <1>2, <1>4, FS_AddElement
<1>6. QED BY <1>3, <1>4, <1>5 DEF S

\* Taking the first one away takes its place away and moves the others down.
LEMMA PlacesTail ==
  ASSUME NEW q \in Seq(Events), q # <<>>, NEW tag, NEW t, NEW u
  PROVE  Cardinality(Places(q, tag, t, u))
           = Cardinality(Places(Tail(q), tag, t, u))
               + (IF Announces(Head(q), tag, t, u) THEN 1 ELSE 0)
<1> DEFINE S == Places(Tail(q), tag, t, u)
           T == Places(q, tag, t, u)
           shift == [i \in S |-> i + 1]
<1>1. /\ Len(q) \in Nat /\ Len(q) > 0 /\ Len(Tail(q)) = Len(q) - 1
      /\ \A i \in 1..Len(Tail(q)) : Tail(q)[i] = q[i + 1]
      /\ Head(q) = q[1] /\ Tail(q) \in Seq(Events)
  BY HeadTailProperties
<1>2. /\ IsFiniteSet(S) /\ Cardinality(S) \in Nat
      /\ IsFiniteSet(T) /\ Cardinality(T) \in Nat
  BY <1>1, PlacesFinite
<1>3. ExistsBijection(S, T \ {1})
  <2>1. ASSUME NEW i \in S PROVE i + 1 \in T \ {1}
    <3>1. i \in 1..Len(Tail(q)) /\ i \in Nat
      BY DEF Places
    <3>2. i + 1 \in 1..Len(q) /\ i + 1 # 1 /\ Tail(q)[i] = q[i + 1]
      BY <1>1, <3>1
    <3>3. QED BY <3>2 DEF Places
  <2>2. ASSUME NEW j \in T \ {1} PROVE j - 1 \in S /\ (j - 1) + 1 = j
    <3>1. j \in 1..Len(q) /\ j # 1
      BY DEF Places
    <3>2. j - 1 \in 1..Len(Tail(q)) /\ (j - 1) + 1 = j
      BY <1>1, <3>1
    <3>3. Tail(q)[j - 1] = q[j]
      BY <1>1, <3>2
    <3>4. QED BY <3>2, <3>3 DEF Places
  <2>3. shift \in [S -> T \ {1}] /\ \A i \in S : shift[i] = i + 1
    BY <2>1
  <2>4. \A j \in T \ {1} : \E i \in S : shift[i] = j
    BY <2>2, <2>3
  <2>5. \A i, j \in S : shift[i] = shift[j] => i = j
    <3>1. \A i \in S : i \in Nat
      BY DEF Places
    <3> HIDE DEF S, T, shift
    <3>2. QED BY <2>3, <3>1
  <2> HIDE DEF S, T, shift
  <2>6. shift \in Bijection(S, T \ {1})
    BY <2>3, <2>4, <2>5, Fun_IsBij
  <2>7. QED BY <2>6, Fun_ExistsBij
<1>4. Announces(Head(q), tag, t, u) <=> 1 \in T
  BY <1>1 DEF Places, Announces
<1> HIDE DEF S, T, shift
<1>5. Cardinality(T \ {1}) = Cardinality(S)
  BY <1>2, <1>3, FS_Bijection
<1>6. Cardinality(T \ {1}) = IF 1 \in T THEN Cardinality(T) - 1 ELSE Cardinality(T)
  BY <1>2, FS_RemoveElement
<1>7. Cardinality(T) = Cardinality(S) + (IF Announces(Head(q), tag, t, u) THEN 1 ELSE 0)
  BY <1>2, <1>4, <1>5, <1>6
<1>8. QED BY <1>7 DEF S, T

-----------------------------------------------------------------------------
\* The inductive invariant: also, the connections are finitely many.
BalanceInv ==
  restarts = 0 => \A t \in Tables : \A u \in Users : IsFiniteSet(Here(t, u)) /\ Balanced(t, u)

Joining(t, u) == Announcing({"addUser", "announceJoin"}, t, u)
Leaving(t, u) == Announcing({"removeUser", "announceLeave"}, t, u)

LEMMA CountsAreNumbers ==
  ASSUME HubInv, RecordTypes, NEW t \in Tables, NEW u \in Users, IsFiniteSet(Here(t, u))
  PROVE  /\ \A tag : Announced(tag, t, u) \in Nat
         /\ Cardinality(Here(t, u)) \in Nat
         /\ Joining(t, u) \in {0, 1} /\ Leaving(t, u) \in {0, 1}
<1>1. log[t] \in Seq(Events) /\ broadcast \in Seq(Events)
  BY DEF RecordTypes, HubInv, TypeInv, TypeOK, HubTypes
<1>2. \A tag : Announced(tag, t, u) \in Nat
  BY <1>1, PlacesFinite DEF Announced
<1>3. QED BY <1>2, FS_CardinalityType DEF Joining, Leaving, Announcing

\* A step that changes nothing of this keeps the balance.
LEMMA BalanceFrame ==
  ASSUME BalanceInv, restarts' = 0 => restarts = 0,
         UNCHANGED <<log, broadcast, AttachedClients>>,
         \/ UNCHANGED <<hubPc, hubClient>>
         \/ hubPc \in {"select", "fanout"} /\ hubPc' \in {"select", "fanout"}
         \/ hubPc = "addUser" /\ hubPc' = "announceJoin" /\ UNCHANGED hubClient
         \/ hubPc = "removeUser" /\ hubPc' = "announceLeave" /\ UNCHANGED hubClient
  PROVE  BalanceInv'
<1> SUFFICES ASSUME restarts = 0, NEW t \in Tables, NEW u \in Users
             PROVE  IsFiniteSet(Here(t, u)') /\ Balanced(t, u)'
  BY DEF BalanceInv
<1>1. Here(t, u)' = Here(t, u)
  BY DEF Here, AttachedClients
<1>2. \A tag : Announced(tag, t, u)' = Announced(tag, t, u)
  BY DEF Announced
<1>3. Joining(t, u)' = Joining(t, u) /\ Leaving(t, u)' = Leaving(t, u)
  BY DEF Joining, Leaving, Announcing
<1>4. IsFiniteSet(Here(t, u)) /\ Balanced(t, u)
  BY DEF BalanceInv
<1>5. QED BY <1>1, <1>2, <1>3, <1>4 DEF Balanced, Joining, Leaving

\* The hub lets a client in.
LEMMA BalanceRegister ==
  ASSUME HubInv, RecordTypes, BalanceInv, NEW c \in Clients, RecordRegister(c)
  PROVE  BalanceInv'
<1> SUFFICES ASSUME restarts = 0, NEW t \in Tables, NEW u \in Users
             PROVE  IsFiniteSet(Here(t, u)') /\ Balanced(t, u)'
  BY DEF BalanceInv, RecordRegister, HubRegister
<1> DEFINE mine == TableOf[c] = t /\ UserOf[c] = u
<1>1. /\ hubPc = "select" /\ hubPc' = "addUser" /\ hubClient' = c
      /\ pc[c] = "registering" /\ UNCHANGED <<log, broadcast>>
  BY DEF RecordRegister, HubRegister
<1>2. AttachedClients' = AttachedClients \cup {c} /\ c \notin AttachedClients
  BY <1>1, AttachedSteps DEF HubInv, RecordRegister, Next, Registering, AttachedClients, Attached
<1>3. Here(t, u)' = (IF mine THEN Here(t, u) \cup {c} ELSE Here(t, u)) /\ c \notin Here(t, u)
  BY <1>2 DEF Here, AttachedClients
<1>4. /\ Joining(t, u) = 0 /\ Joining(t, u)' = (IF mine THEN 1 ELSE 0)
      /\ Leaving(t, u) = 0 /\ Leaving(t, u)' = 0
  BY <1>1 DEF Joining, Leaving, Announcing
<1>5. \A tag : Announced(tag, t, u)' = Announced(tag, t, u)
  BY <1>1 DEF Announced
<1>6. IsFiniteSet(Here(t, u)) /\ Balanced(t, u)
  BY DEF BalanceInv
<1>7. \A tag : Announced(tag, t, u) \in Nat
  BY <1>6, CountsAreNumbers
<1> HIDE DEF mine
<1>8. /\ Cardinality(Here(t, u)) \in Nat /\ IsFiniteSet(Here(t, u)')
      /\ Cardinality(Here(t, u)') = Cardinality(Here(t, u)) + (IF mine THEN 1 ELSE 0)
  BY <1>3, <1>6, FS_AddElement, FS_CardinalityType
<1>9. QED BY <1>4, <1>5, <1>6, <1>7, <1>8 DEF Balanced, Joining, Leaving

\* The hub lets a client go.
LEMMA BalanceUnregister ==
  ASSUME HubInv, RecordTypes, BalanceInv, NEW c \in Clients, HubUnregister(c),
         UNCHANGED recordVars
  PROVE  BalanceInv'
<1> SUFFICES ASSUME restarts = 0, NEW t \in Tables, NEW u \in Users
             PROVE  IsFiniteSet(Here(t, u)') /\ Balanced(t, u)'
  BY DEF BalanceInv, HubUnregister
<1> DEFINE mine == TableOf[c] = t /\ UserOf[c] = u
<1>1. /\ hubPc = "select" /\ hubPc' = "removeUser" /\ hubClient' = c
      /\ pc[c] = "leaving" /\ UNCHANGED <<log, broadcast>>
  BY DEF HubUnregister, recordVars
<1>2. AttachedClients' = AttachedClients \ {c} /\ c \in AttachedClients
  BY <1>1, AttachedSteps DEF HubInv, Next, Unregistering, AttachedClients, Attached
<1>3. Here(t, u)' = Here(t, u) \ {c} /\ (c \in Here(t, u) <=> mine)
  BY <1>2 DEF Here, AttachedClients
<1>4. /\ Leaving(t, u) = 0 /\ Leaving(t, u)' = (IF mine THEN 1 ELSE 0)
      /\ Joining(t, u) = 0 /\ Joining(t, u)' = 0
  BY <1>1 DEF Joining, Leaving, Announcing
<1>5. \A tag : Announced(tag, t, u)' = Announced(tag, t, u)
  BY <1>1 DEF Announced
<1>6. IsFiniteSet(Here(t, u)) /\ Balanced(t, u)
  BY DEF BalanceInv
<1>7. \A tag : Announced(tag, t, u) \in Nat
  BY <1>6, CountsAreNumbers
<1> HIDE DEF mine
<1>8. /\ Cardinality(Here(t, u)) \in Nat /\ IsFiniteSet(Here(t, u)')
      /\ Cardinality(Here(t, u)') = Cardinality(Here(t, u)) - (IF mine THEN 1 ELSE 0)
  BY <1>3, <1>6, FS_RemoveElement, FS_CardinalityType
<1>9. QED BY <1>4, <1>5, <1>6, <1>7, <1>8 DEF Balanced, Joining, Leaving

\* An event gets into the broadcast channel.
LEMMA AnnouncedNext ==
  ASSUME HubInv, NEW e \in Events, broadcast' = Append(broadcast, e), log' = log,
         RecordTypes, NEW tag, NEW t \in Tables, NEW u
  PROVE  Announced(tag, t, u)'
           = Announced(tag, t, u) + (IF Announces(e, tag, t, u) THEN 1 ELSE 0)
<1>1. broadcast \in Seq(Events) /\ log[t] \in Seq(Events)
  BY DEF HubInv, TypeInv, TypeOK, HubTypes, RecordTypes
<1>2. /\ Cardinality(Places(log[t], tag, t, u)) \in Nat
      /\ Cardinality(Places(broadcast, tag, t, u)) \in Nat
  BY <1>1, PlacesFinite
<1>3. Cardinality(Places(broadcast', tag, t, u))
        = Cardinality(Places(broadcast, tag, t, u)) + (IF Announces(e, tag, t, u) THEN 1 ELSE 0)
  BY <1>1, PlacesAppend
<1>4. QED BY <1>2, <1>3 DEF Announced

\* The hub announces whom it has let in or go.
LEMMA BalanceAnnounce ==
  ASSUME HubInv, RecordTypes, BalanceInv, HubAnnounceJoin \/ HubAnnounceLeave,
         UNCHANGED recordVars
  PROVE  BalanceInv'
<1> SUFFICES ASSUME restarts = 0, NEW t \in Tables, NEW u \in Users
             PROVE  IsFiniteSet(Here(t, u)') /\ Balanced(t, u)'
  BY DEF BalanceInv, HubAnnounceJoin, HubAnnounceLeave, Announce
<1> DEFINE mine == TableOf[hubClient] = t /\ UserOf[hubClient] = u
           tag == IF HubAnnounceJoin THEN ConnectTag ELSE DisconnectTag
           e == SystemEvent(tag, hubClient)
<1>1. /\ broadcast' = Append(broadcast, e) /\ log' = log /\ hubPc' = "select" /\ pc' = pc
      /\ hubPc = IF HubAnnounceJoin THEN "announceJoin" ELSE "announceLeave"
  BY DEF HubAnnounceJoin, HubAnnounceLeave, Announce, EnqueueBroadcast, recordVars, clientVars
<1>2. e \in Events
  BY <1>1, EventTypes DEF HubInv, TypeInv, LocalsOK, ConnectTag, DisconnectTag, SystemTags
<1>3. Here(t, u)' = Here(t, u)
  BY <1>1 DEF Here, Attached
<1>4. \A g : Announces(e, g, t, u) <=> g = tag /\ mine
  BY DEF Announces, SystemEvent
<1>5. /\ Joining(t, u) = (IF HubAnnounceJoin /\ mine THEN 1 ELSE 0) /\ Joining(t, u)' = 0
      /\ Leaving(t, u) = (IF ~HubAnnounceJoin /\ mine THEN 1 ELSE 0) /\ Leaving(t, u)' = 0
  BY <1>1 DEF Joining, Leaving, Announcing
<1>6. IsFiniteSet(Here(t, u)) /\ Balanced(t, u)
  BY DEF BalanceInv
<1>7. \A g : Announced(g, t, u) \in Nat /\ Cardinality(Here(t, u)) \in Nat
  BY <1>6, CountsAreNumbers
<1> HIDE DEF e, mine
<1>8. \A g : Announced(g, t, u)' = Announced(g, t, u) + (IF g = tag /\ mine THEN 1 ELSE 0)
  BY <1>1, <1>2, <1>4, AnnouncedNext
<1>9. ConnectTag # DisconnectTag
  BY DEF ConnectTag, DisconnectTag
<1>10. /\ Announced(ConnectTag, t, u)'
            = Announced(ConnectTag, t, u) + (IF HubAnnounceJoin /\ mine THEN 1 ELSE 0)
       /\ Announced(DisconnectTag, t, u)'
            = Announced(DisconnectTag, t, u) + (IF ~HubAnnounceJoin /\ mine THEN 1 ELSE 0)
  BY <1>8, <1>9
<1>11. Balanced(t, u)'
  BY <1>3, <1>5, <1>6, <1>7, <1>10 DEF Balanced, Joining, Leaving
<1>12. QED BY <1>3, <1>6, <1>11

\* A table event announces nobody.
LEMMA BalanceTableEvent ==
  ASSUME HubInv, RecordTypes, BalanceInv, NEW m \in Messages, SendBroadcast(m),
         UNCHANGED recordVars
  PROVE  BalanceInv'
<1> SUFFICES ASSUME restarts = 0, NEW t \in Tables, NEW u \in Users
             PROVE  IsFiniteSet(Here(t, u)') /\ Balanced(t, u)'
  BY DEF BalanceInv, SendBroadcast
<1> DEFINE e == TableEvent(m)
<1>1. broadcast' = Append(broadcast, e) /\ UNCHANGED <<log, pc, hubPc, hubClient>>
  BY DEF SendBroadcast, EnqueueBroadcast, recordVars, clientVars, hubVars
<1>2. e \in Events /\ \A tag : ~Announces(e, tag, t, u)
  BY EventTypes DEF Announces, TableEvent
<1>3. IsFiniteSet(Here(t, u)) /\ Balanced(t, u)
  BY DEF BalanceInv
<1>4. \A tag : Announced(tag, t, u) \in Nat
  BY <1>3, CountsAreNumbers
<1> HIDE DEF e
<1>5. \A tag : Announced(tag, t, u)' = Announced(tag, t, u)
  BY <1>1, <1>2, <1>4, AnnouncedNext
<1>6. Here(t, u)' = Here(t, u) /\ Joining(t, u)' = Joining(t, u) /\ Leaving(t, u)' = Leaving(t, u)
  BY <1>1 DEF Here, Attached, Joining, Leaving, Announcing
<1>7. QED BY <1>3, <1>5, <1>6 DEF Balanced, Joining, Leaving

\* An announcement moves from the channel to its table's log.
LEMMA BalanceReceive ==
  ASSUME HubInv, RecordTypes, BalanceInv, RecordReceive
  PROVE  BalanceInv'
<1> SUFFICES ASSUME restarts = 0, NEW t \in Tables, NEW u \in Users
             PROVE  IsFiniteSet(Here(t, u)') /\ Balanced(t, u)'
  BY DEF BalanceInv, RecordReceive, HubReceive
<1> DEFINE e == Head(broadcast)
<1>1. /\ broadcast \in Seq(Events) /\ broadcast # <<>> /\ broadcast' = Tail(broadcast)
      /\ log \in [Tables -> Seq(Events)] /\ log' = [log EXCEPT ![e.table] = Append(@, e)]
      /\ hubPc = "select" /\ hubPc' \in {"select", "fanout"} /\ pc' = pc
  BY DEF RecordReceive, HubReceive, HubInv, TypeInv, TypeOK, HubTypes, RecordTypes,
         hubVars, clientVars
<1>2. e \in Events /\ Tail(broadcast) \in Seq(Events)
  BY <1>1, HeadTailProperties
<1> HIDE DEF e
<1>3. ASSUME NEW tag PROVE Announced(tag, t, u)' = Announced(tag, t, u)
  <2> DEFINE one == IF Announces(e, tag, t, u) THEN 1 ELSE 0
             l == Cardinality(Places(log[t], tag, t, u))
             b == Cardinality(Places(Tail(broadcast), tag, t, u))
  <2>1. log[t] \in Seq(Events)
    BY <1>1
  <2>2. l \in Nat /\ b \in Nat
    BY <1>2, <2>1, PlacesFinite
  <2>3. Cardinality(Places(broadcast, tag, t, u)) = b + one
    BY <1>1, PlacesTail DEF e
  <2>4. Cardinality(Places(log'[t], tag, t, u)) = l + one
    <3>1. CASE e.table = t
      <4>1. log'[t] = Append(log[t], e)
        BY <1>1, <3>1
      <4>2. QED BY <1>2, <2>1, <4>1, PlacesAppend
    <3>2. CASE e.table # t
      <4>1. log'[t] = log[t] /\ one = 0
        BY <1>1, <3>2 DEF Announces
      <4>2. QED BY <2>2, <4>1
    <3>3. QED BY <3>1, <3>2
  <2>5. Announced(tag, t, u) = l + (b + one)
    BY <2>3 DEF Announced
  <2>6. Announced(tag, t, u)' = (l + one) + b
    BY <1>1, <2>4 DEF Announced
  <2>7. one \in Nat
    OBVIOUS
  <2> HIDE DEF one, l, b
  <2>8. QED BY <2>2, <2>5, <2>6, <2>7
<1>4. Here(t, u)' = Here(t, u)
  BY <1>1 DEF Here, Attached
<1>5. Joining(t, u)' = Joining(t, u) /\ Leaving(t, u)' = Leaving(t, u)
  BY <1>1 DEF Joining, Leaving, Announcing
<1>6. IsFiniteSet(Here(t, u)) /\ Balanced(t, u)
  BY DEF BalanceInv
<1>7. QED BY <1>3, <1>4, <1>5, <1>6 DEF Balanced, Joining, Leaving

-----------------------------------------------------------------------------
LEMMA AttachedKept ==
  ASSUME HubInv,
         pc' = pc \/ \E c \in Clients : Connect(c) \/ ReaderStep(c)
  PROVE  AttachedClients' = AttachedClients
<1> USE PcType DEF AttachedClients, Attached
<1>1. CASE pc' = pc
  BY <1>1
<1>2. ASSUME NEW c \in Clients, Connect(c) \/ StartPumps(c) \/ ReadFails(c) \/ CloseConn(c)
      PROVE  AttachedClients' = AttachedClients
  <2>1. \A d \in Clients : Attached(d)' <=> Attached(d)
    BY <1>2 DEF Connect, StartPumps, ReadFails, CloseConn
  <2>2. QED BY <2>1
<1>3. QED BY <1>1, <1>2 DEF ReaderStep

LEMMA BalanceNext ==
  ASSUME HubInv, RecordTypes, BalanceInv, [RecordNext]_allVars
  PROVE  BalanceInv'
<1>1. ASSUME NEW c \in Clients, Connect(c) \/ ReaderStep(c), UNCHANGED recordVars
      PROVE  BalanceInv'
  <2>1. UNCHANGED <<hubPc, hubClient, broadcast, restarts>>
    BY <1>1 DEF Connect, ReaderStep, StartPumps, ReadFails, CloseConn, hubVars
  <2>2. QED BY <1>1, <2>1, AttachedKept, BalanceFrame DEF recordVars
<1>2. ASSUME NEW c \in Clients, Lose(c) \/ WriterStep(c), log' = log PROVE BalanceInv'
  <2>1. UNCHANGED <<hubPc, hubClient, broadcast, restarts, pc>>
    BY <1>2 DEF Lose, WriterStep, WriterTake, WriteOk, WriteFails, WriterSeesClose,
                StopWriter, hubVars, clientVars
  <2>2. QED BY <1>2, <2>1, AttachedKept, BalanceFrame
<1>3. ASSUME NEW m \in Messages, ReadMessage(m) \/ ProcessStep(m), UNCHANGED recordVars
      PROVE  BalanceInv'
  <2>1. UNCHANGED <<hubPc, hubClient, broadcast, restarts, pc>>
    BY <1>3 DEF ReadMessage, ProcessStep, ProcessOk, ProcessError, hubVars, clientVars
  <2>2. QED BY <1>3, <2>1, AttachedKept, BalanceFrame DEF recordVars
<1>4. ASSUME HubAddUser \/ HubRemoveUser, UNCHANGED recordVars PROVE BalanceInv'
  <2>1. UNCHANGED <<hubClient, broadcast, restarts, pc>>
    BY <1>4 DEF HubAddUser, HubRemoveUser, clientVars
  <2>2. \/ hubPc = "addUser" /\ hubPc' = "announceJoin"
        \/ hubPc = "removeUser" /\ hubPc' = "announceLeave"
    BY <1>4 DEF HubAddUser, HubRemoveUser
  <2>3. QED BY <1>4, <2>1, <2>2, AttachedKept, BalanceFrame DEF recordVars
<1>5. ASSUME NEW c \in Clients, FanoutSend(c) \/ FanoutDrop(c), UNCHANGED recordVars
      PROVE  BalanceInv'
  <2>1. UNCHANGED <<broadcast, restarts, pc>>
    BY <1>5 DEF FanoutSend, FanoutDrop, clientVars
  <2>2. hubPc = "fanout" /\ hubPc' \in {"select", "fanout"}
    BY <1>5 DEF FanoutSend, FanoutDrop, Visited
  <2>3. QED BY <1>5, <2>1, <2>2, AttachedKept, BalanceFrame DEF recordVars
<1>6. ASSUME Restart PROVE BalanceInv'
  <2>1. restarts \in Nat
    BY HubAssumption DEF HubInv, TypeInv, TypeOK, HubTypes
  <2>2. QED BY <1>6, <2>1 DEF Restart, BalanceInv
<1>7. CASE UNCHANGED allVars
  BY <1>7, AttachedKept, BalanceFrame DEF allVars, vars, recordVars
<1>8. ASSUME NEW c \in Clients, RecordWrite(c) PROVE BalanceInv'
  BY <1>2, <1>8 DEF RecordWrite, WriterStep
<1>9. ASSUME Unrecorded, UNCHANGED recordVars PROVE BalanceInv'
  BY <1>1, <1>2, <1>3, <1>4, <1>5, <1>6, <1>9,
     BalanceUnregister, BalanceAnnounce, BalanceTableEvent
     DEF Unrecorded, WriterStep, HubStep, FanoutStep, Unregistering, recordVars
<1>10. QED
  BY <1>7, <1>8, <1>9, BalanceRegister, BalanceReceive DEF RecordNext

LEMMA BalanceInit == RecordInit => BalanceInv
<1> SUFFICES ASSUME RecordInit, NEW t \in Tables, NEW u \in Users
             PROVE  IsFiniteSet(Here(t, u)) /\ Balanced(t, u)
  BY DEF BalanceInv
<1>1. Here(t, u) = {} /\ log[t] = <<>> /\ broadcast = <<>> /\ hubPc = "select"
  BY DEF RecordInit, Init, Here, Attached
<1>2. \A tag : Places(<<>>, tag, t, u) = {}
  BY DEF Places
<1>3. ASSUME NEW tag PROVE Announced(tag, t, u) = 0
  <2>1. Places(log[t], tag, t, u) = {} /\ Places(broadcast, tag, t, u) = {}
    BY <1>1, <1>2
  <2>2. Cardinality({}) = 0
    BY FS_EmptySet
  <2>3. QED BY <2>1, <2>2 DEF Announced
<1>4. Joining(t, u) = 0 /\ Leaving(t, u) = 0
  BY <1>1 DEF Joining, Leaving, Announcing
<1>5. IsFiniteSet(Here(t, u)) /\ Cardinality(Here(t, u)) = 0
  BY <1>1, FS_EmptySet
<1>6. QED BY <1>3, <1>4, <1>5 DEF Balanced, Joining, Leaving

\* Until a restart a peer who counts the announcements, whenever he looks, knows
\* of every user how many connections the hub has for him at the table.
THEOREM PresenceIsAnnounced == RecordSpec => []PresenceFromAnnouncements
<1>1. RecordInit => LogInv
  BY LogInvInit
<1>2. HubInv /\ LogInv /\ [RecordNext]_allVars => LogInv'
  BY LogInvNext
<1>3. HubInv /\ LogInv /\ BalanceInv /\ [RecordNext]_allVars => BalanceInv'
  BY BalanceNext DEF LogInv
<1>4. BalanceInv => PresenceFromAnnouncements
  BY DEF BalanceInv, PresenceFromAnnouncements
<1>5. QED
  BY <1>1, <1>2, <1>3, <1>4, BalanceInit, RecordedHub, PTL DEF RecordSpec
=============================================================================
