---------------------------- MODULE TabulaProofs ----------------------------
(***************************************************************************)
(* Theorems about Tabula, for every value of its constants: what a player  *)
(* catches up with, and that stores, channel and hub implement RollBook.   *)
(***************************************************************************)
EXTENDS Tabula, TableEventsProofs

\* Whatever the hub and the players do, the events do what TableEvents says.
LEMMA EventsStep == TabulaTypeOK /\ [TabulaNext]_tabulaVars => [Next]_vars
<1> SUFFICES ASSUME TabulaTypeOK, [TabulaNext]_tabulaVars PROVE [Next]_vars
  OBVIOUS
<1>1. ASSUME NEW m \in Messages, SendToHub(m) \/ OnItsWay(m) PROVE Next
  BY <1>1 DEF SendToHub, OnItsWay, Next, Handle
<1>2. CASE Announce
  <2>1. Head(owed) \in Messages
    BY <1>2 DEF Announce, TabulaTypeOK
  <2>2. QED BY <1>2, <2>1 DEF Announce, Next
<1>3. CASE End \/ Tick
  BY <1>3 DEF End, Next, Handle
<1>4. ASSUME NEW p \in Players, Register(p) \/ Unregister(p) \/ LoadFeed(p) \/ LoadFeedFails(p)
      PROVE  UNCHANGED vars
  BY <1>4 DEF Register, Unregister, LoadFeed, LoadFeedFails, Ask
<1>5. CASE Take \/ UNCHANGED tabulaVars
  BY <1>5 DEF Take, tabulaVars
<1>6. QED BY <1>1, <1>2, <1>3, <1>4, <1>5 DEF TabulaNext

\* What a step may do to the channel and to what the tables are told.
Put(m) ==
  /\ broadcast' = Append(broadcast, Event(m)) /\ log' = log
  /\ stage[m] \in {"sending", "unsent"} /\ stage'[m] = "done"
  /\ stage[m] = "unsent" => KindOf[m] = "system"

LEMMA HubSteps ==
  ASSUME TypeOK, TabulaTypeOK, [TabulaNext]_tabulaVars
  PROVE  \/ \E m \in Messages : Put(m)
         \/ Take
         \/ broadcast' = <<>> /\ log' = log
         \/ UNCHANGED <<broadcast, log>>
<1>1. ASSUME NEW m \in Messages, SendToHub(m) PROVE Put(m)
  BY <1>1 DEF SendToHub, Send, Broadcast, Put, Goto, TypeOK
<1>2. CASE Announce
  <2>1. Head(owed) \in Messages
    BY <1>2 DEF Announce, TabulaTypeOK
  <2>2. Put(Head(owed))
    BY <1>2, <2>1 DEF Announce, HandleSystemEvent, Broadcast, Put, Goto, TypeOK
  <2>3. QED BY <2>1, <2>2
<1>3. CASE End
  BY <1>3 DEF End
<1>4. ASSUME NEW p \in Players, Register(p) \/ Unregister(p) \/ LoadFeed(p) \/ LoadFeedFails(p)
      PROVE  UNCHANGED <<broadcast, log>>
  BY <1>4 DEF Register, Unregister, LoadFeed, LoadFeedFails, Ask, hubVars
<1>5. QED
  BY <1>1, <1>2, <1>3, <1>4 DEF TabulaNext, tabulaVars, hubVars

-----------------------------------------------------------------------------
LEMMA TabulaTypeOKInit == TabulaInit => TabulaTypeOK
<1>1. <<>> \in Seq(Events) /\ <<>> \in Seq(Messages) /\ Len(<<>>) <= 1
  OBVIOUS
<1>2. QED BY <1>1 DEF TabulaInit, TabulaTypeOK

LEMMA TabulaTypeOKNext ==
  TypeOK /\ TabulaTypeOK /\ [TabulaNext]_tabulaVars => TabulaTypeOK'
<1> SUFFICES ASSUME TypeOK, TabulaTypeOK, [TabulaNext]_tabulaVars PROVE TabulaTypeOK'
  OBVIOUS
<1> USE EventsAssumption, TabulaAssumption
<1>1. broadcast' \in Seq(Events) /\ log' \in [Tables -> Seq(Events)]
  <2>1. ASSUME NEW m \in Messages, Put(m)
        PROVE  broadcast' \in Seq(Events) /\ log' \in [Tables -> Seq(Events)]
    <3>1. Event(m) \in Events
      BY BuiltTypes
    <3>2. QED BY <2>1, <3>1 DEF Put, TabulaTypeOK
  <2>2. CASE Take
    <3>1. Head(broadcast) \in Events /\ broadcast' \in Seq(Events)
      BY <2>2 DEF Take, TabulaTypeOK
    <3>2. TableOf[Head(broadcast).msg] \in Tables
      BY <3>1 DEF Events
    <3>3. QED BY <2>2, <3>1, <3>2 DEF Take, TabulaTypeOK
  <2>3. <<>> \in Seq(Events)
    OBVIOUS
  <2>4. QED BY <2>1, <2>2, <2>3, HubSteps DEF TabulaTypeOK
<1>2. owed' \in Seq(Messages) /\ Len(owed') <= 1
  <2>1. ASSUME NEW p \in Players, Register(p) \/ Unregister(p)
        PROVE  owed' \in Seq(Messages) /\ Len(owed') <= 1
    <3>1. JoinEvent[p] \in Messages /\ LeaveEvent[p] \in Messages
      OBVIOUS
    <3>2. \A m \in Messages : <<m>> \in Seq(Messages) /\ Len(<<m>>) <= 1
      OBVIOUS
    <3>3. QED BY <2>1, <3>1, <3>2 DEF Register, Unregister
  <2>2. CASE Announce \/ End
    <3>1. <<>> \in Seq(Messages) /\ Len(<<>>) <= 1
      OBVIOUS
    <3>2. QED BY <2>2, <3>1 DEF Announce, End
  <2>3. ASSUME NEW p \in Players, LoadFeed(p) \/ LoadFeedFails(p) PROVE owed' = owed
    BY <2>3 DEF LoadFeed, LoadFeedFails, Ask, hubVars
  <2>4. QED
    BY <2>1, <2>2, <2>3 DEF TabulaTypeOK, TabulaNext, SendToHub, Take, tabulaVars, hubVars
<1>3. /\ place' \in [Players -> {"away", "member", "gone"}]
      /\ start' \in [Players -> Nat]
      /\ asked' \in [Players -> {"no", "early", "late", "failed"}]
      /\ page' \in [Players -> SUBSET Rows]
  <2>1. ASSUME NEW p \in Players, Register(p)
        PROVE  UNCHANGED <<asked, page>> /\ place' = [place EXCEPT ![p] = "member"]
               /\ start' \in [Players -> Nat]
    <3>1. Len(log[TableOfPlayer[p]]) \in Nat
      BY DEF TabulaTypeOK
    <3>2. QED BY <2>1, <3>1 DEF Register, TabulaTypeOK
  <2>2. ASSUME NEW p \in Players, Unregister(p)
        PROVE  UNCHANGED <<start, asked, page>> /\ place' = [place EXCEPT ![p] = "gone"]
    BY <2>2 DEF Unregister
  <2>3. ASSUME NEW p \in Players, LoadFeed(p) \/ LoadFeedFails(p)
        PROVE  /\ UNCHANGED <<place, start>>
               /\ asked' \in [Players -> {"no", "early", "late", "failed"}]
               /\ page' \in [Players -> SUBSET Rows]
    <3>1. \A P \in Pages(TableOfPlayer[p]) : P \in SUBSET Rows
      BY DEF Pages, RowsOf, TypeOK
    <3>2. PICK w \in {"early", "late", "failed"}, P \in SUBSET Rows : Ask(p, w, P)
      BY <2>3, <3>1 DEF LoadFeed, LoadFeedFails, When
    <3>3. QED BY <3>2 DEF Ask, TabulaTypeOK
  <2>4. CASE End
    BY <2>4 DEF End, TabulaTypeOK
  <2>5. CASE Announce \/ Take \/ UNCHANGED playerVars
    BY <2>5 DEF Announce, Take, Broadcast, playerVars, TabulaTypeOK
  <2>6. \A m \in Messages : SendToHub(m) => UNCHANGED playerVars
    BY DEF SendToHub, Broadcast
  <2>7. QED
    BY <2>1, <2>2, <2>3, <2>4, <2>5, <2>6 DEF TabulaNext, TabulaTypeOK, tabulaVars
<1>4. QED BY <1>1, <1>2, <1>3 DEF TabulaTypeOK

\* The events with their stores, and what is around them, always have their type.
THEOREM TabulaTypeCorrect == TabulaSpec => [](TypeOK /\ TabulaTypeOK)
<1>1. TabulaInit => TypeOK /\ TabulaTypeOK
  BY TypeOKInit, TabulaTypeOKInit DEF TabulaInit
<1>2. TypeOK /\ TabulaTypeOK /\ [TabulaNext]_tabulaVars => TypeOK' /\ TabulaTypeOK'
  BY EventsStep, TypeOKNext, TabulaTypeOKNext
<1>3. QED BY <1>1, <1>2, PTL DEF TabulaSpec

-----------------------------------------------------------------------------
(***************************************************************************)
(* The invariant behind the refinement.  What is in the channel, or has    *)
(* been told, has left its goroutine, is as it was answered, and is there  *)
(* once.                                                                   *)
(***************************************************************************)
Passed(e) == stage[e.msg] = "done" /\ AsAnswered(rows, e)

InChannel(m) == \E i \in 1..Len(broadcast) : broadcast[i].msg = m
WasTold(m)   == \E i \in 1..Len(log[TableOf[m]]) : log[TableOf[m]][i].msg = m

TellInv ==
  /\ \A i \in 1..Len(broadcast) : Passed(broadcast[i])
  /\ \A i, j \in 1..Len(broadcast) : broadcast[i].msg = broadcast[j].msg => i = j
  /\ \A t \in Tables : \A i \in 1..Len(log[t]) :
       Passed(log[t][i]) /\ TableOf[log[t][i].msg] = t
  /\ \A m \in Messages : ~(InChannel(m) /\ WasTold(m))

\* What has passed stays so.
LEMMA PassedStays ==
  ASSUME TypeOK, [Next]_vars, NEW e \in Events, Passed(e)
  PROVE  stage'[e.msg] = "done" /\ AsAnswered(rows', e)
<1>1. e.msg \in Messages /\ stage[e.msg] = "done"
  BY DEF Passed, Events
<1>2. stage'[e.msg] = "done"
  <2>1. ASSUME NEW m \in Messages,
               Receive(m) \/ Handle(m) \/ HandleSystemEvent(m)
        PROVE  stage'[e.msg] = "done"
    BY <1>1, <2>1 DEF TypeOK, Receive, Handle, Roll, Answer, Insert, InsertAnswerLost,
       InsertFails, Push, PushFails, Send, HandleSystemEvent, Panic, EndProcess, Goto, InFlight
  <2>2. CASE Tick \/ Restart \/ UNCHANGED vars
    BY <1>1, <2>2 DEF Tick, workVars, Restart, EndProcess, InFlight, vars
  <2>3. QED BY <2>1, <2>2 DEF Next
<1>3. QED BY <1>2, AnswersStay DEF Passed

LEMMA TellNext ==
  TypeOK /\ RowsInv /\ TabulaTypeOK /\ TellInv /\ [TabulaNext]_tabulaVars => TellInv'
<1> SUFFICES ASSUME TypeOK, RowsInv, TabulaTypeOK, TellInv, [TabulaNext]_tabulaVars
             PROVE  TellInv'
  OBVIOUS
<1> USE EventsAssumption
<1>1. [Next]_vars /\ broadcast \in Seq(Events) /\ log \in [Tables -> Seq(Events)]
  BY EventsStep DEF TabulaTypeOK
<1>2. ASSUME NEW e \in Events, Passed(e)
      PROVE  stage'[e.msg] = "done" /\ AsAnswered(rows', e)
  BY <1>1, <1>2, PassedStays
<1>3. \A i \in 1..Len(broadcast) : broadcast[i] \in Events /\ Passed(broadcast[i])
  BY <1>1 DEF TellInv
<1>4. \A t \in Tables : \A i \in 1..Len(log[t]) :
        log[t][i] \in Events /\ Passed(log[t][i]) /\ TableOf[log[t][i].msg] = t
  <2>1. SUFFICES ASSUME NEW t \in Tables, NEW i \in 1..Len(log[t])
                 PROVE  log[t][i] \in Events
    BY DEF TellInv
  <2>2. log[t] \in Seq(Events)
    BY <1>1
  <2>3. QED BY <2>2
<1>5. \A m \in Messages : InChannel(m) \/ WasTold(m) => stage[m] = "done"
  BY <1>3, <1>4 DEF InChannel, WasTold, Passed
<1>6. ASSUME UNCHANGED log
      PROVE  \A t \in Tables : \A i \in 1..Len(log'[t]) :
               /\ stage'[log'[t][i].msg] = "done" /\ TableOf[log'[t][i].msg] = t
               /\ AsAnswered(rows', log'[t][i])
  BY <1>2, <1>4, <1>6
<1>7. ASSUME NEW m \in Messages, Put(m) PROVE TellInv'
  <2>1. /\ Event(m) \in Events /\ Event(m).msg = m
        /\ Len(broadcast') = Len(broadcast) + 1
        /\ \A i \in 1..Len(broadcast) : broadcast'[i] = broadcast[i]
        /\ broadcast'[Len(broadcast) + 1] = Event(m)
        /\ Len(broadcast) \in Nat
    BY <1>1, <1>7, BuiltTypes DEF Put, Event
  <2>2. AsAnswered(rows', Event(m))
    <3>1. AsAnswered(rows, Event(m))
      BY <1>7, EventIsAsAnswered DEF Put
    <3>2. QED BY <1>1, <3>1, AnswersStay
  <2>3. ~InChannel(m) /\ ~WasTold(m)
    BY <1>5, <1>7 DEF Put
  <2>4. ASSUME NEW i \in 1..Len(broadcast')
        PROVE  /\ stage'[broadcast'[i].msg] = "done"
               /\ AsAnswered(rows', broadcast'[i])
    <3>1. CASE i \in 1..Len(broadcast)
      BY <1>2, <1>3, <2>1, <3>1
    <3>2. CASE i = Len(broadcast) + 1
      BY <1>7, <2>1, <2>2, <3>2 DEF Put
    <3>3. QED BY <2>1, <3>1, <3>2
  <2>5. \A i, j \in 1..Len(broadcast') : broadcast'[i].msg = broadcast'[j].msg => i = j
    BY <2>1, <2>3 DEF InChannel, TellInv
  <2>6. \A n \in Messages : InChannel(n)' => InChannel(n) \/ n = m
    BY <2>1 DEF InChannel
  <2>7. \A n \in Messages : ~(InChannel(n)' /\ WasTold(n)')
    BY <1>7, <2>3, <2>6 DEF WasTold, Put, TellInv
  <2>8. QED
    BY <1>6, <1>7, <2>4, <2>5, <2>7 DEF TellInv, Passed, Put
<1>8. CASE Take
  <2> DEFINE e == Head(broadcast)
             t == TableOf[e.msg]
  <2>1. /\ e \in Events /\ e = broadcast[1] /\ Len(broadcast') = Len(broadcast) - 1
        /\ Len(broadcast) \in Nat /\ Len(broadcast) >= 1
        /\ \A i \in 1..Len(broadcast') : broadcast'[i] = broadcast[i + 1]
    BY <1>1, <1>8 DEF Take
  <2>2. t \in Tables /\ e.msg \in Messages
    BY <2>1 DEF Events
  <2>3. /\ log' = [log EXCEPT ![t] = Append(log[t], e)]
        /\ UNCHANGED vars
    BY <1>8 DEF Take
  <2>4. log[t] \in Seq(Events) /\ Len(log[t]) \in Nat
    BY <1>1, <2>2
  <2> HIDE DEF e, t
  <2>5. /\ \A s \in Tables : s # t => log'[s] = log[s]
        /\ Len(log'[t]) = Len(log[t]) + 1 /\ log'[t][Len(log[t]) + 1] = e
        /\ \A i \in 1..Len(log[t]) : log'[t][i] = log[t][i]
    BY <1>1, <2>1, <2>2, <2>3, <2>4
  <2>6. Passed(e)
    BY <1>3, <2>1
  <2>7. ASSUME NEW s \in Tables, NEW i \in 1..Len(log'[s])
        PROVE  Passed(log'[s][i]) /\ TableOf[log'[s][i].msg] = s
    <3>1. CASE i \in 1..Len(log[s]) /\ log'[s][i] = log[s][i]
      BY <1>4, <3>1
    <3>2. CASE s = t /\ log'[s][i] = e
      BY <2>6, <3>2 DEF t
    <3>3. QED BY <2>4, <2>5, <2>7, <3>1, <3>2
  <2>8. \A i \in 1..Len(broadcast') : Passed(broadcast'[i])
    BY <1>3, <2>1
  <2>9. \A i, j \in 1..Len(broadcast') : broadcast'[i].msg = broadcast'[j].msg => i = j
    <3>1. SUFFICES ASSUME NEW i \in 1..Len(broadcast'), NEW j \in 1..Len(broadcast'),
                          broadcast'[i].msg = broadcast'[j].msg
                   PROVE  i = j
      OBVIOUS
    <3>2. /\ i + 1 \in 1..Len(broadcast) /\ j + 1 \in 1..Len(broadcast)
          /\ broadcast[i + 1].msg = broadcast[j + 1].msg
      BY <2>1, <3>1
    <3>3. i + 1 = j + 1
      BY <3>2 DEF TellInv
    <3>4. QED BY <3>3
  <2>10. ASSUME NEW m \in Messages, InChannel(m)'
         PROVE  ~WasTold(m)'
    <3>1. PICK j \in 1..Len(broadcast') : broadcast'[j].msg = m
      BY <2>10 DEF InChannel
    <3>2. j + 1 \in 1..Len(broadcast) /\ broadcast[j + 1].msg = m
      BY <2>1, <3>1
    <3>3. m # e.msg
      <4>1. 1 \in 1..Len(broadcast) /\ j + 1 # 1
        BY <2>1, <3>2
      <4>2. QED BY <2>1, <3>2, <4>1 DEF TellInv
    <3>4. ~WasTold(m)
      BY <3>2 DEF InChannel, TellInv
    <3>5. TableOf[m] \in Tables
      OBVIOUS
    <3>6. CASE TableOf[m] # t
      BY <2>5, <3>4, <3>5, <3>6 DEF WasTold
    <3>7. CASE TableOf[m] = t
      <4>1. \A i \in 1..Len(log[t]) : log[t][i].msg # m
        BY <3>4, <3>7 DEF WasTold
      <4>2. \A i \in 1..Len(log'[t]) : log'[t][i].msg # m
        <5>1. ASSUME NEW i \in 1..Len(log'[t]) PROVE log'[t][i].msg # m
          <6>1. CASE i = Len(log[t]) + 1
            BY <2>5, <3>3, <6>1
          <6>2. CASE i \in 1..Len(log[t])
            BY <2>5, <4>1, <6>2
          <6>3. QED BY <2>4, <2>5, <5>1, <6>1, <6>2
        <5>2. QED BY <5>1
      <4>3. QED BY <3>7, <4>2 DEF WasTold
    <3>8. QED BY <3>6, <3>7
  <2>11. QED
    BY <2>3, <2>7, <2>8, <2>9, <2>10 DEF TellInv, Passed, vars
<1>9. CASE broadcast' = <<>> /\ log' = log
  <2>1. Len(broadcast') = 0
    BY <1>9
  <2>2. QED BY <1>6, <1>9, <2>1 DEF TellInv, Passed, InChannel
<1>10. CASE UNCHANGED <<broadcast, log>>
  <2>1. ASSUME NEW i \in 1..Len(broadcast')
        PROVE  /\ stage'[broadcast'[i].msg] = "done"
               /\ AsAnswered(rows', broadcast'[i])
    BY <1>2, <1>3, <1>10, <2>1
  <2>2. QED BY <1>6, <1>10, <2>1 DEF TellInv, Passed, InChannel, WasTold
<1>11. QED BY <1>7, <1>8, <1>9, <1>10, HubSteps
-----------------------------------------------------------------------------
StoresInv == TypeOK /\ RowsInv /\ StampInv
TabulaInv == StoresInv /\ TabulaTypeOK /\ TellInv

LEMMA TabulaInvInit == TabulaInit => TabulaInv
<1>1. TabulaInit => TellInv
  <2> SUFFICES ASSUME TabulaInit PROVE TellInv
    OBVIOUS
  <2>1. Len(broadcast) = 0 /\ \A t \in Tables : Len(log[t]) = 0
    BY DEF TabulaInit
  <2>2. QED BY <2>1, EventsAssumption DEF TellInv, InChannel, WasTold
<1>2. Init => StampInv
  BY DEF Init, StampInv
<1>3. QED
  BY <1>1, <1>2, TypeOKInit, RowsInvInit, TabulaTypeOKInit DEF TabulaInit, TabulaInv, StoresInv

LEMMA TabulaInvNext == TabulaInv /\ [TabulaNext]_tabulaVars => TabulaInv'
BY EventsStep, TypeOKNext, RowsInvNext, StampNext, TabulaTypeOKNext, TellNext
   DEF TabulaInv, StoresInv

-----------------------------------------------------------------------------
\* The refinement: the rolls in the book, and what each table has been told.
InBook == {r.msg : r \in rows}
LinesOf(s) == [i \in 1..Len(s) |-> Numbered(s[i])]
Told == [t \in Tables |-> LinesOf(log[t])]

Lines == [msg : Messages, type : {"roll", "system"}, numbered : BOOLEAN]

LEMMA LinesOfAppend ==
  ASSUME NEW s \in Seq(Events), NEW e \in Events
  PROVE  LinesOf(Append(s, e)) = Append(LinesOf(s), Numbered(e))
<1>1. Len(s) \in Nat /\ Len(Append(s, e)) = Len(s) + 1
  OBVIOUS
<1>2. \A i \in 1..Len(s) + 1 : Append(s, e)[i] = IF i = Len(s) + 1 THEN e ELSE s[i]
  BY <1>1
<1>3. \A d \in Events : Numbered(d) \in Lines
  BY DEF Events, Lines, Numbered
<1>4. LinesOf(s) \in Seq(Lines) /\ Len(LinesOf(s)) = Len(s) /\ Numbered(e) \in Lines
  <2>1. \A i \in 1..Len(s) : s[i] \in Events
    OBVIOUS
  <2>2. QED BY <1>1, <1>3, <2>1 DEF LinesOf
<1>5. LinesOf(Append(s, e)) \in Seq(Lines)
  <2>1. \A i \in 1..Len(s) + 1 : Numbered(Append(s, e)[i]) \in Lines
    <3>1. \A i \in 1..Len(s) + 1 : Append(s, e)[i] \in Events
      BY <1>1, <1>2
    <3>2. QED BY <1>3, <3>1
  <2>2. QED BY <1>1, <2>1 DEF LinesOf
<1>6. QED
  BY <1>1, <1>2, <1>4, <1>5 DEF LinesOf

\* By what it was answered, an event is the line the book has for it.
LEMMA LineOfAnswer ==
  ASSUME RowsInv, NEW e \in Events, AsAnswered(rows, e)
  PROVE  Numbered(e) = Book!Line(e.msg)
<1>1. (e.id # 0) <=> (KindOf[e.msg] = "roll")
  BY DEF AsAnswered, RowsInv, IsRowOf
<1>2. (e.id # 0) = (KindOf[e.msg] = "roll")
  BY <1>1
<1>3. e.type = IF KindOf[e.msg] = "system" THEN "system" ELSE "roll"
  BY DEF AsAnswered, AnswerType
<1>4. QED BY <1>2, <1>3 DEF Numbered, Book!Line

\* The rolls on record change by an insert only.
LEMMA BookSteps ==
  ASSUME [TabulaNext]_tabulaVars, TabulaTypeOK
  PROVE  \/ \E m \in Messages : Insert(m) \/ InsertAnswerLost(m)
         \/ rows' = rows
<1>1. [Next]_vars
  BY EventsStep
<1>2. QED
  BY <1>1 DEF Next, Receive, Handle, Roll, Answer, InsertFails, Push, PushFails, Send,
     HandleSystemEvent, Tick, Restart, Panic, EndProcess, workVars, dbVars, vars

LEMMA BookStep ==
  TabulaInv /\ [TabulaNext]_tabulaVars => [Book!BookNext]_<<InBook, Told>>
<1> SUFFICES ASSUME TabulaInv, [TabulaNext]_tabulaVars
             PROVE  [Book!BookNext]_<<InBook, Told>>
  OBVIOUS
<1> USE EventsAssumption
<1>1. TypeOK /\ TabulaTypeOK /\ TellInv
  BY DEF TabulaInv, StoresInv
<1>2. CASE Take
  <2>1. PICK e \in Events : e = Head(broadcast) /\ e = broadcast[1] /\ 1 \in 1..Len(broadcast)
    BY <1>1, <1>2 DEF Take, TabulaTypeOK
  <2> DEFINE m == e.msg
             t == TableOf[m]
  <2>2. m \in Messages /\ t \in Tables
    BY <2>1 DEF Events
  <2>3. log' = [log EXCEPT ![t] = Append(log[t], e)] /\ rows' = rows
    BY <1>2, <2>1 DEF Take, vars
  <2>4. log[t] \in Seq(Events)
    BY <1>1, <2>2 DEF TabulaTypeOK
  <2>5. Told' = [Told EXCEPT ![t] = Append(Told[t], Book!Line(m))]
    <3>1. \A s \in Tables : Told'[s] = IF s = t THEN LinesOf(Append(log[t], e)) ELSE Told[s]
      BY <1>1, <2>2, <2>3 DEF Told, TabulaTypeOK
    <3>2. LinesOf(Append(log[t], e)) = Append(Told[t], Numbered(e))
      BY <2>1, <2>2, <2>4, LinesOfAppend DEF Told
    <3>3. Numbered(e) = Book!Line(m)
      BY <1>1, <2>1, LineOfAnswer DEF TellInv, Passed, TabulaInv, StoresInv
    <3>4. DOMAIN Told' = Tables
      BY DEF Told
    <3>5. QED BY <3>1, <3>2, <3>3, <3>4 DEF Told
  <2>6. KindOf[m] = "roll" => m \in InBook
    <3>1. Passed(e)
      BY <1>1, <2>1 DEF TellInv
    <3>2. QED BY <3>1 DEF Passed, AsAnswered, IsRowOf, InBook
  <2>7. \A i \in 1..Len(Told[t]) : Told[t][i].msg # m
    <3>1. ~WasTold(m)
      BY <1>1, <2>1, <2>2 DEF TellInv, InChannel
    <3>2. Len(Told[t]) = Len(log[t]) /\ \A i \in 1..Len(log[t]) : Told[t][i].msg = log[t][i].msg
      <4>1. Told[t] = LinesOf(log[t]) /\ Len(log[t]) \in Nat
        BY <2>2, <2>4 DEF Told
      <4>2. Len(Told[t]) = Len(log[t]) /\ \A i \in 1..Len(log[t]) : Told[t][i] = Numbered(log[t][i])
        BY <4>1 DEF LinesOf
      <4>3. \A i \in 1..Len(log[t]) : Numbered(log[t][i]).msg = log[t][i].msg
        BY DEF Numbered
      <4>4. QED BY <4>2, <4>3
    <3>3. QED BY <3>1, <3>2 DEF WasTold
  <2>8. InBook' = InBook
    BY <2>3 DEF InBook
  <2>9. Book!Tell(m)
    BY <2>5, <2>6, <2>7, <2>8 DEF Book!Tell, InBook, Told, LinesOf
  <2>10. QED BY <2>2, <2>9 DEF Book!BookNext
<1>3. ASSUME NEW m \in Messages, Insert(m) \/ InsertAnswerLost(m), ~Take
      PROVE  [Book!BookNext]_<<InBook, Told>>
  <2>1. KindOf[m] = "roll"
    BY <1>3 DEF Insert, InsertAnswerLost, TabulaInv, StoresInv, RowsInv
  <2>2. InBook' = InBook \cup {m}
    <3>1. rows' = rows \cup {Row(m)} /\ Row(m).msg = m
      BY <1>3 DEF Insert, InsertAnswerLost, Row
    <3>2. QED BY <3>1 DEF InBook
  <2>3. log' = log
    BY <1>1, <1>3, HubSteps DEF Put
  <2>4. Book!Enter(m)
    BY <2>1, <2>2, <2>3 DEF Book!Enter, InBook, Told, LinesOf
  <2>5. QED BY <2>4 DEF Book!BookNext
<1>4. CASE rows' = rows /\ ~Take
  <2>1. log' = log
    BY <1>1, <1>4, HubSteps DEF Put
  <2>2. QED BY <1>4, <2>1 DEF InBook, Told
<1>5. QED BY <1>1, <1>2, <1>3, <1>4, BookSteps

\* Every table is told of rolls that are in Postgres, by their id and of each
\* once, of other events as rolls with id 0, and of nothing of another table:
\* what RollBook promises, kept through the goroutines' interleavings, the
\* failures of the stores and the restarts.
THEOREM TabulaKeepsTheBook == TabulaSpec => RollBookImplemented
<1>1. TabulaInit => TabulaInv /\ Book!BookInit
  <2> SUFFICES ASSUME TabulaInit PROVE Book!BookInit
    BY TabulaInvInit
  <2>1. rows = {} /\ \A t \in Tables : log[t] = <<>>
    BY DEF TabulaInit, Init
  <2>2. \A t \in Tables : [i \in 1..Len(log[t]) |-> Numbered(log[t][i])] = <<>>
    BY <2>1
  <2>3. QED BY <2>1, <2>2 DEF Book!BookInit
<1>2. TabulaInv /\ [TabulaNext]_tabulaVars => TabulaInv'
  BY TabulaInvNext
<1>3. TabulaInv /\ [TabulaNext]_tabulaVars => [Book!BookNext]_Book!bookVars
  BY BookStep DEF Book!bookVars, InBook, Told, LinesOf
<1>4. QED
  BY <1>1, <1>2, <1>3, PTL DEF TabulaSpec, RollBookImplemented, Book!BookSpec

-----------------------------------------------------------------------------
(***************************************************************************)
(* Catching up.  A run begins within what its table has been told, which   *)
(* only grows at the end, and a page shows what had been told before it.   *)
(***************************************************************************)
PlayersInv ==
  \A p \in Players :
    /\ start[p] \in 0..Len(log[TableOfPlayer[p]])
    /\ asked[p] = "late" =>
         /\ place[p] # "away"
         /\ \A i \in 1..start[p] : ShownByItsId(page[p], log[TableOfPlayer[p]][i])

\* What has been told stays where it is, and its time does not change.
LEMMA LogGrows ==
  ASSUME TabulaInv, [TabulaNext]_tabulaVars, NEW t \in Tables
  PROVE  /\ Len(log[t]) \in Nat /\ Len(log'[t]) \in Nat /\ Len(log[t]) <= Len(log'[t])
         /\ \A i \in 1..Len(log[t]) :
              log'[t][i] = log[t][i] /\ stamp'[log[t][i].msg] = stamp[log[t][i].msg]
<1> USE EventsAssumption
<1>1. TypeOK /\ TabulaTypeOK /\ TellInv /\ [Next]_vars
  BY EventsStep DEF TabulaInv, StoresInv
<1>2. log[t] \in Seq(Events) /\ Len(log[t]) \in Nat
  BY <1>1 DEF TabulaTypeOK
<1>3. Len(log'[t]) \in Nat /\ Len(log[t]) <= Len(log'[t])
      /\ \A i \in 1..Len(log[t]) : log'[t][i] = log[t][i]
  <2>1. CASE log'[t] = log[t]
    BY <1>2, <2>1
  <2>2. CASE Take /\ log'[t] # log[t]
    <3>1. Head(broadcast) \in Events
      BY <1>1, <2>2 DEF Take, TabulaTypeOK
    <3>2. log'[t] = Append(log[t], Head(broadcast))
      BY <1>1, <2>2, <3>1 DEF Take, TabulaTypeOK
    <3>3. QED BY <1>2, <3>1, <3>2
  <2>3. QED BY <1>1, <2>1, <2>2, HubSteps DEF Put
<1>4. ASSUME NEW i \in 1..Len(log[t])
      PROVE  stamp'[log[t][i].msg] = stamp[log[t][i].msg]
  <2>1. log[t][i].msg \in Messages
    <3>1. log[t][i] \in Events
      BY <1>2
    <3>2. QED BY <3>1 DEF Events
  <2>2. stage[log[t][i].msg] = "done"
    BY <1>1, <1>4 DEF TellInv, Passed
  <2>3. \/ stamp' = stamp
        \/ \E m \in Messages : stage[m] = "received" /\ stamp' = [stamp EXCEPT ![m] = clock]
    BY <1>1 DEF Next, Receive, Handle, Roll, Answer, Insert, InsertAnswerLost, InsertFails,
       Push, PushFails, Send, HandleSystemEvent, Tick, Restart, Panic, EndProcess,
       workVars, dbVars, vars
  <2>4. QED BY <1>1, <2>1, <2>2, <2>3 DEF TypeOK
<1>5. QED BY <1>2, <1>3, <1>4

\* What a step of a player, or around it, may do to what it asked for.
LEMMA PlayerSteps ==
  ASSUME TabulaTypeOK, [TabulaNext]_tabulaVars, NEW p \in Players
  PROVE  \/ /\ UNCHANGED <<start[p], asked[p], page[p]>>
            /\ place[p] # "away" => place'[p] # "away"
         \/ /\ place[p] = "away" /\ place'[p] = "member"
            /\ start'[p] = Len(log[TableOfPlayer[p]]) /\ UNCHANGED <<asked[p], log>>
         \/ /\ UNCHANGED <<vars, log, place[p], start[p]>>
            /\ asked'[p] \in {"early", "failed"}
         \/ /\ UNCHANGED <<vars, log, place[p], start[p]>>
            /\ place[p] = "member" /\ asked'[p] = "late"
            /\ page'[p] \in Pages(TableOfPlayer[p])
<1> USE DEF TabulaTypeOK
<1>1. ASSUME NEW q \in Players, Register(q) \/ Unregister(q)
      PROVE  \/ /\ UNCHANGED <<start[p], asked[p], page[p]>>
                /\ place[p] # "away" => place'[p] # "away"
             \/ /\ place[p] = "away" /\ place'[p] = "member"
                /\ start'[p] = Len(log[TableOfPlayer[p]]) /\ UNCHANGED <<asked[p], log>>
  BY <1>1 DEF Register, Unregister
<1>2. ASSUME NEW q \in Players, LoadFeed(q) \/ LoadFeedFails(q), q # p
      PROVE  UNCHANGED <<start[p], asked[p], page[p], place[p]>>
  <2>1. PICK w, P : Ask(q, w, P)
    BY <1>2 DEF LoadFeed, LoadFeedFails
  <2>2. QED BY <1>2, <2>1 DEF Ask
<1>3. CASE LoadFeedFails(p)
  BY <1>3 DEF LoadFeedFails, Ask, hubVars
<1>4. CASE LoadFeed(p)
  <2>1. PICK P \in Pages(TableOfPlayer[p]) : Ask(p, When(p), P)
    BY <1>4 DEF LoadFeed
  <2>2. /\ UNCHANGED <<vars, log, place[p], start[p]>>
        /\ asked'[p] = When(p) /\ page'[p] = P
    BY <2>1 DEF Ask, hubVars
  <2>3. When(p) = "early" \/ (When(p) = "late" /\ place[p] = "member")
    BY DEF When, HasReceived
  <2>4. QED BY <2>1, <2>2, <2>3
<1>5. CASE End
  BY <1>5 DEF End
<1>6. ASSUME NEW m \in Messages, SendToHub(m) PROVE UNCHANGED playerVars
  BY <1>6 DEF SendToHub, Broadcast
<1>7. CASE Announce \/ Take \/ UNCHANGED playerVars
  BY <1>7 DEF Announce, Take, Broadcast, playerVars
<1>8. QED BY <1>1, <1>2, <1>3, <1>4, <1>5, <1>6, <1>7 DEF TabulaNext, tabulaVars, playerVars

LEMMA PlayersInvNext ==
  TabulaInv /\ PlayersInv /\ [TabulaNext]_tabulaVars => PlayersInv'
<1> SUFFICES ASSUME TabulaInv, PlayersInv, [TabulaNext]_tabulaVars, NEW p \in Players
             PROVE  /\ start'[p] \in 0..Len(log'[TableOfPlayer[p]])
                    /\ asked'[p] = "late" =>
                         /\ place'[p] # "away"
                         /\ \A i \in 1..start'[p] :
                              ShownByItsId(page[p], log[TableOfPlayer[p]][i])'
  BY DEF PlayersInv
<1> USE TabulaAssumption
<1> DEFINE t == TableOfPlayer[p]
<1>1. t \in Tables /\ TypeOK /\ TabulaTypeOK /\ TellInv
  BY DEF TabulaInv, StoresInv
<1>2. /\ Len(log[t]) \in Nat /\ Len(log'[t]) \in Nat /\ Len(log[t]) <= Len(log'[t])
      /\ \A i \in 1..Len(log[t]) :
           log'[t][i] = log[t][i] /\ stamp'[log[t][i].msg] = stamp[log[t][i].msg]
  BY <1>1, LogGrows
<1>3. start[p] \in 0..Len(log[t])
  BY DEF PlayersInv
<1>4. CASE /\ UNCHANGED <<start[p], asked[p], page[p]>>
           /\ place[p] # "away" => place'[p] # "away"
  <2>1. start'[p] \in 0..Len(log'[t])
    BY <1>2, <1>3, <1>4
  <2>2. ASSUME asked[p] = "late", NEW i \in 1..start[p]
        PROVE  ShownByItsId(page[p], log[t][i])'
    <3>1. ShownByItsId(page[p], log[t][i])
      BY <2>2 DEF PlayersInv
    <3>2. i \in 1..Len(log[t])
      BY <1>2, <1>3, <2>2
    <3>3. QED BY <1>2, <1>4, <3>1, <3>2 DEF ShownByItsId, Shown, IsRowOf
  <2>3. \A i \in 1..start[p] : log'[t][i] = log[t][i]
    BY <1>2, <1>3
  <2>4. QED BY <1>4, <2>1, <2>2, <2>3 DEF PlayersInv
<1>5. CASE /\ place[p] = "away" /\ place'[p] = "member"
           /\ start'[p] = Len(log[t]) /\ UNCHANGED <<asked[p], log>>
  BY <1>2, <1>5 DEF PlayersInv
<1>6. CASE UNCHANGED <<vars, log, place[p], start[p]>> /\ asked'[p] \in {"early", "failed"}
  BY <1>3, <1>6
<1>7. CASE /\ UNCHANGED <<vars, log, place[p], start[p]>>
           /\ place[p] = "member" /\ asked'[p] = "late" /\ page'[p] \in Pages(t)
  <2>1. ASSUME NEW i \in 1..start[p]
        PROVE  ShownByItsId(page[p], log[t][i])'
    <3>1. i \in 1..Len(log[t])
      BY <1>2, <1>3, <2>1
    <3>2. AsAnswered(rows, log[t][i]) /\ TableOf[log[t][i].msg] = t /\ log[t][i] \in Events
      <4>1. log[t] \in Seq(Events)
        BY <1>1 DEF TabulaTypeOK
      <4>2. QED BY <1>1, <3>1, <4>1 DEF TellInv, Passed
    <3>3. ShownByItsId(page'[p], log[t][i])
      BY <1>1, <1>7, <3>2, PagesShowRows DEF TabulaInv, StoresInv
    <3>4. QED BY <1>7, <3>3 DEF ShownByItsId, Shown, IsRowOf, vars
  <2>2. QED BY <1>3, <1>7, <2>1
<1>8. QED BY <1>1, <1>4, <1>5, <1>6, <1>7, PlayerSteps

\* A player who loads the feed once it has received something has no gap
\* before its run that the page could have closed, but for rolls with id 0,
\* which are on no page.
THEOREM PlayersCatchUp == TabulaSpec => []CatchUp
<1>1. TabulaInit => PlayersInv
  <2> SUFFICES ASSUME TabulaInit, NEW p \in Players
               PROVE  start[p] = 0 /\ Len(log[TableOfPlayer[p]]) = 0 /\ asked[p] = "no"
    BY DEF PlayersInv
  <2>1. log[TableOfPlayer[p]] = <<>>
    BY TabulaAssumption DEF TabulaInit
  <2>2. QED BY <2>1 DEF TabulaInit
<1>2. ASSUME TabulaInv, PlayersInv PROVE CatchUp
  <2> SUFFICES ASSUME NEW p \in Players, asked[p] = "late"
               PROVE  LET before == SubSeq(log[TableOfPlayer[p]], 1, start[p])
                      IN  \A i \in 1..Len(before) : ShownByItsId(page[p], before[i])
    BY DEF CatchUp
  <2> DEFINE before == SubSeq(log[TableOfPlayer[p]], 1, start[p])
  <2>1. log[TableOfPlayer[p]] \in Seq(Events)
    BY <1>2, TabulaAssumption DEF TabulaInv, TabulaTypeOK
  <2>2. start[p] \in 0..Len(log[TableOfPlayer[p]])
    BY <1>2 DEF PlayersInv
  <2>3. /\ Len(before) = start[p]
        /\ \A i \in 1..start[p] : before[i] = log[TableOfPlayer[p]][i]
    BY <2>1, <2>2
  <2> HIDE DEF before
  <2>4. \A i \in 1..Len(before) : ShownByItsId(page[p], before[i])
    BY <1>2, <2>3 DEF PlayersInv
  <2>5. QED BY <2>4 DEF before
<1>3. TabulaInv /\ PlayersInv => CatchUp
  BY <1>2
<1>4. QED
  BY <1>1, <1>3, TabulaInvInit, TabulaInvNext, PlayersInvNext, PTL DEF TabulaSpec
=============================================================================
