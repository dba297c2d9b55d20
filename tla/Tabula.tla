------------------------------- MODULE Tabula -------------------------------
(***************************************************************************)
(* The parts together, as a player meets them: events on their way through *)
(* the stores (TableEvents), the one goroutine of the hub that takes them  *)
(* in order and hands them to whoever is registered then, and              *)
(* GET /table/{id}/feed, which reads Postgres beside all of it.            *)
(*                                                                         *)
(* The hub is reduced to what it tells its tables (HubFeed shows that a    *)
(* connection receives a run of that), to players that come and go, and to *)
(* the announcement it owes before it can take the next event.  Its buffer *)
(* has room for all (Hub says what happens when it has not).               *)
(***************************************************************************)
EXTENDS TableEvents

CONSTANTS
  Players,        \* connections whose peers also load the feed
  TableOfPlayer,
  JoinEvent,      \* the announcements of each player
  LeaveEvent

ASSUME TabulaAssumption ==
  /\ TableOfPlayer \in [Players -> Tables]
  /\ {JoinEvent, LeaveEvent} \subseteq [Players -> {m \in Messages : KindOf[m] = "system"}]

VARIABLES
  broadcast, \* contents of Hub.broadcast
  owed,      \* the announcement of the case Hub.Run is in, if any
  log,       \* what each table has been told, in the order the hub took it
  place,     \* where each player is: "away", "member" or "gone"
  start,     \* how much its table had been told when the hub registered it
  asked,     \* when it asked for the feed: "no", "early", "late", or "failed"
  page       \* the rows of the answer

hubVars    == <<broadcast, owed, log>>
playerVars == <<place, start, asked, page>>
tabulaVars == <<vars, hubVars, playerVars>>

TabulaTypeOK ==
  /\ broadcast \in Seq(Events)
  /\ owed \in Seq(Messages) /\ Len(owed) <= 1
  /\ log \in [Tables -> Seq(Events)]
  /\ place \in [Players -> {"away", "member", "gone"}]
  /\ start \in [Players -> Nat]
  /\ asked \in [Players -> {"no", "early", "late", "failed"}]
  /\ page \in [Players -> SUBSET Rows]

TabulaInit ==
  /\ Init
  /\ broadcast = <<>>
  /\ owed = <<>>
  /\ log = [t \in Tables |-> <<>>]
  /\ place = [p \in Players |-> "away"]
  /\ start = [p \in Players |-> 0]
  /\ asked = [p \in Players |-> "no"]
  /\ page = [p \in Players |-> {}]

-----------------------------------------------------------------------------
\* Hub.Run, cases register and unregister, up to the announcement.
Register(p) ==
  /\ owed = <<>>
  /\ place[p] = "away"
  /\ place' = [place EXCEPT ![p] = "member"]
  /\ start' = [start EXCEPT ![p] = Len(log[TableOfPlayer[p]])]
  /\ owed' = <<JoinEvent[p]>>
  /\ UNCHANGED <<vars, broadcast, log, asked, page>>

Unregister(p) ==
  /\ owed = <<>>
  /\ place[p] = "member"
  /\ place' = [place EXCEPT ![p] = "gone"]
  /\ owed' = <<LeaveEvent[p]>>
  /\ UNCHANGED <<vars, broadcast, log, start, asked, page>>

\* A goroutine, or the hub itself, puts an event into the channel.
Broadcast(m) ==
  /\ broadcast' = Append(broadcast, Event(m))
  /\ UNCHANGED <<log, playerVars>>

Announce ==
  /\ owed # <<>>
  /\ HandleSystemEvent(Head(owed))
  /\ Broadcast(Head(owed))
  /\ owed' = <<>>

SendToHub(m) == Send(m) /\ Broadcast(m) /\ UNCHANGED owed

\* Hub.Run, case broadcast.
Take ==
  /\ owed = <<>>
  /\ broadcast # <<>>
  /\ broadcast' = Tail(broadcast)
  /\ LET e == Head(broadcast)
     IN  log' = [log EXCEPT ![TableOf[e.msg]] = Append(@, e)]
  /\ UNCHANGED <<vars, owed, playerVars>>

\* The process ends: channel, hub and connections with it.
End ==
  /\ Restart \/ \E m \in Messages : Panic(m)
  /\ broadcast' = <<>>
  /\ owed' = <<>>
  /\ place' = [p \in Players |-> IF place[p] = "member" THEN "gone" ELSE place[p]]
  /\ UNCHANGED <<log, start, asked, page>>

\* Every other step on an event's way.
OnItsWay(m) ==
  \/ Receive(m) \/ Roll(m) \/ Answer(m) \/ Insert(m) \/ InsertAnswerLost(m)
  \/ InsertFails(m) \/ Push(m) \/ PushFails(m)

-----------------------------------------------------------------------------
\* The player may have received an event of its table: it is registered.
HasReceived(p) == place[p] = "member" /\ Len(log[TableOfPlayer[p]]) > start[p]

\* GET /table/{id}/feed, once per player and at any time.
Ask(p, when, rs) ==
  /\ asked[p] = "no"
  /\ asked' = [asked EXCEPT ![p] = when]
  /\ page' = [page EXCEPT ![p] = rs]
  /\ UNCHANGED <<vars, hubVars, place, start>>

Cached(p) == {feed[TableOfPlayer[p]][i] : i \in 1..Len(feed[TableOfPlayer[p]])}
When(p)   == IF HasReceived(p) THEN "late" ELSE "early"

LoadFeed_RawCache(p)  == Ask(p, When(p), Cached(p))
LoadFeed_FromCache(p) == Ask(p, When(p), {r \in rows : \E e \in Cached(p) : IsRowOf(r, e)})
LoadFeed(p) == \E P \in Pages(TableOfPlayer[p]) : Ask(p, When(p), P)

\* The handler drops the error and answers 200 with no events.
LoadFeedFails(p) == Ask(p, "failed", {})

TabulaNext ==
  \/ \E m \in Messages :
       \/ SendToHub(m)
       \/ OnItsWay(m) /\ UNCHANGED <<hubVars, playerVars>>
  \/ \E p \in Players : Register(p) \/ Unregister(p) \/ LoadFeed(p) \/ LoadFeedFails(p)
  \/ Announce \/ Take \/ End
  \/ Tick /\ UNCHANGED <<hubVars, playerVars>>

TabulaSpec == TabulaInit /\ [][TabulaNext]_tabulaVars

-----------------------------------------------------------------------------
\* A player who asks for the feed once the first event has come over its
\* websocket has no gap but for the rolls with id 0: any other its table was
\* told before its run began is on the page, unless the page is full of rolls
\* as new.  Whatever goroutines, Redis failures and restarts there were; only a
\* query that fails leaves it with an empty page that looks like an empty
\* table's.
CatchUp ==
  \A p \in Players : asked[p] = "late" =>
    LET before == SubSeq(log[TableOfPlayer[p]], 1, start[p])
    IN  \A i \in 1..Len(before) : ShownByItsId(page[p], before[i])

Numbered(e) == [msg |-> e.msg, type |-> e.type, numbered |-> e.id # 0]

Book == INSTANCE RollBook WITH
  book <- {r.msg : r \in rows},
  told <- [t \in Tables |-> [i \in 1..Len(log[t]) |-> Numbered(log[t][i])]]

\* Every table is told of rolls that are in Postgres, by their id and of each
\* once, of other events as rolls without one, and of nothing of any other
\* table, in some order: the stores, the channel and the hub, with their
\* failures and the restarts, implement RollBook.
RollBookImplemented == Book!BookSpec
=============================================================================
