# personae-tabula: TLA+ models, checks and proofs

personae-tabula is a Go service for playing at a shared table: users register and
create tables over HTTP, join a table over a websocket, roll dice, and see each
other's rolls, arrivals and departures. Postgres keeps users, tables and rolls,
Redis keeps presence and a short feed per table, and one goroutine, `Hub.Run`,
keeps the connections.

This directory holds TLA+ models of that code, TLC configurations that check them on
small instances, and TLAPS proofs of what matters most for all instances. Paths
are relative to `src/`.

## The system

| Component | State | Operations | Interacts through |
|---|---|---|---|
| Hub (`internal/websocket/hub.go`) | `tables`: the clients of each table; the channels `register`, `unregister` (unbuffered), `broadcast` (512) | the three cases of `Run`, `handleSystemEvent`, `handleTableEvent` | channels from the connections; `RoomCache`; `EventService` |
| Connection (`client.go`, `handlers.go`, `types.go`) | one `WSClient` with a `send` channel (256) and the socket | `HandleConnection`, `readPump`, `writePump`, `processTableEvent` | `UserService`, `TableService`; the hub's channels |
| Event processing (`internal/service/event_service.go`) | none | `ProcessTableEvent`, `ProcessSystemEvent` (does nothing), `ProcessRoll`, `ProcessSkillRoll` | `EventRepository` |
| Event repository (`internal/repository/postgres/event_repo.go`) | Postgres `table_events` | `SaveEvent`, `Save`, `GetTableFeed` | Postgres |
| Room cache (`internal/repository/redis/room_cache.go`) | Redis `room:users:T`, `user:U`, `room:feed:T`, `room:state:T` | `AddUser`, `RemoveUser`, `PushEvent` (each one transaction) | Redis |
| Users and tables (`user_service.go`, `table_service.go` and their repositories) | Postgres `users`, `tables` | `CreateUser`, `CreateTable`, `ListTables`, lookups, `GetTableFeed` | Postgres |
| HTTP API (`internal/api/http`) | none | `RegisterUser`, `CreateTable`, `ListTables`, `GetTableFeed`, reads by key | the services |
| Process (`main.go`) | everything that is not in a store; the schema | start, `createTables`, signal, `Shutdown`, deferred closes | all |

### What is hard

* **Interleaving.** A connection has three goroutines and one more per message it
  sends; HTTP requests have one each. All meet in the hub's `select`, whose choice among
  ready cases is random, or in a store.
* **One goroutine on both ends of a channel.** `Run` drains `broadcast`, and
  `handleSystemEvent`, which `Run` calls, sends to it.
* **Closing channels.** `send` is closed in two places (a departure, a full buffer)
  and sent to in a third. A second close, or a send after a close, is a panic that ends
  the process for every table.
* **Several stores, no transaction across them.** A roll goes to Postgres, then Redis,
  then `broadcast`; presence is in the hub's map and in two Redis keys; errors of
  Redis are logged or ignored. A statement may take effect and lose its answer, for
  one because the 20 s deadline of the event's context passes.
* **Restart.** Redis outlives the process and the connections do not.
* **Check, then insert.** A username is looked up in one statement and inserted in
  another.
* **History and news by two ways.** A player loads the past over HTTP from Postgres and gets the
  present over a websocket from the hub; nothing lines the two up.
* **Pages of a growing list.** Tables are listed by offset into an order that changes meanwhile.
* **Everything is answered as a roll.** `ProcessTableEvent` gives an event of any other type the type
  of a roll, the id 0 and no row.
* **A panic anywhere ends everything.** Each message is processed in a goroutine without a
  `recover`.

### What makes each part correct

* Hub and connections: no panic on a channel; no client left half registered;
  events stay at their table; peers of a table see one order without gaps; whoever is
  lost leaves; every event gets through; announcements and presence agree with who is
  connected.
* Events: a roll a table is told of is saved, and what is told as a roll but is none can be
  told from it; nothing is saved twice; the two stores can be
  read back consistently; a player who loads the feed has no gap before its websocket's events.
* Accounts: uniqueness under races; a registration's answer agrees with what it did;
  tables have owners; only existing users and tables reach the hub.
* Dice: the reported throws, and their sum in machine arithmetic, are what the formula
  asked for.
* Listing: pages together miss nothing that was there, and repeat little.
* Process: requests are served over a complete schema and open stores only, and a process
  that is asked to stop does.

## Modules

| Module | What it is |
|---|---|
| `Hub` | Hub, connections, presence in Redis, restarts. |
| `TableFeed` | Abstract: each table has a sequence of events, and a peer receives a gapless run of it from where it joined. |
| `HubFeed` | `Hub` with a history of what the hub took and each peer received; states that it implements `TableFeed`. |
| `TableEvents` | An event's way through Postgres, Redis and the broadcast channel. |
| `RollBook` | Abstract: a roll is entered in a book, and its table told of it after that, with its number, once; other events are told as rolls without a number. |
| `Tabula` | `TableEvents` with the hub's channel and order, and players who load the feed; states that it implements `RollBook`. |
| `Presence` | Abstract: a room's list follows the arrivals and departures of its users' connections, one by one. `Hub` states that it implements it. |
| `Accounts` | Registration, creation of tables, admission of websockets. |
| `Listing` | `GET /tables`, page by page, while tables are created. |
| `Dice` | `ProcessSkillRoll`, throw by throw. |
| `Server` | `main.go`: stores, schema, listener, signals, `Shutdown`, deferred closes. |
| `HubProofs`, `HubFeedProofs`, `TableEventsProofs`, `TabulaProofs`, `AccountsProofs`, `ServerProofs`, `DiceProofs`, `ListingProofs` | Theorems. |
| `MCHub`, `MCHubFeed`, `MCTableEvents`, `MCTabula`, `MCAccounts`, `MCListing`, `MCDice`, `MCServer` | Instances for TLC. |

What composes what: `HubFeed` is `Hub` with a history and refines `TableFeed`; `Hub` refines
`Presence`; `Tabula` is `TableEvents` behind the hub and refines `RollBook`. `Accounts`,
`Listing`, `Dice` and `Server` share no state with these that a property depends on.

`PROJECT.json` maps each definition to the lines it models. A definition whose name
is that of another with a suffix (`InRoom_KeyOnly`, `Pages_NoOffset`) is a plausible
mistake in that code: with it in place the run and property named under
"mutants" fail. Nothing else uses it.

### Hub

Each action is one blocking operation of one goroutine with the code up to the next
one. `pc[c]` follows `HandleConnection` and then `readPump`:

    new --Connect--> registering --HubRegister--> registered --StartPumps--> reading
        --ReadFails--> leaving --HubUnregister--> left --CloseConn--> gone

`writer[c]`, `hand[c]` and `sendq[c]` are `writePump`, the message it is
writing and the `send` channel. `conn[c]` is the socket: `lost` (the peer or the network
ended it, or the read deadline passed) or `closed` (by us). A `register` or
`unregister` is a rendezvous, so one action moves the client and the hub. `hubPc` is
where `Run` is, between two of its blocking operations: the register case is
`HubRegister`, `HubAddUser` (a Redis transaction, applied or lost), `HubAnnounceJoin` (the
send to `broadcast`, which waits while it is full), the unregister case likewise, and the
broadcast case is `HubReceive` followed by one `FanoutSend` or `FanoutDrop` per client, in
any order, as Go iterates over a map in any order.

Details kept because they matter: a client that is dropped leaves an empty
table in the map where a departing one deletes it (`tableKeys`); `writePump`
still delivers what a closed channel holds; a client whose write fails stays
registered until its `readPump` notices; the announcement of a
connection has the tag `leave` and that of a departure the tag `join`, as in
the code; `RemoveUser` runs for every departure, also when the client had been dropped or
the user has other connections; a restart keeps only Redis.

Abstracted: frames, pings and deadlines are the loss or failure they lead to; the body
of an event is its type, its tag or message, its table and its user; timestamps are left
out (announcements have milliseconds and table events seconds; nothing reads
them back). The mutex has no part in the model: only `Run` touches the map.

`PresenceImplemented` says that this implements `Presence`: each arrival the hub has served may put its
user on the list of its room, each departure may take the user off, the list is told of one before
the user's next one at that table is served, and it changes for no other reason and in no other
room. Users may have any number of connections, one after the other or at once, at one table or at several,
and the process may restart. The mapping gives `Presence` the clients that the hub has taken from
`register` and not yet from `unregister` (`Attached`), the Redis sets, and the client the hub is about to
write to Redis (`DueClients`).

What the list does *not* promise is that a connected user is on it. It has users, not connections:
the first of a user's connections at a table to leave takes the user off (`hub.go:98`), a write may be
lost, and an entry may outlive its process. `ListFollowsAnnouncements` (in `HubFeed`) says what a
list without failures or restarts means: it has the users whose last announcement is one of a connection, so that
a peer who keeps the list from the announcements and one who reads it from Redis see the same, right or
wrong.

`Wedged` is the hub waiting to send its own announcement into a full `broadcast`. The
liveness properties say that nothing else stops the hub.

### HubFeed and TableFeed

`log[t]` is what the hub took from `broadcast` for table `t`, `start[c]` how long that
was when `c` was registered, `got[c]` what `writePump` has written. Every step
of `Hub` has exactly one counterpart here (theorem `RecordedStep` of `HubFeedProofs`
is the inclusion); the history is never read. `TableFeed` promises nobody the end of the
sequence, since a slow or broken client is dropped.

### TableEvents

`stage[m]` is the goroutine of message `m` in `handleTableEvent`: `Receive`, then for a
roll `Roll` (the created_at is taken here, before the insert) and the insert, which
succeeds, fails (perhaps using up an id), or succeeds and loses its answer; then the push to
Redis, whose error is only logged; then the send. `Answer` is any other event: `ProcessTableEvent`
answers it with the type of a roll, id 0 and the request as its content (`event_service.go:197-201`), and
nothing is saved. What is pushed and sent is an event with the type of the *answer*: `KindOf` is what was asked
for, `type` what the table is told, and the two differ.
`HandleSystemEvent` is the hub's announcement: `ProcessSystemEvent` returns without
doing anything, so it is only broadcast. `Pages(t)` is the set of answers `GetTableFeed`'s
`ORDER BY created_at DESC LIMIT` allows, ties in any order.

A message of `Faulty` decodes without an event, or names a die without faces. Its goroutine
panics where the code would (`Panic`), nothing recovers it, and the process ends as in a
restart, with the other goroutines wherever they are.

So a table is told of "rolls" that no store but its Redis feed has. `ToldRollsAreSaved` says exactly which: a
told roll has the id of its row, or has id 0, asked for no roll and has no row; no failure turns
a roll that was made into one with id 0. `HistoryShowsToldRolls` says the same of what a page shows.

A roll that is saved may never be told: the process may end, or the answer of the
insert may be lost. The code accepts that and no property denies it. The orders of
Postgres, the Redis feed and the broadcast may differ from each other, too.

### Tabula and RollBook

The hub is reduced to what matters between stores and players: the content of `broadcast`, the
order in which it takes it (`log`), and the announcement it owes (`owed`) before it may serve
another case. That a connection gets a run of the log is `HubFeed`'s part. Any number of other
goroutines send at any time. A player is registered, may leave, and asks for
`GET /table/{id}/feed` once, at any time; the answer is a page of Postgres at that moment, or an
error, which the handler drops and answers as an empty page.

`CatchUp` is claimed for a player who asks once an event has arrived over its websocket
(`asked = "late"`). The upgrade is answered before the hub has the client, so one who asks as soon
as the socket opens may miss a roll that the hub takes in between; the code gives no such player
a promise.

`RollBook` knows no stores, channel or restarts. Its book is the rows, what it tells
is the log: of each event the message, the type and whether it has an id (`Numbered`).

### Listing

`created_at` is the time at which the insert begins and the row appears at its commit, so a
table may turn up below younger ones. A page is any slice that `ORDER BY created_at DESC
LIMIT OFFSET` allows, ties in any order. The reader asks for the next page from as many rows as it
has been given, until one is empty. A `limit` that `getQueryInt` rejects is `DefaultLimit`, larger
ones are cut to `MaxLimit`, and 0 passes both and means no limit (to bun, which is not part of `src/`).

### Server

`main` is where `main()` is. `createTables` is one statement at a time and each
may take effect although its answer is lost; a start may be cut off anywhere and the next one
starts over what is there. The listener has its own goroutine: a signal may come before it
has bound the port. `Shutdown` waits for handlers, up to its deadline, and not for
hijacked connections.

### Accounts

One step per statement. `GetByUsername` returns its error beside a user that is not nil
and `CreateUser` drops the error, so a failed lookup is answered as a taken name:
`CheckUsernameFails`. Unique columns and `created_by`'s reference to `users(id)` are
guards of the inserts. The services build their rows without the request's password and
description; those columns have no bearing here and are left out.

### Dice

Every type of roll goes to `ProcessSkillRoll`. The loop is modelled throw by throw
in `Width`-bit integers that wrap; `rand.IntN` panics when dice have no faces; an amount
that is not positive throws nothing.

## Runs

TLC checks deadlock in every run but `hub_fair`, `hub_wedge`, `server`, `hub_presence` and `hub_tables`. The
other `MC` modules let a finished instance stutter (`Terminated`), so that a deadlock is a state where
someone still waits. The three runs with fairness use the specification itself, in which
the finitely many connections or starts of the instance end, and in `hub_presence` and `hub_tables` the
hub may come to wait for itself, which is a deadlock of the code (`hub_wedge`); these five say
`CHECK_DEADLOCK FALSE`.

| Run | Instance | Shows |
|---|---|---|
| `hub_tables` | 3 connections of one user, two at one table and one at another (the two are alike: symmetry), `SendCap` 1, `BroadcastCap` 2, 1 restart | `TypeOK`, `NoChannelPanic`, `NoLimbo`, `TableIsolation`, `NoGhostUsers`, `UserRoomListed`, `PresenceImplemented` |
| `hub_presence` | the same 3 connections, Redis may fail, `BroadcastCap` 1 | `UserRoomListed`, `PresenceImplemented` |
| `hub_fair` | 2 connections of one user, 1 message, `BroadcastCap` 2, fairness | `EndedConnectionsLeave`, `EventsGetThrough` |
| `feed` | 2 connections of one user, 1 message, `SendCap` 2 | `QueuesHoldTheLog`, `PresenceFromAnnouncements`, `ListFollowsAnnouncements`, `FeedImplemented` |
| `events` | 3 rolls at 2 tables, one of them faulty, another event, an announcement, 2 instants, 1 restart, feed of 2, page of 1 | `TypeOK`, `ToldRollsAreSaved`, `NoDuplicateRows`, `FeedAgreesWithState`, `HistoryShowsToldRolls` |
| `tabula` | 2 rolls and another event at the player's table and a faulty roll at another, 1 player with its announcements, 2 instants, feed of 1, page of 1 | `TabulaTypeOK`, `CatchUp`, `RollBookImplemented` |
| `accounts` | 4 registrations for 2 names and 2 emails, 2 tables, 2 connections, 1 restart | `TypeOK`, `UsersUnique`, `CreatedIsOwner`, `RefusedLeavesNothing`, `TablesOwned`, `AdmittedExist` |
| `listing` | 4 tables, 4 instants, limits absent, 0, 1 and above the maximum of 2 | `TypeOK`, `PagesMissNothing`, `RepeatsBounded` |
| `dice` | every formula of up to 2 groups, 4-bit integers | `ReportIsConsistent`, `PanicsOnlyWithoutFaces` |
| `server` | 3 starts, 2 requests and a websocket, fairness | `TypeOK`, `ServesCompleteSchema`, `NoHandlerMeetsClosedStore`, `StopsWhenAsked` |

Two more runs, `hub_wedge` and `hub_tags`, are expected to fail; see below.

Why the bounds are enough to see the interesting cases:

* `SendCap` 1: the second event for a client that has not been read drops it, so drops
  meet departures, restarts and each other. `SendCap` 2 in `feed`, so that a queue has an
  order.
* `BroadcastCap` 5 in `feed`: room for every event of the instance, so that TLC's deadlock check has
  something to find there beside the wedge of `hub_wedge`. In `hub_presence`, `hub_tables` and
  `hub_fair` the channel is smaller than what may be waiting for it, and the hub does come to wait
  for itself; the properties hold all the same, or say `Wedged`. The proofs are for every capacity.
* `hub_tables`, `hub_presence`: a user with two connections at a table and one at another, so that it
  reconnects, is there twice, and leaves one room for the other, and the late departure of an old
  connection meets the arrival of a new one. There are no messages: announcements fill the buffers as
  well as table events do, and `feed` and `hub_fair` have both. Failing transactions and a restart are in
  a run each: both together exceed what TLC can do with three connections in a few minutes.
* A feed of 2 and three pushes at `t1`: the trim happens. A page of 1 and two rolls at
  `t1` at one of two instants: the limit cuts, ties occur, and a row may be inserted after a
  younger one. `m1` and `m2` are alike, hence the symmetry.
* `tabula`: two rolls and a page of one, so that a full page has to be the only excuse for a roll
  that is missing; one may be told before the player's run begins and the other in it, and the
  row of either may come first. The event that is no roll is told between or beside them. The process ends with the
  panic of the faulty roll, which may be received at any time, also with events in the channel; signals as
  another cause of the same (`Restart`) are left to `events`. `sent`, `eventCount` and `lastEvent`, which
  nothing in this run reads, are left out of its `VIEW`.
* `listing`: four tables and pages of 1 and 2, so that a page begins in the middle of a list
  that has shifted by more than its length; four instants so that all four may differ.
* `server`: three starts, so that two may be cut off in different places of
  `createTables` and the third has to complete the schema; a second start may also follow a whole life.
* Lengths in `Accounts` sit on the bounds of the validation (3, 30, 31, 50).
* Four bits wrap: up to four throws of up to 3 and a modifier of -8 to 7 leave their range in the loop, at the
  modifier, or in the loop and back at the modifier.

### Fairness

`hub_fair` assumes weak fairness for each goroutine's next step: calls to stores return
(they have deadlines), a write to a socket ends within `writeWait`, and
the Go scheduler runs what can run. `writePump`'s progress (`WriterProgress`) includes a
failing write only where it holds a message or the connection is closed, in which case the next ping
fails at the latest: a healthy connection is never assumed to break. The three cases of
`Run`'s `select` have strong fairness, since Go picks at random among the ready ones.
Nothing makes a peer connect, send or disconnect.

`server` assumes weak fairness of `main`'s next step, which includes the deadline of
`Shutdown`, and nothing of handlers, peers or signals: handlers query Postgres under the request's
context and may never return.

## Where the code and its comments differ

Two runs check what a comment of the repository says, and fail:

* `hub_wedge` (`AnnouncementsAreSent`): the hub sends its announcement into
  `broadcast`, which only the hub drains. If table events fill it while the hub serves a
  register or unregister, the send waits for ever, and every table with it. Needs as many
  waiting events as the buffer holds (512).
* `hub_tags` (`ConnectionsSentAsJoin`): connections are announced with the tag `leave`,
  departures with `join`. Presence kept from announcements still balances
  (`PresenceFromAnnouncements`) for a peer that knows.

Smaller ones, seen while modelling and not given a run:

* The first of a user's two connections at a table to end takes the user off the room's list in
  Redis, and until the next arrival a connected user is not listed. No text of the repository says
  whom the list holds, so there is no run for it; `Presence` and `ListFollowsAnnouncements` state what it does hold.
* Events that are no rolls (`char_add`, `char_rm` in `internal/domain/events.go:23-24`, or any other type) are answered as
  rolls with id 0 (`internal/service/event_service.go:199`), so a peer can tell them from rolls only by the id, and
  they are in no history.
* Nothing removes the users of an ended process from `room:users`.
* A failed lookup of a free name is answered "username already taken" (`CheckUsernameFails`).
* `internal/api/http/handlers.go:219` drops the error of the feed's query: it is answered 200 with no
  events (`LoadFeedFails`).
* `internal/api/http/handlers.go:150` says that the maximal limit is bounded, but `limit=0` passes `getQueryInt` and
  the clamp, and bun makes the query without a limit: the page holds every table (`Pages`).
* `pagination.total` of `GET /tables` is the length of the page.
* The comment at `internal/websocket/hub.go:79` says the announcement is saved to the database, and
  nothing saves it; `internal/service/table_service.go:67` says the feed is first looked for in the
  cache, and only Postgres is read.
* `validateCreateUser` accepts a length of exactly 30 where its message asks for less than 30.

## Proofs

All theorems hold for any finite or infinite sets of tables, users, clients and messages and any
capacities, widths, formulas and limits, under the constants' assumptions only (`HubAssumption`,
`EventsAssumption`, `TabulaAssumption`, `AccountsAssumption`, `ServerAssumption`, `DiceAssumption`,
`ListingAssumption`). Each is proved from an invariant that holds initially and is kept by every
action, one step of the proof per action.

* **`HubProofs`.** `TypeInv` is `TypeOK` and what each place of `Run` knows about its local
  variables (there is a client while a case is served). `ChannelInv` relates the hub's map to
  the channels: a client in a table's set is attached, its table has an entry and its channel is
  open (`MembersOK`); one that is attached and in no set has a closed channel and one
  not yet registered an open one (`OthersOK`); what a broadcast has still to visit is in the set of the event's
  table (`FanoutOK`). None of the three is inductive without the others:
  `FanoutOK` is what keeps a fan-out from sending on closed channels, `MembersOK` what makes the
  close of an unregister the first one. From these: `ChannelSafety` (`NoChannelPanic`),
  `NobodyInLimbo` (`NoLimbo`), `Isolation` (`TableIsolation`). `UserRoomsListed` needs
  types only; `GhostFree` (`NoGhostUsers`) needs in addition that the client whose
  arrival the hub is about to write to Redis is still attached: its departure has to wait for the
  hub.
  `HubKeepsPresence` (`PresenceImplemented`) from `PlaceInv`: while
  the hub writes an arrival to Redis its client is attached, and while it writes a departure the
  client is not. So the write is the one `Presence` allows for that client, and as the hub serves no other
  case meanwhile, the list is up to date when the next arrival or departure is served (`DueNext`).
* **`HubFeedProofs`.** `LogInv` adds to these who has joined, that a client not yet
  registered has been sent nothing, that `writePump` holds one message at most and that
  what the hub hands out is the last event of the log. With it
  `QueuesHoldTheLog` is inductive (`QueuesCorrect`), and every step of the hub is a step of
  `TableFeed` or leaves the history alone: `HubImplementsFeed`. `FeedsAgree`, a consequence of
  `TableFeed` alone, from the invariant that each peer has a run of the log: two peers of a table have
  the same event at every place of its sequence that both have seen. The two together are
  `PeersSeeTheSame`.
  `PresenceIsAnnounced` (`PresenceFromAnnouncements`): the balance is inductive once it says that a
  table's connections are finitely many. What it takes are lemmas about counting places in
  a sequence: an event appended is one more (`PlacesAppend`), and taking the first one away leaves as
  many as there were but for its own, since the others only move (`PlacesTail`, a bijection).
* **`TableEventsProofs`.** `TypeCorrect`; `RowsUnique` (`NoDuplicateRows`) from `RowsInv`: ids are above 0 and
  below the sequence, rows belong to rolls past their insert, a goroutine past it carries the id of its row, and
  one that asked for no roll carries 0. `ToldIsSaved` (`ToldRollsAreSaved`) from `ToldInv`: whatever was sent
  or is in a feed is as it was answered (`AsAnswered`), which with `RowsInv` makes it true to its id
  (`AnswersAreTrue`): a row has no id 0, and no row holds an event that is no roll. `FeedAgrees`
  (`FeedAgreesWithState`); `HistoryShows` (`HistoryShowsToldRolls`), from `StampInv`, that a row's
  `created_at` is its roll's stamp, and `PagesShowRows`: what a page leaves out is not younger than anything on it.
* **`TabulaProofs`.** `TabulaTypeCorrect`. `TabulaKeepsTheBook` (`RollBookImplemented`) from `TellInv`: whatever is in the
  channel or told has left its goroutine, is as it was answered, and is in one of the two once.
  Without the part about the channel the step `Take` could tell a table something twice;
  without the part about goroutines the step `SendToHub` could. As it was answered an event is the line the
  book has for it (`LineOfAnswer`). `PlayersCatchUp` (`CatchUp`): a run begins within the log, which
  only grows at its end (`LogGrows`), so that what was told before is, by `HistoryShows`' lemma, on any
  page asked for afterwards, and rows do not go away.
* **`AccountsProofs`.** `AccountsTyped`; `NamesUnique` and `CreatedOwns` from `UsersInv` (each row has the ids, name and email
  of the registration that made it, and each 201 its row); `RefusedIsHarmless`;
  `TablesHaveOwners` from `OwnersInv`; `AdmittedAreReal` from `AdmissionInv`, what a connection has found so far
  and nothing deletes.
* **`ServerProofs`.** `ServerTyped`; `SchemaBeforePort` (`ServesCompleteSchema`) from `SchemaInv`: the statements behind `main`
  have their relation, all of them once it is past `createTables`, and the port is bound only
  while it waits; `HandlersHaveStores` (`NoHandlerMeetsClosedStore`) from `HandlersInv`: no handler runs
  or can start once `main` is past `Shutdown`.
* **`DiceProofs`.** `ReportsAreConsistent` (`ReportIsConsistent`) and `OnlyFacelessPanic`
  (`PanicsOnlyWithoutFaces`) from `DiceInv`: the groups done have as many throws as asked for and all
  within their faces, the group under way no more than that, and the sum so far is, wrapped, that of all
  throws. That wrapping at every addition is the same as wrapping once at the end is `WrapAdd`; that a
  sum which is an int is its own wrapping is `WrapInRange`. `Sum` and `Thrown` are recursive functions; what they are is proved
  from the partial sums they are the last of (`SumIs`), by the least number for which a statement would fail
  (`LeastNatural`), the form of induction that needs no operator as a parameter.
* **`ListingProofs`.** `ListingTyped`. `ReadersMissNothing`
  (`PagesMissNothing`) from `MissInv`: of each table the reader is still owed, and that shares its
  `created_at` with no other, at least as many are younger as the reader has been given. Tables that come
  in above only add to them; a page that does not hold the table ends above it, and an empty page ends
  below everything. `RepeatsAreBounded` (`RepeatsBounded`) from the same invariant: all that is above
  the youngest table still owed has been given or has come in.

Model-checked only: liveness (`EndedConnectionsLeave`, `EventsGetThrough`, `StopsWhenAsked`), which is
outside what the prover does, and `ListFollowsAnnouncements`. Every other invariant and every refinement that a
passing run checks is also a theorem.

## Not modelled

* HTTP plumbing (`utils.go` but for `getQueryInt`, `middlewares.go`): encoding of answers, CORS.
* Reads by key without effect (`GetUser`, `GetTable`), `HealthCheck`, configuration, build
  and deployment.
* `UserCache`: constructed and handed to the hub, never called. Likewise `ClearRoom`,
  `GetUsers`, `GetRecentEvents`, `GetTableFeedText`, and the repositories' `Update` and `Delete`.
* Decoding: a message that does not decode is skipped and changes nothing.
* Timestamps, titles and other text.

## Plan

Done, in this order: `Hub`, its proofs, `TableEvents` and its proofs, `Accounts`,
`TableFeed` and `HubFeed` with the refinement, `Dice`, `Server`, `RollBook` and `Tabula`,
`Presence`, `Listing`, and the proofs about all of these.

Left: `ListFollowsAnnouncements` as a theorem, from the order of announcements in the log, the channel and
the hub; the safety half of `EndedConnectionsLeave` (that each goroutine an ended connection waits
for has a step to take, or the hub is `Wedged`) as an invariant.
