------------------------------- MODULE Server -------------------------------
(***************************************************************************)
(* The life of the process (main.go): Postgres and its schema, Redis, the  *)
(* listener in a goroutine of its own, a signal, http.Server.Shutdown and  *)
(* the deferred closing of the stores; and the HTTP requests it serves     *)
(* meanwhile, some of which become websockets.                             *)
(*                                                                         *)
(* Shutdown waits for requests that are being served, not for connections  *)
(* a handler has hijacked.  A log.Fatal ends the process at once, without  *)
(* the deferred calls, and so does a kill.                                 *)
(***************************************************************************)
EXTENDS Naturals, Sequences, FiniteSets

CONSTANTS
  Requests,   \* HTTP requests ...
  Sockets,    \* ... and those of them to /ws
  MaxStarts   \* bound on the starts of the process

ASSUME ServerAssumption == Sockets \subseteq Requests /\ MaxStarts \in Nat

\* What createTables creates, in its order, and what each refers to.
Relations_EventsFirst ==
  <<"users", "table_events", "tables", "idx_table_id", "idx_created_at">>
Relations ==
  <<"users", "tables", "table_events", "idx_table_id", "idx_created_at">>
Needs(x) ==
  CASE x = "users" -> {}
    [] x = "tables" -> {"users"}
    [] x = "table_events" -> {"users", "tables"}
    [] OTHER -> {"table_events"}

VARIABLES
  main,     \* where main() is; "down" without a process
  next,     \* the statement of createTables that comes next
  schema,   \* the relations Postgres has
  listener, \* "off", "launched" (its goroutine is), "open" or "closed"
  quit,     \* a signal is in the channel quit
  request,  \* what has become of each request
  starts

vars == <<main, next, schema, listener, quit, request, starts>>

TypeOK ==
  /\ main \in {"down", "postgres", "creating", "redis", "waiting", "draining",
               "closeRedis", "closeDb", "exit"}
  /\ next \in 1..Len(Relations) + 1
  /\ schema \subseteq {Relations[i] : i \in 1..Len(Relations)}
  /\ listener \in {"off", "launched", "open", "closed"}
  /\ quit \in BOOLEAN
  /\ request \in [Requests -> {"new", "active", "hijacked", "answered",
                               "storeClosed", "cut"}]
  /\ starts \in 0..MaxStarts

Init ==
  /\ main = "down"
  /\ next = 1
  /\ schema = {}
  /\ listener = "off"
  /\ quit = FALSE
  /\ request = [r \in Requests |-> "new"]
  /\ starts = 0

\* The deferred db.Close() has not run.
DbOpen == main \notin {"down", "exit"}

-----------------------------------------------------------------------------
\* The process is gone, and with it every connection.
Exit ==
  /\ main' = "down"
  /\ listener' = "off"
  /\ quit' = FALSE
  /\ request' = [r \in Requests |->
                   IF request[r] \in {"active", "hijacked"} THEN "cut" ELSE request[r]]
  /\ UNCHANGED <<next, starts>>

Goto(place) == main' = place /\ UNCHANGED <<listener, quit, request, starts>>

Start ==
  /\ main = "down"
  /\ starts < MaxStarts
  /\ starts' = starts + 1
  /\ main' = "postgres"
  /\ next' = 1
  /\ UNCHANGED <<schema, listener, quit, request>>

\* initPostgres: the ping.
PingPostgres == main = "postgres" /\ Goto("creating") /\ UNCHANGED <<next, schema>>

\* One CREATE ... IF NOT EXISTS.  Postgres refuses it without what it refers to.
Create ==
  /\ main = "creating"
  /\ next <= Len(Relations)
  /\ Needs(Relations[next]) \subseteq schema
  /\ schema' = schema \cup {Relations[next]}

CreateRelation == Create /\ next' = next + 1 /\ Goto("creating")

TablesCreated ==
  /\ main = "creating"
  /\ next > Len(Relations)
  /\ Goto("redis")
  /\ UNCHANGED <<next, schema>>

\* initRedis; then main launches the listener and waits for a signal.
Launch ==
  /\ main = "redis"
  /\ main' = "waiting"
  /\ listener' = "launched"
  /\ UNCHANGED <<next, schema, quit, request, starts>>

\* A store does not answer, or refuses: log.Fatal.  A statement may have been
\* executed all the same.
StartFails_Ignored ==
  main = "creating" /\ next' = next + 1 /\ Goto("creating") /\ UNCHANGED schema
StartFails ==
  /\ main \in {"postgres", "creating", "redis"}
  /\ Exit
  /\ Create \/ UNCHANGED schema

\* ListenAndServe: binds the port, or cannot and ends the process.
Listen ==
  /\ listener = "launched"
  /\ \/ listener' = "open" /\ UNCHANGED <<main, next, schema, quit, request, starts>>
     \/ Exit /\ UNCHANGED schema

-----------------------------------------------------------------------------
\* SIGTERM or SIGINT; further ones stay in the channel unread.
Signal ==
  /\ main \in {"waiting", "draining"}
  /\ quit' = TRUE
  /\ UNCHANGED <<main, next, schema, listener, request, starts>>

\* main receives it and calls Shutdown, which closes the listener; one that
\* was not open yet never is.
Shutdown ==
  /\ main = "waiting"
  /\ quit
  /\ main' = "draining"
  /\ listener' = "closed"
  /\ UNCHANGED <<next, schema, quit, request, starts>>

\* Shutdown returns once no handler is running.
Idle_Assumed == TRUE
Idle == \A r \in Requests : request[r] # "active"
Drained == main = "draining" /\ Idle /\ Goto("closeRedis") /\ UNCHANGED <<next, schema>>

\* ... or its 30 seconds are over: log.Fatal.
DrainTimesOut_Never == FALSE
DrainTimesOut == main = "draining" /\ Exit /\ UNCHANGED schema

\* The deferred calls, the last one first; then main returns.
CloseRedis == main = "closeRedis" /\ Goto("closeDb") /\ UNCHANGED <<next, schema>>
CloseDb    == main = "closeDb" /\ Goto("exit") /\ UNCHANGED <<next, schema>>
Return     == main = "exit" /\ Exit /\ UNCHANGED schema

\* SIGKILL, a panic of a goroutine, or a signal that comes before Notify.
Kill == main # "down" /\ Exit /\ (Create \/ UNCHANGED schema)

-----------------------------------------------------------------------------
Becomes(r, s) ==
  /\ request' = [request EXCEPT ![r] = s]
  /\ UNCHANGED <<main, next, schema, listener, quit, starts>>

Accept(r) == request[r] = "new" /\ listener = "open" /\ Becomes(r, "active")

\* A handler's statements, and its answer, or its upgrade to a websocket.
Answer(r) ==
  /\ request[r] = "active"
  /\ \/ DbOpen /\ Becomes(r, "answered")
     \/ DbOpen /\ r \in Sockets /\ Becomes(r, "hijacked")
     \/ ~DbOpen /\ Becomes(r, "storeClosed")

\* The peer of a websocket leaves.
Hangup(r) == request[r] = "hijacked" /\ Becomes(r, "answered")

MainStep ==
  \/ Start \/ PingPostgres \/ CreateRelation \/ TablesCreated \/ Launch
  \/ StartFails \/ Shutdown \/ Drained \/ DrainTimesOut
  \/ CloseRedis \/ CloseDb \/ Return
RequestStep(r) == Accept(r) \/ Answer(r) \/ Hangup(r)

Next ==
  \/ MainStep \/ Listen \/ Signal \/ Kill
  \/ \E r \in Requests : RequestStep(r)

\* main runs when it can, and its timers fire.  Nothing is assumed of the
\* handlers: they call Postgres without a deadline.
Spec == Init /\ [][Next]_vars
FairSpec == Spec /\ WF_vars(MainStep)

-----------------------------------------------------------------------------
\* Whatever starts were cut off where, the port is only bound over a complete
\* schema, and no relation is there, or about to be created, without those it
\* refers to.
ServesCompleteSchema ==
  /\ listener = "open" => schema = {Relations[i] : i \in 1..Len(Relations)}
  /\ \A x \in schema : Needs(x) \subseteq schema
  /\ main = "creating" /\ next <= Len(Relations) => Needs(Relations[next]) \subseteq schema

\* No handler that Shutdown knows finds its database closed, at whatever point
\* the signal came.
NoHandlerMeetsClosedStore == \A r \in Requests : request[r] # "storeClosed"

\* A process asked to stop does, with handlers that never return, websockets
\* that stay and more signals coming.
StopsWhenAsked == quit ~> main = "down"
=============================================================================
