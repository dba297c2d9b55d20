---------------------------- MODULE ServerProofs ----------------------------
(***************************************************************************)
(* Theorems about Server, for any requests and any number of starts.       *)
(***************************************************************************)
EXTENDS Server, TLAPS

AllRelations == {Relations[i] : i \in 1..Len(Relations)}

LEMMA RelationFacts ==
  /\ Len(Relations) = 5
  /\ Relations[1] = "users" /\ Relations[2] = "tables" /\ Relations[3] = "table_events"
  /\ Relations[4] = "idx_table_id" /\ Relations[5] = "idx_created_at"
BY DEF Relations

\* The order of createTables: what a statement refers to has come before it.
LEMMA NeedsCameBefore ==
  ASSUME NEW n \in 1..Len(Relations), NEW x \in Needs(Relations[n])
  PROVE  \E i \in 1..n - 1 : Relations[i] = x
<1>1. n \in {1, 2, 3, 4, 5}
  BY RelationFacts
<1>2. CASE n = 1
  BY <1>2, RelationFacts DEF Needs
<1>3. CASE n = 2
  BY <1>3, RelationFacts DEF Needs
<1>4. CASE n = 3
  BY <1>4, RelationFacts DEF Needs
<1>5. CASE n \in {4, 5}
  BY <1>5, RelationFacts DEF Needs
<1>6. QED BY <1>1, <1>2, <1>3, <1>4, <1>5

-----------------------------------------------------------------------------
LEMMA TypeOKInit == Init => TypeOK
<1>1. 1 \in 1..Len(Relations) + 1
  BY RelationFacts
<1>2. 0 \in 0..MaxStarts
  BY ServerAssumption
<1>3. QED BY <1>1, <1>2 DEF Init, TypeOK

LEMMA TypeOKNext == TypeOK /\ [Next]_vars => TypeOK'
<1> SUFFICES ASSUME TypeOK, [Next]_vars PROVE TypeOK'
  OBVIOUS
<1> USE ServerAssumption DEF TypeOK
<1>1. ASSUME Exit, schema' = schema PROVE TypeOK'
  BY <1>1 DEF Exit
<1>2. Create => schema' \subseteq AllRelations
  BY DEF Create, AllRelations
<1>3. ASSUME Exit, Create PROVE TypeOK'
  BY <1>2, <1>3 DEF Exit, AllRelations
<1>4. CASE Start \/ Launch \/ Shutdown \/ Signal
  <2>1. CASE Start
    <3>1. next' \in 1..Len(Relations) + 1
      BY <2>1, RelationFacts DEF Start
    <3>2. starts' \in 0..MaxStarts
      BY <2>1 DEF Start
    <3>3. QED BY <2>1, <3>1, <3>2 DEF Start
  <2>2. CASE Launch \/ Shutdown \/ Signal
    BY <2>2 DEF Launch, Shutdown, Signal
  <2>3. QED BY <1>4, <2>1, <2>2
<1>5. CASE CreateRelation
  <2>1. schema' \subseteq AllRelations
    BY <1>2, <1>5 DEF CreateRelation
  <2>2. next' \in 1..Len(Relations) + 1
    BY <1>5, RelationFacts DEF CreateRelation, Create
  <2>3. QED BY <1>5, <2>1, <2>2 DEF CreateRelation, Goto, AllRelations
<1>6. CASE PingPostgres \/ TablesCreated \/ Drained \/ CloseRedis \/ CloseDb
  BY <1>6 DEF PingPostgres, TablesCreated, Drained, CloseRedis, CloseDb, Goto
<1>7. CASE StartFails \/ DrainTimesOut \/ Return \/ Kill
  BY <1>1, <1>3, <1>7 DEF StartFails, DrainTimesOut, Return, Kill
<1>8. CASE Listen
  BY <1>1, <1>8 DEF Listen
<1>9. ASSUME NEW r \in Requests, RequestStep(r) PROVE TypeOK'
  BY <1>9 DEF RequestStep, Accept, Answer, Hangup, Becomes
<1>10. CASE UNCHANGED vars
  BY <1>10 DEF vars
<1>11. QED
  BY <1>4, <1>5, <1>6, <1>7, <1>8, <1>9, <1>10 DEF Next, MainStep

\* The process, Postgres' schema and the requests always have their type.
THEOREM ServerTyped == Spec => []TypeOK
BY TypeOKInit, TypeOKNext, PTL DEF Spec

-----------------------------------------------------------------------------
(***************************************************************************)
(* The schema.  The statements that are behind main have their relation,   *)
(* all of them when main has passed createTables, and the port is bound    *)
(* only while main waits.                                                  *)
(***************************************************************************)
Passed == {"redis", "waiting", "draining", "closeRedis", "closeDb", "exit"}

SchemaInv ==
  /\ \A x \in schema : Needs(x) \subseteq schema
  /\ main = "creating" => \A i \in 1..next - 1 : Relations[i] \in schema
  /\ main = "postgres" => next = 1
  /\ main \in Passed => AllRelations \subseteq schema
  /\ listener \in {"launched", "open"} => main = "waiting"

LEMMA SchemaInvNext == TypeOK /\ SchemaInv /\ [Next]_vars => SchemaInv'
<1> SUFFICES ASSUME TypeOK, SchemaInv, [Next]_vars PROVE SchemaInv'
  OBVIOUS
<1> USE DEF Passed
<1>1. Create => schema \subseteq schema' /\ \A x \in schema' : Needs(x) \subseteq schema'
  BY DEF Create, SchemaInv
<1>2. ASSUME Exit, Create \/ schema' = schema PROVE SchemaInv'
  BY <1>1, <1>2 DEF Exit, SchemaInv
<1>3. CASE StartFails \/ DrainTimesOut \/ Return \/ Kill
  BY <1>2, <1>3 DEF StartFails, DrainTimesOut, Return, Kill
<1>4. CASE Start \/ Launch \/ Shutdown \/ Signal
  BY <1>4 DEF Start, Launch, Shutdown, Signal, SchemaInv, TypeOK
<1>5. CASE PingPostgres
  <2>1. next' = 1 /\ main' = "creating" /\ UNCHANGED <<schema, listener>>
    BY <1>5 DEF PingPostgres, Goto, SchemaInv
  <2>2. 1..next' - 1 = {}
    BY <2>1
  <2>3. QED BY <1>5, <2>1, <2>2 DEF PingPostgres, SchemaInv
<1>6. CASE CreateRelation
  <2>1. /\ main = "creating" /\ main' = "creating" /\ next' = next + 1 /\ next \in Nat
        /\ schema' = schema \cup {Relations[next]} /\ UNCHANGED listener
    BY <1>6, RelationFacts DEF CreateRelation, Create, Goto, TypeOK
  <2>2. \A i \in 1..next' - 1 : i \in 1..next - 1 \/ i = next
    BY <2>1
  <2>3. \A i \in 1..next' - 1 : Relations[i] \in schema'
    BY <2>1, <2>2 DEF SchemaInv
  <2>4. QED BY <1>1, <1>6, <2>1, <2>3 DEF SchemaInv, CreateRelation
<1>7. CASE TablesCreated
  <2>1. next - 1 = Len(Relations)
    BY <1>7, RelationFacts DEF TablesCreated, TypeOK
  <2>2. AllRelations \subseteq schema
    BY <1>7, <2>1 DEF TablesCreated, SchemaInv, AllRelations
  <2>3. QED BY <1>7, <2>2 DEF TablesCreated, Goto, SchemaInv
<1>8. CASE Drained \/ CloseRedis \/ CloseDb
  BY <1>8 DEF Drained, CloseRedis, CloseDb, Goto, SchemaInv
<1>9. CASE Listen
  BY <1>2, <1>9 DEF Listen, SchemaInv
<1>10. CASE UNCHANGED <<main, next, schema, listener>>
  BY <1>10 DEF SchemaInv
<1>11. ASSUME NEW r \in Requests, RequestStep(r)
       PROVE  UNCHANGED <<main, next, schema, listener>>
  BY <1>11 DEF RequestStep, Accept, Answer, Hangup, Becomes
<1>12. QED
  BY <1>3, <1>4, <1>5, <1>6, <1>7, <1>8, <1>9, <1>10, <1>11 DEF Next, MainStep, vars

\* Whatever starts were cut off where, the port is bound over a complete
\* schema, and no statement of createTables comes before what it refers to.
THEOREM SchemaBeforePort == Spec => []ServesCompleteSchema
<1>1. Init => SchemaInv
  BY DEF Init, SchemaInv, Passed
<1>2. ASSUME TypeOK, SchemaInv PROVE ServesCompleteSchema
  <2>1. listener = "open" => schema = {Relations[i] : i \in 1..Len(Relations)}
    BY <1>2 DEF SchemaInv, Passed, TypeOK, AllRelations
  <2>2. ASSUME main = "creating", next <= Len(Relations), NEW x \in Needs(Relations[next])
        PROVE  x \in schema
    <3>1. next \in 1..Len(Relations)
      BY <1>2, <2>2, RelationFacts DEF TypeOK
    <3>2. PICK i \in 1..next - 1 : Relations[i] = x
      BY <3>1, <2>2, NeedsCameBefore
    <3>3. QED BY <1>2, <2>2, <3>2 DEF SchemaInv
  <2>3. QED BY <1>2, <2>1, <2>2 DEF ServesCompleteSchema, SchemaInv
<1>3. TypeOK /\ SchemaInv => ServesCompleteSchema
  BY <1>2
<1>4. QED BY <1>1, <1>3, TypeOKInit, TypeOKNext, SchemaInvNext, PTL DEF Spec

-----------------------------------------------------------------------------
(***************************************************************************)
(* The handlers.  Once main is past Shutdown, or before it listens, none   *)
(* is running and none can start.                                          *)
(***************************************************************************)
HandlersInv ==
  /\ listener \in {"launched", "open"} => main = "waiting"
  /\ main \notin {"waiting", "draining"} => Idle
  /\ NoHandlerMeetsClosedStore

LEMMA HandlersInvNext == TypeOK /\ HandlersInv /\ [Next]_vars => HandlersInv'
<1> SUFFICES ASSUME TypeOK, HandlersInv, [Next]_vars PROVE HandlersInv'
  OBVIOUS
<1> USE DEF HandlersInv, Idle, NoHandlerMeetsClosedStore
<1>1. ASSUME Exit PROVE HandlersInv'
  BY <1>1 DEF Exit
<1>2. CASE StartFails \/ DrainTimesOut \/ Return \/ Kill
  BY <1>1, <1>2 DEF StartFails, DrainTimesOut, Return, Kill
<1>3. CASE Start \/ Launch \/ Shutdown \/ Signal
  BY <1>3 DEF Start, Launch, Shutdown, Signal
<1>4. CASE PingPostgres \/ CreateRelation \/ TablesCreated \/ Drained \/ CloseRedis \/ CloseDb
  BY <1>4 DEF PingPostgres, CreateRelation, Create, TablesCreated, Drained, CloseRedis,
     CloseDb, Goto
<1>5. CASE Listen
  BY <1>1, <1>5 DEF Listen
<1>6. ASSUME NEW r \in Requests, Accept(r) PROVE HandlersInv'
  BY <1>6 DEF Accept, Becomes, TypeOK
<1>7. ASSUME NEW r \in Requests, Answer(r) PROVE HandlersInv'
  <2>1. DbOpen
    BY <1>7 DEF Answer, DbOpen
  <2>2. QED BY <1>7, <2>1 DEF Answer, Becomes, TypeOK
<1>8. ASSUME NEW r \in Requests, Hangup(r) PROVE HandlersInv'
  BY <1>8 DEF Hangup, Becomes, TypeOK
<1>9. CASE UNCHANGED vars
  BY <1>9 DEF vars
<1>10. QED
  BY <1>2, <1>3, <1>4, <1>5, <1>6, <1>7, <1>8, <1>9 DEF Next, MainStep, RequestStep

\* No handler finds the database closed, at whatever point signals, failures
\* and kills come.
THEOREM HandlersHaveStores == Spec => []NoHandlerMeetsClosedStore
<1>1. Init => HandlersInv
  BY DEF Init, HandlersInv, Idle, NoHandlerMeetsClosedStore
<1>2. HandlersInv => NoHandlerMeetsClosedStore
  BY DEF HandlersInv
<1>3. QED BY <1>1, <1>2, TypeOKInit, TypeOKNext, HandlersInvNext, PTL DEF Spec
=============================================================================
