------------------------------ MODULE Accounts ------------------------------
(***************************************************************************)
(* Users, tables and admission: the HTTP handlers RegisterUser and         *)
(* CreateTable (internal/api/http) over UserService, TableService and      *)
(* their repositories, and the checks HandleConnection makes before it     *)
(* admits a websocket (internal/websocket/handlers.go).                    *)
(*                                                                         *)
(* Every request runs in a goroutine of its own.  A step is one statement  *)
(* sent to Postgres with the code up to the next one: a check and the      *)
(* insert that relies on it are two steps, and other requests come         *)
(* between.  A statement may fail, or take effect and lose its answer.     *)
(***************************************************************************)
EXTENDS Naturals, FiniteSets

CONSTANTS
  Registrations,  \* POST /user/register requests ...
  NameOf,         \* ... their username
  EmailOf,        \* ... their email
  PasswordLen,    \* ... the length of their password
  Creations,      \* POST /table requests ...
  CreatorOf,      \* ... the username in createdBy
  TitleLen,       \* ... the length of the table's name
  Connections,    \* GET /ws requests ...
  UserIdOf,       \* ... their user_id
  TableIdOf,      \* ... their table_id
  Names, Emails,
  NameLen,        \* length of a username
  EmailLen,       \* length of an email
  MaxRestarts

ASSUME AccountsAssumption ==
  /\ NameOf \in [Registrations -> Names]
  /\ EmailOf \in [Registrations -> Emails]
  /\ PasswordLen \in [Registrations -> Nat]
  /\ CreatorOf \in [Creations -> Names]
  /\ TitleLen \in [Creations -> Nat]
  /\ UserIdOf \in [Connections -> Nat]
  /\ TableIdOf \in [Connections -> Nat]
  /\ NameLen \in [Names -> Nat]
  /\ EmailLen \in [Emails -> Nat]
  /\ MaxRestarts \in Nat

VARIABLES
  regPc,      \* each registration: where it is, or how it was answered
  createPc,   \* each creation
  creator,    \* the user id it has looked up
  wsPc,       \* each connection
  users,      \* Postgres table users
  nextUser,   \* ... and its sequence
  tables,     \* Postgres table tables
  nextTable,  \* ... and its sequence
  restarts

regVars    == <<regPc, users, nextUser>>
createVars == <<createPc, creator, tables, nextTable>>
vars == <<regPc, createPc, creator, wsPc, users, nextUser, tables, nextTable, restarts>>

UserRows  == [id : Nat, name : Names, email : Emails, by : Registrations]
TableRows == [id : Nat, creator : Nat, by : Creations]

\* A request on its way, and how it can end: "lost" went with its process.
Busy == {"check", "insert", "checkUser", "upgrade"}

TypeOK ==
  /\ regPc \in [Registrations -> {"new", "check", "insert", "created", "taken",
                                  "invalid", "error", "lost"}]
  /\ createPc \in [Creations -> {"new", "check", "insert", "created", "notFound",
                                 "invalid", "error", "lost"}]
  /\ creator \in [Creations -> Nat]
  /\ wsPc \in [Connections -> {"new", "checkUser", "upgrade", "admitted",
                               "notFound", "error", "lost"}]
  /\ users \in SUBSET UserRows
  /\ nextUser \in Nat
  /\ tables \in SUBSET TableRows
  /\ nextTable \in Nat
  /\ restarts \in 0..MaxRestarts

Init ==
  /\ regPc = [r \in Registrations |-> "new"]
  /\ createPc = [q \in Creations |-> "new"]
  /\ creator = [q \in Creations |-> 0]
  /\ wsPc = [c \in Connections |-> "new"]
  /\ users = {}
  /\ nextUser = 1
  /\ tables = {}
  /\ nextTable = 1
  /\ restarts = 0

-----------------------------------------------------------------------------
\* validateCreateUser, isValidEmail and validateCreateTable.
ValidUser(r) ==
  /\ NameLen[NameOf[r]] \in 3..30
  /\ PasswordLen[r] \in 3..30
  /\ EmailLen[EmailOf[r]] \in 4..99

ValidTable(q) == TitleLen[q] \in 3..50

UserNamed(name) == {u \in users : u.name = name}

\* The unique columns of table users.
Admissible_NameOnly(r) == \A u \in users : u.name # NameOf[r]
Admissible(r) == \A u \in users : u.name # NameOf[r] /\ u.email # EmailOf[r]

UserRow_SwapsColumns(r) ==
  [id |-> nextUser, name |-> EmailOf[r], email |-> NameOf[r], by |-> r]
UserRow(r) == [id |-> nextUser, name |-> NameOf[r], email |-> EmailOf[r], by |-> r]

TableRow(q) == [id |-> nextTable, creator |-> creator[q], by |-> q]

RegGoto(r, s)    == regPc' = [regPc EXCEPT ![r] = s]
CreateGoto(q, s) == createPc' = [createPc EXCEPT ![q] = s]
WsGoto(c, s)     == wsPc' = [wsPc EXCEPT ![c] = s]

-----------------------------------------------------------------------------
\* RegisterUser: the body is validated.
RegisterUser(r) ==
  /\ regPc[r] = "new"
  /\ RegGoto(r, IF ValidUser(r) THEN "check" ELSE "invalid")
  /\ UNCHANGED <<createVars, wsPc, users, nextUser, restarts>>

\* CreateUser looks the username up.  On an error GetByUsername returns the
\* error beside a user that is not nil, and CreateUser drops the error.
CheckUsername(r) ==
  /\ regPc[r] = "check"
  /\ \/ UserNamed(NameOf[r]) = {} /\ RegGoto(r, "insert")
     \/ UserNamed(NameOf[r]) # {} /\ RegGoto(r, "taken")
  /\ UNCHANGED <<createVars, wsPc, users, nextUser, restarts>>

CheckUsernameFails(r) ==
  /\ regPc[r] = "check"
  /\ RegGoto(r, "taken")
  /\ UNCHANGED <<createVars, wsPc, users, nextUser, restarts>>

\* The insert is done; its answer arrives, or the request is told of an error.
InsertUser_ErrorAsTaken(r) ==
  /\ regPc[r] = "insert"
  /\ Admissible(r)
  /\ users' = users \cup {UserRow(r)}
  /\ nextUser' = nextUser + 1
  /\ RegGoto(r, "created") \/ RegGoto(r, "taken")
  /\ UNCHANGED <<createVars, wsPc, restarts>>
InsertUser(r) ==
  /\ regPc[r] = "insert"
  /\ Admissible(r)
  /\ users' = users \cup {UserRow(r)}
  /\ nextUser' = nextUser + 1
  /\ RegGoto(r, "created") \/ RegGoto(r, "error")
  /\ UNCHANGED <<createVars, wsPc, restarts>>

\* The insert is refused by a unique column, or fails; either may use up an id.
InsertUserFails_Ignored(r) ==
  /\ regPc[r] = "insert"
  /\ RegGoto(r, "created")
  /\ nextUser' \in {nextUser, nextUser + 1}
  /\ UNCHANGED <<createVars, wsPc, users, restarts>>
InsertUserFails(r) ==
  /\ regPc[r] = "insert"
  /\ RegGoto(r, "error")
  /\ nextUser' \in {nextUser, nextUser + 1}
  /\ UNCHANGED <<createVars, wsPc, users, restarts>>

-----------------------------------------------------------------------------
\* CreateTable: the body is validated.
CreateTable(q) ==
  /\ createPc[q] = "new"
  /\ CreateGoto(q, IF ValidTable(q) THEN "check" ELSE "invalid")
  /\ UNCHANGED <<creator, regVars, wsPc, tables, nextTable, restarts>>

\* The handler looks the creator up by name.
FindCreator_AnyUser(q) ==
  /\ createPc[q] = "check"
  /\ \E u \in users :
       /\ creator' = [creator EXCEPT ![q] = u.id]
       /\ CreateGoto(q, "insert")
  /\ UNCHANGED <<regVars, wsPc, tables, nextTable, restarts>>
FindCreator(q) ==
  /\ createPc[q] = "check"
  /\ \/ /\ UserNamed(CreatorOf[q]) = {}
        /\ CreateGoto(q, "notFound")
        /\ UNCHANGED creator
     \/ \E u \in UserNamed(CreatorOf[q]) :
          /\ creator' = [creator EXCEPT ![q] = u.id]
          /\ CreateGoto(q, "insert")
  /\ UNCHANGED <<regVars, wsPc, tables, nextTable, restarts>>

FindCreatorFails(q) ==
  /\ createPc[q] = "check"
  /\ CreateGoto(q, "error")
  /\ UNCHANGED <<creator, regVars, wsPc, tables, nextTable, restarts>>

\* The insert is done, answered or not; created_by refers to users(id).
InsertTable(q) ==
  /\ createPc[q] = "insert"
  /\ \E u \in users : u.id = creator[q]
  /\ tables' = tables \cup {TableRow(q)}
  /\ nextTable' = nextTable + 1
  /\ CreateGoto(q, "created") \/ CreateGoto(q, "error")
  /\ UNCHANGED <<creator, regVars, wsPc, restarts>>

InsertTableFails(q) ==
  /\ createPc[q] = "insert"
  /\ CreateGoto(q, "error")
  /\ nextTable' \in {nextTable, nextTable + 1}
  /\ UNCHANGED <<creator, regVars, wsPc, tables, restarts>>

-----------------------------------------------------------------------------
\* HandleConnection looks the table up ...
CheckTable(c) ==
  /\ wsPc[c] = "new"
  /\ WsGoto(c, IF \E t \in tables : t.id = TableIdOf[c] THEN "checkUser" ELSE "notFound")
  /\ UNCHANGED <<regVars, createVars, restarts>>

\* ... then the user ...
CheckUser_SameId(c) ==
  /\ wsPc[c] = "checkUser"
  /\ WsGoto(c, IF \E u \in users : u.id = TableIdOf[c] THEN "upgrade" ELSE "notFound")
  /\ UNCHANGED <<regVars, createVars, restarts>>
CheckUser(c) ==
  /\ wsPc[c] = "checkUser"
  /\ WsGoto(c, IF \E u \in users : u.id = UserIdOf[c] THEN "upgrade" ELSE "notFound")
  /\ UNCHANGED <<regVars, createVars, restarts>>

\* ... either of which may fail, which is answered as not found ...
CheckFails(c) ==
  /\ wsPc[c] \in {"new", "checkUser"}
  /\ WsGoto(c, "notFound")
  /\ UNCHANGED <<regVars, createVars, restarts>>

\* ... and upgrades the connection: from here on it is a client of the hub.
Upgrade(c) ==
  /\ wsPc[c] = "upgrade"
  /\ WsGoto(c, "admitted") \/ WsGoto(c, "error")
  /\ UNCHANGED <<regVars, createVars, restarts>>

\* The process ends and starts again: requests under way are lost.
Restart ==
  /\ restarts < MaxRestarts
  /\ restarts' = restarts + 1
  /\ regPc' = [r \in Registrations |-> IF regPc[r] \in Busy THEN "lost" ELSE regPc[r]]
  /\ createPc' = [q \in Creations |-> IF createPc[q] \in Busy THEN "lost" ELSE createPc[q]]
  /\ wsPc' = [c \in Connections |->
                IF wsPc[c] \in Busy \cup {"admitted"} THEN "lost" ELSE wsPc[c]]
  /\ UNCHANGED <<creator, users, nextUser, tables, nextTable>>

Register(r) ==
  RegisterUser(r) \/ CheckUsername(r) \/ CheckUsernameFails(r)
    \/ InsertUser(r) \/ InsertUserFails(r)
Create(q) ==
  CreateTable(q) \/ FindCreator(q) \/ FindCreatorFails(q)
    \/ InsertTable(q) \/ InsertTableFails(q)

\* A request whose ids are missing or no integers is refused before this.
HandleConnection(c) == CheckTable(c) \/ CheckUser(c) \/ CheckFails(c) \/ Upgrade(c)

Next ==
  \/ \E r \in Registrations : Register(r)
  \/ \E q \in Creations : Create(q)
  \/ \E c \in Connections : HandleConnection(c)
  \/ Restart

Spec == Init /\ [][Next]_vars

-----------------------------------------------------------------------------
\* However the checks and inserts of concurrent registrations interleave, no
\* two users share a username, an email or an id.
UsersUnique ==
  \A u, v \in users : u.id = v.id \/ u.name = v.name \/ u.email = v.email => u = v

\* A registration answered with 201 is the one that made the user of its name
\* and of its email: of several for the same name at most one is.
CreatedIsOwner ==
  \A r \in Registrations : regPc[r] = "created" =>
    \A s \in Registrations : s = r <=> \E u \in users :
      u.by = s /\ (u.name = NameOf[r] \/ u.email = EmailOf[r])

\* A registration refused for its body or for its name has left no user.
RefusedLeavesNothing ==
  \A u \in users : regPc[u.by] \notin {"invalid", "taken"}

\* A table belongs to the user whose name the request gave.
TablesOwned ==
  \A t \in tables : \E u \in users : u.id = t.creator /\ u.name = CreatorOf[t.by]

\* The hub only ever gets clients with a table and a user that exist, and
\* whose table has a creator.
AdmittedExist ==
  \A c \in Connections : wsPc[c] = "admitted" =>
    /\ \E u \in users : u.id = UserIdOf[c]
    /\ \E t \in tables : /\ t.id = TableIdOf[c]
                         /\ \E u \in users : u.id = t.creator
=============================================================================
