--------------------------- MODULE AccountsProofs ---------------------------
(***************************************************************************)
(* Theorems about Accounts, for every value of its constants.              *)
(***************************************************************************)
EXTENDS Accounts, TLAPS

LEMMA BuiltRows ==
  ASSUME TypeOK
  PROVE  /\ \A r \in Registrations : UserRow(r) \in UserRows
         /\ \A q \in Creations : TableRow(q) \in TableRows
BY AccountsAssumption DEF TypeOK, UserRow, UserRows, TableRow, TableRows

LEMMA TypeOKInit == Init => TypeOK
BY AccountsAssumption DEF Init, TypeOK

LEMMA TypeOKNext == TypeOK /\ [Next]_vars => TypeOK'
<1> SUFFICES ASSUME TypeOK, [Next]_vars PROVE TypeOK'
  OBVIOUS
<1> USE AccountsAssumption DEF TypeOK
<1>1. ASSUME NEW r \in Registrations,
             RegisterUser(r) \/ CheckUsername(r) \/ CheckUsernameFails(r) \/ InsertUserFails(r)
      PROVE  TypeOK'
  BY <1>1 DEF RegisterUser, CheckUsername, CheckUsernameFails, InsertUserFails, RegGoto,
     createVars
<1>2. ASSUME NEW r \in Registrations, InsertUser(r) PROVE TypeOK'
  <2>1. users' \in SUBSET UserRows
    BY <1>2, BuiltRows DEF InsertUser
  <2>2. QED BY <1>2, <2>1 DEF InsertUser, RegGoto, createVars
<1>3. ASSUME NEW q \in Creations,
             CreateTable(q) \/ FindCreatorFails(q) \/ InsertTableFails(q)
      PROVE  TypeOK'
  BY <1>3 DEF CreateTable, FindCreatorFails, InsertTableFails, CreateGoto, regVars
<1>4. ASSUME NEW q \in Creations, FindCreator(q) PROVE TypeOK'
  <2>1. \A u \in UserNamed(CreatorOf[q]) : u.id \in Nat
    BY DEF UserNamed, UserRows
  <2>2. QED BY <1>4, <2>1 DEF FindCreator, CreateGoto, regVars
<1>5. ASSUME NEW q \in Creations, InsertTable(q) PROVE TypeOK'
  <2>1. tables' \in SUBSET TableRows
    BY <1>5, BuiltRows DEF InsertTable
  <2>2. QED BY <1>5, <2>1 DEF InsertTable, CreateGoto, regVars
<1>6. ASSUME NEW c \in Connections, HandleConnection(c) PROVE TypeOK'
  BY <1>6 DEF HandleConnection, CheckTable, CheckUser, CheckFails, Upgrade, WsGoto,
     regVars, createVars
<1>7. CASE Restart
  BY <1>7 DEF Restart
<1>8. CASE UNCHANGED vars
  BY <1>8 DEF vars
<1>9. QED
  BY <1>1, <1>2, <1>3, <1>4, <1>5, <1>6, <1>7, <1>8 DEF Next, Register, Create

\* The requests and the two tables always have their type.
THEOREM AccountsTyped == Spec => []TypeOK
BY TypeOKInit, TypeOKNext, PTL DEF Spec

-----------------------------------------------------------------------------
(***************************************************************************)
(* Users.  A row is its request's, which has ended with 201 or an error,   *)
(* and a request that was answered with 201 has its row.                   *)
(***************************************************************************)
RowsOfRequests ==
  \A u \in users :
    /\ u.id < nextUser
    /\ u.name = NameOf[u.by] /\ u.email = EmailOf[u.by]
    /\ regPc[u.by] \in {"created", "error"}

CreatedHasRow == \A r \in Registrations : regPc[r] = "created" => \E u \in users : u.by = r

UsersInv == UsersUnique /\ RowsOfRequests /\ CreatedHasRow

LEMMA UsersInvNext == TypeOK /\ UsersInv /\ [Next]_vars => UsersInv'
<1> SUFFICES ASSUME TypeOK, UsersInv, [Next]_vars PROVE UsersInv'
  OBVIOUS
<1> USE AccountsAssumption DEF UsersInv
<1>1. \A u \in users : u.id \in Nat /\ u.by \in Registrations
  BY DEF TypeOK, UserRows
<1>2. ASSUME NEW r \in Registrations, InsertUser(r) PROVE UsersInv'
  <2> DEFINE new == UserRow(r)
  <2>1. /\ users' = users \cup {new} /\ nextUser' = nextUser + 1 /\ nextUser \in Nat
        /\ new.id = nextUser /\ new.by = r
        /\ new.name = NameOf[r] /\ new.email = EmailOf[r]
    BY <1>2 DEF InsertUser, UserRow, TypeOK
  <2>2. \E s \in {"created", "error"} : regPc' = [regPc EXCEPT ![r] = s]
    BY <1>2 DEF InsertUser, RegGoto
  <2>3. \A u \in users : u.name # NameOf[r] /\ u.email # EmailOf[r]
    BY <1>2 DEF InsertUser, Admissible
  <2> HIDE DEF new
  <2>4. UsersUnique'
    BY <1>1, <2>1, <2>3 DEF UsersUnique, RowsOfRequests
  <2>5. RowsOfRequests'
    BY <1>1, <2>1, <2>2 DEF RowsOfRequests, TypeOK
  <2>6. CreatedHasRow'
    BY <2>1, <2>2 DEF CreatedHasRow, TypeOK
  <2>7. QED BY <2>4, <2>5, <2>6
<1>3. ASSUME users' = users, nextUser' \in {nextUser, nextUser + 1},
             \A r \in Registrations :
               \/ regPc'[r] = regPc[r]
               \/ regPc[r] \notin {"created", "error"} /\ regPc'[r] # "created"
      PROVE  UsersInv'
  <2>1. RowsOfRequests'
    BY <1>1, <1>3 DEF RowsOfRequests, TypeOK
  <2>2. QED BY <1>3, <2>1 DEF UsersUnique, CreatedHasRow
<1>4. ASSUME NEW r \in Registrations,
             RegisterUser(r) \/ CheckUsername(r) \/ CheckUsernameFails(r) \/ InsertUserFails(r)
      PROVE  UsersInv'
  <2>1. users' = users /\ nextUser' \in {nextUser, nextUser + 1}
    BY <1>4 DEF RegisterUser, CheckUsername, CheckUsernameFails, InsertUserFails
  <2>2. \A s \in Registrations :
          \/ regPc'[s] = regPc[s]
          \/ regPc[s] \notin {"created", "error"} /\ regPc'[s] # "created"
    BY <1>4 DEF RegisterUser, CheckUsername, CheckUsernameFails, InsertUserFails, RegGoto, TypeOK
  <2>3. QED BY <1>3, <2>1, <2>2
<1>5. ASSUME UNCHANGED regVars PROVE UsersInv'
  BY <1>3, <1>5 DEF regVars
<1>6. ASSUME NEW q \in Creations, Create(q) PROVE UNCHANGED regVars
  BY <1>6 DEF Create, CreateTable, FindCreator, FindCreatorFails, InsertTable, InsertTableFails
<1>7. ASSUME NEW c \in Connections, HandleConnection(c) PROVE UNCHANGED regVars
  BY <1>7 DEF HandleConnection, CheckTable, CheckUser, CheckFails, Upgrade
<1>8. CASE Restart
  BY <1>3, <1>8 DEF Restart, Busy, TypeOK
<1>9. CASE UNCHANGED vars
  BY <1>5, <1>9 DEF vars, regVars
<1>10. QED
  BY <1>2, <1>4, <1>5, <1>6, <1>7, <1>8, <1>9 DEF Next, Register

LEMMA UsersCorrect == Spec => [](TypeOK /\ UsersInv)
<1>1. Init => UsersInv
  BY DEF Init, UsersInv, UsersUnique, RowsOfRequests, CreatedHasRow
<1>2. QED BY <1>1, TypeOKInit, TypeOKNext, UsersInvNext, PTL DEF Spec

\* No two users share an id, a name or an email, however checks and inserts
\* of concurrent registrations interleave.
THEOREM NamesUnique == Spec => []UsersUnique
<1>1. UsersInv => UsersUnique
  BY DEF UsersInv
<1>2. QED BY <1>1, UsersCorrect, PTL

\* A 201 goes to the one registration that made the user of its name and email.
THEOREM CreatedOwns == Spec => []CreatedIsOwner
<1>1. ASSUME TypeOK, UsersInv PROVE CreatedIsOwner
  <2> SUFFICES ASSUME NEW r \in Registrations, regPc[r] = "created", NEW s \in Registrations
               PROVE  s = r <=> \E u \in users :
                        u.by = s /\ (u.name = NameOf[r] \/ u.email = EmailOf[r])
    BY DEF CreatedIsOwner
  <2>1. PICK row \in users : row.by = r
    BY <1>1 DEF UsersInv, CreatedHasRow
  <2>2. row.name = NameOf[r] /\ row.email = EmailOf[r]
    BY <1>1, <2>1 DEF UsersInv, RowsOfRequests
  <2>3. QED BY <1>1, <2>1, <2>2 DEF UsersInv, UsersUnique
<1>2. TypeOK /\ UsersInv => CreatedIsOwner
  BY <1>1
<1>3. QED BY <1>2, UsersCorrect, PTL

\* A registration refused for its body or its name has left no user.
THEOREM RefusedIsHarmless == Spec => []RefusedLeavesNothing
<1>1. UsersInv => RefusedLeavesNothing
  BY DEF UsersInv, RowsOfRequests, RefusedLeavesNothing
<1>2. QED BY <1>1, UsersCorrect, PTL

-----------------------------------------------------------------------------
(***************************************************************************)
(* Tables and admission.  Rows are never taken away, so what a request has *)
(* found stays true while it goes on.                                      *)
(***************************************************************************)
LEMMA RowsStay == [Next]_vars => users \subseteq users' /\ tables \subseteq tables'
BY DEF Next, Register, RegisterUser, CheckUsername, CheckUsernameFails, InsertUser,
   InsertUserFails, Create, CreateTable, FindCreator, FindCreatorFails, InsertTable,
   InsertTableFails, HandleConnection, CheckTable, CheckUser, CheckFails, Upgrade,
   Restart, regVars, createVars, vars

IsUser(id, name) == \E u \in users : u.id = id /\ u.name = name

OwnersInv ==
  /\ TablesOwned
  /\ \A q \in Creations : createPc[q] = "insert" => IsUser(creator[q], CreatorOf[q])

LEMMA OwnersInvNext == TypeOK /\ OwnersInv /\ [Next]_vars => OwnersInv'
<1> SUFFICES ASSUME TypeOK, OwnersInv, [Next]_vars PROVE OwnersInv'
  OBVIOUS
<1> USE AccountsAssumption
<1>1. users \subseteq users'
  BY RowsStay
<1>2. ASSUME NEW q \in Creations, FindCreator(q) PROVE OwnersInv'
  <2>1. users' = users /\ tables' = tables
    BY <1>2 DEF FindCreator, regVars
  <2>2. ASSUME NEW n \in Creations, createPc'[n] = "insert"
        PROVE  \E u \in users' : u.id = creator'[n] /\ u.name = CreatorOf[n]
    <3>1. CASE n = q
      BY <1>2, <2>1, <2>2, <3>1 DEF FindCreator, CreateGoto, UserNamed, TypeOK
    <3>2. CASE n # q
      <4>1. createPc[n] = "insert" /\ creator'[n] = creator[n]
        BY <1>2, <2>2, <3>2 DEF FindCreator, CreateGoto, TypeOK
      <4>2. QED BY <2>1, <4>1 DEF OwnersInv, IsUser
    <3>3. QED BY <3>1, <3>2
  <2>3. QED BY <2>1, <2>2 DEF OwnersInv, TablesOwned, IsUser
<1>3. ASSUME NEW q \in Creations, InsertTable(q) PROVE OwnersInv'
  <2>1. /\ tables' = tables \cup {TableRow(q)} /\ UNCHANGED <<creator, users>>
        /\ TableRow(q).creator = creator[q] /\ TableRow(q).by = q
        /\ IsUser(creator[q], CreatorOf[q])
    BY <1>3 DEF InsertTable, TableRow, OwnersInv, regVars
  <2>2. \A n \in Creations : createPc'[n] = "insert" => createPc[n] = "insert"
    BY <1>3 DEF InsertTable, CreateGoto, TypeOK
  <2>3. TablesOwned'
    BY <2>1 DEF OwnersInv, TablesOwned, IsUser
  <2>4. QED BY <2>1, <2>2, <2>3 DEF OwnersInv, IsUser
<1>4. ASSUME UNCHANGED <<creator, tables>>,
             \A q \in Creations : createPc'[q] = "insert" => createPc[q] = "insert"
      PROVE  OwnersInv'
  BY <1>1, <1>4 DEF OwnersInv, TablesOwned, IsUser
<1>5. ASSUME NEW q \in Creations, CreateTable(q) \/ FindCreatorFails(q) \/ InsertTableFails(q)
      PROVE  OwnersInv'
  <2>1. UNCHANGED <<creator, tables>>
    BY <1>5 DEF CreateTable, FindCreatorFails, InsertTableFails
  <2>2. \A n \in Creations : createPc'[n] = "insert" => createPc[n] = "insert"
    BY <1>5 DEF CreateTable, FindCreatorFails, InsertTableFails, CreateGoto, TypeOK
  <2>3. QED BY <1>4, <2>1, <2>2
<1>6. ASSUME UNCHANGED createVars PROVE OwnersInv'
  BY <1>4, <1>6 DEF createVars
<1>7. ASSUME NEW r \in Registrations, Register(r) PROVE UNCHANGED createVars
  BY <1>7 DEF Register, RegisterUser, CheckUsername, CheckUsernameFails, InsertUser,
     InsertUserFails
<1>8. ASSUME NEW c \in Connections, HandleConnection(c) PROVE UNCHANGED createVars
  BY <1>8 DEF HandleConnection, CheckTable, CheckUser, CheckFails, Upgrade
<1>9. CASE Restart
  BY <1>4, <1>9 DEF Restart, Busy
<1>10. CASE UNCHANGED vars
  BY <1>6, <1>10 DEF vars, createVars
<1>11. QED
  BY <1>2, <1>3, <1>5, <1>6, <1>7, <1>8, <1>9, <1>10 DEF Next, Create

\* A table belongs to the user whose name the request gave.
THEOREM TablesHaveOwners == Spec => []TablesOwned
<1>1. Init => OwnersInv
  BY DEF Init, OwnersInv, TablesOwned
<1>2. OwnersInv => TablesOwned
  BY DEF OwnersInv
<1>3. QED BY <1>1, <1>2, TypeOKInit, TypeOKNext, OwnersInvNext, PTL DEF Spec

\* What a connection has found so far.
AdmissionInv ==
  \A c \in Connections :
    /\ wsPc[c] \in {"checkUser", "upgrade", "admitted"} =>
         \E t \in tables : t.id = TableIdOf[c]
    /\ wsPc[c] \in {"upgrade", "admitted"} => \E u \in users : u.id = UserIdOf[c]

LEMMA AdmissionInvNext == TypeOK /\ AdmissionInv /\ [Next]_vars => AdmissionInv'
<1> SUFFICES ASSUME TypeOK, AdmissionInv, [Next]_vars PROVE AdmissionInv'
  OBVIOUS
<1>1. users \subseteq users' /\ tables \subseteq tables'
  BY RowsStay
<1>2. ASSUME NEW c \in Connections, HandleConnection(c) PROVE AdmissionInv'
  <2>1. UNCHANGED <<users, tables>>
    BY <1>2 DEF HandleConnection, CheckTable, CheckUser, CheckFails, Upgrade, regVars, createVars
  <2>2. CASE CheckTable(c)
    BY <2>1, <2>2 DEF CheckTable, WsGoto, AdmissionInv, TypeOK
  <2>3. CASE CheckUser(c)
    BY <2>1, <2>3 DEF CheckUser, WsGoto, AdmissionInv, TypeOK
  <2>4. CASE CheckFails(c) \/ Upgrade(c)
    BY <2>1, <2>4 DEF CheckFails, Upgrade, WsGoto, AdmissionInv, TypeOK
  <2>5. QED BY <1>2, <2>2, <2>3, <2>4 DEF HandleConnection
<1>3. ASSUME wsPc' = wsPc PROVE AdmissionInv'
  BY <1>1, <1>3 DEF AdmissionInv
<1>4. ASSUME NEW r \in Registrations, Register(r) PROVE wsPc' = wsPc
  BY <1>4 DEF Register, RegisterUser, CheckUsername, CheckUsernameFails, InsertUser,
     InsertUserFails
<1>5. ASSUME NEW q \in Creations, Create(q) PROVE wsPc' = wsPc
  BY <1>5 DEF Create, CreateTable, FindCreator, FindCreatorFails, InsertTable, InsertTableFails
<1>6. CASE Restart
  BY <1>6 DEF Restart, Busy, AdmissionInv
<1>7. CASE UNCHANGED vars
  BY <1>3, <1>7 DEF vars
<1>8. QED BY <1>2, <1>3, <1>4, <1>5, <1>6, <1>7 DEF Next

\* The hub only gets clients whose user, table and table's creator exist.
THEOREM AdmittedAreReal == Spec => []AdmittedExist
<1>1. Init => OwnersInv /\ AdmissionInv
  BY DEF Init, OwnersInv, TablesOwned, AdmissionInv
<1>2. OwnersInv /\ AdmissionInv => AdmittedExist
  BY DEF OwnersInv, TablesOwned, AdmissionInv, AdmittedExist
<1>3. QED
  BY <1>1, <1>2, TypeOKInit, TypeOKNext, OwnersInvNext, AdmissionInvNext, PTL DEF Spec
=============================================================================
