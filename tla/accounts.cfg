SPECIFICATION MCSpec
CONSTANTS
  r1 = r1
  r2 = r2
  r3 = r3
  r4 = r4
  q1 = q1
  q2 = q2
  w1 = w1
  w2 = w2
  ann = ann
  bob = bob
  annMail = annMail
  bobMail = bobMail
  Registrations = {r1, r2, r3, r4}
  NameOf <- NameOfReq
  EmailOf <- EmailOfReq
  PasswordLen <- Passwords
  Creations = {q1, q2}
  CreatorOf <- Creator
  TitleLen <- Titles
  Connections = {w1, w2}
  UserIdOf <- UserIds
  TableIdOf <- TableIds
  Names = {ann, bob}
  Emails = {annMail, bobMail}
  NameLen <- Lengths
  EmailLen <- MailLength
  MaxRestarts = 1
INVARIANTS TypeOK UsersUnique CreatedIsOwner RefusedLeavesNothing TablesOwned AdmittedExist
