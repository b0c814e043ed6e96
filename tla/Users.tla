-------------------------------- MODULE Users --------------------------------
(***************************************************************************)
(* UsersService of user-service: registration, verification by a code, and  *)
(* deletion, over the `user` table.                                         *)
(*                                                                         *)
(* Register and verify-email each read the row, give way, and write it by   *)
(* its id with nothing but the id in the where clause.  Handlers run        *)
(* concurrently.                                                            *)
(***************************************************************************)
EXTENDS Naturals, FiniteSets

CONSTANTS
  Emails,
  Passwords,
  Codes,       \* what a draw of a verification code may give
  Tasks,       \* handler slots
  MaxUsers     \* bound: users ever created

ASSUME MaxUsersAssumption == MaxUsers \in Nat

VARIABLES
  user,    \* rows of table user
  lastId,  \* its id sequence
  task,    \* the handlers in flight
  issued,  \* history: <<id, code>> of every code written for a user
  stale    \* history: handlers whose row was written since they read it

vars == <<user, lastId, task, issued, stale>>

NoCode == [none |-> TRUE]

\* Mutant: two columns are swapped.
User_Swapped(id, e, p, k) ==
  [id |-> id, email |-> p, password |-> e, verificationCode |-> k, isVerified |-> FALSE]

User(id, e, p, k) ==
  [id |-> id, email |-> e, password |-> p, verificationCode |-> k, isVerified |-> FALSE]

Rows == [id : 1..MaxUsers, email : Emails, password : Passwords,
         verificationCode : Codes \cup {NoCode}, isVerified : BOOLEAN]

Idle == [pc |-> "idle"]
TaskStates == {Idle}
  \cup [pc : {"update"}, id : 1..MaxUsers, password : Passwords]
  \cup [pc : {"create"}, email : Emails, password : Passwords]
  \cup [pc : {"verify"}, id : 1..MaxUsers, code : Codes]

TypeOK ==
  /\ user \subseteq Rows
  /\ lastId \in 0..MaxUsers
  /\ task \in [Tasks -> TaskStates]
  /\ issued \subseteq (1..MaxUsers) \X Codes
  /\ stale \subseteq {t \in Tasks : task[t] # Idle}

Init ==
  /\ user = {}
  /\ lastId = 0
  /\ task = [t \in Tasks |-> Idle]
  /\ issued = {}
  /\ stale = {}

Begin(t, state) ==
  /\ task' = [task EXCEPT ![t] = state]
  /\ UNCHANGED stale

\* A handler ends without having written.
End(t) ==
  /\ task' = [task EXCEPT ![t] = Idle]
  /\ stale' = stale \ {t}

HasRead(t, id) == task[t].pc \in {"update", "verify"} /\ task[t].id = id

\* Handler t ends by replacing columns of row u; the primary key stays.
Write(t, u, v) ==
  /\ user' = (user \ {u}) \cup {v}
  /\ task' = [task EXCEPT ![t] = Idle]
  /\ stale' = (stale \cup {s \in Tasks : HasRead(s, u.id)}) \ {t}

-----------------------------------------------------------------------------
(* create *)

\* The password is hashed and findUnique on the e-mail found nobody.
RegisterNew(t, e, p) ==
  /\ task[t] = Idle
  /\ \A u \in user : u.email # e
  /\ Begin(t, [pc |-> "create", email |-> e, password |-> p])
  /\ UNCHANGED <<user, lastId, issued>>

\* Mutant: isVerified is not looked at.
RegisterAgain_Verified(t, e, p) ==
  /\ task[t] = Idle
  /\ \E u \in user :
       /\ u.email = e
       /\ Begin(t, [pc |-> "update", id |-> u.id, password |-> p])
  /\ UNCHANGED <<user, lastId, issued>>

\* It found a user who has not verified the e-mail.  With one who has, the
\* handler ends here and nothing changes.
RegisterAgain(t, e, p) ==
  /\ task[t] = Idle
  /\ \E u \in user :
       /\ u.email = e
       /\ ~u.isVerified
       /\ Begin(t, [pc |-> "update", id |-> u.id, password |-> p])
  /\ UNCHANGED <<user, lastId, issued>>

\* Mutant: the update writes every column anew.
UpdateUser_Resets(t, k) ==
  /\ task[t].pc = "update"
  /\ \E u \in user :
       /\ u.id = task[t].id
       /\ Write(t, u, [u EXCEPT !.password = task[t].password, !.verificationCode = k,
                           !.isVerified = FALSE])
       /\ issued' = issued \cup {<<u.id, k>>}
  /\ UNCHANGED lastId

\* user.update where id = ...: password and a new code.
UpdateUser(t, k) ==
  /\ task[t].pc = "update"
  /\ \E u \in user :
       /\ u.id = task[t].id
       /\ Write(t, u, [u EXCEPT !.password = task[t].password, !.verificationCode = k])
       /\ issued' = issued \cup {<<u.id, k>>}
  /\ UNCHANGED lastId

\* user.create
CreateUser(t, k) ==
  /\ task[t].pc = "create"
  /\ \A u \in user : u.email # task[t].email
  /\ lastId < MaxUsers
  /\ lastId' = lastId + 1
  /\ user' = user \cup {User(lastId + 1, task[t].email, task[t].password, k)}
  /\ issued' = issued \cup {<<lastId + 1, k>>}
  /\ End(t)

\* The e-mail was taken meanwhile, or the row to update is gone: the write
\* throws, and the handler replies "User registration failed".
RegisterFails(t) ==
  /\ \/ /\ task[t].pc = "create"
        /\ \E u \in user : u.email = task[t].email
     \/ /\ task[t].pc = "update"
        /\ \A u \in user : u.id # task[t].id
  /\ End(t)
  /\ UNCHANGED <<user, lastId, issued>>

-----------------------------------------------------------------------------
(* verifyEmail *)

\* Mutant: the code is not compared.
VerifyFind_AnyCode(t, e, k) ==
  /\ task[t] = Idle
  /\ \E u \in user :
       /\ u.email = e
       /\ Begin(t, [pc |-> "verify", id |-> u.id, code |-> k])
  /\ UNCHANGED <<user, lastId, issued>>

\* findUnique on the e-mail, and the code is the row's.  With another code the
\* handler ends here and nothing changes.
VerifyFind(t, e, k) ==
  /\ task[t] = Idle
  /\ \E u \in user :
       /\ u.email = e
       /\ u.verificationCode = k
       /\ Begin(t, [pc |-> "verify", id |-> u.id, code |-> k])
  /\ UNCHANGED <<user, lastId, issued>>

\* user.update where id = ...
VerifyUser(t) ==
  /\ task[t].pc = "verify"
  /\ \E u \in user :
       /\ u.id = task[t].id
       /\ Write(t, u, [u EXCEPT !.isVerified = TRUE, !.verificationCode = NoCode])
  /\ UNCHANGED <<lastId, issued>>

\* The row is gone.
VerifyFails(t) ==
  /\ task[t].pc = "verify"
  /\ \A u \in user : u.id # task[t].id
  /\ End(t)
  /\ UNCHANGED <<user, lastId, issued>>

-----------------------------------------------------------------------------
(* remove: one statement, and so one step. *)
Remove(u) ==
  /\ user' = user \ {u}
  /\ UNCHANGED <<lastId, task, issued, stale>>

\* user-service dies with the handlers in it; the table stays.
Crash ==
  /\ task' = [t \in Tasks |-> Idle]
  /\ stale' = {}
  /\ UNCHANGED <<user, lastId, issued>>

-----------------------------------------------------------------------------
Next ==
  \/ \E t \in Tasks, e \in Emails, p \in Passwords :
       RegisterNew(t, e, p) \/ RegisterAgain(t, e, p)
  \/ \E t \in Tasks, k \in Codes : UpdateUser(t, k) \/ CreateUser(t, k)
  \/ \E t \in Tasks, e \in Emails, k \in Codes : VerifyFind(t, e, k)
  \/ \E t \in Tasks : RegisterFails(t) \/ VerifyUser(t) \/ VerifyFails(t)
  \/ \E u \in user : Remove(u)
  \/ Crash

Spec == Init /\ [][Next]_vars

-----------------------------------------------------------------------------
(* Properties *)

\* A verified user stays verified, although a registration that read the row
\* before may still write it.
StaysVerified ==
  [][\A u \in user, v \in user' : u.id = v.id /\ u.isVerified => v.isVerified]_vars

\* A user becomes verified only by a code that was issued to that very user,
\* never by one issued to another with the same e-mail before or after.
VerifiedByIssuedCode ==
  [][\A u \in user, v \in user' :
       u.id = v.id /\ ~u.isVerified /\ v.isVerified =>
         \E t \in Tasks : task[t].pc = "verify" /\ <<u.id, task[t].code>> \in issued]_vars

\* A registration leaves a verified user alone: the password the user verified
\* with stays.
LeftAlone(u, v) == u.isVerified => v.password = u.password

\* The code that verifies a user is the one the row has, so that the password
\* that becomes valid is the one registered together with that code.
ByPresentCode(u, v) ==
  ~u.isVerified /\ v.isVerified =>
    \E t \in Tasks : task[t].pc = "verify" /\ task[t].code = u.verificationCode

\* create never replaces the password of a verified user.
VerifiedIsLeftAlone ==
  [][\A u \in user, v \in user' : u.id = v.id => LeftAlone(u, v)]_vars

\* Either of the two fails in one way only: by a handler whose row another one
\* wrote between its read and its write.  Registrations and verifications that do not
\* overlap, crashes and deletions never break them.
OnlyStaleHandlersHarm ==
  [][\A u \in user, v \in user' :
       u.id = v.id =>
         \/ LeftAlone(u, v) /\ ByPresentCode(u, v)
         \/ \E t \in stale : HasRead(t, u.id) /\ task'[t] = Idle]_vars
=============================================================================
