----------------------------- MODULE Users_proofs -----------------------------
(***************************************************************************)
(* Proofs about Users for any e-mails, passwords, codes and handler slots,  *)
(* and any bound on the users created.                                      *)
(*                                                                         *)
(* IInv is the inductive invariant.  The three action properties speak of a *)
(* row before and after a step, which are told by its id, so ids have to be *)
(* a key (Keys); and what a handler does to the row that it read before it  *)
(* gave way depends on what the row may have become meanwhile (Updates,     *)
(* Verifications).                                                          *)
(***************************************************************************)
EXTENDS Users, TLAPS

\* The primary key: the sequence has given each id once.
Keys ==
  /\ \A u \in user : u.id <= lastId
  /\ \A u, v \in user : u.id = v.id => u = v
  /\ \A t \in Tasks : task[t].pc \in {"update", "verify"} => task[t].id <= lastId

\* The code an unverified user has is one that was issued to that user.
Issued ==
  \A u \in user : ~u.isVerified => <<u.id, u.verificationCode>> \in issued

\* The row that a registration read is still unverified, unless it was written.
Updates ==
  \A t \in Tasks :
    task[t].pc = "update" /\ t \notin stale =>
      \A u \in user : u.id = task[t].id => ~u.isVerified

\* The row that a verification read still has the code, unless it was written;
\* and unless the user was verified then the code was issued to that user.
Verifications ==
  \A t \in Tasks :
    task[t].pc = "verify" =>
      \A u \in user :
        u.id = task[t].id =>
          /\ t \notin stale => u.verificationCode = task[t].code
          /\ ~u.isVerified => <<u.id, task[t].code>> \in issued

IInv == TypeOK /\ Keys /\ Issued /\ Updates /\ Verifications

-----------------------------------------------------------------------------
(* Tasks and rows. *)

\* A task's fields follow from its pc.
LEMMA TaskShape ==
  ASSUME TypeOK, NEW t \in Tasks
  PROVE  /\ task[t] \in TaskStates
         /\ task[t].pc \in {"idle", "create", "update", "verify"}
         /\ task[t].pc = "idle" <=> task[t] = Idle
         /\ task[t].pc = "update" =>
              task[t] \in [pc : {"update"}, id : 1..MaxUsers, password : Passwords]
         /\ task[t].pc = "create" =>
              task[t] \in [pc : {"create"}, email : Emails, password : Passwords]
         /\ task[t].pc = "verify" =>
              task[t] \in [pc : {"verify"}, id : 1..MaxUsers, code : Codes]
<1> USE DEF TaskStates, Idle
<1>0. task[t] \in TaskStates
  BY DEF TypeOK
<1>1. CASE task[t] = Idle
  BY <1>1
<1>2. CASE task[t] \in [pc : {"update"}, id : 1..MaxUsers, password : Passwords]
  BY <1>2
<1>3. CASE task[t] \in [pc : {"create"}, email : Emails, password : Passwords]
  BY <1>3
<1>4. CASE task[t] \in [pc : {"verify"}, id : 1..MaxUsers, code : Codes]
  BY <1>4
<1> QED  BY <1>0, <1>1, <1>2, <1>3, <1>4

\* What an update by a registration and one by a verification make of a row.
Reregistered(u, p, k) == [u EXCEPT !.password = p, !.verificationCode = k]
Verified(u) == [u EXCEPT !.isVerified = TRUE, !.verificationCode = NoCode]

\* An update keeps the id, and nothing but what it sets changes.
LEMMA UpdatedRow ==
  ASSUME NEW u \in Rows, NEW p \in Passwords, NEW k \in Codes
  PROVE  /\ Reregistered(u, p, k) \in Rows
         /\ Reregistered(u, p, k).id = u.id
         /\ Reregistered(u, p, k).isVerified = u.isVerified
         /\ Reregistered(u, p, k).verificationCode = k
         /\ Verified(u) \in Rows
         /\ Verified(u).id = u.id
         /\ Verified(u).isVerified
         /\ Verified(u).password = u.password
BY DEF Reregistered, Verified, Rows

\* The table loses rows, or gets one with the next id, or a handler writes the
\* row with the id that it had read.
LEMMA TableStep ==
  ASSUME TypeOK, [Next]_vars
  PROVE  \/ user' \subseteq user /\ lastId' = lastId /\ issued' = issued
         \/ \E v \in Rows :
              /\ v.id = lastId + 1 /\ lastId' = lastId + 1 /\ lastId' <= MaxUsers
              /\ ~v.isVerified /\ v.verificationCode \in Codes
              /\ user' = user \cup {v}
              /\ issued' = issued \cup {<<v.id, v.verificationCode>>}
         \/ \E t \in Tasks, k \in Codes, u \in user :
              /\ task[t].pc = "update" /\ u.id = task[t].id
              /\ Write(t, u, Reregistered(u, task[t].password, k))
              /\ issued' = issued \cup {<<u.id, k>>} /\ lastId' = lastId
         \/ \E t \in Tasks, u \in user :
              /\ task[t].pc = "verify" /\ u.id = task[t].id
              /\ Write(t, u, Verified(u))
              /\ issued' = issued /\ lastId' = lastId
<1>1. ASSUME NEW t \in Tasks, NEW k \in Codes, CreateUser(t, k)
      PROVE  \E v \in Rows :
               /\ v.id = lastId + 1 /\ lastId' = lastId + 1 /\ lastId' <= MaxUsers
               /\ ~v.isVerified /\ v.verificationCode \in Codes
               /\ user' = user \cup {v}
               /\ issued' = issued \cup {<<v.id, v.verificationCode>>}
  <2> DEFINE v == User(lastId + 1, task[t].email, task[t].password, k)
  <2>1. task[t] \in [pc : {"create"}, email : Emails, password : Passwords]
    BY <1>1, TaskShape DEF CreateUser
  <2>2. lastId + 1 \in 1..MaxUsers
    BY <1>1, MaxUsersAssumption DEF CreateUser, TypeOK
  <2>3. v \in Rows /\ v.id = lastId + 1 /\ ~v.isVerified /\ v.verificationCode = k
    BY <2>1, <2>2 DEF User, Rows
  <2>4. /\ lastId' = lastId + 1 /\ user' = user \cup {v}
        /\ issued' = issued \cup {<<lastId + 1, k>>}
    BY <1>1 DEF CreateUser
  <2> QED  BY <2>2, <2>3, <2>4, MaxUsersAssumption
<1>2. ASSUME NEW t \in Tasks, NEW k \in Codes, UpdateUser(t, k)
      PROVE  \E u \in user :
               /\ task[t].pc = "update" /\ u.id = task[t].id
               /\ Write(t, u, Reregistered(u, task[t].password, k))
               /\ issued' = issued \cup {<<u.id, k>>} /\ lastId' = lastId
  BY <1>2 DEF UpdateUser, Reregistered
<1>3. ASSUME NEW t \in Tasks, VerifyUser(t)
      PROVE  \E u \in user :
               /\ task[t].pc = "verify" /\ u.id = task[t].id
               /\ Write(t, u, Verified(u))
               /\ issued' = issued /\ lastId' = lastId
  BY <1>3 DEF VerifyUser, Verified
<1>4. CASE user' \subseteq user /\ lastId' = lastId /\ issued' = issued
  BY <1>4
<1> QED  BY <1>1, <1>2, <1>3, <1>4
         DEF Next, RegisterNew, RegisterAgain, VerifyFind, RegisterFails, VerifyFails, Remove,
             Crash, vars

\* A handler reads as it begins and then waits, or ends; another's write makes it
\* stale.
LEMMA TaskStep ==
  ASSUME TypeOK, [Next]_vars, NEW t \in Tasks
  PROVE  \/ task'[t] = task[t] /\ (t \in stale => t \in stale')
         \/ task'[t] = Idle /\ t \notin stale'
         \/ task'[t].pc = "create" /\ t \notin stale'
         \/ /\ task'[t].pc = "update" /\ user' = user /\ lastId' = lastId /\ t \notin stale'
            /\ \E u \in user : ~u.isVerified /\ task'[t].id = u.id
         \/ /\ task'[t].pc = "verify" /\ user' = user /\ lastId' = lastId /\ t \notin stale'
            /\ \E u \in user : task'[t].id = u.id /\ task'[t].code = u.verificationCode
<1> USE DEF TypeOK, Begin, End, Write
<1>1. ASSUME NEW s \in Tasks, NEW e \in Emails, NEW p \in Passwords, RegisterNew(s, e, p)
      PROVE  IF s = t THEN task'[t].pc = "create" /\ t \notin stale'
                      ELSE task'[t] = task[t] /\ stale' = stale
  BY <1>1 DEF RegisterNew
<1>2. ASSUME NEW s \in Tasks, NEW e \in Emails, NEW p \in Passwords, RegisterAgain(s, e, p)
      PROVE  IF s = t
               THEN /\ task'[t].pc = "update" /\ user' = user /\ lastId' = lastId
                    /\ t \notin stale'
                    /\ \E u \in user : ~u.isVerified /\ task'[t].id = u.id
               ELSE task'[t] = task[t] /\ stale' = stale
  BY <1>2 DEF RegisterAgain
<1>3. ASSUME NEW s \in Tasks, NEW e \in Emails, NEW k \in Codes, VerifyFind(s, e, k)
      PROVE  IF s = t
               THEN /\ task'[t].pc = "verify" /\ user' = user /\ lastId' = lastId
                    /\ t \notin stale'
                    /\ \E u \in user : task'[t].id = u.id /\ task'[t].code = u.verificationCode
               ELSE task'[t] = task[t] /\ stale' = stale
  BY <1>3 DEF VerifyFind
<1>4. ASSUME NEW s \in Tasks, NEW k \in Codes, UpdateUser(s, k) \/ CreateUser(s, k)
      PROVE  IF s = t THEN task'[t] = Idle /\ t \notin stale'
                      ELSE task'[t] = task[t] /\ (t \in stale => t \in stale')
  BY <1>4 DEF UpdateUser, CreateUser
<1>5. ASSUME NEW s \in Tasks, RegisterFails(s) \/ VerifyUser(s) \/ VerifyFails(s)
      PROVE  IF s = t THEN task'[t] = Idle /\ t \notin stale'
                      ELSE task'[t] = task[t] /\ (t \in stale => t \in stale')
  BY <1>5 DEF RegisterFails, VerifyUser, VerifyFails
<1>6. ASSUME NEW u \in user, Remove(u)
      PROVE  task' = task /\ stale' = stale
  BY <1>6 DEF Remove
<1>7. CASE Crash
  BY <1>7 DEF Crash
<1>8. CASE UNCHANGED vars
  BY <1>8 DEF vars
<1> QED  BY <1>1, <1>2, <1>3, <1>4, <1>5, <1>6, <1>7, <1>8 DEF Next

-----------------------------------------------------------------------------
(* The conjuncts of the invariant. *)

\* Rows, tasks and the history keep their types; ids are within the bound.
LEMMA TypeOKStep ==
  ASSUME TypeOK, [Next]_vars
  PROVE  TypeOK'
<1>0. user \subseteq Rows
  BY DEF TypeOK
<1>1. ASSUME NEW t \in Tasks, NEW u \in user, task[t].pc = "update"
      PROVE  \A k \in Codes : Reregistered(u, task[t].password, k) \in Rows
  <2>1. u \in Rows /\ task[t].password \in Passwords
    BY <1>0, <1>1, TaskShape
  <2> QED  BY <2>1, UpdatedRow
<1>2. \A u \in user : Verified(u) \in Rows
  BY <1>0 DEF Verified, Rows
<1>3. /\ user' \subseteq Rows
      /\ lastId' \in 0..MaxUsers
      /\ issued' \subseteq (1..MaxUsers) \X Codes
  <2>1. \A u \in user : u.id \in 1..MaxUsers
    BY <1>0 DEF Rows
  <2>2. \A v \in Rows : v.id \in 1..MaxUsers
    BY DEF Rows
  <2> QED  BY <1>0, <1>1, <1>2, <2>1, <2>2, TableStep, MaxUsersAssumption DEF Write, TypeOK
<1>4. task' \in [Tasks -> TaskStates]
  <2> USE DEF TypeOK, TaskStates, Begin, End, Write
  <2>1. ASSUME NEW t \in Tasks, NEW e \in Emails, NEW p \in Passwords,
               RegisterNew(t, e, p) \/ RegisterAgain(t, e, p)
        PROVE  task' \in [Tasks -> TaskStates]
    BY <2>1 DEF RegisterNew, RegisterAgain, Rows
  <2>2. ASSUME NEW t \in Tasks, NEW e \in Emails, NEW k \in Codes, VerifyFind(t, e, k)
        PROVE  task' \in [Tasks -> TaskStates]
    BY <2>2 DEF VerifyFind, Rows
  <2>3. ASSUME NEW t \in Tasks, task' = [task EXCEPT ![t] = Idle]
        PROVE  task' \in [Tasks -> TaskStates]
    BY <2>3
  <2>4. CASE Crash \/ UNCHANGED task
    BY <2>4 DEF Crash
  <2> QED  BY <2>1, <2>2, <2>3, <2>4
           DEF Next, UpdateUser, CreateUser, RegisterFails, VerifyUser, VerifyFails, Remove, vars
<1>5. stale' \subseteq {t \in Tasks : task'[t] # Idle}
  <2>1. stale' \subseteq Tasks
    BY DEF TypeOK, Next, RegisterNew, RegisterAgain, UpdateUser, CreateUser, VerifyFind,
           RegisterFails, VerifyUser, VerifyFails, Remove, Crash, vars, Begin, End, Write
  <2>2. ASSUME NEW t \in Tasks, task'[t] = Idle, t \in stale'
        PROVE  FALSE
    <3>1. task'[t] = task[t]
      BY <2>2, TaskStep DEF Idle
    <3>2. task[t] = Idle /\ t \notin stale
      BY <2>2, <3>1 DEF TypeOK
    <3>3. \E u \in user : HasRead(t, u.id)
      BY <2>2, <3>2
         DEF Next, RegisterNew, RegisterAgain, UpdateUser, CreateUser, VerifyFind,
             RegisterFails, VerifyUser, VerifyFails, Remove, Crash, vars, Begin, End, Write
    <3> QED  BY <3>2, <3>3 DEF HasRead, Idle
  <2> QED  BY <2>1, <2>2
<1> QED  BY <1>3, <1>4, <1>5 DEF TypeOK

\* What TypeOK and Keys say of the rows, before and after a step.
LEMMA Ids ==
  ASSUME TypeOK, Keys
  PROVE  /\ lastId \in Nat
         /\ \A u \in user : u \in Rows /\ u.id \in Nat /\ u.id <= lastId
         /\ \A u \in user : u.isVerified \in BOOLEAN
         /\ \A t \in Tasks :
              task[t].pc \in {"update", "verify"} => task[t].id \in Nat /\ task[t].id <= lastId
BY TaskShape DEF TypeOK, Rows, Keys

\* A row that is there before and after a step was not touched, or was written by
\* a handler that had read it.
LEMMA SameRow ==
  ASSUME TypeOK, Keys, [Next]_vars, NEW u \in user, NEW v \in user', u.id = v.id
  PROVE  \/ v = u
         \/ \E t \in Tasks, k \in Codes :
              /\ task[t].pc = "update" /\ u.id = task[t].id
              /\ v = Reregistered(u, task[t].password, k)
              /\ Write(t, u, v)
              /\ <<u.id, k>> \in issued'
         \/ \E t \in Tasks :
              /\ task[t].pc = "verify" /\ u.id = task[t].id
              /\ v = Verified(u)
              /\ Write(t, u, v)
<1>1. CASE v \in user
  BY <1>1 DEF Keys
<1>2. CASE v \notin user
  <2>1. \A w \in Rows : w.id = lastId + 1 => w # v
    BY Ids
  <2>2. ASSUME NEW t \in Tasks, NEW k \in Codes, NEW w \in user,
               task[t].pc = "update", w.id = task[t].id,
               Write(t, w, Reregistered(w, task[t].password, k)),
               issued' = issued \cup {<<w.id, k>>}
        PROVE  /\ u.id = task[t].id
               /\ v = Reregistered(u, task[t].password, k)
               /\ Write(t, u, v)
               /\ <<u.id, k>> \in issued'
    <3>1. v = Reregistered(w, task[t].password, k)
      BY <1>2, <2>2 DEF Write
    <3>2. v.id = w.id
      <4>1. w \in Rows /\ task[t].password \in Passwords
        BY <2>2, TaskShape, Ids
      <4> QED  BY <3>1, <4>1, UpdatedRow
    <3>3. u = w
      BY <3>2 DEF Keys
    <3> QED  BY <2>2, <3>1, <3>3
  <2>3. ASSUME NEW t \in Tasks, NEW w \in user,
               task[t].pc = "verify", w.id = task[t].id, Write(t, w, Verified(w))
        PROVE  u.id = task[t].id /\ v = Verified(u) /\ Write(t, u, v)
    <3>1. v = Verified(w)
      BY <1>2, <2>3 DEF Write
    <3>2. v.id = w.id
      BY <3>1, Ids DEF Verified, Rows
    <3>3. u = w
      BY <3>2 DEF Keys
    <3> QED  BY <2>3, <3>1, <3>3
  <2> QED  BY <1>2, <2>1, <2>2, <2>3, TableStep
<1> QED  BY <1>1, <1>2

\* The sequence gives an id once, and a write puts a row in the place of the one
\* that had its id.
LEMMA KeysStep ==
  ASSUME TypeOK, TypeOK', Keys, [Next]_vars
  PROVE  Keys'
<1>1. /\ lastId \in Nat /\ lastId' \in Nat /\ lastId <= lastId'
      /\ \A u \in user : u.id \in Nat /\ u.id <= lastId
  BY Ids, TableStep DEF TypeOK
<1>2. \/ user' \subseteq user
      \/ \E v : v.id = lastId + 1 /\ lastId' = lastId + 1 /\ user' = user \cup {v}
      \/ \E u \in user : \E v : v.id = u.id /\ user' = (user \ {u}) \cup {v}
  <2>1. ASSUME NEW t \in Tasks, NEW k \in Codes, NEW u \in user, task[t].pc = "update",
               Write(t, u, Reregistered(u, task[t].password, k))
        PROVE  \E v : v.id = u.id /\ user' = (user \ {u}) \cup {v}
    <3>1. u \in Rows /\ task[t].password \in Passwords
      BY <2>1, TaskShape, Ids
    <3>2. Reregistered(u, task[t].password, k).id = u.id
      BY <3>1, UpdatedRow
    <3> QED  BY <2>1, <3>2 DEF Write
  <2>2. ASSUME NEW t \in Tasks, NEW u \in user, Write(t, u, Verified(u))
        PROVE  \E v : v.id = u.id /\ user' = (user \ {u}) \cup {v}
    <3>1. Verified(u).id = u.id
      BY Ids DEF Verified, Rows
    <3> QED  BY <2>2, <3>1 DEF Write
  <2> QED  BY <2>1, <2>2, TableStep
<1>3. \A v \in user' : v.id <= lastId'
  BY <1>1, <1>2
<1>4. \A u, v \in user' : u.id = v.id => u = v
  <2>1. \A u, v \in user : u.id = v.id => u = v
    BY DEF Keys
  <2>2. CASE user' \subseteq user
    BY <2>1, <2>2
  <2>3. ASSUME NEW w, w.id = lastId + 1, user' = user \cup {w}
        PROVE  \A u, v \in user' : u.id = v.id => u = v
    <3>1. \A u \in user : u.id # w.id
      BY <1>1, <2>3
    <3> QED  BY <2>1, <2>3, <3>1
  <2>4. ASSUME NEW x \in user, NEW w, w.id = x.id, user' = (user \ {x}) \cup {w}
        PROVE  \A u, v \in user' : u.id = v.id => u = v
    BY <2>1, <2>4
  <2> QED  BY <1>2, <2>2, <2>3, <2>4
<1>5. \A t \in Tasks : task'[t].pc \in {"update", "verify"} => task'[t].id <= lastId'
  <2> SUFFICES ASSUME NEW t \in Tasks, task'[t].pc \in {"update", "verify"}
               PROVE  task'[t].id <= lastId'
    OBVIOUS
  <2>1. CASE task'[t] = task[t]
    <3>1. task[t].id \in Nat /\ task[t].id <= lastId
      BY <2>1, Ids
    <3> QED  BY <1>1, <2>1, <3>1
  <2>2. CASE \E u \in user : task'[t].id = u.id
    BY <1>1, <2>2
  <2> QED  BY <2>1, <2>2, TaskStep DEF Idle
<1> QED  BY <1>3, <1>4, <1>5 DEF Keys

\* A row that is there after a step was there before, but for a new user's.
LEMMA NewRow ==
  ASSUME TypeOK, TypeOK', Keys, [Next]_vars, NEW v \in user',
         \A u \in user : u.id # v.id
  PROVE  v.id = lastId + 1 /\ ~v.isVerified /\ <<v.id, v.verificationCode>> \in issued'
<1>1. ASSUME NEW t \in Tasks, NEW k \in Codes, NEW u \in user, task[t].pc = "update",
             Write(t, u, Reregistered(u, task[t].password, k))
      PROVE  FALSE
  <2>1. u \in Rows /\ task[t].password \in Passwords
    BY <1>1, TaskShape, Ids
  <2>2. Reregistered(u, task[t].password, k).id = u.id
    BY <2>1, UpdatedRow
  <2> QED  BY <1>1, <2>2 DEF Write
<1>2. ASSUME NEW t \in Tasks, NEW u \in user, Write(t, u, Verified(u))
      PROVE  FALSE
  <2>1. Verified(u).id = u.id
    BY Ids DEF Verified, Rows
  <2> QED  BY <1>2, <2>1 DEF Write
<1>3. v \notin user
  OBVIOUS
<1> QED  BY <1>1, <1>2, <1>3, TableStep

\* Whoever is verified stays so: neither update sets isVerified back, and what is
\* not set keeps its value.
LEMMA VerifiedStays ==
  ASSUME TypeOK, Keys, [Next]_vars, NEW u \in user, NEW v \in user', u.id = v.id,
         u.isVerified
  PROVE  v.isVerified
<1>1. ASSUME NEW t \in Tasks, NEW k \in Codes, task[t].pc = "update",
             v = Reregistered(u, task[t].password, k)
      PROVE  v.isVerified
  <2>1. u \in Rows /\ task[t].password \in Passwords
    BY <1>1, TaskShape, Ids
  <2> QED  BY <1>1, <2>1, UpdatedRow
<1>2. CASE v = Verified(u)
  BY <1>2, Ids DEF Verified, Rows
<1> QED  BY <1>1, <1>2, SameRow

\* Every code that is written for a user is issued to that user.
LEMMA IssuedStep ==
  ASSUME TypeOK, TypeOK', Keys, Issued, [Next]_vars
  PROVE  Issued'
<1> SUFFICES ASSUME NEW v \in user', ~v.isVerified
             PROVE  <<v.id, v.verificationCode>> \in issued'
  BY DEF Issued
<1>1. issued \subseteq issued'
  BY TableStep
<1>2. CASE \A u \in user : u.id # v.id
  BY <1>2, NewRow
<1>3. ASSUME NEW u \in user, u.id = v.id
      PROVE  <<v.id, v.verificationCode>> \in issued'
  <2>1. CASE v = u
    BY <1>1, <2>1 DEF Issued
  <2>2. ASSUME NEW t \in Tasks, NEW k \in Codes, task[t].pc = "update",
               v = Reregistered(u, task[t].password, k), <<u.id, k>> \in issued'
        PROVE  <<v.id, v.verificationCode>> \in issued'
    <3>1. u \in Rows /\ task[t].password \in Passwords
      BY <2>2, TaskShape, Ids
    <3>2. v.verificationCode = k
      BY <2>2, <3>1, UpdatedRow
    <3> QED  BY <1>3, <2>2, <3>2
  <2>3. CASE v = Verified(u)
    BY <2>3, Ids DEF Verified, Rows
  <2> QED  BY <1>3, <2>1, <2>2, <2>3, SameRow
<1> QED  BY <1>2, <1>3

\* Whoever has read a row that is written becomes stale.
LEMMA WriteMakesStale ==
  ASSUME TypeOK, Keys, [Next]_vars, NEW u \in user, NEW v \in user', u.id = v.id, v # u,
         NEW t \in Tasks, HasRead(t, u.id)
  PROVE  t \in stale' \/ task'[t] = Idle
<1>1. \E s \in Tasks : Write(s, u, v)
  BY SameRow
<1> QED  BY <1>1 DEF Write, TypeOK

\* A registration that is not stale finds the row as unverified as it read it.
LEMMA UpdatesStep ==
  ASSUME TypeOK, TypeOK', Keys, Updates, [Next]_vars
  PROVE  Updates'
<1> SUFFICES ASSUME NEW t \in Tasks, task'[t].pc = "update", t \notin stale',
                    NEW v \in user', v.id = task'[t].id
             PROVE  ~v.isVerified
  BY DEF Updates
<1>1. CASE task'[t] = task[t] /\ t \notin stale
  <2>1. PICK u \in user : u.id = v.id
    <3>1. task[t].id \in Nat /\ task[t].id <= lastId /\ lastId \in Nat
      BY <1>1, Ids
    <3>2. v.id # lastId + 1
      BY <1>1, <3>1
    <3> QED  BY <3>2, NewRow
  <2>2. ~u.isVerified
    BY <1>1, <2>1 DEF Updates
  <2>3. v = u
    BY <1>1, <2>1, WriteMakesStale DEF HasRead, Idle
  <2> QED  BY <2>2, <2>3
<1>2. CASE user' = user /\ \E u \in user : ~u.isVerified /\ task'[t].id = u.id
  BY <1>2 DEF Keys
<1> QED  BY <1>1, <1>2, TaskStep DEF Idle

\* A verification that is not stale finds the code it read; and it was issued to
\* the user, if the user is one whom it will verify.
LEMMA VerificationsStep ==
  ASSUME TypeOK, TypeOK', Keys, Issued, Verifications, [Next]_vars
  PROVE  Verifications'
<1> SUFFICES ASSUME NEW t \in Tasks, task'[t].pc = "verify",
                    NEW v \in user', v.id = task'[t].id
             PROVE  /\ t \notin stale' => v.verificationCode = task'[t].code
                    /\ ~v.isVerified => <<v.id, task'[t].code>> \in issued'
  BY DEF Verifications
<1>0. issued \subseteq issued'
  BY TableStep
<1>1. CASE task'[t] = task[t] /\ (t \in stale => t \in stale')
  <2>1. PICK u \in user : u.id = v.id
    <3>1. task[t].id \in Nat /\ task[t].id <= lastId /\ lastId \in Nat
      BY <1>1, Ids
    <3>2. v.id # lastId + 1
      BY <1>1, <3>1
    <3> QED  BY <3>2, NewRow
  <2>2. /\ t \notin stale => u.verificationCode = task[t].code
        /\ ~u.isVerified => <<u.id, task[t].code>> \in issued
    BY <1>1, <2>1 DEF Verifications
  <2>3. t \notin stale' => v = u
    BY <1>1, <2>1, WriteMakesStale DEF HasRead, Idle
  <2>4. ~v.isVerified => ~u.isVerified
    BY <2>1, VerifiedStays
  <2> QED  BY <1>0, <1>1, <2>1, <2>2, <2>3, <2>4
<1>2. CASE /\ user' = user
           /\ \E u \in user : task'[t].id = u.id /\ task'[t].code = u.verificationCode
  BY <1>0, <1>2 DEF Keys, Issued
<1> QED  BY <1>1, <1>2, TaskStep DEF Idle

-----------------------------------------------------------------------------
(* The theorems. *)

\* The inductive invariant: a row that a handler wrote to is told from one that it
\* still knows, however handlers, deletions and deaths interleave.
THEOREM Invariance == Spec => []IInv
<1>1. Init => IInv
  <2> SUFFICES ASSUME Init PROVE IInv
    OBVIOUS
  <2>1. TypeOK
    BY MaxUsersAssumption DEF Init, TypeOK, TaskStates
  <2>2. Keys /\ Issued /\ Updates /\ Verifications
    BY DEF Init, Keys, Issued, Updates, Verifications, Idle
  <2> QED  BY <2>1, <2>2 DEF IInv
<1>2. IInv /\ [Next]_vars => IInv'
  <2> SUFFICES ASSUME IInv, [Next]_vars PROVE IInv'
    OBVIOUS
  <2>1. TypeOK'
    BY TypeOKStep DEF IInv
  <2>2. Keys' /\ Issued' /\ Updates' /\ Verifications'
    BY <2>1, KeysStep, IssuedStep, UpdatesStep, VerificationsStep DEF IInv
  <2> QED  BY <2>1, <2>2 DEF IInv
<1> QED  BY <1>1, <1>2, PTL DEF Spec

\* Rows and tasks keep their types.
THEOREM TypeCorrect == Spec => []TypeOK
BY Invariance, PTL DEF IInv

\* No registration and no other handler takes a verification back.
THEOREM VerifiedForGood == Spec => StaysVerified
<1> DEFINE Stays == \A u \in user, v \in user' : u.id = v.id /\ u.isVerified => v.isVerified
<1>1. IInv /\ [Next]_vars => [Stays]_vars
  <2> SUFFICES ASSUME IInv, [Next]_vars, NEW u \in user, NEW v \in user',
                      u.id = v.id, u.isVerified
               PROVE  v.isVerified
    OBVIOUS
  <2> QED  BY VerifiedStays DEF IInv
<1> QED  BY Invariance, <1>1, PTL DEF Spec, StaysVerified

\* Whoever becomes verified does so by a code issued to that very user.
THEOREM VerifiedByOwnCode == Spec => VerifiedByIssuedCode
<1> DEFINE ByIssued ==
      \A u \in user, v \in user' :
        u.id = v.id /\ ~u.isVerified /\ v.isVerified =>
          \E t \in Tasks : task[t].pc = "verify" /\ <<u.id, task[t].code>> \in issued
<1>1. ASSUME IInv, [Next]_vars, NEW u \in user, NEW v \in user', u.id = v.id,
             ~u.isVerified, v.isVerified
      PROVE  \E t \in Tasks : task[t].pc = "verify" /\ <<u.id, task[t].code>> \in issued
  <2>1. ASSUME NEW t \in Tasks, NEW k \in Codes, task[t].pc = "update",
               v = Reregistered(u, task[t].password, k)
        PROVE  FALSE
    <3>1. u \in Rows /\ task[t].password \in Passwords
      BY <1>1, <2>1, TaskShape, Ids DEF IInv
    <3>2. v.isVerified = u.isVerified
      BY <2>1, <3>1, UpdatedRow
    <3> QED  BY <1>1, <3>2
  <2>2. ASSUME NEW t \in Tasks, task[t].pc = "verify", u.id = task[t].id
        PROVE  <<u.id, task[t].code>> \in issued
    BY <1>1, <2>2 DEF IInv, Verifications
  <2>3. v # u
    BY <1>1
  <2>4. \/ v = u
        \/ \E t \in Tasks, k \in Codes :
             task[t].pc = "update" /\ v = Reregistered(u, task[t].password, k)
        \/ \E t \in Tasks : task[t].pc = "verify" /\ u.id = task[t].id
    <3>1. TypeOK /\ Keys /\ [Next]_vars /\ u.id = v.id
      BY <1>1 DEF IInv
    <3> QED  BY <3>1, SameRow
  <2> QED  BY <2>1, <2>2, <2>3, <2>4
<1>2. IInv /\ [Next]_vars => [ByIssued]_vars
  BY <1>1
<1> QED  BY Invariance, <1>2, PTL DEF Spec, VerifiedByIssuedCode

\* A verified user's password is replaced, and a code that is not the present one
\* verifies, only by a handler that another one overtook.
THEOREM OnlyOvertakenHandlersHarm == Spec => OnlyStaleHandlersHarm
<1> DEFINE Harmless ==
      \A u \in user, v \in user' :
        u.id = v.id =>
          \/ LeftAlone(u, v) /\ ByPresentCode(u, v)
          \/ \E t \in stale : HasRead(t, u.id) /\ task'[t] = Idle
<1>1. ASSUME IInv, [Next]_vars, NEW u \in user, NEW v \in user', u.id = v.id
      PROVE  \/ LeftAlone(u, v) /\ ByPresentCode(u, v)
             \/ \E t \in stale : HasRead(t, u.id) /\ task'[t] = Idle
  <2>1. CASE v = u
    BY <2>1 DEF LeftAlone, ByPresentCode
  <2>2. ASSUME NEW t \in Tasks, NEW k \in Codes, task[t].pc = "update", u.id = task[t].id,
               v = Reregistered(u, task[t].password, k), Write(t, u, v)
        PROVE  \/ LeftAlone(u, v) /\ ByPresentCode(u, v)
               \/ \E s \in stale : HasRead(s, u.id) /\ task'[s] = Idle
    <3>1. CASE t \in stale
      BY <1>1, <2>2, <3>1 DEF HasRead, Write, IInv, TypeOK
    <3>2. CASE t \notin stale
      <4>1. ~u.isVerified
        BY <1>1, <2>2, <3>2 DEF IInv, Updates
      <4>2. u \in Rows /\ task[t].password \in Passwords
        BY <1>1, <2>2, TaskShape, Ids DEF IInv
      <4>3. ~v.isVerified
        BY <2>2, <4>1, <4>2, UpdatedRow
      <4> QED  BY <4>1, <4>3 DEF LeftAlone, ByPresentCode
    <3> QED  BY <3>1, <3>2
  <2>3. ASSUME NEW t \in Tasks, task[t].pc = "verify", u.id = task[t].id,
               v = Verified(u), Write(t, u, v)
        PROVE  \/ LeftAlone(u, v) /\ ByPresentCode(u, v)
               \/ \E s \in stale : HasRead(s, u.id) /\ task'[s] = Idle
    <3>1. CASE t \in stale
      BY <1>1, <2>3, <3>1 DEF HasRead, Write, IInv, TypeOK
    <3>2. CASE t \notin stale
      <4>1. u.verificationCode = task[t].code
        BY <1>1, <2>3, <3>2 DEF IInv, Verifications
      <4>2. v.password = u.password
        BY <1>1, <2>3, Ids DEF IInv, Verified, Rows
      <4> QED  BY <2>3, <4>1, <4>2 DEF LeftAlone, ByPresentCode
    <3> QED  BY <3>1, <3>2
  <2> QED  BY <1>1, <2>1, <2>2, <2>3, SameRow DEF IInv
<1>2. IInv /\ [Next]_vars => [Harmless]_vars
  BY <1>1
<1> QED  BY Invariance, <1>2, PTL DEF Spec, OnlyStaleHandlersHarm
=============================================================================
