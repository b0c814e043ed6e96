----------------------------- MODULE Auth_proofs -----------------------------
(***************************************************************************)
(* Proofs about Auth for any users, handler slots and expiration, and any   *)
(* bounds on the clock and on the sessions created.                         *)
(*                                                                         *)
(* IInv is the inductive invariant.  TypeOK needs Bounded, for a session's  *)
(* id to stay in its range, and Computed, for its expiry to.  The four      *)
(* properties need to know what a JWT says of the session it names, also    *)
(* while it is being signed (Signed, Tokens), and what a validation found   *)
(* out before each of its awaits (Validations).                             *)
(***************************************************************************)
EXTENDS Auth, FiniteSetTheorems, TLAPS

\* Logins that have yet to insert their session.
Pending == {t \in Tasks : task[t].pc \in {"credentials", "validating", "valid", "insert"}}

\* A session can be numbered for every login that may still insert one.
Bounded ==
  /\ IsFiniteSet(LoginsInFlight)
  /\ lastId + Cardinality(Pending) <= MaxSessions

\* The primary key and the foreign key of table session.
SessionKeys ==
  \A s \in session :
    /\ s.id <= lastId
    /\ s.userId \in users
    /\ \A s2 \in session : s2.id = s.id => s2 = s

\* A login under way has computed an expiry that is not too far off.
Computed ==
  \A t \in Tasks :
    task[t].pc \in {"insert", "sign"} => task[t].expiresAt <= now + Second * Expiration

\* The session with this id, if it is there yet, is user's and ends at until.
Names(id, user, until) ==
  /\ id <= lastId
  /\ \A s \in session : s.id = id => s.userId = user /\ s.expiresAt = until

\* A login that is about to sign names its own session.
Signed ==
  \A t \in Tasks :
    task[t].pc = "sign" => Names(task[t].sessionId, task[t].user, task[t].expiresAt)

\* A JWT names the session of the login that it was signed for.
Tokens ==
  \A j \in token : Names(j.sessionId, j.user, j.until)

\* What validation t has found out of its JWT.
Validated(t) ==
  /\ task[t].jwt \in token
  /\ InSeconds(task[t].begun) < task[t].jwt.exp
  /\ task[t].present \/ task[t].jwt.user \notin users
  /\ task[t].pc # "find" =>
       /\ task[t].userId = task[t].jwt.user
       /\ task[t].begun < task[t].jwt.until
       /\ task[t].present

Validations ==
  \A t \in Tasks : task[t].pc \in {"find", "check", "checking", "found"} => Validated(t)

IInv ==
  /\ TypeOK
  /\ Bounded
  /\ SessionKeys
  /\ Computed
  /\ Signed
  /\ Tokens
  /\ Validations
  /\ JWTCoversTheSession
  /\ AcceptedAsWhoLoggedIn
  /\ DeletedIsRefused
  /\ AcceptedInTime

-----------------------------------------------------------------------------
(* The clock. *)

\* Cutting a time to whole seconds loses less than a second.
LEMMA WholeSeconds ==
  ASSUME NEW time \in Nat
  PROVE  /\ InSeconds(time) \in Nat
         /\ InSeconds(time) <= time
         /\ InSeconds(time) * Second <= time
         /\ time < (InSeconds(time) + 1) * Second
<1>1. /\ InSeconds(time) \in Nat
      /\ InSeconds(time) * Second <= time
      /\ time < (InSeconds(time) + 1) * Second
  BY TimeAssumption DEF InSeconds
<1>2. InSeconds(time) <= InSeconds(time) * Second
  BY <1>1, TimeAssumption
<1> QED  BY <1>1, <1>2, TimeAssumption

\* EXPIRATION seconds are at least as many ticks.
LEMMA ExpirationTicks ==
  /\ Second * Expiration \in Nat
  /\ Second * Expiration = Expiration * Second
  /\ Expiration <= Second * Expiration
BY TimeAssumption

\* What is signed at a time ends, in whole seconds and one more, after any
\* expiry that was computed before.
LEMMA SignedLater ==
  ASSUME NEW time \in Nat, NEW until \in Nat, until <= time + Second * Expiration
  PROVE  until < (InSeconds(time) + Expiration + 1) * Second
<1>1. InSeconds(time) \in Nat /\ time < (InSeconds(time) + 1) * Second
  BY WholeSeconds
<1>2. (InSeconds(time) + Expiration + 1) * Second
        = (InSeconds(time) + 1) * Second + Second * Expiration
  BY <1>1, TimeAssumption
<1>3. (InSeconds(time) + 1) * Second \in Nat /\ Second * Expiration \in Nat
  BY <1>1, TimeAssumption
<1> QED  BY <1>1, <1>2, <1>3

-----------------------------------------------------------------------------
(* Tasks. *)

\* A task's fields follow from its pc.
LEMMA TaskShape ==
  ASSUME TypeOK, NEW t \in Tasks
  PROVE  /\ task[t] \in {Idle, Lost} \cup LoginStates \cup ValidationStates
         /\ task[t] \in LoginStates <=>
              task[t].pc \in {"credentials", "validating", "valid", "insert", "sign"}
         /\ task[t].pc \in {"credentials", "validating", "valid"} =>
              task[t] \in [pc : {"credentials", "validating", "valid"}, user : Users]
         /\ task[t].pc = "insert" =>
              task[t] \in [pc : {"insert"}, user : Users, expiresAt : Times]
         /\ task[t].pc = "sign" =>
              task[t] \in [pc : {"sign"}, user : Users, sessionId : 1..MaxSessions,
                           expiresAt : Times]
         /\ task[t].pc = "find" =>
              task[t] \in [pc : {"find"}, jwt : JWTs, begun : Times, present : BOOLEAN]
         /\ task[t].pc \in {"check", "checking", "found"} =>
              task[t] \in [pc : {"check", "checking", "found"}, jwt : JWTs, userId : Users,
                           begun : Times, present : BOOLEAN]
<1> USE DEF Idle, Lost, LoginStates, ValidationStates
<1>0. task[t] \in {Idle, Lost} \cup LoginStates \cup ValidationStates
  BY DEF TypeOK
<1>1. CASE task[t] \in {Idle, Lost}
  BY <1>1
<1>2. CASE task[t] \in [pc : {"credentials", "validating", "valid"}, user : Users]
  BY <1>2
<1>3. CASE task[t] \in [pc : {"insert"}, user : Users, expiresAt : Times]
  BY <1>3
<1>4. CASE task[t] \in [pc : {"sign"}, user : Users, sessionId : 1..MaxSessions,
                        expiresAt : Times]
  BY <1>4
<1>5. CASE task[t] \in [pc : {"find"}, jwt : JWTs, begun : Times, present : BOOLEAN]
  BY <1>5
<1>6. CASE task[t] \in [pc : {"check", "checking", "found"}, jwt : JWTs, userId : Users,
                        begun : Times, present : BOOLEAN]
  BY <1>6
<1> QED  BY <1>0, <1>1, <1>2, <1>3, <1>4, <1>5, <1>6

\* A request that user-service takes: whose it is stays as it was.
LEMMA TakeStep ==
  ASSUME TypeOK, NEW t \in Tasks, Take(t)
  PROVE  /\ task' = [task EXCEPT ![t] = task'[t]]
         /\ task'[t] \in LoginStates \cup ValidationStates
         /\ \/ task[t].pc = "credentials" /\ task'[t].pc = "validating"
            \/ /\ task[t].pc = "check" /\ task'[t].pc = "checking"
               /\ task'[t].jwt = task[t].jwt /\ task'[t].userId = task[t].userId
               /\ task'[t].begun = task[t].begun /\ task'[t].present = task[t].present
<1>1. PICK pc \in {"validating", "checking"} :
        /\ task[t].pc = IF pc = "validating" THEN "credentials" ELSE "check"
        /\ task' = [task EXCEPT ![t].pc = pc]
  BY DEF Take, Queued
<1>2. task' = [task EXCEPT ![t] = task'[t]] /\ task'[t] = [task[t] EXCEPT !.pc = pc]
  BY <1>1 DEF TypeOK
<1>3. CASE pc = "validating"
  <2>1. task[t] \in [pc : {"credentials", "validating", "valid"}, user : Users]
    BY <1>1, <1>3, TaskShape
  <2>2. task'[t].pc = "validating" /\ task'[t] \in LoginStates
    BY <1>2, <1>3, <2>1 DEF LoginStates
  <2> QED  BY <1>1, <1>2, <1>3, <2>2
<1>4. CASE pc = "checking"
  <2>1. task[t] \in [pc : {"check", "checking", "found"}, jwt : JWTs, userId : Users,
                     begun : Times, present : BOOLEAN]
    BY <1>1, <1>4, TaskShape
  <2>2. /\ task'[t].pc = "checking" /\ task'[t] \in ValidationStates
        /\ task'[t].jwt = task[t].jwt /\ task'[t].userId = task[t].userId
        /\ task'[t].begun = task[t].begun /\ task'[t].present = task[t].present
    BY <1>2, <1>4, <2>1 DEF ValidationStates
  <2> QED  BY <1>1, <1>2, <1>4, <2>2
<1> QED  BY <1>3, <1>4

\* The pending logins are finitely many, and one is counted as it starts and as
\* it ends.
LEMMA PendingCount ==
  ASSUME TypeOK, Bounded
  PROVE  /\ Pending \subseteq LoginsInFlight
         /\ IsFiniteSet(Pending)
         /\ Cardinality(Pending) \in Nat
         /\ Cardinality(LoginsInFlight) \in Nat
         /\ Cardinality(Pending) <= Cardinality(LoginsInFlight)
         /\ \A t \in Tasks \ Pending :
              Cardinality(Pending \cup {t}) = Cardinality(Pending) + 1
         /\ \A t \in Pending :
              Cardinality(Pending \ {t}) = Cardinality(Pending) - 1
<1>1. Pending \subseteq LoginsInFlight
  BY TaskShape DEF Pending, LoginsInFlight
<1>2. IsFiniteSet(Pending) /\ Cardinality(Pending) <= Cardinality(LoginsInFlight)
  BY <1>1, FS_Subset DEF Bounded
<1>3. Cardinality(Pending) \in Nat /\ Cardinality(LoginsInFlight) \in Nat
  BY <1>2, FS_CardinalityType DEF Bounded
<1>4. \A t \in Tasks \ Pending :
        Cardinality(Pending \cup {t}) = Cardinality(Pending) + 1
  BY <1>2, FS_AddElement
<1>5. \A t \in Pending : Cardinality(Pending \ {t}) = Cardinality(Pending) - 1
  BY <1>2, FS_RemoveElement
<1> QED  BY <1>1, <1>2, <1>3, <1>4, <1>5

-----------------------------------------------------------------------------
\* Every variable keeps its type: no id is given that the table does not have,
\* and no expiry lies further off than EXPIRATION after the last tick.
LEMMA TypeOKStep ==
  ASSUME TypeOK, Bounded, Computed, [Next]_vars
  PROVE  TypeOK'
<1> USE DEF TypeOK, Goto
<1> DEFINE States == {Idle, Lost} \cup LoginStates \cup ValidationStates
<1>1. Idle \in States /\ Lost \in States
  OBVIOUS
<1>2. 0..MaxTime \subseteq Times
  BY TimeAssumption, ExpirationTicks DEF Times
<1>3. ASSUME NEW t \in Tasks, NEW u \in Users, StartLogin(t, u)
      PROVE  TypeOK'
  <2>1. Login(u) \in States
    BY DEF Login, LoginStates
  <2> QED  BY <1>3, <2>1 DEF StartLogin
<1>4. ASSUME NEW t \in Tasks, NEW j \in token, StartValidation(t, j)
      PROVE  TypeOK'
  <2>1. [pc |-> "find", jwt |-> j, begun |-> now, present |-> j.user \in users] \in States
    BY <1>2 DEF ValidationStates
  <2> QED  BY <1>4, <2>1 DEF StartValidation
<1>5. ASSUME NEW t \in Tasks, ValidateUser(t)
      PROVE  TypeOK'
  <2>1. task[t] \in [pc : {"credentials", "validating", "valid"}, user : Users]
    BY <1>5, TaskShape DEF ValidateUser
  <2>2. [task[t] EXCEPT !.pc = "valid"] \in States
    BY <2>1 DEF LoginStates
  <2> QED  BY <1>1, <1>5, <2>2 DEF ValidateUser
<1>6. ASSUME NEW t \in Tasks, ComputeExpiry(t)
      PROVE  TypeOK'
  <2>1. task[t] \in [pc : {"credentials", "validating", "valid"}, user : Users]
    BY <1>6, TaskShape DEF ComputeExpiry
  <2>2. now + Expiration * Second \in Times
    BY TimeAssumption, ExpirationTicks DEF Times
  <2>3. [pc |-> "insert", user |-> task[t].user,
         expiresAt |-> now + Expiration * Second] \in States
    BY <2>1, <2>2 DEF LoginStates
  <2> QED  BY <1>6, <2>3 DEF ComputeExpiry
<1>7. ASSUME NEW t \in Tasks, InsertSession(t)
      PROVE  TypeOK'
  <2>1. task[t] \in [pc : {"insert"}, user : Users, expiresAt : Times]
    BY <1>7, TaskShape DEF InsertSession
  <2>2. t \in Pending
    BY <1>7 DEF InsertSession, Pending
  <2>3. Cardinality(Pending) > 0
    <3>1. IsFiniteSet(Pending) /\ Pending # {} /\ Cardinality(Pending) \in Nat
      BY <2>2, PendingCount
    <3> QED  BY <3>1, FS_EmptySet
  <2>4. lastId + 1 \in 1..MaxSessions
    BY <2>3, PendingCount, MaxSessionsAssumption DEF Bounded
  <2>5. [id |-> lastId + 1, userId |-> task[t].user, expiresAt |-> task[t].expiresAt]
          \in Sessions
    BY <2>1, <2>4 DEF Sessions
  <2>6. [pc |-> "sign", user |-> task[t].user, sessionId |-> lastId + 1,
         expiresAt |-> task[t].expiresAt] \in States
    BY <2>1, <2>4 DEF LoginStates
  <2> QED  BY <1>7, <2>4, <2>5, <2>6 DEF InsertSession
<1>8. ASSUME NEW t \in Tasks, InsertRefused(t)
      PROVE  TypeOK'
  BY <1>1, <1>8 DEF InsertRefused
<1>9. ASSUME NEW t \in Tasks, Sign(t)
      PROVE  TypeOK'
  <2>1. task[t] \in [pc : {"sign"}, user : Users, sessionId : 1..MaxSessions,
                     expiresAt : Times]
    BY <1>9, TaskShape DEF Sign
  <2>2. InSeconds(now) + Expiration \in Times
    <3>1. InSeconds(now) \in Nat /\ InSeconds(now) <= now
      BY WholeSeconds
    <3> QED  BY <3>1, TimeAssumption, ExpirationTicks DEF Times
  <2>3. [sessionId |-> task[t].sessionId, exp |-> InSeconds(now) + Expiration,
         user |-> task[t].user, until |-> task[t].expiresAt] \in JWTs
    BY <2>1, <2>2 DEF JWTs
  <2> QED  BY <1>1, <1>9, <2>3 DEF Sign
<1>10. ASSUME NEW t \in Tasks, FindSession(t)
       PROVE  TypeOK'
  <2>1. task[t] \in [pc : {"find"}, jwt : JWTs, begun : Times, present : BOOLEAN]
    BY <1>10, TaskShape DEF FindSession
  <2>2. PICK s \in Active(t) :
          Goto(t, [pc |-> "check", jwt |-> task[t].jwt, userId |-> s.userId,
                   begun |-> task[t].begun, present |-> task[t].present])
    BY <1>10 DEF FindSession
  <2>3. s.userId \in Users
    BY DEF Active, Sessions
  <2>4. [pc |-> "check", jwt |-> task[t].jwt, userId |-> s.userId,
         begun |-> task[t].begun, present |-> task[t].present] \in States
    BY <2>1, <2>3 DEF ValidationStates
  <2> QED  BY <1>10, <2>2, <2>4 DEF FindSession
<1>11. ASSUME NEW t \in Tasks, NoSession(t)
       PROVE  TypeOK'
  BY <1>1, <1>11 DEF NoSession
<1>12. ASSUME NEW t \in Tasks, CheckId(t)
       PROVE  TypeOK'
  <2>1. task[t] \in [pc : {"check", "checking", "found"}, jwt : JWTs, userId : Users,
                     begun : Times, present : BOOLEAN]
    BY <1>12, TaskShape DEF CheckId
  <2>2. [task[t] EXCEPT !.pc = "found"] \in States
    BY <2>1 DEF ValidationStates
  <2> QED  BY <1>1, <1>12, <2>2 DEF CheckId
<1>13. ASSUME NEW t \in Tasks, Accept(t)
       PROVE  TypeOK'
  <2>1. task[t] \in [pc : {"check", "checking", "found"}, jwt : JWTs, userId : Users,
                     begun : Times, present : BOOLEAN]
    BY <1>13, TaskShape DEF Accept
  <2>2. accepted' \subseteq [jwt : JWTs, userId : Users, begun : Times, present : BOOLEAN]
    BY <1>13, <2>1 DEF Accept
  <2> QED  BY <1>1, <1>13, <2>2 DEF Accept
<1>14. CASE CrashUserService
  BY <1>1, <1>14 DEF CrashUserService
<1>15. ASSUME NEW u \in Users, RemoveUser(u)
       PROVE  TypeOK'
  BY <1>15 DEF RemoveUser
<1>16. CASE Tick
  BY <1>16, TimeAssumption DEF Tick
<1>17. CASE Crash
  BY <1>1, <1>17 DEF Crash
<1>18. CASE StartUserService \/ UNCHANGED vars
  BY <1>18 DEF StartUserService, vars
<1>19. ASSUME NEW t \in Tasks, Take(t)
       PROVE  TypeOK'
  BY <1>19, TakeStep DEF Take
<1> QED  BY <1>3, <1>4, <1>5, <1>6, <1>7, <1>8, <1>9, <1>10, <1>11, <1>12, <1>13, <1>14,
             <1>15, <1>16, <1>17, <1>18, <1>19
         DEF Next, LoginStep, ValidationStep

\* A login starts only while there is room for its session; inserting it uses
\* up one number and ends the wait for one.
LEMMA BoundedStep ==
  ASSUME TypeOK, TypeOK', Bounded, [Next]_vars
  PROVE  Bounded'
<1> USE DEF Goto
<1> DEFINE LoginPcs == {"credentials", "validating", "valid", "insert", "sign"}
<1>1. LoginsInFlight = {t \in Tasks : task[t].pc \in LoginPcs}
  BY TaskShape DEF LoginsInFlight
<1>2. ASSUME NEW t \in Tasks
      PROVE  (task'[t] \in LoginStates) <=> (task'[t].pc \in LoginPcs)
  BY DEF TypeOK, Idle, Lost, LoginStates, ValidationStates
<1>3. LoginsInFlight' = {t \in Tasks : task'[t].pc \in LoginPcs}
  BY <1>2 DEF LoginsInFlight
<1>4. ASSUME NEW t \in Tasks, NEW u \in Users, StartLogin(t, u)
      PROVE  Bounded'
  <2>1. /\ task'[t].pc = "credentials"
        /\ \A x \in Tasks \ {t} : task'[x] = task[x]
        /\ task[t].pc = "idle"
        /\ lastId' = lastId
    BY <1>4 DEF StartLogin, Login, TypeOK, Idle
  <2>2. LoginsInFlight' = LoginsInFlight \cup {t}
    BY <1>1, <1>3, <2>1
  <2>3. IsFiniteSet(LoginsInFlight')
    BY <2>2, FS_AddElement DEF Bounded
  <2>4. Pending' = Pending \cup {t} /\ t \notin Pending
    BY <2>1 DEF Pending
  <2>5. Cardinality(Pending') = Cardinality(Pending) + 1
    BY <2>4, PendingCount
  <2>6. lastId + Cardinality(LoginsInFlight) < MaxSessions
    BY <1>4 DEF StartLogin
  <2>7. lastId + Cardinality(Pending) + 1 <= MaxSessions
    BY <2>6, PendingCount, MaxSessionsAssumption DEF TypeOK
  <2> QED  BY <2>1, <2>3, <2>5, <2>7, PendingCount DEF Bounded, TypeOK
<1>5. ASSUME NEW t \in Tasks, InsertSession(t)
      PROVE  Bounded'
  <2>1. /\ task'[t].pc = "sign" /\ task[t].pc = "insert"
        /\ \A x \in Tasks \ {t} : task'[x] = task[x]
        /\ lastId' = lastId + 1
    BY <1>5 DEF InsertSession, TypeOK
  <2>2. LoginsInFlight' = LoginsInFlight
    BY <1>1, <1>3, <2>1
  <2>3. Pending' = Pending \ {t} /\ t \in Pending
    BY <2>1 DEF Pending
  <2>4. Cardinality(Pending') = Cardinality(Pending) - 1
    BY <2>3, PendingCount
  <2> QED  BY <2>1, <2>2, <2>4, PendingCount DEF Bounded, TypeOK
<1>6. ASSUME lastId' = lastId,
             \A t \in Tasks :
               \/ task'[t] = task[t]
               \/ task'[t].pc \notin LoginPcs
               \/ /\ task[t].pc \in {"credentials", "validating", "valid"}
                  /\ task'[t].pc \in {"validating", "valid", "insert"}
      PROVE  Bounded'
  <2>1. LoginsInFlight' \subseteq LoginsInFlight
    BY <1>1, <1>3, <1>6
  <2>2. Pending' \subseteq Pending
    BY <1>6 DEF Pending
  <2>3. /\ IsFiniteSet(LoginsInFlight')
        /\ IsFiniteSet(Pending')
        /\ Cardinality(Pending') <= Cardinality(Pending)
    BY <2>1, <2>2, PendingCount, FS_Subset DEF Bounded
  <2>4. Cardinality(Pending') \in Nat
    BY <2>3, FS_CardinalityType
  <2> QED  BY <1>6, <2>3, <2>4, PendingCount, MaxSessionsAssumption DEF Bounded, TypeOK
<1>7. ASSUME NEW t \in Tasks, Take(t) \/ LoginStep(t) \/ ValidationStep(t)
      PROVE  Bounded'
  <2>1. CASE InsertSession(t)
    BY <1>5, <2>1
  <2>2. CASE ValidateUser(t)
    <3>1. task[t] \in [pc : {"credentials", "validating", "valid"}, user : Users]
      BY <2>2, TaskShape DEF ValidateUser
    <3>2. task' = [task EXCEPT ![t] = task'[t]] /\ task'[t].pc \in {"valid", "idle"}
      BY <2>2, <3>1 DEF ValidateUser, Idle, TypeOK
    <3> QED  BY <1>6, <2>2, <3>2 DEF ValidateUser, TypeOK
  <2>3. CASE CheckId(t)
    <3>1. task[t] \in [pc : {"check", "checking", "found"}, jwt : JWTs, userId : Users,
                       begun : Times, present : BOOLEAN]
      BY <2>3, TaskShape DEF CheckId
    <3>2. task' = [task EXCEPT ![t] = task'[t]] /\ task'[t].pc \in {"found", "idle"}
      BY <2>3, <3>1 DEF CheckId, Idle, TypeOK
    <3> QED  BY <1>6, <2>3, <3>2 DEF CheckId, TypeOK
  <2>4. CASE ComputeExpiry(t)
    BY <1>6, <2>4 DEF ComputeExpiry, TypeOK
  <2>5. CASE InsertRefused(t) \/ Sign(t) \/ NoSession(t) \/ Accept(t)
    BY <1>6, <2>5 DEF InsertRefused, Sign, NoSession, Accept, Idle, TypeOK
  <2>6. CASE Take(t)
    <3>1. lastId' = lastId
      BY <2>6 DEF Take
    <3>2. \A x \in Tasks : task'[x] = task[x] \/ x = t
      BY <2>6, TakeStep DEF TypeOK
    <3> QED  BY <1>6, <2>6, <3>1, <3>2, TakeStep
  <2>7. CASE FindSession(t)
    BY <1>6, <2>7 DEF FindSession, TypeOK
  <2> QED  BY <1>7, <2>1, <2>2, <2>3, <2>4, <2>5, <2>6, <2>7 DEF LoginStep, ValidationStep
<1>8. ASSUME NEW t \in Tasks, NEW j \in token, StartValidation(t, j)
      PROVE  Bounded'
  BY <1>6, <1>8 DEF StartValidation, TypeOK
<1>9. ASSUME NEW u \in Users, RemoveUser(u)
      PROVE  Bounded'
  BY <1>6, <1>9 DEF RemoveUser
<1>10. CASE Tick \/ StartUserService \/ UNCHANGED vars
  BY <1>6, <1>10 DEF Tick, StartUserService, vars
<1>11. CASE Crash \/ CrashUserService
  BY <1>6, <1>11 DEF Crash, CrashUserService, Idle, Lost
<1> QED  BY <1>4, <1>7, <1>8, <1>9, <1>10, <1>11 DEF Next

-----------------------------------------------------------------------------
\* What only ever grows or shrinks, and the ids that sessions are given.
LEMMA OneWay ==
  ASSUME TypeOK, [Next]_vars
  PROVE  /\ now <= now'
         /\ users' \subseteq users
         /\ token \subseteq token'
         /\ lastId <= lastId'
         /\ \A s \in session' \ session : s.id = lastId + 1 /\ lastId' = lastId + 1
<1> USE DEF TypeOK
<1>1. ASSUME NEW t \in Tasks, LoginStep(t)
      PROVE  /\ now = now'
             /\ users' = users
             /\ token \subseteq token'
             /\ lastId <= lastId'
             /\ \A s \in session' \ session : s.id = lastId + 1 /\ lastId' = lastId + 1
  BY <1>1 DEF LoginStep, ValidateUser, ComputeExpiry, InsertSession, InsertRefused, Sign
<1>2. ASSUME NEW t \in Tasks, Take(t) \/ ValidationStep(t)
      PROVE  UNCHANGED <<now, users, session, lastId, token>>
  BY <1>2 DEF Take, ValidationStep, FindSession, NoSession, CheckId, Accept
<1>3. ASSUME NEW t \in Tasks, NEW u \in Users, StartLogin(t, u)
      PROVE  UNCHANGED <<now, users, session, lastId, token>>
  BY <1>3 DEF StartLogin
<1>4. ASSUME NEW t \in Tasks, NEW j \in token, StartValidation(t, j)
      PROVE  UNCHANGED <<now, users, session, lastId, token>>
  BY <1>4 DEF StartValidation
<1>5. ASSUME NEW u \in Users, RemoveUser(u)
      PROVE  /\ users' \subseteq users
             /\ session' \subseteq session
             /\ UNCHANGED <<now, lastId, token>>
  BY <1>5 DEF RemoveUser
<1>6. CASE Tick
  BY <1>6 DEF Tick
<1>7. CASE Crash \/ CrashUserService \/ StartUserService \/ UNCHANGED vars
  BY <1>7 DEF Crash, CrashUserService, StartUserService, vars
<1> QED  BY <1>1, <1>2, <1>3, <1>4, <1>5, <1>6, <1>7 DEF Next

\* A handler is moved by its own steps alone, and by a death.
LEMMA OwnStep ==
  ASSUME TypeOK, [Next]_vars, NEW t \in Tasks
  PROVE  \/ task'[t] = task[t]
         \/ task'[t] \in {Idle, Lost}
         \/ task'[t].pc = "credentials" /\ \E u \in Users : StartLogin(t, u)
         \/ task'[t].pc \in {"validating", "checking"} /\ Take(t)
         \/ task'[t].pc = "valid" /\ ValidateUser(t)
         \/ task'[t].pc = "insert" /\ ComputeExpiry(t)
         \/ task'[t].pc = "sign" /\ InsertSession(t)
         \/ task'[t].pc = "find" /\ \E j \in token : StartValidation(t, j)
         \/ task'[t].pc = "check" /\ FindSession(t)
         \/ task'[t].pc = "found" /\ CheckId(t)
<1> USE DEF TypeOK, Goto
<1>1. ASSUME NEW x \in Tasks, x # t, Take(x) \/ LoginStep(x) \/ ValidationStep(x)
      PROVE  task'[t] = task[t]
  BY <1>1 DEF Take, LoginStep, ValidateUser, ComputeExpiry, InsertSession, InsertRefused, Sign,
              ValidationStep, FindSession, NoSession, CheckId, Accept
<1>2. CASE LoginStep(t)
  <2>1. CASE ValidateUser(t)
    <3>1. task[t] \in [pc : {"credentials", "validating", "valid"}, user : Users]
      BY <2>1, TaskShape DEF ValidateUser
    <3> QED  BY <2>1, <3>1 DEF ValidateUser
  <2> QED  BY <1>2, <2>1 DEF LoginStep, ComputeExpiry, InsertSession, InsertRefused, Sign
<1>3. CASE ValidationStep(t)
  <2>1. CASE CheckId(t)
    <3>1. task[t] \in [pc : {"check", "checking", "found"}, jwt : JWTs, userId : Users,
                       begun : Times, present : BOOLEAN]
      BY <2>1, TaskShape DEF CheckId
    <3> QED  BY <2>1, <3>1 DEF CheckId
  <2> QED  BY <1>3, <2>1 DEF ValidationStep, FindSession, NoSession, Accept
<1>4. CASE Take(t)
  BY <1>4, TakeStep
<1>5. ASSUME NEW x \in Tasks, NEW u \in Users, StartLogin(x, u)
      PROVE  IF x = t THEN task'[t].pc = "credentials" ELSE task'[t] = task[t]
  BY <1>5 DEF StartLogin, Login
<1>6. ASSUME NEW x \in Tasks, NEW j \in token, StartValidation(x, j)
      PROVE  IF x = t THEN task'[t].pc = "find" ELSE task'[t] = task[t]
  BY <1>6 DEF StartValidation
<1>7. ASSUME NEW u \in Users, RemoveUser(u)
      PROVE  task' = task
  BY <1>7 DEF RemoveUser
<1>8. CASE Tick \/ StartUserService \/ UNCHANGED vars
  BY <1>8 DEF Tick, StartUserService, vars
<1>9. CASE Crash \/ CrashUserService
  BY <1>9 DEF Crash, CrashUserService
<1> QED  BY <1>1, <1>2, <1>3, <1>4, <1>5, <1>6, <1>7, <1>8, <1>9 DEF Next

\* Sessions keep distinct ids and users who are there.
LEMMA SessionKeysStep ==
  ASSUME TypeOK, SessionKeys, [Next]_vars
  PROVE  SessionKeys'
<1> USE DEF TypeOK, SessionKeys, Sessions
<1>1. ASSUME NEW t \in Tasks, InsertSession(t)
      PROVE  SessionKeys'
  BY <1>1 DEF InsertSession
<1>2. ASSUME NEW u \in Users, RemoveUser(u)
      PROVE  SessionKeys'
  BY <1>2 DEF RemoveUser
<1>3. CASE UNCHANGED <<session, lastId, users>>
  BY <1>3
<1> QED  BY <1>1, <1>2, <1>3
         DEF Next, LoginStep, ValidateUser, ComputeExpiry, InsertRefused, Sign, ValidationStep,
             FindSession, NoSession, CheckId, Accept, StartLogin, StartValidation,
             Take, CrashUserService, StartUserService, Tick, Crash, vars

\* The expiry is computed from the clock, which goes on.
LEMMA ComputedStep ==
  ASSUME TypeOK, TypeOK', Computed, [Next]_vars
  PROVE  Computed'
<1> SUFFICES ASSUME NEW t \in Tasks, task'[t].pc \in {"insert", "sign"}
             PROVE  task'[t].expiresAt <= now' + Second * Expiration
  BY DEF Computed
<1> USE DEF TypeOK, Goto
<1>1. now <= now' /\ now \in Nat /\ now' \in Nat /\ Second * Expiration \in Nat
  BY OneWay, ExpirationTicks
<1>2. CASE task[t].pc \in {"insert", "sign"} /\ task'[t].expiresAt = task[t].expiresAt
  <2>1. task[t].expiresAt <= now + Second * Expiration
    BY <1>2 DEF Computed
  <2>2. task[t].expiresAt \in Nat
    BY <1>2, TaskShape DEF Times
  <2> QED  BY <1>1, <1>2, <2>1, <2>2
<1>3. CASE ComputeExpiry(t)
  BY <1>1, <1>3, ExpirationTicks DEF ComputeExpiry
<1>4. CASE InsertSession(t)
  BY <1>2, <1>4 DEF InsertSession
<1> QED  BY <1>2, <1>3, <1>4, OwnStep DEF Idle, Lost

\* An id that was given to a session is not given to another.
LEMMA NamesStep ==
  ASSUME TypeOK, TypeOK', [Next]_vars,
         NEW id \in Nat, NEW user, NEW until, Names(id, user, until)
  PROVE  /\ id <= lastId'
         /\ \A s \in session' : s.id = id => s.userId = user /\ s.expiresAt = until
<1>1. /\ lastId \in Nat /\ lastId <= lastId'
      /\ \A s \in session' \ session : s.id = lastId + 1 /\ lastId' = lastId + 1
      /\ \A s \in session' \ session : s.id # id
  BY OneWay DEF TypeOK, Names
<1>2. id <= lastId'
  BY <1>1, OneWay DEF Names, TypeOK
<1>3. ASSUME NEW s \in session', s.id = id
      PROVE  s.userId = user /\ s.expiresAt = until
  BY <1>1, <1>3 DEF Names
<1> QED  BY <1>2, <1>3

\* A login signs with the id that its own row was given.
LEMMA SignedStep ==
  ASSUME TypeOK, TypeOK', SessionKeys, Signed, [Next]_vars
  PROVE  Signed'
<1> SUFFICES ASSUME NEW t \in Tasks, task'[t].pc = "sign"
             PROVE  /\ task'[t].sessionId <= lastId'
                    /\ \A s \in session' :
                         s.id = task'[t].sessionId =>
                           s.userId = task'[t].user /\ s.expiresAt = task'[t].expiresAt
  BY DEF Signed, Names
<1>1. CASE task'[t] = task[t]
  <2>1. /\ task[t].sessionId \in Nat
        /\ Names(task[t].sessionId, task[t].user, task[t].expiresAt)
    BY <1>1, TaskShape DEF Signed
  <2> QED  BY <1>1, <2>1, NamesStep
<1>2. CASE InsertSession(t)
  BY <1>2 DEF InsertSession, SessionKeys, TypeOK, Sessions, Goto
<1> QED  BY <1>1, <1>2, OwnStep DEF Idle, Lost

\* The JWT a login is given is for the session it inserted.
LEMMA TokensStep ==
  ASSUME TypeOK, TypeOK', Tokens, Signed, [Next]_vars
  PROVE  Tokens'
<1>1. ASSUME NEW j \in token
      PROVE  /\ j.sessionId <= lastId'
             /\ \A s \in session' :
                  s.id = j.sessionId => s.userId = j.user /\ s.expiresAt = j.until
  <2>1. j.sessionId \in Nat /\ Names(j.sessionId, j.user, j.until)
    BY DEF Tokens, TypeOK, JWTs
  <2> QED  BY <2>1, NamesStep
<1>2. ASSUME NEW t \in Tasks, Sign(t)
      PROVE  Tokens'
  <2>1. Names(task[t].sessionId, task[t].user, task[t].expiresAt)
    BY <1>2 DEF Sign, Signed
  <2> QED  BY <1>1, <1>2, <2>1 DEF Sign, Tokens, Names
<1>3. CASE token' = token
  BY <1>1, <1>3 DEF Tokens, Names
<1> QED  BY <1>2, <1>3
         DEF Next, LoginStep, ValidateUser, ComputeExpiry, InsertSession, InsertRefused,
             ValidationStep, FindSession, NoSession, CheckId, Accept, StartLogin,
             StartValidation, Take, CrashUserService, StartUserService, RemoveUser, Tick,
             Crash, vars

\* What a validation found out is still so after its awaits: users do not come
\* back, and the row that was found was the one its JWT names.
LEMMA ValidationsStep ==
  ASSUME TypeOK, SessionKeys, Tokens, Validations, [Next]_vars
  PROVE  Validations'
<1> SUFFICES ASSUME NEW t \in Tasks, task'[t].pc \in {"find", "check", "checking", "found"}
             PROVE  Validated(t)'
  BY DEF Validations
<1> USE DEF Goto
<1>1. users' \subseteq users /\ token \subseteq token'
  BY OneWay
<1>2. CASE task'[t] = task[t]
  BY <1>1, <1>2 DEF Validations, Validated
<1>3. ASSUME NEW j \in token, StartValidation(t, j)
      PROVE  Validated(t)'
  BY <1>1, <1>3 DEF StartValidation, Validated, TypeOK
<1>4. CASE FindSession(t)
  <2>1. Validated(t)
    BY <1>4 DEF FindSession, Validations
  <2>2. PICK s \in Active(t) :
          Goto(t, [pc |-> "check", jwt |-> task[t].jwt, userId |-> s.userId,
                   begun |-> task[t].begun, present |-> task[t].present])
    BY <1>4 DEF FindSession
  <2>3. task'[t] = [pc |-> "check", jwt |-> task[t].jwt, userId |-> s.userId,
                    begun |-> task[t].begun, present |-> task[t].present]
    BY <2>2 DEF TypeOK
  <2>4. s.userId = task[t].jwt.user /\ s.expiresAt = task[t].jwt.until /\ s.userId \in users
    BY <2>1 DEF Active, Validated, Tokens, Names, SessionKeys
  <2>5. task[t].begun < task[t].jwt.until
    <3>1. task[t].begun \in Nat /\ s.expiresAt \in Nat
      BY <1>4, TaskShape DEF FindSession, Active, TypeOK, Sessions, Times
    <3> QED  BY <2>4, <3>1 DEF Active
  <2> QED  BY <1>1, <2>1, <2>3, <2>4, <2>5 DEF Validated
<1>5. CASE Take(t) /\ task'[t].pc = "checking"
  <2>1. Validated(t) /\ task[t].pc = "check"
    BY <1>5, TakeStep DEF Validations
  <2> QED  BY <1>1, <1>5, <2>1, TakeStep DEF Validated
<1>6. CASE CheckId(t) /\ task'[t].pc = "found"
  <2>1. task[t] \in [pc : {"check", "checking", "found"}, jwt : JWTs, userId : Users,
                     begun : Times, present : BOOLEAN]
    BY <1>6, TaskShape DEF CheckId
  <2>2. task'[t] = [task[t] EXCEPT !.pc = "found"]
    BY <1>6 DEF CheckId, TypeOK, Idle
  <2>3. Validated(t)
    BY <1>6 DEF CheckId, Validations
  <2>4. /\ task'[t].jwt = task[t].jwt
        /\ task'[t].begun = task[t].begun
        /\ task'[t].present = task[t].present
        /\ task'[t].userId = task[t].userId
        /\ task[t].pc # "find"
    BY <1>6, <2>1, <2>2 DEF CheckId
  <2> QED  BY <1>1, <2>3, <2>4 DEF Validated
<1> QED  BY <1>2, <1>3, <1>4, <1>5, <1>6, OwnStep DEF Idle, Lost

-----------------------------------------------------------------------------
(* The theorems. *)

\* The expiry a JWT is signed beside was computed no more than EXPIRATION ahead.
LEMMA JWTCoversTheSessionStep ==
  ASSUME TypeOK, Computed, JWTCoversTheSession, [Next]_vars
  PROVE  JWTCoversTheSession'
<1>1. ASSUME NEW t \in Tasks, Sign(t)
      PROVE  JWTCoversTheSession'
  <2>1. /\ now \in Nat /\ task[t].expiresAt \in Nat
        /\ task[t].expiresAt <= now + Second * Expiration
    BY <1>1, TaskShape DEF Sign, Computed, Times, TypeOK
  <2>2. task[t].expiresAt < (InSeconds(now) + Expiration + 1) * Second
    BY <2>1, SignedLater
  <2> QED  BY <1>1, <2>2 DEF Sign, JWTCoversTheSession
<1>2. CASE token' = token
  BY <1>2 DEF JWTCoversTheSession
<1> QED  BY <1>1, <1>2
         DEF Next, LoginStep, ValidateUser, ComputeExpiry, InsertSession, InsertRefused,
             ValidationStep, FindSession, NoSession, CheckId, Accept, StartLogin,
             StartValidation, Take, CrashUserService, StartUserService, RemoveUser, Tick,
             Crash, vars

\* What is accepted is what a validation found out.
LEMMA AcceptedStep ==
  ASSUME Validations, AcceptedAsWhoLoggedIn, DeletedIsRefused, AcceptedInTime, [Next]_vars
  PROVE  AcceptedAsWhoLoggedIn' /\ DeletedIsRefused' /\ AcceptedInTime'
<1> USE DEF AcceptedAsWhoLoggedIn, DeletedIsRefused, AcceptedInTime
<1>1. ASSUME NEW t \in Tasks, Accept(t)
      PROVE  AcceptedAsWhoLoggedIn' /\ DeletedIsRefused' /\ AcceptedInTime'
  <2>1. Validated(t) /\ task[t].pc # "find"
    BY <1>1 DEF Accept, Validations
  <2> QED  BY <1>1, <2>1 DEF Accept, Validated
<1>2. CASE accepted' = accepted
  BY <1>2
<1> QED  BY <1>1, <1>2
         DEF Next, LoginStep, ValidateUser, ComputeExpiry, InsertSession, InsertRefused, Sign,
             ValidationStep, FindSession, NoSession, CheckId, StartLogin,
             StartValidation, Take, CrashUserService, StartUserService, RemoveUser, Tick,
             Crash, vars

\* At first nobody has logged in.
LEMMA InitIInv ==
  ASSUME Init
  PROVE  IInv
<1> USE DEF Init
<1>1. TypeOK
  BY TimeAssumption, MaxSessionsAssumption, ExpirationTicks DEF TypeOK, Times
<1>2. Bounded
  <2>1. LoginsInFlight = {} /\ Pending = {}
    BY DEF LoginsInFlight, Pending, Idle, LoginStates
  <2> QED  BY <2>1, FS_EmptySet, MaxSessionsAssumption DEF Bounded
<1>3. SessionKeys /\ Computed /\ Signed /\ Tokens /\ Validations
  BY DEF SessionKeys, Computed, Signed, Tokens, Validations, Idle
<1>4. /\ JWTCoversTheSession
      /\ AcceptedAsWhoLoggedIn
      /\ DeletedIsRefused
      /\ AcceptedInTime
  BY DEF JWTCoversTheSession, AcceptedAsWhoLoggedIn, DeletedIsRefused, AcceptedInTime
<1> QED  BY <1>1, <1>2, <1>3, <1>4 DEF IInv

\* The inductive invariant: what handlers know, what JWTs name and what was
\* accepted stand together through every interleaving of logins, validations,
\* deletions and deaths of either service.
THEOREM Invariance == Spec => []IInv
<1>1. Init => IInv
  BY InitIInv
<1>2. IInv /\ [Next]_vars => IInv'
  <2> SUFFICES ASSUME IInv, [Next]_vars PROVE IInv'
    OBVIOUS
  <2>1. TypeOK'
    BY TypeOKStep DEF IInv
  <2>2. Bounded' /\ SessionKeys' /\ Computed' /\ Signed' /\ Tokens' /\ Validations'
    BY <2>1, BoundedStep, SessionKeysStep, ComputedStep, SignedStep, TokensStep,
       ValidationsStep DEF IInv
  <2>3. JWTCoversTheSession'
    BY JWTCoversTheSessionStep DEF IInv
  <2>4. AcceptedAsWhoLoggedIn' /\ DeletedIsRefused' /\ AcceptedInTime'
    BY AcceptedStep DEF IInv
  <2> QED  BY <2>1, <2>2, <2>3, <2>4 DEF IInv
<1> QED  BY <1>1, <1>2, PTL DEF Spec

\* Ids, expiries and the tasks of handlers stay in their ranges: no login is
\* given an id the bound on sessions does not allow.
THEOREM TypeCorrect == Spec => []TypeOK
BY Invariance, PTL DEF IInv

\* A token is accepted as the user's whose credentials were validated for it.
THEOREM AcceptsWhoLoggedIn == Spec => []AcceptedAsWhoLoggedIn
BY Invariance, PTL DEF IInv

\* No request that was begun after its user was deleted is accepted.
THEOREM RefusesTheDeleted == Spec => []DeletedIsRefused
BY Invariance, PTL DEF IInv

\* No request is accepted that was begun after the session or the JWT expired.
THEOREM AcceptsInTime == Spec => []AcceptedInTime
BY Invariance, PTL DEF IInv

\* A session ends less than a second after the JWT that names it.
THEOREM SessionsEndWithJWTs == Spec => []JWTCoversTheSession
BY Invariance, PTL DEF IInv
=============================================================================
