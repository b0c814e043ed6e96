-------------------------------- MODULE Auth --------------------------------
(***************************************************************************)
(* AuthService and SessionsService of auth-service: a login asks            *)
(* user-service to validate the credentials, inserts a session and signs a  *)
(* JWT that names it; validate-token, which the gateway asks on every       *)
(* guarded request, checks the JWT, the session, and with user-service that *)
(* the user is still there.                                                 *)
(*                                                                         *)
(* A request to user-service waits in a durable queue until user-service is *)
(* up and takes it, which acknowledges it, and is gone if user-service dies *)
(* before it replies; the caller waits with no time limit (firstValueFrom   *)
(* of send).  Nothing starts a service again by itself.                     *)
(*                                                                         *)
(* Time is counted in ticks, of which Second make a second: session expiry  *)
(* is kept to the tick, the JWT's in whole seconds.                         *)
(***************************************************************************)
EXTENDS Naturals, FiniteSets

CONSTANTS
  Users,       \* users there are at first
  Tasks,       \* handler slots of auth-service
  Second,      \* ticks in a second
  Expiration,  \* EXPIRATION, in seconds
  MaxSessions, \* bound: sessions ever created
  MaxTime      \* bound: ticks

ASSUME TimeAssumption ==
  Second \in Nat \ {0} /\ Expiration \in Nat \ {0} /\ MaxTime \in Nat
ASSUME MaxSessionsAssumption == MaxSessions \in Nat

VARIABLES
  now,       \* the clock
  users,     \* rows of table user
  session,   \* rows of table session
  lastId,    \* its id sequence
  token,     \* the JWTs clients were given
  task,      \* the handlers in flight
  up,        \* whether user-service is
  accepted   \* history: the last validation that was accepted

vars == <<now, users, session, lastId, token, task, up, accepted>>

Times == 0..(MaxTime + Second * Expiration)

Sessions == [id : 1..MaxSessions, userId : Users, expiresAt : Times]

\* user and until are history: who logged in, and when the session expires.
JWTs == [sessionId : 1..MaxSessions, exp : Times, user : Users, until : Times]

Idle == [pc |-> "idle"]
Login(u) == [pc |-> "credentials", user |-> u]

\* A request to user-service is in the queue in states "credentials" and "check", and
\* user-service has it in "validating" and "checking".
\* begun and present are history: when the request was begun, and whether the
\* user was there.
LoginStates ==
  [pc : {"credentials", "validating", "valid"}, user : Users]
  \cup [pc : {"insert"}, user : Users, expiresAt : Times]
  \cup [pc : {"sign"}, user : Users, sessionId : 1..MaxSessions, expiresAt : Times]
ValidationStates ==
  [pc : {"find"}, jwt : JWTs, begun : Times, present : BOOLEAN]
  \cup [pc : {"check", "checking", "found"}, jwt : JWTs, userId : Users,
        begun : Times, present : BOOLEAN]
Lost == [pc |-> "lost"]
Queued == {"credentials", "check"}

TypeOK ==
  /\ now \in 0..MaxTime
  /\ users \subseteq Users
  /\ session \subseteq Sessions
  /\ lastId \in 0..MaxSessions
  /\ token \subseteq JWTs
  /\ task \in [Tasks -> {Idle, Lost} \cup LoginStates \cup ValidationStates]
  /\ up \in BOOLEAN
  /\ accepted \subseteq [jwt : JWTs, userId : Users, begun : Times, present : BOOLEAN]

Init ==
  /\ now = 0
  /\ users = Users
  /\ session = {}
  /\ lastId = 0
  /\ token = {}
  /\ task = [t \in Tasks |-> Idle]
  /\ up = TRUE
  /\ accepted = {}

Goto(t, state) == task' = [task EXCEPT ![t] = state]
InSeconds(time) == time \div Second

-----------------------------------------------------------------------------
(* user-service *)

\* It takes a request from its queue.
Take(t) ==
  /\ up
  /\ task[t].pc \in Queued
  /\ task' = [task EXCEPT ![t].pc = IF @ = "credentials" THEN "validating" ELSE "checking"]
  /\ UNCHANGED <<now, users, session, lastId, token, up, accepted>>

\* It dies with the requests it has taken: whoever sent them waits on.
CrashUserService ==
  /\ up
  /\ up' = FALSE
  /\ task' = [t \in Tasks |->
                IF task[t].pc \in {"validating", "checking"} THEN Lost ELSE task[t]]
  /\ UNCHANGED <<now, users, session, lastId, token, accepted>>

\* Somebody starts it again; the queue is as it was.
StartUserService ==
  /\ ~up
  /\ up' = TRUE
  /\ UNCHANGED <<now, users, session, lastId, token, task, accepted>>

-----------------------------------------------------------------------------
(* login *)

LoginsInFlight == {t \in Tasks : task[t] \in LoginStates}

\* validate-user is sent to user-service.
StartLogin(t, u) ==
  /\ task[t] = Idle
  /\ lastId + Cardinality(LoginsInFlight) < MaxSessions
  /\ Goto(t, Login(u))
  /\ UNCHANGED <<now, users, session, lastId, token, up, accepted>>

\* user-service reads the user and compares the password.  One that is wrong
\* or a user that is gone ends the login with "Invalid credentials".
ValidateUser(t) ==
  /\ task[t].pc = "validating"
  /\ Goto(t, IF task[t].user \in users THEN [task[t] EXCEPT !.pc = "valid"] ELSE Idle)
  /\ UNCHANGED <<now, users, session, lastId, token, up, accepted>>

\* Mutant: EXPIRATION is taken to be in milliseconds, a thousand times.
ComputeExpiry_Milliseconds(t) ==
  /\ task[t].pc = "valid"
  /\ Goto(t, [pc |-> "insert", user |-> task[t].user,
              expiresAt |-> now + 1000 * Expiration * Second])
  /\ UNCHANGED <<now, users, session, lastId, token, up, accepted>>

\* Mutant: the session lasts a second longer than the JWT.
ComputeExpiry_Late(t) ==
  /\ task[t].pc = "valid"
  /\ Goto(t, [pc |-> "insert", user |-> task[t].user,
              expiresAt |-> now + (Expiration + 1) * Second])
  /\ UNCHANGED <<now, users, session, lastId, token, up, accepted>>

\* The reply arrives, and createSession computes the expiry.
ComputeExpiry(t) ==
  /\ task[t].pc = "valid"
  /\ Goto(t, [pc |-> "insert", user |-> task[t].user,
              expiresAt |-> now + Expiration * Second])
  /\ UNCHANGED <<now, users, session, lastId, token, up, accepted>>

\* session.create
InsertSession(t) ==
  /\ task[t].pc = "insert"
  /\ task[t].user \in users
  /\ lastId' = lastId + 1
  /\ session' = session \cup
       {[id |-> lastId + 1, userId |-> task[t].user, expiresAt |-> task[t].expiresAt]}
  /\ Goto(t, [pc |-> "sign", user |-> task[t].user, sessionId |-> lastId + 1,
              expiresAt |-> task[t].expiresAt])
  /\ UNCHANGED <<now, users, token, up, accepted>>

\* The user went since the credentials were validated: the foreign key refuses
\* the row, and the login ends with "Login failed".
InsertRefused(t) ==
  /\ task[t].pc = "insert"
  /\ task[t].user \notin users
  /\ Goto(t, Idle)
  /\ UNCHANGED <<now, users, session, lastId, token, up, accepted>>

\* Mutant: the JWT names the newest session.
Sign_LastSession(t) ==
  /\ task[t].pc = "sign"
  /\ token' = token \cup {[sessionId |-> lastId,
                           exp |-> InSeconds(now) + Expiration,
                           user |-> task[t].user, until |-> task[t].expiresAt]}
  /\ Goto(t, Idle)
  /\ UNCHANGED <<now, users, session, lastId, up, accepted>>

\* jwtService.sign, and the reply.
Sign(t) ==
  /\ task[t].pc = "sign"
  /\ token' = token \cup {[sessionId |-> task[t].sessionId,
                           exp |-> InSeconds(now) + Expiration,
                           user |-> task[t].user, until |-> task[t].expiresAt]}
  /\ Goto(t, Idle)
  /\ UNCHANGED <<now, users, session, lastId, up, accepted>>

-----------------------------------------------------------------------------
(* validateToken *)

\* Mutant: neither the session nor the user is looked for.
StartValidation_TrustsJWT(t, j) ==
  /\ task[t] = Idle
  /\ InSeconds(now) < j.exp
  /\ Goto(t, [pc |-> "found", jwt |-> j, userId |-> j.user,
              begun |-> now, present |-> j.user \in users])
  /\ UNCHANGED <<now, users, session, lastId, token, up, accepted>>

\* jwtService.verify; an expired token is refused at once.  The session is
\* looked for as of the present time.
StartValidation(t, j) ==
  /\ task[t] = Idle
  /\ InSeconds(now) < j.exp
  /\ Goto(t, [pc |-> "find", jwt |-> j, begun |-> now, present |-> j.user \in users])
  /\ UNCHANGED <<now, users, session, lastId, token, up, accepted>>

\* Mutant: the expiry is not compared.
Active_Expired(t) ==
  {s \in session : s.id = task[t].jwt.sessionId}

Active(t) ==
  {s \in session : s.id = task[t].jwt.sessionId /\ s.expiresAt > task[t].begun}

\* findActiveSessionById has a row, and check-id is sent to user-service.
FindSession(t) ==
  /\ task[t].pc = "find"
  /\ \E s \in Active(t) :
       Goto(t, [pc |-> "check", jwt |-> task[t].jwt, userId |-> s.userId,
                begun |-> task[t].begun, present |-> task[t].present])
  /\ UNCHANGED <<now, users, session, lastId, token, up, accepted>>

\* Mutant: the handler does not reply.
NoSession_NoReply(t) ==
  /\ task[t].pc = "find"
  /\ Active(t) = {}
  /\ UNCHANGED <<now, users, session, lastId, token, task, up, accepted>>

\* It has none: "Invalid token".
NoSession(t) ==
  /\ task[t].pc = "find"
  /\ Active(t) = {}
  /\ Goto(t, Idle)
  /\ UNCHANGED <<now, users, session, lastId, token, up, accepted>>

\* user-service looks for the user; without one, "Invalid token".
CheckId(t) ==
  /\ task[t].pc = "checking"
  /\ Goto(t, IF task[t].userId \in users THEN [task[t] EXCEPT !.pc = "found"] ELSE Idle)
  /\ UNCHANGED <<now, users, session, lastId, token, up, accepted>>

\* "Token is valid", with the user's id.
Accept(t) ==
  /\ task[t].pc = "found"
  /\ accepted' =
       {[jwt |-> task[t].jwt, userId |-> task[t].userId,
         begun |-> task[t].begun, present |-> task[t].present]}
  /\ Goto(t, Idle)
  /\ UNCHANGED <<now, users, session, lastId, token, up>>

-----------------------------------------------------------------------------
Tick ==
  /\ now < MaxTime
  /\ now' = now + 1
  /\ UNCHANGED <<users, session, lastId, token, task, up, accepted>>

\* The user's row goes, and the sessions with it: user-service deletes it, in one
\* statement that may still be under way in the database when user-service has died.
RemoveUser(u) ==
  /\ u \in users
  /\ users' = users \ {u}
  /\ session' = {s \in session : s.userId # u}
  /\ UNCHANGED <<now, lastId, token, task, up, accepted>>

\* auth-service dies with its handlers.
Crash ==
  /\ task' = [t \in Tasks |-> Idle]
  /\ UNCHANGED <<now, users, session, lastId, token, up, accepted>>

-----------------------------------------------------------------------------
LoginStep(t) ==
  \/ ValidateUser(t)
  \/ ComputeExpiry(t)
  \/ InsertSession(t)
  \/ InsertRefused(t)
  \/ Sign(t)

ValidationStep(t) ==
  \/ FindSession(t)
  \/ NoSession(t)
  \/ CheckId(t)
  \/ Accept(t)

Next ==
  \/ \E t \in Tasks, u \in Users : StartLogin(t, u)
  \/ \E t \in Tasks, j \in token : StartValidation(t, j)
  \/ \E t \in Tasks : Take(t) \/ LoginStep(t) \/ ValidationStep(t)
  \/ CrashUserService
  \/ StartUserService
  \/ \E u \in Users : RemoveUser(u)
  \/ Tick
  \/ Crash

Spec == Init /\ [][Next]_vars

\* A handler resumes when the database or the reply of user-service has come, and
\* user-service takes what is queued as long as it is up; a client sends when it
\* likes, and nothing need ever die, be started again or be deleted.
Fairness == \A t \in Tasks : WF_vars(Take(t) \/ LoginStep(t) \/ ValidationStep(t))

FairSpec == Spec /\ Fairness

-----------------------------------------------------------------------------
(* Properties *)

\* A token vouches for the user whose credentials were validated, across the
\* session row, two services and other logins in between.
AcceptedAsWhoLoggedIn == \A a \in accepted : a.userId = a.jwt.user

\* A request begun after the user was deleted is refused: the sessions went
\* with the row, and check-id finds nobody.
DeletedIsRefused == \A a \in accepted : a.present

\* A request is accepted only if it was begun before both expiries, the
\* session's and the JWT's, although they are computed at different times, one
\* of them in whole seconds, and the request is accepted later than it began.
AcceptedInTime ==
  \A a \in accepted : InSeconds(a.begun) < a.jwt.exp /\ a.begun < a.jwt.until

\* A session outlives the JWT that names it by less than a second: the JWT is
\* signed after the session's expiry was computed, but from the clock cut to
\* whole seconds, and both are given the same EXPIRATION.
JWTCoversTheSession ==
  \A j \in token : j.until < (j.exp + 1) * Second

\* Every login and every validation is answered, unless user-service died with a
\* request of it in hand, and then it waits for ever, or is down while the request
\* is in the queue, and then it waits for somebody to start it.
HandlersEnd ==
  \A t \in Tasks :
    task[t] # Idle ~> \/ task[t] \in {Idle, Lost}
                      \/ ~up /\ task[t].pc \in Queued
=============================================================================
