------------------------------- MODULE Gateway -------------------------------
(***************************************************************************)
(* api-gateway: a request passes guards, a GET then the cache, all of them  *)
(* the pipes, and goes to a service as a message; the controller waits for  *)
(* the reply with no time limit and passes it on.                           *)
(*                                                                         *)
(* The tables below are the routes of the controllers and the handlers of   *)
(* the services; a route with a parameter stands for its requests with one  *)
(* and the same parameter, so that a route is a URL.                        *)
(*                                                                         *)
(* A message waits in a durable queue, whether or not anybody still waits   *)
(* for its reply; the service takes it, which acknowledges it, and a        *)
(* service that dies loses what it has taken.                               *)
(***************************************************************************)
EXTENDS Naturals, Functions

CONSTANTS
  Users,
  Nobody,    \* stands for the user where a route concerns all alike
  Requests,  \* each is sent once at most
  Asked,     \* the routes each may be for
  TTL,       \* ticks an entry of the cache lives
  MaxTime    \* bound: ticks

\* A function of one argument, and f with what g adds: the operators of module
\* TLC, written here because the prover does not know their definitions.
d :> e == [x \in {d} |-> e]
f @@ g == [x \in DOMAIN f \cup DOMAIN g |-> IF x \in DOMAIN f THEN f[x] ELSE g[x]]

-----------------------------------------------------------------------------
(* Routes: verb, what may refuse it, service, command, fields of the payload *)

Route(verb, checks, service, cmd, payload) ==
  [verb |-> verb, checks |-> checks, service |-> service, cmd |-> cmd, payload |-> payload]

LoginPayload == {"loginUserDto", "ip", "userAgent"}

AuthRoutes == [login |-> Route("POST", {"pipe"}, "auth-service", "login", LoginPayload)]

UserRoutes == [
  register       |-> Route("POST", {}, "user-service", "register", {"email", "password"}),
  verifyEmail    |-> Route("POST", {}, "user-service", "verify-email", {"email", "code"}),
  deleteUser     |-> Route("DELETE", {"key"}, "user-service", "delete-user", {"deleteUserDto"}),
  getUser        |-> Route("GET", {"token"}, "user-service", "find-one", {"userId"}),
  getUserByEmail |-> Route("GET", {"token"}, "user-service", "find-by-email", {"userId", "email"})]

\* Mutant: the id of the user is left out.
WalletRoute_NoUser(verb, cmd, payload) == Route(verb, {"token"}, "wallet-service", cmd, payload)

WalletRoute(verb, cmd, payload) ==
  Route(verb, {"token"}, "wallet-service", cmd, payload \cup {"userId"})

WalletRoutes == [
  createWallet   |-> WalletRoute("POST", "create-wallet", {}),
  updateBalances |-> WalletRoute("POST", "update-balances", {"walletId"}),
  sendTransactionWithNativeCurrency
                 |-> WalletRoute("POST", "send-tx-native", {"sendParams"}),
  deleteWallet   |-> WalletRoute("DELETE", "delete-wallet", {"walletId"}),
  findAllWalletsForUser
                 |-> WalletRoute("GET", "get-all-wallets-for-user", {}),
  findWalletForUserByAddress
                 |-> WalletRoute("GET", "get-wallet-by-address", {"address"})]

BalanceRoutes == [
  findForWalletAndCurrency |-> WalletRoute("GET", "wallet-with-currency", {"currency"})]

NetworkRoutes == [
  findAllNetworks |-> Route("GET", {}, "wallet-service", "get-all-networks", {})]

TokenRoutes == [
  addToken    |-> Route("POST", {"key", "pipe"}, "wallet-service", "add-token", {"addTokenDto"}),
  updateToken |-> Route("PATCH", {"key", "pipe"}, "wallet-service", "update-token",
                        {"id", "updateTokenDto"}),
  removeToken |-> Route("DELETE", {"key", "pipe"}, "wallet-service", "remove-token", {"id"}),
  findAllTokens |-> Route("GET", {}, "wallet-service", "find-all-tokens", {})]

Routes == AuthRoutes @@ UserRoutes @@ WalletRoutes @@ BalanceRoutes @@ NetworkRoutes @@ TokenRoutes

-----------------------------------------------------------------------------
(* Handlers: fields read, what they write, what their reply shows *)

Handler(reads, writes, shows) == [reads |-> reads, writes |-> writes, shows |-> shows]

AuthHandlers == "login" :> Handler(LoginPayload, {"session"}, {})

UserHandlers ==
  "register"      :> Handler({"email", "password"}, {"user"}, {}) @@
  "verify-email"  :> Handler({"email", "code"}, {"user"}, {}) @@
  "delete-user"   :> Handler({"userId"}, {"user", "session", "wallet", "balance"}, {}) @@
  "find-one"      :> Handler({"userId"}, {}, {"user"}) @@
  "find-by-email" :> Handler({"userId", "email"}, {}, {"user"})

\* Transactions come and go with the balances and are counted to them.
WalletHandlers ==
  "create-wallet"            :> Handler({"userId"}, {"wallet"}, {}) @@
  "update-balances"          :> Handler({"walletId", "userId"}, {"balance"}, {}) @@
  "send-tx-native"           :> Handler({"sendParams", "userId"}, {"chain"}, {}) @@
  "delete-wallet"            :> Handler({"walletId", "userId"}, {"wallet", "balance"}, {}) @@
  "get-all-wallets-for-user" :> Handler({"userId"}, {}, {"wallet", "balance"}) @@
  "get-wallet-by-address"    :> Handler({"address", "userId"}, {}, {"wallet", "balance"})

BalanceHandlers == "wallet-with-currency" :> Handler({"currency", "userId"}, {}, {"wallet", "balance"})

NetworkHandlers == "get-all-networks" :> Handler({}, {}, {"network"})

\* The list is the map's, which an update does not change.
TokenHandlers ==
  "add-token"       :> Handler({"addTokenDto"}, {"token", "tokens"}, {}) @@
  "update-token"    :> Handler({"id", "updateTokenDto"}, {"token"}, {}) @@
  "remove-token"    :> Handler({"id"}, {"token", "tokens"}, {}) @@
  "find-all-tokens" :> Handler({}, {}, {"tokens"})

Handlers ==
  "auth-service"   :> AuthHandlers @@
  "user-service"   :> UserHandlers @@
  "wallet-service" :> (WalletHandlers @@ BalanceHandlers @@ NetworkHandlers @@ TokenHandlers)

\* These may throw when a part of their effect is there already.
MayFailHalfWay == {"update-balances", "send-tx-native"}

ASSUME RoutesAssumption == Asked \in [Requests -> SUBSET DOMAIN Routes]
ASSUME UsersAssumption == Nobody \notin Users
ASSUME TTLAssumption == TTL \in Nat \ {0} /\ MaxTime \in Nat

-----------------------------------------------------------------------------
VARIABLES
  now,       \* the clock
  http,      \* the request as the client and the gateway see it
  msg,       \* the message to the service, and its reply
  setting,   \* requests whose reply is on its way to the cache
  cache,     \* Redis, by URL
  changes,   \* history: what was written, for whom, when, and by which request
  runs       \* history: how often the message of a request was carried out

vars == <<now, http, msg, setting, cache, changes, runs>>

Nothing == [none |-> TRUE]
Open == {"checks", "cache", "rpc"}
URLs == {route \in UNION Range(Asked) : Routes[route].verb = "GET"}

RouteOf(r) == Routes[http[r].route]
HandlerOf(r) == Handlers[RouteOf(r).service][RouteOf(r).cmd]

\* Whom a route is about.
About(route) ==
  IF Routes[route].service = "wallet-service" /\ "token" \notin Routes[route].checks
    THEN {Nobody} ELSE Users

\* The listener of the chain writes without being asked.
Writers == Requests \cup {"listener"}
Data == {"session", "user", "wallet", "balance", "chain", "token", "tokens"}
Change == [by : Writers, what : Data, user : Users \cup {Nobody}, at : Nat]

\* A reply to a GET: whose data, which changes it shows, and when it was read.
Values == [user : Users \cup {Nobody}, seen : SUBSET Writers, readAt : Nat]

TypeOK ==
  /\ now \in 0..MaxTime
  /\ http \in [Requests -> {Nothing} \cup
       [state : Open \cup {"failed", "unanswered"}, user : Users \cup {Nobody}, route : DOMAIN Routes]
       \cup [state : {"answered", "recalled"}, user : Users \cup {Nobody}, route : DOMAIN Routes,
             at : Nat, value : Values \cup {Nothing}, setAt : Nat]]
  /\ msg \in [Requests -> [state : {"none", "queued", "taken", "lost", "failed", "misread"}]
                          \cup [state : {"done", "replied"}, value : Values \cup {Nothing}]]
  /\ setting \subseteq Requests
  /\ cache \in [URLs -> {Nothing} \cup [value : Values, setAt : Nat]]
  /\ changes \subseteq Change
  /\ runs \in [Requests -> Nat]

Init ==
  /\ now = 0
  /\ http = [r \in Requests |-> Nothing]
  /\ msg = [r \in Requests |-> [state |-> "none"]]
  /\ setting = {}
  /\ cache = [url \in URLs |-> Nothing]
  /\ changes = {}
  /\ runs = [r \in Requests |-> 0]

Is(r, state) == http[r] # Nothing /\ http[r].state = state
Becomes(r, state) == http' = [http EXCEPT ![r].state = state]
Message(r, state) == msg' = [msg EXCEPT ![r] = [state |-> state]]
With(r, state, value) == msg' = [msg EXCEPT ![r] = [state |-> state, value |-> value]]

-----------------------------------------------------------------------------
(* Guards and pipes *)

Arrive(r, route, u) ==
  /\ http[r] = Nothing
  /\ http' = [http EXCEPT ![r] = [state |-> "checks", user |-> u, route |-> route]]
  /\ UNCHANGED <<now, msg, setting, cache, changes, runs>>

\* AuthGuard asked auth-service, ApiKeyGuard compared the key, the pipes found
\* the body well-formed; only a GET meets the cache, and no GET has pipes.
ChecksPass(r) ==
  /\ Is(r, "checks")
  /\ IF RouteOf(r).verb = "GET"
       THEN Becomes(r, "cache") /\ UNCHANGED msg
       ELSE Becomes(r, "rpc") /\ Message(r, "queued")
  /\ UNCHANGED <<now, setting, cache, changes, runs>>

ChecksRefuse(r) ==
  /\ Is(r, "checks")
  /\ RouteOf(r).checks # {}
  /\ Becomes(r, "failed")
  /\ UNCHANGED <<now, msg, setting, cache, changes, runs>>

\* auth-service died with validate-token in hand, and nothing ends the wait.
GuardStuck(r) ==
  /\ Is(r, "checks")
  /\ "token" \in RouteOf(r).checks
  /\ Becomes(r, "unanswered")
  /\ UNCHANGED <<now, msg, setting, cache, changes, runs>>

-----------------------------------------------------------------------------
(* CacheInterceptor: the key is the URL. *)

Entry(r) == cache[http[r].route]

\* Mutant: an entry has no TTL.
Alive_Forever(entry) == entry # Nothing

Alive(entry) == entry # Nothing /\ now < entry.setAt + TTL

Answer(r, state, value, setAt) ==
  http' = [http EXCEPT ![r] = [state |-> state, user |-> @.user, route |-> @.route,
                               at |-> now, value |-> value, setAt |-> setAt]]

CacheHit(r) ==
  /\ Is(r, "cache")
  /\ Alive(Entry(r))
  /\ Answer(r, "recalled", Entry(r).value, Entry(r).setAt)
  /\ UNCHANGED <<now, msg, setting, cache, changes, runs>>

CacheMiss(r) ==
  /\ Is(r, "cache")
  /\ ~Alive(Entry(r))
  /\ Becomes(r, "rpc")
  /\ Message(r, "queued")
  /\ UNCHANGED <<now, setting, cache, changes, runs>>

\* The reply was passed on before this; nobody waits for the cache.
SetCache(r) ==
  /\ r \in setting
  /\ cache' = http[r].route :> [value |-> http[r].value, setAt |-> now] @@ cache
  /\ setting' = setting \ {r}
  /\ UNCHANGED <<now, http, msg, changes, runs>>

-----------------------------------------------------------------------------
(* The service *)

Take(r) ==
  /\ msg[r].state = "queued"
  /\ Message(r, "taken")
  /\ UNCHANGED <<now, http, setting, cache, changes, runs>>

Understood(r) ==
  /\ RouteOf(r).cmd \in DOMAIN Handlers[RouteOf(r).service]
  /\ HandlerOf(r).reads \subseteq RouteOf(r).payload

Writes(by, what, u) == {[by |-> by, what |-> w, user |-> u, at |-> now] : w \in what}

Shown(r) == {c \in changes : c.what \in HandlerOf(r).shows /\ c.user = http[r].user}

ReplyOf(r) ==
  IF RouteOf(r).verb = "GET"
    THEN [user |-> http[r].user, seen |-> {c.by : c \in Shown(r)}, readAt |-> now]
    ELSE Nothing

CarryOut(r) ==
  /\ msg[r].state = "taken"
  /\ Understood(r)
  /\ changes' = changes \cup Writes(r, HandlerOf(r).writes, http[r].user)
  /\ With(r, "done", ReplyOf(r))
  /\ runs' = [runs EXCEPT ![r] = @ + 1]
  /\ UNCHANGED <<now, http, setting, cache>>

\* The database or the node fails, or what is asked for does not exist: status
\* false, before anything is written.
CarryOutFails(r) ==
  /\ msg[r].state = "taken"
  /\ Understood(r)
  /\ Message(r, "failed")
  /\ UNCHANGED <<now, http, setting, cache, changes, runs>>

CarryOutHalf(r) ==
  /\ msg[r].state = "taken"
  /\ Understood(r)
  /\ RouteOf(r).cmd \in MayFailHalfWay
  /\ changes' = changes \cup Writes(r, HandlerOf(r).writes, http[r].user)
  /\ Message(r, "failed")
  /\ runs' = [runs EXCEPT ![r] = @ + 1]
  /\ UNCHANGED <<now, http, setting, cache>>

\* A field that is not there is undefined, which Prisma refuses as a key.
Misread(r) ==
  /\ msg[r].state = "taken"
  /\ ~Understood(r)
  /\ Message(r, "misread")
  /\ UNCHANGED <<now, http, setting, cache, changes, runs>>

Reply(r) ==
  /\ msg[r].state = "done"
  /\ With(r, "replied", msg[r].value)
  /\ UNCHANGED <<now, http, setting, cache, changes, runs>>

Held(r, service) == msg[r].state \in {"taken", "done"} /\ RouteOf(r).service = service

\* Mutant: the message is acknowledged with the reply.
ServiceDies_Redelivers(service) ==
  /\ \E r \in Requests : Held(r, service)
  /\ msg' = [r \in Requests |-> IF Held(r, service) THEN [state |-> "queued"] ELSE msg[r]]
  /\ UNCHANGED <<now, http, setting, cache, changes, runs>>

\* A service dies.  The options of its queue leave noAck at its default, true:
\* what it took was acknowledged when it was taken, and is lost whether it was
\* carried out or not.  What is queued waits until somebody
\* starts the service again: nothing is taken meanwhile.
ServiceDies(service) ==
  /\ \E r \in Requests : Held(r, service)
  /\ msg' = [r \in Requests |-> IF Held(r, service) THEN [state |-> "lost"] ELSE msg[r]]
  /\ UNCHANGED <<now, http, setting, cache, changes, runs>>

\* The listener records a transaction of a user and refreshes a balance (once).
Listen(u) ==
  /\ \A c \in changes : c.by # "listener"
  /\ changes' = changes \cup Writes("listener", {"balance"}, u)
  /\ UNCHANGED <<now, http, msg, setting, cache, runs>>

-----------------------------------------------------------------------------
(* The controller passes the reply on *)

\* Mutant: the replies to all requests are cached.
PassOn_CachesAll(r) ==
  /\ Is(r, "rpc")
  /\ msg[r].state = "replied"
  /\ Answer(r, "answered", msg[r].value, now)
  /\ setting' = setting \cup {r}
  /\ UNCHANGED <<now, msg, cache, changes, runs>>

PassOn(r) ==
  /\ Is(r, "rpc")
  /\ msg[r].state = "replied"
  /\ Answer(r, "answered", msg[r].value, now)
  /\ setting' = IF RouteOf(r).verb = "GET" THEN setting \cup {r} ELSE setting
  /\ UNCHANGED <<now, msg, cache, changes, runs>>

\* status false, or no handler: an exception, which the cache does not see.
PassOnFailure(r) ==
  /\ Is(r, "rpc")
  /\ msg[r].state \in {"failed", "misread"}
  /\ Becomes(r, "failed")
  /\ UNCHANGED <<now, msg, setting, cache, changes, runs>>

\* The gateway dies: its clients lose the connection, the messages stay.
GatewayDies ==
  /\ \E r \in Requests : r \in setting \/ \E s \in Open : Is(r, s)
  /\ http' = [r \in Requests |->
                IF \E s \in Open : Is(r, s)
                  THEN [http[r] EXCEPT !.state = "unanswered"] ELSE http[r]]
  /\ setting' = {}
  /\ UNCHANGED <<now, msg, cache, changes, runs>>

Tick ==
  /\ now < MaxTime
  /\ now' = now + 1
  /\ UNCHANGED <<http, msg, setting, cache, changes, runs>>

-----------------------------------------------------------------------------
GatewayStep(r) ==
  \/ ChecksPass(r) \/ ChecksRefuse(r) \/ GuardStuck(r)
  \/ CacheHit(r) \/ CacheMiss(r) \/ SetCache(r)
  \/ PassOn(r) \/ PassOnFailure(r)

ServiceStep(r) ==
  \/ Take(r)
  \/ CarryOut(r) \/ CarryOutFails(r) \/ CarryOutHalf(r) \/ Misread(r)
  \/ Reply(r)

Next ==
  \/ \E r \in Requests : \E route \in Asked[r] : \E u \in About(route) : Arrive(r, route, u)
  \/ \E r \in Requests : GatewayStep(r) \/ ServiceStep(r)
  \/ \E service \in DOMAIN Handlers : ServiceDies(service)
  \/ \E u \in Users : Listen(u)
  \/ GatewayDies
  \/ Tick

Spec == Init /\ [][Next]_vars

-----------------------------------------------------------------------------
(* Properties *)

\* What the client was told, in the words of Promise.
Told(r) ==
  CASE http[r] = Nothing -> "unasked"
    [] http[r] # Nothing /\ http[r].state \in Open -> "waits"
    [] Is(r, "answered") -> "yes"
    [] Is(r, "recalled") -> "recalled"
    [] Is(r, "failed") /\ RouteOf(r).cmd \notin MayFailHalfWay -> "no"
    [] OTHER -> "unknown"

Client == INSTANCE Promise WITH told <- [r \in Requests |-> Told(r)], carried <- runs

\* Whoever dies and when, a request is carried out once at most, a success is
\* real, and a failure is final: what failed for its client is not carried out
\* afterwards, except that updateBalances and sendTxNative may have failed half-way.
\* A client that lost the connection cannot tell, and no retry is safe.
KeepsPromise == Client!Spec

\* A GET misses no change of the data it shows that was made longer ago than an
\* entry lives and its reply took to reach the cache.
MissesOnlyRecentChanges ==
  \A r \in Requests :
    Is(r, "answered") \/ Is(r, "recalled") =>
      LET v == http[r].value
          onTheWay == http[r].setAt - v.readAt
      IN RouteOf(r).verb = "GET" =>
           \A c \in changes :
             /\ c.what \in HandlerOf(r).shows
             /\ c.user = v.user
             /\ c.at + TTL + onTheWay <= http[r].at
             => c.by \in v.seen

\* Gateway and services agree on the commands and the payloads of all routes
\* but one, the deletion of a user.
OnlyDeletionIsMisread ==
  \A r \in Requests : msg[r].state = "misread" => http[r].route = "deleteUser"

\* A user who asks for what is theirs is answered with what is theirs.
GetsOwnData ==
  \A r \in Requests :
    (Is(r, "answered") \/ Is(r, "recalled")) /\ RouteOf(r).verb = "GET" =>
      http[r].value.user = http[r].user

\* The deletion of a user fails only if it is refused, or the database fails.
DeletionSucceeds ==
  \A r \in Requests :
    Is(r, "failed") /\ http[r].route = "deleteUser" => msg[r].state # "misread"
=============================================================================
