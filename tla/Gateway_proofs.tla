---------------------------- MODULE Gateway_proofs ----------------------------
(***************************************************************************)
(* Proofs about Gateway: what a client may rely on, what a cached reply      *)
(* misses, and that gateway and services agree on every route but one, for   *)
(* every set of requests, whatever routes they are for.                     *)
(***************************************************************************)
EXTENDS Gateway, TLAPS

-----------------------------------------------------------------------------
(* The tables *)

LEMMA Merged ==
  ASSUME NEW p, NEW q
  PROVE  /\ DOMAIN (p @@ q) = DOMAIN p \cup DOMAIN q
         /\ \A x \in DOMAIN (p @@ q) :
              \/ x \in DOMAIN p /\ (p @@ q)[x] = p[x]
              \/ x \in DOMAIN q /\ (p @@ q)[x] = q[x]
BY DEF @@

LEMMA HandlerFields ==
  \A reads, writes, shows :
    /\ Handler(reads, writes, shows).reads = reads
    /\ Handler(reads, writes, shows).writes = writes
BY DEF Handler

\* The service has a handler of the command that reads no more than that.
Knows(service, cmd, reads) ==
  /\ service \in DOMAIN Handlers
  /\ cmd \in DOMAIN Handlers[service]
  /\ Handlers[service][cmd].reads \subseteq reads
  /\ Handlers[service][cmd].writes \subseteq Data

LEMMA AuthKnows == Knows("auth-service", "login", LoginPayload)
<1>1. "auth-service" \in DOMAIN Handlers /\ Handlers["auth-service"] = AuthHandlers
  BY DEF Handlers, @@, :>
<1>2. /\ "login" \in DOMAIN AuthHandlers
      /\ AuthHandlers["login"] = Handler(LoginPayload, {"session"}, {})
  BY DEF AuthHandlers, :>
<1> QED  BY <1>1, <1>2, HandlerFields DEF Knows, Data

LEMMA UserKnows ==
  /\ Knows("user-service", "register", {"email", "password"})
  /\ Knows("user-service", "verify-email", {"email", "code"})
  /\ Knows("user-service", "delete-user", {"userId"})
  /\ Knows("user-service", "find-one", {"userId"})
  /\ Knows("user-service", "find-by-email", {"userId", "email"})
<1>1. "user-service" \in DOMAIN Handlers /\ Handlers["user-service"] = UserHandlers
  BY DEF Handlers, @@, :>
<1>2. DOMAIN UserHandlers = {"register", "verify-email", "delete-user", "find-one", "find-by-email"}
  BY DEF UserHandlers, @@, :>
<1>3. UserHandlers["register"] = Handler({"email", "password"}, {"user"}, {})
  BY DEF UserHandlers, @@, :>
<1>4. UserHandlers["verify-email"] = Handler({"email", "code"}, {"user"}, {})
  BY DEF UserHandlers, @@, :>
<1>5. UserHandlers["delete-user"] = Handler({"userId"}, {"user", "session", "wallet", "balance"}, {})
  BY DEF UserHandlers, @@, :>
<1>6. /\ UserHandlers["find-one"] = Handler({"userId"}, {}, {"user"})
      /\ UserHandlers["find-by-email"] = Handler({"userId", "email"}, {}, {"user"})
  BY DEF UserHandlers, @@, :>
<1>7. \A cmd \in DOMAIN UserHandlers : UserHandlers[cmd].writes \subseteq Data
  BY <1>2, <1>3, <1>4, <1>5, <1>6, HandlerFields DEF Data
<1>8. ASSUME NEW cmd \in DOMAIN UserHandlers, NEW reads, UserHandlers[cmd].reads = reads
      PROVE  Knows("user-service", cmd, reads)
  BY <1>1, <1>7, <1>8 DEF Knows
<1> QED  BY <1>2, <1>3, <1>4, <1>5, <1>6, <1>8, HandlerFields

LEMMA WalletKnows ==
  /\ Knows("wallet-service", "create-wallet", {"userId"})
  /\ Knows("wallet-service", "update-balances", {"walletId", "userId"})
  /\ Knows("wallet-service", "send-tx-native", {"sendParams", "userId"})
  /\ Knows("wallet-service", "delete-wallet", {"walletId", "userId"})
  /\ Knows("wallet-service", "get-all-wallets-for-user", {"userId"})
  /\ Knows("wallet-service", "get-wallet-by-address", {"address", "userId"})
  /\ Knows("wallet-service", "wallet-with-currency", {"currency", "userId"})
  /\ Knows("wallet-service", "get-all-networks", {})
  /\ Knows("wallet-service", "add-token", {"addTokenDto"})
  /\ Knows("wallet-service", "update-token", {"id", "updateTokenDto"})
  /\ Knows("wallet-service", "remove-token", {"id"})
  /\ Knows("wallet-service", "find-all-tokens", {})
<1> DEFINE All == WalletHandlers @@ BalanceHandlers @@ NetworkHandlers @@ TokenHandlers
           W == {"create-wallet", "update-balances", "send-tx-native", "delete-wallet",
                 "get-all-wallets-for-user", "get-wallet-by-address"}
           T == {"add-token", "update-token", "remove-token", "find-all-tokens"}
<1>1. "wallet-service" \in DOMAIN Handlers /\ Handlers["wallet-service"] = All
  BY DEF Handlers, @@, :>
<1>2. DOMAIN WalletHandlers = W
  BY DEF WalletHandlers, @@, :>
<1>3. DOMAIN TokenHandlers = T
  BY DEF TokenHandlers, @@, :>
<1>4. /\ DOMAIN BalanceHandlers = {"wallet-with-currency"}
      /\ BalanceHandlers["wallet-with-currency"] =
           Handler({"currency", "userId"}, {}, {"wallet", "balance"})
      /\ DOMAIN NetworkHandlers = {"get-all-networks"}
      /\ NetworkHandlers["get-all-networks"] = Handler({}, {}, {"network"})
  BY DEF BalanceHandlers, NetworkHandlers, :>
<1>5. /\ DOMAIN All = W \cup T \cup {"wallet-with-currency", "get-all-networks"}
      /\ \A cmd \in W : All[cmd] = WalletHandlers[cmd]
      /\ \A cmd \in T : All[cmd] = TokenHandlers[cmd]
      /\ All["wallet-with-currency"] = BalanceHandlers["wallet-with-currency"]
      /\ All["get-all-networks"] = NetworkHandlers["get-all-networks"]
  BY <1>2, <1>3, <1>4 DEF @@
<1>6. /\ WalletHandlers["create-wallet"] = Handler({"userId"}, {"wallet"}, {})
      /\ WalletHandlers["update-balances"] = Handler({"walletId", "userId"}, {"balance"}, {})
  BY DEF WalletHandlers, @@, :>
<1>7. /\ WalletHandlers["send-tx-native"] = Handler({"sendParams", "userId"}, {"chain"}, {})
      /\ WalletHandlers["delete-wallet"] = Handler({"walletId", "userId"}, {"wallet", "balance"}, {})
  BY DEF WalletHandlers, @@, :>
<1>8. /\ WalletHandlers["get-all-wallets-for-user"] = Handler({"userId"}, {}, {"wallet", "balance"})
      /\ WalletHandlers["get-wallet-by-address"] =
           Handler({"address", "userId"}, {}, {"wallet", "balance"})
  BY DEF WalletHandlers, @@, :>
<1>9. /\ TokenHandlers["add-token"] = Handler({"addTokenDto"}, {"token", "tokens"}, {})
      /\ TokenHandlers["update-token"] = Handler({"id", "updateTokenDto"}, {"token"}, {})
      /\ TokenHandlers["remove-token"] = Handler({"id"}, {"token", "tokens"}, {})
      /\ TokenHandlers["find-all-tokens"] = Handler({}, {}, {"tokens"})
  BY DEF TokenHandlers, @@, :>
<1> HIDE DEF All
<1>10. \A cmd \in W : All[cmd].writes \subseteq Data
  BY <1>5, <1>6, <1>7, <1>8, HandlerFields DEF Data
<1>11. \A cmd \in T : All[cmd].writes \subseteq Data
  BY <1>5, <1>9, HandlerFields DEF Data
<1>12. /\ All["wallet-with-currency"].writes \subseteq Data
       /\ All["get-all-networks"].writes \subseteq Data
  BY <1>4, <1>5, HandlerFields DEF Data
<1>13. ASSUME NEW cmd \in DOMAIN All, NEW reads, All[cmd].reads = reads
       PROVE  Knows("wallet-service", cmd, reads)
  <2>1. All[cmd].writes \subseteq Data
    BY <1>5, <1>10, <1>11, <1>12
  <2> QED  BY <1>1, <1>13, <2>1 DEF Knows
<1>14. /\ Knows("wallet-service", "create-wallet", {"userId"})
       /\ Knows("wallet-service", "update-balances", {"walletId", "userId"})
       /\ Knows("wallet-service", "send-tx-native", {"sendParams", "userId"})
  BY <1>5, <1>6, <1>7, <1>13, HandlerFields
<1>15. /\ Knows("wallet-service", "delete-wallet", {"walletId", "userId"})
       /\ Knows("wallet-service", "get-all-wallets-for-user", {"userId"})
       /\ Knows("wallet-service", "get-wallet-by-address", {"address", "userId"})
  BY <1>5, <1>7, <1>8, <1>13, HandlerFields
<1>16. /\ Knows("wallet-service", "add-token", {"addTokenDto"})
       /\ Knows("wallet-service", "update-token", {"id", "updateTokenDto"})
       /\ Knows("wallet-service", "remove-token", {"id"})
       /\ Knows("wallet-service", "find-all-tokens", {})
  BY <1>5, <1>9, <1>13, HandlerFields
<1>17. /\ Knows("wallet-service", "wallet-with-currency", {"currency", "userId"})
       /\ Knows("wallet-service", "get-all-networks", {})
  BY <1>4, <1>5, <1>13, HandlerFields
<1> QED  BY <1>14, <1>15, <1>16, <1>17

\* The service has the command and, but for the deletion of a user, finds the
\* fields it reads in the payload.
Fits(name, route) ==
  /\ route.service \in DOMAIN Handlers
  /\ Handlers[route.service][route.cmd].writes \subseteq Data
  /\ name # "deleteUser" =>
       /\ route.cmd \in DOMAIN Handlers[route.service]
       /\ Handlers[route.service][route.cmd].reads \subseteq route.payload

LEMMA RoutesFit == \A name \in DOMAIN Routes : Fits(name, Routes[name])
<1>1. \A name \in DOMAIN AuthRoutes : Fits(name, AuthRoutes[name])
  BY AuthKnows DEF Fits, Knows, AuthRoutes, Route
<1>2. \A name \in DOMAIN UserRoutes : Fits(name, UserRoutes[name])
  BY UserKnows DEF Fits, Knows, UserRoutes, Route
<1>3. \A name \in DOMAIN WalletRoutes : Fits(name, WalletRoutes[name])
  BY WalletKnows DEF Fits, Knows, WalletRoutes, WalletRoute, Route
<1>4. \A name \in DOMAIN BalanceRoutes : Fits(name, BalanceRoutes[name])
  BY WalletKnows DEF Fits, Knows, BalanceRoutes, WalletRoute, Route
<1>5. \A name \in DOMAIN NetworkRoutes : Fits(name, NetworkRoutes[name])
  BY WalletKnows DEF Fits, Knows, NetworkRoutes, Route
<1>6. \A name \in DOMAIN TokenRoutes : Fits(name, TokenRoutes[name])
  BY WalletKnows DEF Fits, Knows, TokenRoutes, Route
<1>7. ASSUME NEW p, NEW q, \A name \in DOMAIN p : Fits(name, p[name]),
             \A name \in DOMAIN q : Fits(name, q[name])
      PROVE  \A name \in DOMAIN (p @@ q) : Fits(name, (p @@ q)[name])
  BY <1>7, Merged
<1>8. \A name \in DOMAIN (AuthRoutes @@ UserRoutes) :
        Fits(name, (AuthRoutes @@ UserRoutes)[name])
  BY <1>1, <1>2, <1>7
<1> DEFINE P == AuthRoutes @@ UserRoutes
           Q == P @@ WalletRoutes
           R == Q @@ BalanceRoutes
           S == R @@ NetworkRoutes
<1>9. \A name \in DOMAIN Q : Fits(name, Q[name])
  <2> HIDE DEF P
  <2> QED  BY <1>3, <1>7, <1>8 DEF P
<1>10. \A name \in DOMAIN R : Fits(name, R[name])
  <2> HIDE DEF Q
  <2> QED  BY <1>4, <1>7, <1>9
<1>11. \A name \in DOMAIN S : Fits(name, S[name])
  <2> HIDE DEF R
  <2> QED  BY <1>5, <1>7, <1>10
<1>12. \A name \in DOMAIN (S @@ TokenRoutes) : Fits(name, (S @@ TokenRoutes)[name])
  <2> HIDE DEF S
  <2> QED  BY <1>6, <1>7, <1>11
<1> QED  BY <1>12 DEF Routes

-----------------------------------------------------------------------------
(* The inductive invariant *)

IsGet(r) == RouteOf(r).verb = "GET"
Replied(r) == Is(r, "answered") \/ Is(r, "recalled")

\* A request is for a route it was asked for, and only a GET meets the cache.
Asks ==
  \A r \in Requests :
    http[r] # Nothing =>
      /\ http[r].route \in Asked[r]
      /\ Is(r, "cache") \/ Is(r, "recalled") => IsGet(r)

\* How far the message of a request is.
Stages ==
  \A r \in Requests :
    /\ http[r] = Nothing \/ Is(r, "checks") \/ Is(r, "cache") \/ Is(r, "recalled") =>
         msg[r].state = "none"
    /\ Is(r, "answered") => msg[r].state = "replied"
    /\ Is(r, "failed") => msg[r].state \in {"none", "failed", "misread"}

\* How often a request was carried out, by its message.
Counts ==
  \A r \in Requests :
    /\ runs[r] \in {0, 1}
    /\ msg[r].state \in {"none", "queued", "taken", "misread"} => runs[r] = 0
    /\ msg[r].state \in {"done", "replied"} => runs[r] = 1
    /\ msg[r].state = "failed" /\ RouteOf(r).cmd \notin MayFailHalfWay => runs[r] = 0

\* A value shows every change that was made before the tick it was read in.
Sound(route, v) ==
  /\ v \in Values
  /\ v.readAt <= now
  /\ \A c \in changes :
       /\ c.what \in Handlers[Routes[route].service][Routes[route].cmd].shows
       /\ c.user = v.user
       /\ c.at < v.readAt
       => c.by \in v.seen

Replies ==
  \A r \in Requests :
    msg[r].state \in {"done", "replied"} /\ IsGet(r) => Sound(http[r].route, msg[r].value)

\* What a client was answered was not older than an entry may be.
Answers ==
  \A r \in Requests :
    Replied(r) /\ IsGet(r) =>
      /\ Sound(http[r].route, http[r].value)
      /\ http[r].value.readAt <= http[r].setAt
      /\ http[r].at < http[r].setAt + TTL

OnTheWay == \A r \in setting : Is(r, "answered") /\ IsGet(r)

Cached ==
  \A url \in URLs :
    cache[url] # Nothing =>
      Sound(url, cache[url].value) /\ cache[url].value.readAt <= cache[url].setAt

IInv ==
  /\ TypeOK /\ Asks /\ Stages /\ Counts
  /\ Replies /\ Answers /\ OnTheWay /\ Cached
  /\ OnlyDeletionIsMisread

-----------------------------------------------------------------------------
(* What one step does *)

Waiting == [state : Open \cup {"failed", "unanswered"}, user : Users \cup {Nobody},
            route : DOMAIN Routes]
Answered == [state : {"answered", "recalled"}, user : Users \cup {Nobody}, route : DOMAIN Routes,
             at : Nat, value : Values \cup {Nothing}, setAt : Nat]
Plain == [state : {"none", "queued", "taken", "lost", "failed", "misread"}]
Valued == [state : {"done", "replied"}, value : Values \cup {Nothing}]

Closed == {"failed", "unanswered"}

LEMMA Kinds ==
  ASSUME TypeOK, NEW r \in Requests
  PROVE  /\ http[r] # Nothing => http[r] \in Waiting \cup Answered
         /\ \A s : Is(r, s) => http[r] # Nothing /\ http[r].state = s
         /\ \A s : Is(r, s) /\ s \in Open \cup Closed => http[r] \in Waiting
         /\ Replied(r) => http[r] \in Answered
         /\ http[r] # Nothing => /\ http[r].route \in DOMAIN Routes
                                 /\ http[r].user \in Users \cup {Nobody}
         /\ msg[r].state \in {"done", "replied"} => msg[r].value \in Values \cup {Nothing}
BY DEF TypeOK, Waiting, Answered, Open, Closed, Is, Replied

\* The client of r is told no more than that.
Moves(r, from, to) ==
  /\ Is(r, from)
  /\ http' = [http EXCEPT ![r] = [state |-> to, user |-> http[r].user, route |-> http[r].route]]

LEMMA BecomesMoves ==
  ASSUME TypeOK, NEW r \in Requests, NEW from \in Open, NEW to, Is(r, from), Becomes(r, to)
  PROVE  Moves(r, from, to)
<1>1. http[r] \in Waiting
  BY Kinds
<1>2. [http[r] EXCEPT !.state = to] = [state |-> to, user |-> http[r].user, route |-> http[r].route]
  BY <1>1 DEF Waiting
<1> QED  BY <1>2 DEF Moves, Becomes, TypeOK

LEMMA MovesType ==
  ASSUME TypeOK, NEW r \in Requests, NEW from \in Open, NEW to \in Open \cup Closed,
         Moves(r, from, to)
  PROVE  http' \in [Requests -> {Nothing} \cup Waiting \cup Answered]
<1>1. http[r] \in Waiting
  BY Kinds DEF Moves
<1>2. [state |-> to, user |-> http[r].user, route |-> http[r].route] \in Waiting
  BY <1>1 DEF Waiting, Closed
<1>3. http \in [Requests -> {Nothing} \cup Waiting \cup Answered]
  BY DEF TypeOK, Waiting, Answered
<1> QED  BY <1>2, <1>3 DEF Moves

\* The kinds of steps at the gateway.
LEMMA GatewayCases ==
  ASSUME TypeOK, NEW r \in Requests, GatewayStep(r)
  PROVE  \/ Moves(r, "checks", "cache") /\ IsGet(r) /\ UNCHANGED <<msg, setting, cache>>
         \/ Moves(r, "checks", "rpc") /\ Message(r, "queued") /\ UNCHANGED <<setting, cache>>
         \/ Moves(r, "checks", "failed") /\ UNCHANGED <<msg, setting, cache>>
         \/ Moves(r, "checks", "unanswered") /\ UNCHANGED <<msg, setting, cache>>
         \/ CacheHit(r)
         \/ Moves(r, "cache", "rpc") /\ Message(r, "queued") /\ UNCHANGED <<setting, cache>>
         \/ SetCache(r)
         \/ PassOn(r)
         \/ /\ Moves(r, "rpc", "failed") /\ msg[r].state \in {"failed", "misread"}
            /\ UNCHANGED <<msg, setting, cache>>
<1>1. "checks" \in Open /\ "cache" \in Open /\ "rpc" \in Open
  BY DEF Open
<1>2. CASE ChecksPass(r)
  BY <1>1, <1>2, BecomesMoves DEF ChecksPass, IsGet
<1>3. CASE ChecksRefuse(r) \/ GuardStuck(r)
  BY <1>1, <1>3, BecomesMoves DEF ChecksRefuse, GuardStuck
<1>4. CASE CacheMiss(r)
  BY <1>1, <1>4, BecomesMoves DEF CacheMiss
<1>5. CASE PassOnFailure(r)
  BY <1>1, <1>5, BecomesMoves DEF PassOnFailure
<1> QED  BY <1>2, <1>3, <1>4, <1>5 DEF GatewayStep

LEMMA GatewayKeeps ==
  ASSUME NEW r \in Requests, GatewayStep(r)
  PROVE  UNCHANGED <<now, changes, runs>>
BY DEF GatewayStep, ChecksPass, ChecksRefuse, GuardStuck, CacheHit, CacheMiss, SetCache, PassOn,
       PassOnFailure

LEMMA URLsAreRoutes ==
  /\ URLs \subseteq DOMAIN Routes
  /\ \A r \in Requests : \A route \in Asked[r] :
       route \in DOMAIN Routes /\ (Routes[route].verb = "GET" => route \in URLs)
BY RoutesAssumption DEF URLs, Range

LEMMA GatewayType ==
  ASSUME TypeOK, Asks, Replies, Answers, OnTheWay, Cached, Stages,
         NEW r \in Requests, GatewayStep(r)
  PROVE  TypeOK'
<1> DEFINE H == [Requests -> {Nothing} \cup Waiting \cup Answered]
           M == [Requests -> Plain \cup Valued]
           C == [URLs -> {Nothing} \cup [value : Values, setAt : Nat]]
<1>1. http \in H /\ msg \in M /\ cache \in C /\ setting \subseteq Requests /\ now \in Nat
  BY TTLAssumption DEF TypeOK, Waiting, Answered, Plain, Valued
<1>2. SUFFICES http' \in H /\ msg' \in M /\ cache' \in C /\ setting' \subseteq Requests
  BY GatewayKeeps DEF TypeOK, Waiting, Answered, Plain, Valued
<1> HIDE DEF H, M, C
<1>3. ASSUME NEW from \in Open, NEW to \in Open \cup Closed, Moves(r, from, to)
      PROVE  http' \in H
  BY <1>3, MovesType DEF H
<1>4. Message(r, "queued") => msg' \in M
  BY <1>1 DEF M, Message, Plain
<1>5. CASE CacheHit(r)
  <2>1. /\ Is(r, "cache") /\ Entry(r) # Nothing /\ UNCHANGED <<msg, setting, cache>>
        /\ http' = [http EXCEPT ![r] = [state |-> "recalled", user |-> http[r].user,
                      route |-> http[r].route, at |-> now, value |-> Entry(r).value,
                      setAt |-> Entry(r).setAt]]
    BY <1>5 DEF CacheHit, Alive, Answer, TypeOK
  <2>2. http[r] \in Waiting /\ http[r].route \in URLs
    BY <2>1, Kinds, URLsAreRoutes DEF Open, Asks, IsGet, RouteOf
  <2>3. Entry(r) \in [value : Values, setAt : Nat]
    BY <1>1, <2>1, <2>2 DEF C, Entry
  <2>4. [state |-> "recalled", user |-> http[r].user, route |-> http[r].route, at |-> now,
         value |-> Entry(r).value, setAt |-> Entry(r).setAt] \in Answered
    BY <1>1, <2>2, <2>3 DEF Waiting, Answered
  <2> QED  BY <1>1, <2>1, <2>4 DEF H
<1>6. CASE SetCache(r)
  <2>1. Is(r, "answered") /\ IsGet(r)
    BY <1>6 DEF SetCache, OnTheWay
  <2>2. http[r].route \in URLs /\ http[r].value \in Values
    BY <2>1, Kinds, URLsAreRoutes DEF Asks, IsGet, RouteOf, Answers, Replied, Sound
  <2>3. cache' = [url \in {http[r].route} \cup URLs |->
                    IF url = http[r].route THEN [value |-> http[r].value, setAt |-> now]
                    ELSE cache[url]]
    BY <1>1, <1>6 DEF SetCache, @@, :>, C
  <2>4. cache' \in C
    BY <1>1, <2>2, <2>3 DEF C
  <2> QED  BY <1>1, <1>6, <2>4 DEF SetCache
<1>7. CASE PassOn(r)
  <2>1. /\ Is(r, "rpc") /\ msg[r].state = "replied" /\ UNCHANGED <<msg, cache>>
        /\ setting' \subseteq setting \cup {r}
        /\ http' = [http EXCEPT ![r] = [state |-> "answered", user |-> http[r].user,
                      route |-> http[r].route, at |-> now, value |-> msg[r].value,
                      setAt |-> now]]
    BY <1>7 DEF PassOn, Answer, TypeOK
  <2>2. http[r] \in Waiting /\ msg[r].value \in Values \cup {Nothing}
    BY <2>1, Kinds DEF Open
  <2>3. [state |-> "answered", user |-> http[r].user, route |-> http[r].route, at |-> now,
         value |-> msg[r].value, setAt |-> now] \in Answered
    BY <1>1, <2>2 DEF Waiting, Answered
  <2> QED  BY <1>1, <2>1, <2>3 DEF H
<1> QED  BY <1>1, <1>3, <1>4, <1>5, <1>6, <1>7, GatewayCases DEF Open, Closed

LEMMA NewChanges ==
  ASSUME TypeOK, NEW by \in Writers, NEW what \in SUBSET Data, NEW u \in Users \cup {Nobody},
         changes' = changes \cup Writes(by, what, u)
  PROVE  /\ changes' \subseteq Change
         /\ \A c \in changes' : c \in changes \/ c.at = now
<1>1. now \in Nat
  BY TTLAssumption DEF TypeOK
<1>2. \A c \in Writes(by, what, u) : c \in Change /\ c.at = now
  BY <1>1 DEF Writes, Change
<1> QED  BY <1>2 DEF TypeOK

LEMMA HandlerWrites ==
  ASSUME TypeOK, Asks, NEW r \in Requests, http[r] # Nothing
  PROVE  /\ Fits(http[r].route, RouteOf(r))
         /\ HandlerOf(r).writes \subseteq Data
BY Kinds, RoutesFit DEF Fits, HandlerOf, RouteOf

\* What the service writes, and that the client's side is left alone.
LEMMA ServiceChanges ==
  ASSUME TypeOK, Asks, Stages, NEW r \in Requests, ServiceStep(r)
  PROVE  /\ UNCHANGED <<now, http, setting, cache>>
         /\ changes' \subseteq Change
         /\ \A c \in changes' : c \in changes \/ c.at = now
<1>1. CASE UNCHANGED changes
  BY <1>1
  DEF ServiceStep, Take, CarryOut, CarryOutFails, CarryOutHalf, Misread, Reply, TypeOK
<1>2. CASE CarryOut(r) \/ CarryOutHalf(r)
  <2>1. http[r] # Nothing
    BY <1>2 DEF CarryOut, CarryOutHalf, Stages
  <2>2. /\ changes' = changes \cup Writes(r, HandlerOf(r).writes, http[r].user)
        /\ UNCHANGED <<now, http, setting, cache>>
    BY <1>2 DEF CarryOut, CarryOutHalf
  <2>3. http[r].user \in Users \cup {Nobody} /\ r \in Writers
    BY <2>1, Kinds DEF Writers
  <2> HIDE DEF Writers
  <2> QED  BY <2>1, <2>2, <2>3, NewChanges, HandlerWrites
<1> QED
  BY <1>1, <1>2 DEF ServiceStep, Take, CarryOutFails, Misread, Reply

LEMMA ReplyType ==
  ASSUME TypeOK, Stages, NEW r \in Requests, msg[r].state = "taken"
  PROVE  ReplyOf(r) \in Values \cup {Nothing}
<1>1. http[r] # Nothing /\ now \in Nat
  BY TTLAssumption DEF Stages, TypeOK
<1>2. http[r].user \in Users \cup {Nobody}
  BY <1>1, Kinds
<1>3. {c.by : c \in Shown(r)} \in SUBSET Writers
  BY DEF Shown, TypeOK, Change
<1> QED  BY <1>1, <1>2, <1>3 DEF ReplyOf, Values

LEMMA ServiceType ==
  ASSUME TypeOK, Asks, Stages, NEW r \in Requests, ServiceStep(r)
  PROVE  TypeOK'
<1> DEFINE M == [Requests -> Plain \cup Valued]
<1>1. msg \in M /\ runs \in [Requests -> Nat]
  BY DEF TypeOK, Plain, Valued
<1>2. SUFFICES msg' \in M /\ runs' \in [Requests -> Nat]
  BY ServiceChanges DEF TypeOK, Plain, Valued
<1>3. runs' \in [Requests -> Nat]
  BY <1>1
  DEF ServiceStep, Take, CarryOut, CarryOutFails, CarryOutHalf, Misread, Reply
<1>4. ASSUME NEW state \in {"taken", "failed", "misread"}, Message(r, state)
      PROVE  msg' \in M
  BY <1>1, <1>4 DEF Message, Plain
<1>5. CASE CarryOut(r)
  <2>1. msg[r].state = "taken" /\ msg' = [msg EXCEPT ![r] = [state |-> "done", value |-> ReplyOf(r)]]
    BY <1>5 DEF CarryOut, With
  <2>2. [state |-> "done", value |-> ReplyOf(r)] \in Valued
    BY <2>1, ReplyType DEF Valued
  <2> QED  BY <1>1, <1>3, <2>1, <2>2
<1>6. CASE Reply(r)
  <2>1. /\ msg[r].state = "done"
        /\ msg' = [msg EXCEPT ![r] = [state |-> "replied", value |-> msg[r].value]]
    BY <1>6 DEF Reply, With
  <2>2. [state |-> "replied", value |-> msg[r].value] \in Valued
    BY <2>1, Kinds DEF Valued
  <2> QED  BY <1>1, <1>3, <2>1, <2>2
<1> HIDE DEF M
<1> QED
  BY <1>3, <1>4, <1>5, <1>6 DEF ServiceStep, Take, CarryOutFails, CarryOutHalf, Misread

\* The gateway dies: what was open is not answered.
LEMMA GatewayDiesStep ==
  ASSUME TypeOK, GatewayDies, NEW r \in Requests
  PROVE  \/ /\ \E s \in Open : Is(r, s)
            /\ http'[r] = [state |-> "unanswered", user |-> http[r].user, route |-> http[r].route]
            /\ http'[r] \in Waiting
         \/ http'[r] = http[r] /\ ~\E s \in Open : Is(r, s)
<1>1. http'[r] = IF \E s \in Open : Is(r, s) THEN [http[r] EXCEPT !.state = "unanswered"]
                 ELSE http[r]
  BY DEF GatewayDies
<1>2. ASSUME NEW s \in Open, Is(r, s)
      PROVE  /\ http'[r] = [state |-> "unanswered", user |-> http[r].user, route |-> http[r].route]
             /\ http'[r] \in Waiting
  <2>1. http[r] \in Waiting
    BY <1>2, Kinds
  <2>2. http'[r] = [http[r] EXCEPT !.state = "unanswered"]
    BY <1>1, <1>2
  <2> QED  BY <2>1, <2>2 DEF Waiting
<1> QED  BY <1>1, <1>2

LEMMA TypeStep ==
  ASSUME IInv, [Next]_vars
  PROVE  TypeOK'
<1>1. ASSUME NEW r \in Requests, NEW route \in Asked[r], NEW u \in About(route),
             Arrive(r, route, u)
      PROVE  TypeOK'
  <2>1. u \in Users \cup {Nobody} /\ route \in DOMAIN Routes
    BY URLsAreRoutes DEF About
  <2>2. [state |-> "checks", user |-> u, route |-> route] \in Waiting
    BY <2>1 DEF Waiting, Open
  <2>3. http \in [Requests -> {Nothing} \cup Waiting \cup Answered]
    BY DEF IInv, TypeOK, Waiting, Answered
  <2>4. http' \in [Requests -> {Nothing} \cup Waiting \cup Answered]
    BY <1>1, <2>2, <2>3 DEF Arrive
  <2> QED  BY <1>1, <2>4 DEF Arrive, IInv, TypeOK, Waiting, Answered
<1>2. ASSUME NEW r \in Requests, GatewayStep(r)
      PROVE  TypeOK'
  BY <1>2, GatewayType DEF IInv
<1>3. ASSUME NEW r \in Requests, ServiceStep(r)
      PROVE  TypeOK'
  BY <1>3, ServiceType DEF IInv
<1>4. ASSUME NEW service \in DOMAIN Handlers, ServiceDies(service)
      PROVE  TypeOK'
  <2>1. msg \in [Requests -> Plain \cup Valued]
    BY DEF IInv, TypeOK, Plain, Valued
  <2>2. [state |-> "lost"] \in Plain
    BY DEF Plain
  <2>3. msg' \in [Requests -> Plain \cup Valued]
    BY <1>4, <2>1, <2>2 DEF ServiceDies
  <2> QED  BY <1>4, <2>3 DEF ServiceDies, IInv, TypeOK, Plain, Valued
<1>5. ASSUME NEW u \in Users, Listen(u)
      PROVE  TypeOK'
  <2>1. "listener" \in Writers /\ {"balance"} \in SUBSET Data
    BY DEF Writers, Data
  <2>2. changes' \subseteq Change
    BY <1>5, <2>1, NewChanges DEF Listen, IInv
  <2> QED  BY <1>5, <2>2 DEF Listen, IInv, TypeOK
<1>6. CASE GatewayDies
  <2>1. \A r \in Requests : http'[r] \in {Nothing} \cup Waiting \cup Answered
    BY <1>6, GatewayDiesStep DEF IInv, TypeOK, Waiting, Answered
  <2>2. http' = [r \in Requests |-> http'[r]]
    BY <1>6 DEF GatewayDies
  <2>3. http' \in [Requests -> {Nothing} \cup Waiting \cup Answered]
    BY <2>1, <2>2
  <2> QED  BY <1>6, <2>3 DEF GatewayDies, IInv, TypeOK, Waiting, Answered
<1>7. CASE Tick
  BY <1>7, TTLAssumption DEF Tick, IInv, TypeOK
<1>8. CASE UNCHANGED vars
  BY <1>8 DEF vars, IInv, TypeOK
<1> QED  BY <1>1, <1>2, <1>3, <1>4, <1>5, <1>6, <1>7, <1>8 DEF Next

-----------------------------------------------------------------------------
(* What one step does to one request *)

Goes(r, from, to) ==
  /\ Is(r, from)
  /\ http'[r] = [state |-> to, user |-> http[r].user, route |-> http[r].route]

Given(r, state, value, setAt) ==
  http'[r] = [state |-> state, user |-> http[r].user, route |-> http[r].route,
              at |-> now, value |-> value, setAt |-> setAt]

\* It arrives, it goes on at the gateway, or its message goes on.
Arrives(r) ==
  /\ http[r] = Nothing
  /\ \E route \in Asked[r] : \E u \in About(route) :
       http'[r] = [state |-> "checks", user |-> u, route |-> route]
  /\ msg'[r] = msg[r]

GoesOn(r) ==
  \/ Goes(r, "checks", "cache") /\ IsGet(r) /\ msg'[r] = msg[r]
  \/ Goes(r, "checks", "rpc") /\ msg'[r] = [state |-> "queued"]
  \/ Goes(r, "checks", "failed") /\ msg'[r] = msg[r]
  \/ \E s \in Open : Goes(r, s, "unanswered") /\ msg'[r] = msg[r]
  \/ /\ Is(r, "cache") /\ Alive(Entry(r))
     /\ Given(r, "recalled", Entry(r).value, Entry(r).setAt)
     /\ msg'[r] = msg[r]
  \/ Goes(r, "cache", "rpc") /\ msg'[r] = [state |-> "queued"]
  \/ /\ Is(r, "rpc") /\ msg[r].state = "replied"
     /\ Given(r, "answered", msg[r].value, now)
     /\ msg'[r] = msg[r]
  \/ /\ Goes(r, "rpc", "failed") /\ msg[r].state \in {"failed", "misread"}
     /\ msg'[r] = msg[r]

MessageGoesOn(r) ==
  \/ msg[r].state = "queued" /\ msg'[r] = [state |-> "taken"] /\ runs'[r] = runs[r]
  \/ /\ msg[r].state = "taken" /\ Understood(r)
     /\ msg'[r] = [state |-> "done", value |-> ReplyOf(r)] /\ runs'[r] = runs[r] + 1
  \/ msg[r].state = "taken" /\ msg'[r] = [state |-> "failed"] /\ runs'[r] = runs[r]
  \/ /\ msg[r].state = "taken" /\ RouteOf(r).cmd \in MayFailHalfWay
     /\ msg'[r] = [state |-> "failed"] /\ runs'[r] = runs[r] + 1
  \/ /\ msg[r].state = "taken" /\ ~Understood(r)
     /\ msg'[r] = [state |-> "misread"] /\ runs'[r] = runs[r]
  \/ /\ msg[r].state = "done"
     /\ msg'[r] = [state |-> "replied", value |-> msg[r].value] /\ runs'[r] = runs[r]
  \/ msg[r].state \in {"taken", "done"} /\ msg'[r] = [state |-> "lost"] /\ runs'[r] = runs[r]

Rests(r) == http'[r] = http[r] /\ msg'[r] = msg[r] /\ runs'[r] = runs[r]

LEMMA GatewayRequest ==
  ASSUME TypeOK, NEW r \in Requests, GatewayStep(r)
  PROVE  /\ \A q \in Requests : q # r => Rests(q)
         /\ Rests(r) \/ (GoesOn(r) /\ runs'[r] = runs[r])
<1> USE DEF TypeOK
<1>1. runs' = runs
  BY GatewayKeeps
<1>2. ASSUME NEW from, NEW to, Moves(r, from, to)
      PROVE  Goes(r, from, to) /\ \A q \in Requests : q # r => http'[q] = http[q]
  BY <1>2 DEF Moves, Goes
<1>3. Message(r, "queued") => /\ msg'[r] = [state |-> "queued"]
                              /\ \A q \in Requests : q # r => msg'[q] = msg[q]
  BY DEF Message
<1>4. CASE SetCache(r)
  BY <1>1, <1>4 DEF SetCache, Rests
<1>5. CASE CacheHit(r)
  <2>1. /\ Is(r, "cache") /\ Alive(Entry(r)) /\ msg' = msg
        /\ Given(r, "recalled", Entry(r).value, Entry(r).setAt)
        /\ \A q \in Requests : q # r => http'[q] = http[q]
    BY <1>5 DEF CacheHit, Answer, Given
  <2> QED  BY <1>1, <2>1 DEF Rests, GoesOn
<1>6. CASE PassOn(r)
  <2>1. /\ Is(r, "rpc") /\ msg[r].state = "replied" /\ msg' = msg
        /\ Given(r, "answered", msg[r].value, now)
        /\ \A q \in Requests : q # r => http'[q] = http[q]
    BY <1>6 DEF PassOn, Answer, Given
  <2> QED  BY <1>1, <2>1 DEF Rests, GoesOn
<1>7. "checks" \in Open
  BY DEF Open
<1> QED
  BY <1>1, <1>2, <1>3, <1>4, <1>5, <1>6, <1>7, GatewayCases DEF Rests, GoesOn

LEMMA ServiceRequest ==
  ASSUME TypeOK, NEW r \in Requests, ServiceStep(r)
  PROVE  /\ \A q \in Requests : q # r => Rests(q)
         /\ http'[r] = http[r] /\ MessageGoesOn(r)
<1> USE DEF TypeOK, Rests, MessageGoesOn
<1>1. CASE Take(r) \/ CarryOutFails(r) \/ Misread(r)
  BY <1>1 DEF Take, CarryOutFails, Misread, Message
<1>2. CASE CarryOut(r)
  BY <1>2 DEF CarryOut, With
<1>3. CASE CarryOutHalf(r)
  BY <1>3 DEF CarryOutHalf, Message
<1>4. CASE Reply(r)
  BY <1>4 DEF Reply, With
<1> QED  BY <1>1, <1>2, <1>3, <1>4 DEF ServiceStep

LEMMA RequestStep ==
  ASSUME TypeOK, [Next]_vars, NEW r \in Requests
  PROVE  \/ Rests(r)
         \/ Arrives(r) /\ runs'[r] = runs[r]
         \/ GoesOn(r) /\ runs'[r] = runs[r]
         \/ http'[r] = http[r] /\ MessageGoesOn(r)
<1>1. ASSUME NEW q \in Requests, NEW route \in Asked[q], NEW u \in About(route),
             Arrive(q, route, u)
      PROVE  Rests(r) \/ (Arrives(r) /\ runs'[r] = runs[r])
  BY <1>1 DEF Arrive, TypeOK, Rests, Arrives
<1>2. ASSUME NEW q \in Requests, GatewayStep(q)
      PROVE  Rests(r) \/ (GoesOn(r) /\ runs'[r] = runs[r])
  <2>1. CASE q # r
    BY <1>2, <2>1, GatewayRequest DEF Rests
  <2>2. CASE q = r
    <3>1. GatewayStep(r)
      BY <1>2, <2>2
    <3> QED  BY <3>1, GatewayRequest
  <2> QED  BY <2>1, <2>2
<1>3. ASSUME NEW q \in Requests, ServiceStep(q)
      PROVE  Rests(r) \/ (http'[r] = http[r] /\ MessageGoesOn(r))
  <2>1. CASE q # r
    BY <1>3, <2>1, ServiceRequest DEF Rests
  <2>2. CASE q = r
    <3>1. ServiceStep(r)
      BY <1>3, <2>2
    <3> QED  BY <3>1, ServiceRequest
  <2> QED  BY <2>1, <2>2
<1>4. ASSUME NEW service \in DOMAIN Handlers, ServiceDies(service)
      PROVE  Rests(r) \/ (http'[r] = http[r] /\ MessageGoesOn(r))
  <2>1. /\ msg'[r] = IF Held(r, service) THEN [state |-> "lost"] ELSE msg[r]
        /\ http'[r] = http[r] /\ runs'[r] = runs[r]
    BY <1>4 DEF ServiceDies
  <2> QED  BY <2>1 DEF Held, Rests, MessageGoesOn
<1>5. CASE GatewayDies
  <2>1. msg' = msg /\ runs' = runs
    BY <1>5 DEF GatewayDies
  <2> QED  BY <1>5, <2>1, GatewayDiesStep DEF Rests, GoesOn, Goes
<1>6. ASSUME NEW u \in Users, Listen(u)
      PROVE  Rests(r)
  BY <1>6 DEF Listen, Rests
<1>7. CASE Tick \/ UNCHANGED vars
  BY <1>7 DEF Tick, vars, Rests
<1> QED  BY <1>1, <1>2, <1>3, <1>4, <1>5, <1>6, <1>7 DEF Next

-----------------------------------------------------------------------------
(* The parts of the inductive invariant *)

\* The route of a request never changes.
LEMMA RouteStays ==
  ASSUME TypeOK, [Next]_vars, NEW r \in Requests, http[r] # Nothing
  PROVE  http'[r].route = http[r].route /\ http'[r] # Nothing
<1>1. CASE http'[r] = http[r]
  BY <1>1
<1>2. CASE GoesOn(r)
  BY <1>2 DEF GoesOn, Goes, Given, Nothing
<1> QED  BY <1>1, <1>2, RequestStep DEF Rests, Arrives

LEMMA AsksStep ==
  ASSUME IInv, [Next]_vars
  PROVE  Asks'
<1> SUFFICES ASSUME NEW r \in Requests, http'[r] # Nothing
             PROVE  /\ http'[r].route \in Asked[r]
                    /\ http'[r].state \in {"cache", "recalled"} =>
                         Routes[http'[r].route].verb = "GET"
  BY DEF Asks, Is, IsGet, RouteOf
<1> USE DEF IInv, Asks, Is, IsGet, RouteOf
<1>1. CASE http'[r] = http[r]
  BY <1>1
<1>2. CASE Arrives(r)
  BY <1>2 DEF Arrives
<1>3. CASE GoesOn(r)
  BY <1>3 DEF GoesOn, Goes, Given
<1> QED  BY <1>1, <1>2, <1>3, RequestStep DEF Rests

LEMMA StagesStep ==
  ASSUME IInv, [Next]_vars
  PROVE  Stages'
<1> SUFFICES ASSUME NEW r \in Requests
             PROVE  /\ http'[r] = Nothing => msg'[r].state = "none"
                    /\ http'[r] # Nothing /\ http'[r].state \in {"checks", "cache", "recalled"} =>
                         msg'[r].state = "none"
                    /\ http'[r] # Nothing /\ http'[r].state = "answered" =>
                         msg'[r].state = "replied"
                    /\ http'[r] # Nothing /\ http'[r].state = "failed" =>
                         msg'[r].state \in {"none", "failed", "misread"}
  BY DEF Stages, Is
<1> USE DEF IInv, Stages, Is
<1>1. CASE Rests(r)
  BY <1>1 DEF Rests
<1>2. CASE Arrives(r)
  BY <1>2 DEF Arrives, Nothing
<1>3. CASE GoesOn(r)
  <2>1. http'[r] # Nothing
    BY <1>3 DEF GoesOn, Goes, Given, Nothing
  <2> QED  BY <1>3, <2>1 DEF GoesOn, Goes, Given
<1>4. CASE http'[r] = http[r] /\ MessageGoesOn(r)
  BY <1>4 DEF MessageGoesOn
<1> QED  BY <1>1, <1>2, <1>3, <1>4, RequestStep

LEMMA CountsStep ==
  ASSUME IInv, [Next]_vars
  PROVE  Counts'
<1> SUFFICES ASSUME NEW r \in Requests
             PROVE  /\ runs'[r] \in {0, 1}
                    /\ msg'[r].state \in {"none", "queued", "taken", "misread"} => runs'[r] = 0
                    /\ msg'[r].state \in {"done", "replied"} => runs'[r] = 1
                    /\ /\ msg'[r].state = "failed"
                       /\ Routes[http'[r].route].cmd \notin MayFailHalfWay
                       => runs'[r] = 0
  BY DEF Counts, RouteOf
<1> USE DEF IInv, Counts
<1>1. http[r] # Nothing => RouteOf(r) = Routes[http'[r].route]
  BY RouteStays DEF RouteOf
<1>2. msg[r].state # "none" => http[r] # Nothing
  BY DEF Stages
<1>3. CASE Rests(r)
  BY <1>1, <1>2, <1>3 DEF Rests
<1>4. CASE Arrives(r) /\ runs'[r] = runs[r]
  BY <1>4 DEF Arrives, Stages
<1>5. CASE GoesOn(r) /\ runs'[r] = runs[r]
  <2>1. \/ msg'[r] = msg[r]
        \/ msg[r].state = "none" /\ msg'[r] = [state |-> "queued"]
    BY <1>5 DEF GoesOn, Goes, Stages
  <2> QED  BY <1>1, <1>2, <1>5, <2>1
<1>6. CASE http'[r] = http[r] /\ MessageGoesOn(r)
  BY <1>1, <1>2, <1>6 DEF MessageGoesOn
<1> QED  BY <1>3, <1>4, <1>5, <1>6, RequestStep

\* Only the deletion of a user does not fit.
LEMMA MisreadStep ==
  ASSUME IInv, [Next]_vars
  PROVE  OnlyDeletionIsMisread'
<1> SUFFICES ASSUME NEW r \in Requests, msg'[r].state = "misread"
             PROVE  http'[r].route = "deleteUser"
  BY DEF OnlyDeletionIsMisread
<1> USE DEF IInv, OnlyDeletionIsMisread
<1>1. msg[r].state # "none" => http[r] # Nothing
  BY DEF Stages
<1>2. CASE msg[r].state = "misread"
  BY <1>1, <1>2, RouteStays
<1>3. CASE msg[r].state # "misread"
  <2>1. ~Rests(r) /\ ~Arrives(r)
    BY <1>3 DEF Rests, Arrives
  <2>2. ~GoesOn(r)
    BY <1>3 DEF GoesOn
  <2>3. http'[r] = http[r] /\ MessageGoesOn(r)
    BY <2>1, <2>2, RequestStep
  <2>4. msg[r].state = "taken" /\ ~Understood(r)
    BY <1>3, <2>3 DEF MessageGoesOn
  <2>5. Fits(http[r].route, RouteOf(r))
    BY <1>1, <2>4, HandlerWrites
  <2> QED  BY <2>3, <2>4, <2>5 DEF Fits, Understood, HandlerOf
<1> QED  BY <1>2, <1>3

-----------------------------------------------------------------------------
(* Replies and the cache *)

\* Nothing is written before the present tick, which is not before a value was read.
LEMMA SoundStays ==
  ASSUME IInv, [Next]_vars, NEW route, NEW v, Sound(route, v)
  PROVE  Sound(route, v)'
<1>1. now \in Nat /\ now' \in Nat /\ now <= now'
  <2>1. now \in Nat
    BY DEF IInv, TypeOK
  <2>2. now' = now \/ now' = now + 1
    BY GatewayKeeps, ServiceChanges
    DEF IInv, Next, vars, Arrive, ServiceDies, Listen, GatewayDies, Tick
  <2> QED  BY <2>1, <2>2
<1>2. \A c \in changes' : c \in changes \/ c.at = now
  <2>1. CASE UNCHANGED changes
    BY <2>1
  <2>2. ASSUME NEW r \in Requests, ServiceStep(r)
        PROVE  \A c \in changes' : c \in changes \/ c.at = now
    BY <2>2, ServiceChanges DEF IInv
  <2>3. ASSUME NEW u \in Users, Listen(u)
        PROVE  \A c \in changes' : c \in changes \/ c.at = now
    <3>1. "listener" \in Writers /\ {"balance"} \in SUBSET Data
      BY DEF Writers, Data
    <3> QED  BY <2>3, <3>1, NewChanges DEF Listen, IInv
  <2> QED
    BY <2>1, <2>2, <2>3, GatewayKeeps DEF Next, vars, Arrive, ServiceDies, GatewayDies, Tick
<1>3. v.readAt \in Nat /\ v.readAt <= now
  BY DEF Sound, Values
<1>4. \A c \in changes' : c.at < v.readAt => c \in changes
  BY <1>1, <1>2, <1>3
<1> QED  BY <1>1, <1>3, <1>4 DEF Sound

\* A reply to a GET shows all there is to show when it is read.
LEMMA ReplySound ==
  ASSUME IInv, NEW r \in Requests, msg[r].state = "taken", IsGet(r)
  PROVE  Sound(http[r].route, ReplyOf(r))
<1>1. ReplyOf(r) = [user |-> http[r].user, seen |-> {c.by : c \in Shown(r)}, readAt |-> now]
  BY DEF ReplyOf, IsGet
<1>2. http[r] # Nothing
  BY DEF IInv, Stages
<1>3. now \in Nat /\ http[r].user \in Users \cup {Nobody} /\ {c.by : c \in Shown(r)} \subseteq Writers
  BY <1>2, Kinds DEF IInv, TypeOK, Shown, Change
<1>4. ReplyOf(r) \in Values
  BY <1>1, <1>3 DEF Values
<1>5. \A c \in changes :
        c.what \in Handlers[Routes[http[r].route].service][Routes[http[r].route].cmd].shows
          /\ c.user = http[r].user
        => c \in Shown(r)
  BY DEF Shown, HandlerOf, RouteOf
<1> QED  BY <1>1, <1>3, <1>4, <1>5 DEF Sound

LEMMA RepliesStep ==
  ASSUME IInv, [Next]_vars
  PROVE  Replies'
<1> SUFFICES ASSUME NEW r \in Requests, msg'[r].state \in {"done", "replied"},
                    NEW route, route = http'[r].route, Routes[route].verb = "GET",
                    NEW v, v = msg'[r].value
             PROVE  Sound(route, v)'
  BY DEF Replies, IsGet, RouteOf, Sound
<1>1. msg[r].state # "none"
  <2>1. GoesOn(r) => msg'[r] = msg[r] \/ msg'[r] = [state |-> "queued"]
    BY DEF GoesOn
  <2>2. MessageGoesOn(r) => msg[r].state # "none"
    BY DEF MessageGoesOn
  <2> QED  BY <2>1, <2>2, RequestStep DEF IInv, Rests, Arrives
<1>2. http[r] # Nothing /\ http[r].route = route /\ IsGet(r)
  BY <1>1, RouteStays DEF IInv, Stages, IsGet, RouteOf
<1>3. Sound(route, v)
  <2>1. CASE msg[r].state \in {"done", "replied"} /\ msg[r].value = v
    BY <1>2, <2>1 DEF IInv, Replies
  <2>2. CASE msg[r].state = "taken" /\ v = ReplyOf(r)
    BY <1>2, <2>2, ReplySound
  <2>3. CASE MessageGoesOn(r)
    BY <2>1, <2>2, <2>3 DEF MessageGoesOn
  <2>4. CASE GoesOn(r)
    <3>1. msg'[r] = msg[r]
      BY <2>4 DEF GoesOn
    <3> QED  BY <2>1, <3>1
  <2> QED  BY <2>1, <2>3, <2>4, RequestStep DEF IInv, Rests, Arrives
<1> QED  BY <1>3, SoundStays

\* A request is answered with the reply, or with an entry that is alive.
LEMMA AnswersStep ==
  ASSUME IInv, [Next]_vars
  PROVE  Answers'
<1> SUFFICES ASSUME NEW r \in Requests, http'[r] # Nothing,
                    http'[r].state \in {"answered", "recalled"},
                    NEW route, route = http'[r].route, Routes[route].verb = "GET",
                    NEW v, v = http'[r].value
             PROVE  /\ Sound(route, v)'
                    /\ v.readAt <= http'[r].setAt
                    /\ http'[r].at < http'[r].setAt + TTL
  BY DEF Answers, Replied, Is, IsGet, RouteOf, Sound
<1>1. TTL \in Nat /\ TTL > 0 /\ now \in Nat
  BY TTLAssumption DEF IInv, TypeOK
<1>2. CASE http'[r] = http[r]
  <2>1. Sound(route, v) /\ v.readAt <= http'[r].setAt /\ http'[r].at < http'[r].setAt + TTL
    BY <1>2 DEF IInv, Answers, Replied, Is, IsGet, RouteOf
  <2> QED  BY <2>1, SoundStays
<1>3. CASE /\ Is(r, "cache") /\ Alive(Entry(r))
           /\ Given(r, "recalled", Entry(r).value, Entry(r).setAt)
  <2>1. http[r].route = route /\ v = Entry(r).value /\ http'[r].at = now
        /\ http'[r].setAt = Entry(r).setAt
    BY <1>3 DEF Given
  <2>2. route \in URLs
    BY <1>3, <2>1, Kinds, URLsAreRoutes DEF IInv, Asks
  <2>3. Sound(route, v) /\ v.readAt <= Entry(r).setAt /\ now < Entry(r).setAt + TTL
    BY <1>3, <2>1, <2>2 DEF IInv, Cached, Entry, Alive
  <2> QED  BY <2>1, <2>3, SoundStays
<1>4. CASE Is(r, "rpc") /\ msg[r].state = "replied" /\ Given(r, "answered", msg[r].value, now)
  <2>1. http[r].route = route /\ v = msg[r].value /\ http'[r].at = now /\ http'[r].setAt = now
    BY <1>4 DEF Given
  <2>2. Sound(route, v)
    BY <1>4, <2>1 DEF IInv, Replies, IsGet, RouteOf
  <2>3. v.readAt <= now
    BY <2>2 DEF Sound
  <2> QED  BY <1>1, <2>1, <2>2, <2>3, SoundStays
<1>5. CASE GoesOn(r)
  BY <1>3, <1>4, <1>5 DEF GoesOn, Goes
<1>6. CASE Arrives(r)
  BY <1>6 DEF Arrives
<1> QED  BY <1>2, <1>5, <1>6, RequestStep DEF IInv, Rests

LEMMA OnTheWayStep ==
  ASSUME IInv, [Next]_vars
  PROVE  OnTheWay'
<1> SUFFICES ASSUME NEW r \in setting'
             PROVE  /\ http'[r] # Nothing /\ http'[r].state = "answered"
                    /\ Routes[http'[r].route].verb = "GET"
  BY DEF OnTheWay, Is, IsGet, RouteOf
<1>1. r \in Requests
  BY TypeStep DEF TypeOK
<1>2. CASE r \in setting /\ ~GatewayDies
  <2>1. Is(r, "answered") /\ IsGet(r)
    BY <1>2 DEF IInv, OnTheWay
  <2>2. http'[r] = http[r]
    BY <1>1, <2>1, RequestStep
    DEF IInv, Rests, Arrives, GoesOn, Goes, Is, Open
  <2> QED  BY <2>1, <2>2 DEF Is, IsGet, RouteOf
<1>3. CASE r \notin setting
  <2>1. PICK q \in Requests : PassOn(q)
    BY <1>3, GatewayCases, ServiceChanges
    DEF IInv, Next, vars, Arrive, CacheHit, SetCache, ServiceDies, Listen, GatewayDies, Tick
  <2>2. q = r /\ IsGet(r)
    BY <1>3, <2>1 DEF PassOn, IsGet
  <2>3. Given(r, "answered", msg[r].value, now)
    BY <1>1, <2>1, <2>2 DEF PassOn, Answer, Given, IInv, TypeOK
  <2> QED  BY <2>2, <2>3 DEF Given, IsGet, RouteOf, Nothing
<1>4. CASE GatewayDies
  BY <1>4 DEF GatewayDies
<1> QED  BY <1>2, <1>3, <1>4

LEMMA CachedStep ==
  ASSUME IInv, [Next]_vars
  PROVE  Cached'
<1> SUFFICES ASSUME NEW url \in URLs, cache'[url] # Nothing,
                    NEW v, v = cache'[url].value
             PROVE  Sound(url, v)' /\ v.readAt <= cache'[url].setAt
  BY DEF Cached, Sound
<1>1. CASE cache'[url] = cache[url]
  BY <1>1, SoundStays DEF IInv, Cached
<1>2. CASE cache'[url] # cache[url]
  <2>1. PICK r \in Requests : SetCache(r)
    BY <1>2, GatewayCases, ServiceChanges
    DEF IInv, Next, vars, Arrive, CacheHit, PassOn, ServiceDies, Listen, GatewayDies, Tick
  <2>2. Is(r, "answered") /\ IsGet(r)
    BY <2>1 DEF SetCache, IInv, OnTheWay
  <2>3. http[r].route = url /\ cache'[url] = [value |-> http[r].value, setAt |-> now]
    BY <1>2, <2>1 DEF SetCache, @@, :>, IInv, TypeOK
  <2>4. Sound(url, v)
    BY <2>2, <2>3 DEF IInv, Answers, Replied
  <2>5. v.readAt <= now
    BY <2>4 DEF Sound
  <2> QED  BY <2>3, <2>4, <2>5, SoundStays
<1> QED  BY <1>1, <1>2

-----------------------------------------------------------------------------
(* The theorems. *)

LEMMA InitInv == Init => IInv
<1> SUFFICES ASSUME Init
             PROVE  IInv
  OBVIOUS
<1> USE DEF Init
<1>1. now \in 0..MaxTime
  BY TTLAssumption
<1>2. TypeOK
  BY <1>1 DEF TypeOK
<1>3. \A r \in Requests : http[r] = Nothing /\ msg[r].state = "none"
  OBVIOUS
<1>4. Asks /\ Stages /\ Counts
  BY <1>3 DEF Asks, Stages, Counts, Is
<1>5. Replies /\ Answers /\ OnTheWay /\ Cached /\ OnlyDeletionIsMisread
  BY <1>3 DEF Replies, Answers, OnTheWay, Cached, OnlyDeletionIsMisread, Replied, Is
<1> QED  BY <1>2, <1>4, <1>5 DEF IInv

\* The inductive invariant: client, message, reply and cache stand together,
\* whoever dies and when.
THEOREM Invariance == Spec => []IInv
<1>1. Init => IInv
  BY InitInv
<1>2. IInv /\ [Next]_vars => IInv'
  <2> SUFFICES ASSUME IInv, [Next]_vars
               PROVE  IInv'
    OBVIOUS
  <2>1. TypeOK' /\ Asks' /\ Stages' /\ Counts' /\ OnlyDeletionIsMisread'
    BY TypeStep, AsksStep, StagesStep, CountsStep, MisreadStep
  <2>2. Replies' /\ Answers' /\ OnTheWay' /\ Cached'
    BY RepliesStep, AnswersStep, OnTheWayStep, CachedStep
  <2> QED  BY <2>1, <2>2 DEF IInv
<1> QED  BY <1>1, <1>2, PTL DEF Spec

\* Requests, messages, entries and what was written keep their types.
THEOREM TypeCorrect == Spec => []TypeOK
BY Invariance, PTL DEF IInv

\* The tables of gateway and services agree on every route but the deletion of a user.
THEOREM MisreadsDeletion == Spec => []OnlyDeletionIsMisread
BY Invariance, PTL DEF IInv

\* A GET misses no change older than an entry lives and its reply was on its way.
THEOREM MissesRecent == Spec => []MissesOnlyRecentChanges
<1>1. IInv => MissesOnlyRecentChanges
  <2> SUFFICES ASSUME IInv, NEW r \in Requests, Replied(r), IsGet(r),
                      NEW c \in changes,
                      c.what \in HandlerOf(r).shows,
                      c.user = http[r].value.user,
                      c.at + TTL + (http[r].setAt - http[r].value.readAt) <= http[r].at
               PROVE  c.by \in http[r].value.seen
    BY DEF MissesOnlyRecentChanges, Replied, IsGet
  <2> DEFINE v == http[r].value
  <2>1. /\ Sound(http[r].route, v)
        /\ v.readAt <= http[r].setAt
        /\ http[r].at < http[r].setAt + TTL
    BY DEF IInv, Answers
  <2>2. http[r].at \in Nat /\ http[r].setAt \in Nat /\ TTL \in Nat /\ c.at \in Nat
    BY Kinds, TTLAssumption DEF IInv, TypeOK, Answered, Change
  <2>3. v.readAt \in Nat
    BY <2>1 DEF Sound, Values
  <2>4. c.at < v.readAt
    BY <2>1, <2>2, <2>3
  <2> QED  BY <2>1, <2>4 DEF Sound, HandlerOf, RouteOf
<1> QED  BY <1>1, Invariance, PTL

-----------------------------------------------------------------------------
(* What a client may rely on: every step is one of Promise, or hidden from it. *)

LEMMA ToldCases ==
  ASSUME TypeOK, NEW r \in Requests
  PROVE  /\ http[r] = Nothing => Told(r) = "unasked"
         /\ http[r] # Nothing /\ http[r].state \in Open => Told(r) = "waits"
         /\ Is(r, "answered") => Told(r) = "yes"
         /\ Is(r, "recalled") => Told(r) = "recalled"
         /\ Is(r, "failed") => Told(r) \in {"no", "unknown"}
         /\ Is(r, "failed") /\ Told(r) = "no" => RouteOf(r).cmd \notin MayFailHalfWay
         /\ Is(r, "unanswered") => Told(r) = "unknown"
BY DEF Told, Is, Open

LEMMA ToldAfter ==
  ASSUME NEW r \in Requests, NEW h, h = http'[r], h # Nothing
  PROVE  /\ h.state \in Open => Told(r)' = "waits"
         /\ h.state = "answered" => Told(r)' = "yes"
         /\ h.state = "recalled" => Told(r)' = "recalled"
         /\ h.state = "failed" =>
              Told(r)' = IF Routes[h.route].cmd \notin MayFailHalfWay THEN "no" ELSE "unknown"
         /\ h.state = "unanswered" => Told(r)' = "unknown"
BY DEF Told, Is, RouteOf, Open

LEMMA ToldStays ==
  ASSUME NEW r \in Requests, http'[r] = http[r]
  PROVE  Told(r)' = Told(r)
BY DEF Told, Is, RouteOf

\* One client is told something new.
LEMMA TellsOne ==
  ASSUME NEW r \in Requests, \A q \in Requests : q # r => http'[q] = http[q],
         NEW before, NEW after, Told(r) = before, Told(r)' = after
  PROVE  Client!Tells(r, before, after)
<1>1. \A q \in Requests : q # r => Told(q)' = Told(q)
  BY ToldStays
<1> QED  BY <1>1 DEF Client!Tells

LEMMA TellsNone ==
  ASSUME \A q \in Requests : http'[q] = http[q] \/ Told(q)' = Told(q), runs' = runs
  PROVE  UNCHANGED Client!vars
<1>1. \A q \in Requests : Told(q)' = Told(q)
  BY ToldStays
<1> QED  BY <1>1 DEF Client!vars

LEMMA ClientArrives ==
  ASSUME IInv, NEW r \in Requests, NEW route \in Asked[r], NEW u \in About(route),
         Arrive(r, route, u)
  PROVE  Client!Next
<1>1. /\ http[r] = Nothing /\ runs' = runs
      /\ \A q \in Requests : q # r => http'[q] = http[q]
      /\ http'[r] = [state |-> "checks", user |-> u, route |-> route]
  BY DEF Arrive, IInv, TypeOK
<1>2. Told(r) = "unasked"
  BY <1>1, ToldCases DEF IInv
<1>3. Told(r)' = "waits"
  BY <1>1, ToldAfter DEF Nothing, Open
<1>4. Client!Tells(r, "unasked", "waits")
  BY <1>1, <1>2, <1>3, TellsOne
<1> QED  BY <1>1, <1>4 DEF Client!Next, Client!Ask

LEMMA ClientAnswered ==
  ASSUME IInv, NEW r \in Requests, GatewayStep(r)
  PROVE  [Client!Next]_(Client!vars)
<1>1. /\ \A q \in Requests : q # r => http'[q] = http[q]
      /\ runs' = runs
      /\ Rests(r) \/ GoesOn(r)
  BY GatewayRequest, GatewayKeeps DEF IInv, Rests
<1> DEFINE h == http'[r]
<1>2. CASE \E from \in {"checks", "cache"}, to \in {"cache", "rpc"} : Goes(r, from, to)
  <2>1. Told(r) = "waits" /\ Told(r)' = "waits"
    BY <1>2, ToldCases, ToldAfter DEF Goes, Is, Open, Nothing, IInv
  <2> QED  BY <1>1, <2>1, TellsNone
<1>3. CASE Goes(r, "checks", "failed") \/ (Goes(r, "rpc", "failed") /\ msg[r].state \in {"failed", "misread"})
  <2>1. Told(r) = "waits" /\ http[r] # Nothing
    BY <1>3, ToldCases DEF Goes, Is, Open, IInv
  <2>2. Told(r)' = IF RouteOf(r).cmd \notin MayFailHalfWay THEN "no" ELSE "unknown"
    BY <1>3, ToldAfter DEF Goes, Nothing, RouteOf
  <2>3. RouteOf(r).cmd \notin MayFailHalfWay => runs[r] = 0
    BY <1>3 DEF IInv, Counts, Stages, Goes
  <2>4. CASE RouteOf(r).cmd \notin MayFailHalfWay
    <3>1. Client!Tells(r, "waits", "no")
      BY <1>1, <2>1, <2>2, <2>4, TellsOne
    <3> QED  BY <1>1, <2>3, <2>4, <3>1 DEF Client!Next, Client!SayNo
  <2>5. CASE RouteOf(r).cmd \in MayFailHalfWay
    <3>1. Client!Tells(r, "waits", "unknown")
      BY <1>1, <2>1, <2>2, <2>5, TellsOne
    <3> QED  BY <1>1, <3>1 DEF Client!Next, Client!SayNothing
  <2> QED  BY <2>4, <2>5
<1>4. CASE \E s \in Open : Goes(r, s, "unanswered")
  <2>1. Told(r) = "waits" /\ Told(r)' = "unknown"
    BY <1>4, ToldCases, ToldAfter DEF Goes, Is, Nothing, IInv
  <2>2. Client!Tells(r, "waits", "unknown")
    BY <1>1, <2>1, TellsOne
  <2> QED  BY <1>1, <2>2 DEF Client!Next, Client!SayNothing
<1>5. CASE Is(r, "cache") /\ Given(r, "recalled", Entry(r).value, Entry(r).setAt)
  <2>1. Told(r) = "waits" /\ Told(r)' = "recalled"
    BY <1>5, ToldCases, ToldAfter DEF Given, Is, Open, Nothing, IInv
  <2>2. runs[r] = 0
    BY <1>5 DEF IInv, Stages, Counts
  <2>3. Client!Tells(r, "waits", "recalled")
    BY <1>1, <2>1, TellsOne
  <2> QED  BY <1>1, <2>2, <2>3 DEF Client!Next, Client!Recall
<1>6. CASE Is(r, "rpc") /\ msg[r].state = "replied" /\ Given(r, "answered", msg[r].value, now)
  <2>1. Told(r) = "waits" /\ Told(r)' = "yes"
    BY <1>6, ToldCases, ToldAfter DEF Given, Is, Open, Nothing, IInv
  <2>2. runs[r] = 1
    BY <1>6 DEF IInv, Counts
  <2>3. Client!Tells(r, "waits", "yes")
    BY <1>1, <2>1, TellsOne
  <2> QED  BY <1>1, <2>2, <2>3 DEF Client!Next, Client!SayYes
<1>7. CASE Rests(r)
  BY <1>1, <1>7, TellsNone DEF Rests
<1> QED  BY <1>1, <1>2, <1>3, <1>4, <1>5, <1>6, <1>7 DEF GoesOn

LEMMA ClientServed ==
  ASSUME IInv, NEW r \in Requests, ServiceStep(r)
  PROVE  [Client!Next]_(Client!vars)
<1>1. http' = http /\ runs \in [Requests -> Nat]
  BY ServiceChanges DEF IInv, TypeOK
<1>2. CASE runs' = runs
  BY <1>1, <1>2, TellsNone
<1>3. CASE CarryOut(r) \/ CarryOutHalf(r)
  <2>1. msg[r].state = "taken" /\ runs' = [runs EXCEPT ![r] = @ + 1]
    BY <1>3 DEF CarryOut, CarryOutHalf
  <2>2. runs[r] = 0
    BY <2>1 DEF IInv, Counts
  <2>3. runs' = [runs EXCEPT ![r] = 1]
    BY <2>1, <2>2
  <2>4. Told(r) \in {"waits", "unknown"}
    <3>1. /\ http[r] # Nothing
          /\ ~Is(r, "answered") /\ ~Is(r, "recalled") /\ ~Is(r, "failed")
      BY <2>1 DEF IInv, Stages
    <3> QED  BY <3>1 DEF Told
  <2>5. \A q \in Requests : Told(q)' = Told(q)
    BY <1>1, ToldStays
  <2> QED  BY <2>2, <2>3, <2>4, <2>5 DEF Client!Next, Client!CarryOut
<1> QED
  BY <1>2, <1>3 DEF ServiceStep, Take, CarryOutFails, Misread, Reply

LEMMA ClientDropped ==
  ASSUME IInv, GatewayDies
  PROVE  Client!Next
<1> DEFINE lost == {r \in Requests : \E s \in Open : Is(r, s)}
<1>1. \A r \in lost : Told(r) = "waits" /\ Told(r)' = "unknown"
  <2> SUFFICES ASSUME NEW r \in lost
               PROVE  Told(r) = "waits" /\ Told(r)' = "unknown"
    OBVIOUS
  <2>1. http'[r] = [state |-> "unanswered", user |-> http[r].user, route |-> http[r].route]
    BY GatewayDiesStep DEF IInv
  <2> QED  BY <2>1, ToldCases, ToldAfter DEF Is, Nothing, IInv
<1>2. \A r \in Requests : r \notin lost => Told(r)' = Told(r)
  BY GatewayDiesStep, ToldStays DEF IInv
<1>3. runs' = runs
  BY DEF GatewayDies
<1>4. lost \in SUBSET Requests
  OBVIOUS
<1> HIDE DEF lost
<1>5. Client!Drop(lost)
  BY <1>1, <1>2, <1>3, <1>4 DEF Client!Drop
<1> QED  BY <1>4, <1>5 DEF Client!Next

\* A client is promised no more than the gateway keeps: a request is carried out
\* once at most, a success is real, a failure final, whoever dies and when.
THEOREM PromiseKept == Spec => KeepsPromise
<1>1. Init => Client!Init
  <2> SUFFICES ASSUME Init
               PROVE  Client!Init
    OBVIOUS
  <2>1. \A r \in Requests : Told(r) = "unasked"
    BY InitInv, ToldCases DEF Init, IInv
  <2> QED  BY <2>1 DEF Init, Client!Init
<1>2. IInv /\ [Next]_vars => [Client!Next]_(Client!vars)
  <2> SUFFICES ASSUME IInv, [Next]_vars
               PROVE  [Client!Next]_(Client!vars)
    OBVIOUS
  <2>1. CASE http' = http /\ runs' = runs
    BY <2>1, TellsNone
  <2>2. ASSUME NEW service \in DOMAIN Handlers, ServiceDies(service)
        PROVE  http' = http /\ runs' = runs
    BY <2>2 DEF ServiceDies
  <2>3. ASSUME NEW u \in Users, Listen(u)
        PROVE  http' = http /\ runs' = runs
    BY <2>3 DEF Listen
  <2>4. CASE Tick \/ UNCHANGED vars
    BY <2>1, <2>4 DEF Tick, vars
  <2> QED  BY <2>1, <2>2, <2>3, <2>4, ClientArrives, ClientAnswered, ClientServed, ClientDropped DEF Next
<1> QED  BY <1>1, <1>2, Invariance, PTL DEF Spec, KeepsPromise, Client!Spec
===============================================================================
