---------------------------- MODULE TokenRegistry ----------------------------
(***************************************************************************)
(* TokensService of wallet-service: the `token` table, and                  *)
(* MemoryService.tokens, the map that GET tokens replies from, that         *)
(* updateBalances goes through and the block listener looks logs up in.     *)
(*                                                                         *)
(* A key stands for `address_network`, both in lower case.  The table has   *)
(* no unique column but the id, so several rows may share a key; the map    *)
(* has one entry a key.                                                     *)
(*                                                                         *)
(* An entry needs the provider of its network.  The networks come from a    *)
(* table of their own, which the process seeds each time it starts and then *)
(* reads into another map, MemoryService.networks (NetworksService replies  *)
(* from it, and its other two operations are not reachable).  Each network  *)
(* of the seed has its RPC URL in the configuration.                        *)
(***************************************************************************)
EXTENDS Naturals, FiniteSets

CONSTANTS
  Keys,
  Names,      \* names of networks that tokens are added with
  NetworkOf,  \* the network a key names
  Seeds,      \* the networks that seedNetworks puts in the table
  Data,       \* name, symbol and decimals of a token
  Requests,   \* handler slots
  MaxTokens   \* bound: tokens ever added

ASSUME NetworksAssumption == NetworkOf \in [Keys -> Names] /\ Seeds \subseteq Names
ASSUME MaxTokensAssumption == MaxTokens \in Nat

VARIABLES
  network,  \* rows of table network: how many have a name
  toSeed,   \* what the loop of seedNetworks has left
  networks, \* MemoryService.networks: the names that have a provider
  token,    \* rows of table token
  lastId,   \* its id sequence
  tokens,   \* MemoryService.tokens
  svc,      \* the wallet-service process
  req,      \* the handlers in flight
  astray    \* history: keys whose entry an update, a row of the same key or an
            \* early removal left without its row or without being current

netVars == <<network, toSeed, networks>>
vars == <<netVars, token, lastId, tokens, svc, req, astray>>

Rows == [id : 1..MaxTokens, key : Keys, data : Data]
None == [none |-> TRUE]

Idle == [pc |-> "idle"]
Inserted(row) == [pc |-> "inserted", row |-> row]
Deleted(row) == [pc |-> "deleted", row |-> row]

Known == {k \in Keys : NetworkOf[k] \in networks}
RowsOf(k) == {row \in token : row.key = k}
Busy(k) == \E r \in Requests : req[r] # Idle /\ req[r].row.key = k

TypeOK ==
  /\ network \in [Seeds -> Nat]
  /\ toSeed \subseteq Seeds
  /\ networks \subseteq Seeds
  /\ token \subseteq Rows
  /\ lastId \in 0..MaxTokens
  /\ tokens \in [Keys -> Rows \cup {None}]
  /\ svc \in {"down", "starting", "up"}
  /\ req \in [Requests -> {Idle} \cup [pc : {"inserted", "deleted"}, row : Rows]]
  /\ astray \subseteq Keys

Init ==
  /\ network = [n \in Seeds |-> 0]
  /\ toSeed = {}
  /\ networks = {}
  /\ token = {}
  /\ lastId = 0
  /\ tokens = [k \in Keys |-> None]
  /\ svc = "down"
  /\ req = [r \in Requests |-> Idle]
  /\ astray = {}

-----------------------------------------------------------------------------
(* onModuleInit: the seed, then the maps *)

Begin ==
  /\ svc = "down"
  /\ svc' = "starting"
  /\ toSeed' = Seeds
  /\ UNCHANGED <<network, networks, token, lastId, tokens, req, astray>>

\* Mutant: created without looking for it.
Seed_Always(n) ==
  /\ n \in toSeed
  /\ network' = [network EXCEPT ![n] = @ + 1]
  /\ toSeed' = toSeed \ {n}
  /\ UNCHANGED <<networks, token, lastId, tokens, svc, req, astray>>

\* One round of the loop: a network is created if the table does not have it.
\* Nobody else writes the table, so the two statements are one step.
Seed(n) ==
  /\ n \in toSeed
  /\ network' = [network EXCEPT ![n] = IF @ = 0 THEN 1 ELSE @]
  /\ toSeed' = toSeed \ {n}
  /\ UNCHANGED <<networks, token, lastId, tokens, svc, req, astray>>

\* The database fails a round: the error is logged, and the start goes on.
SeedFails ==
  /\ toSeed # {}
  /\ toSeed' = {}
  /\ UNCHANGED <<network, networks, token, lastId, tokens, svc, req, astray>>

InTable == {n \in Seeds : network[n] > 0}
Loadable == \A row \in token : NetworkOf[row.key] \in InTable

\* loadNetworks and loadTokensInPartitions.  Nobody writes table token while the
\* only service that does is starting, so the pages are one step; of several
\* rows of a key the last one read stays.
Load ==
  /\ svc = "starting"
  /\ toSeed = {}
  /\ Loadable
  /\ svc' = "up"
  /\ networks' = InTable
  /\ \E f \in [Keys -> token \cup {None}] :
       /\ \A k \in Keys : IF RowsOf(k) = {} THEN f[k] = None ELSE f[k] \in RowsOf(k)
       /\ tokens' = f
  /\ astray' = {k \in Keys : Cardinality(RowsOf(k)) > 1}
  /\ UNCHANGED <<network, toSeed, token, lastId, req>>

\* A token of a network that has no provider throws, and the process exits.
LoadThrows ==
  /\ svc = "starting"
  /\ toSeed = {}
  /\ ~Loadable
  /\ svc' = "down"
  /\ UNCHANGED <<netVars, token, lastId, tokens, req, astray>>

Crash ==
  /\ svc # "down"
  /\ svc' = "down"
  /\ toSeed' = {}
  /\ networks' = {}
  /\ tokens' = [k \in Keys |-> None]
  /\ req' = [r \in Requests |-> Idle]
  /\ astray' = {}
  /\ UNCHANGED <<network, token, lastId>>

-----------------------------------------------------------------------------
(* addToken *)

\* Mutant: the event carries the id after the one inserted.
AddInsert_NextId(r, k, d) ==
  /\ svc = "up"
  /\ req[r] = Idle
  /\ lastId < MaxTokens
  /\ LET row == [id |-> lastId + 1, key |-> k, data |-> d] IN
       /\ token' = token \cup {row}
       /\ req' = [req EXCEPT ![r] = Inserted([row EXCEPT !.id = @ + 1])]
  /\ lastId' = lastId + 1
  /\ astray' = IF RowsOf(k) # {} \/ Busy(k) THEN astray \cup {k} ELSE astray
  /\ UNCHANGED <<netVars, tokens, svc>>

AddInsert(r, k, d) ==
  /\ svc = "up"
  /\ req[r] = Idle
  /\ lastId < MaxTokens
  /\ LET row == [id |-> lastId + 1, key |-> k, data |-> d] IN
       /\ token' = token \cup {row}
       /\ req' = [req EXCEPT ![r] = Inserted(row)]
  /\ lastId' = lastId + 1
  /\ astray' = IF RowsOf(k) # {} \/ Busy(k) THEN astray \cup {k} ELSE astray
  /\ UNCHANGED <<netVars, tokens, svc>>

\* Mutant: the entry is set before the provider is looked up.
AddAnnounce_NoProvider(r) ==
  /\ req[r].pc = "inserted"
  /\ LET row == req[r].row IN
       tokens' = [tokens EXCEPT ![row.key] = row]
  /\ req' = [req EXCEPT ![r] = Idle]
  /\ UNCHANGED <<netVars, token, lastId, svc, astray>>

\* emit('token.added').  For an unknown network handleTokenAdded throws, logs
\* and swallows the error; the reply is "Token added successfully" all the same.
AddAnnounce(r) ==
  /\ req[r].pc = "inserted"
  /\ LET row == req[r].row IN
       tokens' = IF row.key \in Known THEN [tokens EXCEPT ![row.key] = row] ELSE tokens
  /\ req' = [req EXCEPT ![r] = Idle]
  /\ UNCHANGED <<netVars, token, lastId, svc, astray>>

-----------------------------------------------------------------------------
\* updateToken, one statement: no event tells the map.
Update(row, k, d) ==
  /\ svc = "up"
  /\ row \in token
  /\ <<k, d>> # <<row.key, row.data>>
  /\ token' = (token \ {row}) \cup {[row EXCEPT !.key = k, !.data = d]}
  /\ astray' = astray \cup {row.key, k}
  /\ UNCHANGED <<netVars, lastId, tokens, svc, req>>

-----------------------------------------------------------------------------
(* removeToken *)

RemoveDelete(r, row) ==
  /\ svc = "up"
  /\ req[r] = Idle
  /\ row \in token
  /\ token' = token \ {row}
  /\ req' = [req EXCEPT ![r] = Deleted(row)]
  /\ astray' = IF Busy(row.key) THEN astray \cup {row.key} ELSE astray
  /\ UNCHANGED <<netVars, lastId, tokens, svc>>

\* Mutant: the event is not emitted.
RemoveAnnounce_Silent(r) ==
  /\ req[r].pc = "deleted"
  /\ req' = [req EXCEPT ![r] = Idle]
  /\ UNCHANGED <<netVars, token, lastId, tokens, svc, astray>>

\* emit('token.removed') with the row as it was when it was deleted.
RemoveAnnounce(r) ==
  /\ req[r].pc = "deleted"
  /\ tokens' = [tokens EXCEPT ![req[r].row.key] = None]
  /\ req' = [req EXCEPT ![r] = Idle]
  /\ UNCHANGED <<netVars, token, lastId, svc, astray>>

-----------------------------------------------------------------------------
Next ==
  \/ Begin
  \/ \E n \in Seeds : Seed(n)
  \/ SeedFails
  \/ Load
  \/ LoadThrows
  \/ Crash
  \/ \E r \in Requests, k \in Keys, d \in Data : AddInsert(r, k, d)
  \/ \E r \in Requests : AddAnnounce(r) \/ RemoveAnnounce(r)
  \/ \E row \in token, k \in Keys, d \in Data : Update(row, k, d)
  \/ \E r \in Requests, row \in token : RemoveDelete(r, row)

Spec == Init /\ [][Next]_vars

-----------------------------------------------------------------------------
(* Properties *)

\* The entry of a key of a network that the process knows is its row, and there is
\* none without a row, once no handler of the key is in flight; unless since the
\* last start the row was updated, two rows had the key, or two handlers of it
\* overlapped.  (A token of any other network has no entry.)
EntriesAreCurrent ==
  svc = "up" =>
    \A k \in Known \ astray :
      ~Busy(k) => IF tokens[k] = None THEN RowsOf(k) = {} ELSE RowsOf(k) = {tokens[k]}

\* Whatever the interleaving, updates, rows of the same key and seeds that failed
\* half-way included, an entry has a provider to ask balances from
\* (updateBalances and the listener use its contract without looking).
EntriesHaveProviders == \A k \in Keys : tokens[k] # None => k \in Known

\* A network keeps its one row, however many starts were cut or failed in the
\* seed.  The column is not unique, the maps have one entry a name, and the
\* balances and transactions of a second row would be those of another network.
OneRowANetwork == \A n \in Seeds : network[n] <= 1 /\ (n \in networks => network[n] = 1)

=============================================================================
