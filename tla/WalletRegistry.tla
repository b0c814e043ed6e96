--------------------------- MODULE WalletRegistry ---------------------------
(***************************************************************************)
(* The wallets of wallet-service: the `wallet` table of the database all    *)
(* services share, and MemoryService.wallets, the map in the process that   *)
(* the block listener asks whether an address is watched.                   *)
(*                                                                         *)
(* Handlers of the service run concurrently and give way at every await.    *)
(* A handler step below is the code from the return of one await to the     *)
(* effect of the next one on the database.  EventEmitter2.emit runs its     *)
(* listener synchronously, so emitting and updating the map are one step.   *)
(*                                                                         *)
(* A wallet is named by its id; its address, random and unique, goes with   *)
(* the id.  Ids come from a sequence and are not used twice.                *)
(***************************************************************************)
EXTENDS Naturals, Sequences, FiniteSets

CONSTANTS
  Users,          \* the users there are when the system is first started
  Requests,       \* handler slots: how many requests are in flight at most
  PartitionSize,  \* wallets read by one query while the map is loaded
  MaxWallets      \* bound: wallets ever created

ASSUME PartitionSizeAssumption == PartitionSize \in Nat \ {0}
ASSUME MaxWalletsAssumption == MaxWallets \in Nat

VARIABLES
  users,     \* rows of table user
  owner,     \* owner[id] is column userId of the wallet created id-th
  rows,      \* ids in table wallet
  wallets,   \* MemoryService.wallets: the ids whose address is a key
  svc,       \* the wallet-service process
  total,     \* loadWalletsInPartitions: totalWallets
  skip,      \* loadWalletsInPartitions: i * partitionSize
  req,       \* the handlers in flight
  vanished,  \* history: rows a cascade deleted during the present load
  stray      \* history: wallets deleted before their handler announced them

dbVars == <<users, owner, rows>>
bootVars == <<svc, total, skip>>
vars == <<users, owner, rows, wallets, svc, total, skip, req, vanished, stray>>

Ids == 1..Len(owner)

Idle == [pc |-> "idle"]
Inserted(id) == [pc |-> "inserted", id |-> id]
Found(id, u) == [pc |-> "found", id |-> id, userId |-> u]
Deleted(id) == [pc |-> "deleted", id |-> id]

Tasks == {Idle}
         \cup [pc : {"inserted", "deleted"}, id : Ids]
         \cup [pc : {"found"}, id : Ids, userId : Users]

TypeOK ==
  /\ users \subseteq Users
  /\ owner \in Seq(Users)
  /\ rows \subseteq Ids
  /\ wallets \subseteq Ids
  /\ svc \in {"down", "loading", "up"}
  /\ total \in Nat
  /\ skip \in Nat
  /\ req \in [Requests -> Tasks]
  /\ vanished \in Nat
  /\ stray \subseteq Ids

Init ==
  /\ users = Users
  /\ owner = << >>
  /\ rows = {}
  /\ wallets = {}
  /\ svc = "down"
  /\ total = 0
  /\ skip = 0
  /\ req = [r \in Requests |-> Idle]
  /\ vanished = 0
  /\ stray = {}

-----------------------------------------------------------------------------
(* Start of the process: WalletModule.onModuleInit runs to its end before   *)
(* the service takes requests from its queue.                               *)

\* The query engine orders a query with skip or take by id.
Rank(id) == Cardinality({x \in rows : x < id})

CountWallets ==
  /\ svc = "down"
  /\ svc' = "loading"
  /\ total' = Cardinality(rows)
  /\ skip' = 0
  /\ vanished' = 0
  /\ UNCHANGED <<dbVars, wallets, req, stray>>

\* Mutant: Math.floor instead of Math.ceil.
LoadPartition_Floor ==
  /\ svc = "loading"
  /\ IF skip + PartitionSize <= total
       THEN wallets' = wallets \cup
              {id \in rows : skip <= Rank(id) /\ Rank(id) < skip + PartitionSize}
       ELSE skip < total /\ wallets' = wallets
  /\ skip' = skip + PartitionSize
  /\ UNCHANGED <<dbVars, svc, total, req, vanished, stray>>

\* Mutant: a partition leaves out the row at its upper end.
LoadPartition_Short ==
  /\ svc = "loading"
  /\ skip < total
  /\ wallets' = wallets \cup
       {id \in rows : skip <= Rank(id) /\ Rank(id) + 1 < skip + PartitionSize}
  /\ skip' = skip + PartitionSize
  /\ UNCHANGED <<dbVars, svc, total, req, vanished, stray>>

\* Mutant: the partition index is not incremented.
LoadPartition_Stuck ==
  /\ svc = "loading"
  /\ skip < total
  /\ wallets' = wallets \cup {id \in rows : Rank(id) < PartitionSize}
  /\ UNCHANGED <<dbVars, svc, total, skip, req, vanished, stray>>

\* i < Math.ceil(total / PartitionSize) says that skip < total.
LoadPartition ==
  /\ svc = "loading"
  /\ skip < total
  /\ wallets' = wallets \cup
       {id \in rows : skip <= Rank(id) /\ Rank(id) < skip + PartitionSize}
  /\ skip' = skip + PartitionSize
  /\ UNCHANGED <<dbVars, svc, total, req, vanished, stray>>

Listen ==
  /\ svc = "loading"
  /\ skip >= total
  /\ svc' = "up"
  /\ UNCHANGED <<dbVars, wallets, total, skip, req, vanished, stray>>

\* The process dies, while it starts or while it serves: the map and every
\* handler are gone.
Crash ==
  /\ svc # "down"
  /\ svc' = "down"
  /\ wallets' = {}
  /\ req' = [r \in Requests |-> Idle]
  /\ stray' = {}
  /\ UNCHANGED <<dbVars, total, skip, vanished>>

-----------------------------------------------------------------------------
(* createWallet *)

\* Mutant: the event carries the id after the one inserted.
CreateInsert_NextId(r, u) ==
  /\ svc = "up"
  /\ req[r] = Idle
  /\ u \in users
  /\ Len(owner) < MaxWallets
  /\ owner' = Append(owner, u)
  /\ rows' = rows \cup {Len(owner) + 1}
  /\ req' = [req EXCEPT ![r] = Inserted(Len(owner) + 2)]
  /\ UNCHANGED <<users, wallets, bootVars, vanished, stray>>

\* The insert commits.  A user deleted meanwhile fails the foreign key: the
\* handler replies "Wallet creation failed" and nothing has changed.
CreateInsert(r, u) ==
  /\ svc = "up"
  /\ req[r] = Idle
  /\ u \in users
  /\ Len(owner) < MaxWallets
  /\ owner' = Append(owner, u)
  /\ rows' = rows \cup {Len(owner) + 1}
  /\ req' = [req EXCEPT ![r] = Inserted(Len(owner) + 1)]
  /\ UNCHANGED <<users, wallets, bootVars, vanished, stray>>

\* Mutant: the event is not emitted.
CreateAnnounce_Silent(r) ==
  /\ req[r].pc = "inserted"
  /\ req' = [req EXCEPT ![r] = Idle]
  /\ UNCHANGED <<dbVars, wallets, bootVars, vanished, stray>>

\* emit('wallet.added'), handleWalletAdded, and the reply.
CreateAnnounce(r) ==
  /\ req[r].pc = "inserted"
  /\ wallets' = wallets \cup {req[r].id}
  /\ req' = [req EXCEPT ![r] = Idle]
  /\ UNCHANGED <<dbVars, bootVars, vanished, stray>>

-----------------------------------------------------------------------------
(* removeWallet *)

\* Mutant: the wallet is looked up by id alone.
RemoveFind_AnyOwner(r, id, u) ==
  /\ svc = "up"
  /\ req[r] = Idle
  /\ id \in rows
  /\ req' = [req EXCEPT ![r] = Found(id, u)]
  /\ UNCHANGED <<dbVars, wallets, bootVars, vanished, stray>>

\* Mutant: the event is emitted before the delete, which may fail.
RemoveFind_EmitsFirst(r, id, u) ==
  /\ svc = "up"
  /\ req[r] = Idle
  /\ id \in rows
  /\ owner[id] = u
  /\ wallets' = wallets \ {id}
  /\ req' = [req EXCEPT ![r] = Found(id, u)]
  /\ UNCHANGED <<dbVars, bootVars, vanished, stray>>

\* findUnique on id and userId; the handler of a wallet that is missing or of
\* another user ends here with "Wallet deletion failed".
RemoveFind(r, id, u) ==
  /\ svc = "up"
  /\ req[r] = Idle
  /\ id \in rows
  /\ owner[id] = u
  /\ req' = [req EXCEPT ![r] = Found(id, u)]
  /\ UNCHANGED <<dbVars, wallets, bootVars, vanished, stray>>

BeingAnnounced(id) == \E r \in Requests : req[r] = Inserted(id)

\* Mutant: the handler replies without emitting wallet.removed.
RemoveDelete_Silent(r) ==
  /\ req[r].pc = "found"
  /\ req[r].id \in rows
  /\ rows' = rows \ {req[r].id}
  /\ req' = [req EXCEPT ![r] = Idle]
  /\ stray' = IF BeingAnnounced(req[r].id) THEN stray \cup {req[r].id} ELSE stray
  /\ UNCHANGED <<users, owner, wallets, bootVars, vanished>>

\* delete by id alone.
RemoveDelete(r) ==
  /\ req[r].pc = "found"
  /\ req[r].id \in rows
  /\ rows' = rows \ {req[r].id}
  /\ req' = [req EXCEPT ![r] = Deleted(req[r].id)]
  /\ stray' = IF BeingAnnounced(req[r].id) THEN stray \cup {req[r].id} ELSE stray
  /\ UNCHANGED <<users, owner, wallets, bootVars, vanished>>

\* The row went since it was found: delete throws, and the handler replies
\* "Wallet deletion failed" without emitting the event.
RemoveDeleteFails(r) ==
  /\ req[r].pc = "found"
  /\ req[r].id \notin rows
  /\ req' = [req EXCEPT ![r] = Idle]
  /\ UNCHANGED <<dbVars, wallets, bootVars, vanished, stray>>

\* emit('wallet.removed'), handleWalletRemoved, and the reply.
RemoveAnnounce(r) ==
  /\ req[r].pc = "deleted"
  /\ wallets' = wallets \ {req[r].id}
  /\ req' = [req EXCEPT ![r] = Idle]
  /\ UNCHANGED <<dbVars, bootVars, vanished, stray>>

-----------------------------------------------------------------------------
(* user-service deletes a user: the database deletes the wallets with the   *)
(* row, and nobody tells wallet-service.                                    *)

WalletsOf(u) == {id \in rows : owner[id] = u}

RemoveUser(u) ==
  /\ u \in users
  /\ users' = users \ {u}
  /\ rows' = rows \ WalletsOf(u)
  /\ vanished' = IF svc = "loading" THEN vanished + Cardinality(WalletsOf(u))
                                    ELSE vanished
  /\ UNCHANGED <<owner, wallets, bootVars, req, stray>>

-----------------------------------------------------------------------------
Handler(r) ==
  \/ CreateAnnounce(r)
  \/ RemoveDelete(r)
  \/ RemoveDeleteFails(r)
  \/ RemoveAnnounce(r)

Next ==
  \/ CountWallets
  \/ LoadPartition
  \/ Listen
  \/ Crash
  \/ \E r \in Requests, u \in Users : CreateInsert(r, u)
  \/ \E r \in Requests, id \in Ids, u \in Users : RemoveFind(r, id, u)
  \/ \E r \in Requests : Handler(r)
  \/ \E u \in Users : RemoveUser(u)

Spec == Init /\ [][Next]_vars

\* A start that was begun goes on, and a handler that was started resumes
\* whenever the database has answered.  Nothing makes a client send a request,
\* a process crash or a user go, and no supervisor restarts a dead process.
Fairness ==
  /\ WF_vars(LoadPartition)
  /\ WF_vars(Listen)
  /\ \A r \in Requests : WF_vars(Handler(r))

FairSpec == Spec /\ Fairness

-----------------------------------------------------------------------------
(* Properties *)

Unwatched == {id \in rows : id \notin wallets /\ ~BeingAnnounced(id)}

\* No wallet of the database goes unwatched: once the service takes requests,
\* every row is a key of the map or its createWallet is between the insert and
\* the event, unless a row vanished while the map was being loaded.
RowsAreWatched == svc = "up" /\ vanished = 0 => Unwatched = {}

\* Paging by offset over a table that shrinks skips rows, but no more of them
\* than the rows that vanished during the load (loadWalletsInPartitions).
SkippedAtMostVanished == svc = "up" => Cardinality(Unwatched) <= vanished

\* The map forgets what the database forgot: a key without its row is being
\* removed, or its user was deleted, or the wallet was deleted before the
\* handler that created it had announced it.
KeysHaveRows ==
  \A id \in wallets \ rows :
    \/ \E r \in Requests : req[r] = Deleted(id)
    \/ owner[id] \notin users
    \/ id \in stray

\* A wallet row goes only with its user or by a removeWallet its owner sent,
\* although the delete itself names the wallet by id alone.
OnlyTheOwnerRemoves ==
  [][\A id \in rows \ rows' :
       \/ owner[id] \notin users'
       \/ \E r \in Requests : req[r] = Found(id, owner[id]) /\ req'[r] = Deleted(id)]_vars

\* How the map and the table tell the life of a wallet (WatchList).
LifeOf(id) ==
  CASE id \notin Ids -> "unborn"
    [] id \in Ids /\ id \in rows /\ svc # "up" -> "asleep"
    [] id \in rows /\ svc = "up" /\ id \in wallets -> "watched"
    [] id \in rows /\ svc = "up" /\ id \in Unwatched -> "missed"
    [] id \in rows /\ svc = "up" /\ id \notin wallets \cup Unwatched -> "due"
    [] id \in wallets \ rows -> "stale"
    [] id \in Ids \ (rows \cup wallets) /\ BeingAnnounced(id) -> "late"
    [] OTHER -> "dead"

List == INSTANCE WatchList WITH
          Ids <- 1..MaxWallets, on <- svc = "up", life <- [id \in 1..MaxWallets |-> LifeOf(id)]

\* The map is a watch list: whatever overlaps, a wallet that lives is not taken
\* off while the process runs, one that was announced after its deletion stays on
\* (nobody tells again), and none that is dead and off is put on again.
IsAWatchList == List!Spec

\* An event that is due reaches the map unless the process dies: a wallet that
\* was inserted becomes watched, one that was deleted stops being watched.
EventsReachTheMap ==
  \A id \in 1..MaxWallets :
    /\ BeingAnnounced(id) ~> id \in wallets \/ svc = "down"
    /\ (\E r \in Requests : req[r] = Deleted(id)) ~> id \notin wallets \/ svc = "down"

\* A start of the process comes to its end or fails.
StartEnds == svc = "loading" ~> svc # "loading"
=============================================================================
