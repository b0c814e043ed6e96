---------------------------- MODULE BlockListener ----------------------------
(***************************************************************************)
(* TransactionsService of wallet-service: for every new block, the handler  *)
(* of the `block` event looks at the token transfers and the transactions   *)
(* of the block, and for one that touches a watched wallet records a        *)
(* `transaction` row, waits for three confirmations, settles the status of  *)
(* the row and refreshes the wallet's balance.                              *)
(*                                                                         *)
(* The handlers of several blocks run at once.  Within a block the token    *)
(* transfers are handled all at once (logs.forEach with an async function   *)
(* that nobody awaits), the transactions one after the other (for ... await *)
(* handleTransaction).                                                      *)
(*                                                                         *)
(* A transfer is a record [hash, blocks, pos, token, from, to]: a log of    *)
(* contract `token`, or, with token = Native, the transaction itself.  The  *)
(* first of its blocks takes it; a reorganisation of the chain takes        *)
(* transactions out of the last blocks, and they come back in another of    *)
(* their blocks or not at all.  A handler <<transfer, block>> is one of the *)
(* transfer as it was found in that block.                                  *)
(***************************************************************************)
EXTENDS Naturals, FiniteSets

CONSTANTS
  Addresses,   \* addresses of wallets and others
  Newcomers,   \* those whose wallets may be created once blocks are handled
  Plain,       \* those whose checksummed form has no capital letter
  Tokens,      \* token contracts
  Native,      \* in the field token: the transaction itself
  Transfers,   \* what the blocks of the chain hold
  Confirmations, \* blocks that make a transaction final: 3 in the code
  Reverted,    \* hashes of transactions that failed on the chain
  MaxHeight,   \* bound: blocks mined
  MaxReorgs    \* bound: reorganisations

ASSUME TransfersAssumption ==
  /\ Native \notin Tokens
  /\ \A i \in Transfers : /\ i.blocks \in SUBSET (1..MaxHeight) \ {{}}
                          /\ i.token \in Tokens \cup {Native}
                          /\ i.from \in Addresses
                          /\ i.to \in Addresses
ASSUME AddressesAssumption == Plain \subseteq Addresses /\ Newcomers \subseteq Addresses
ASSUME ConfirmationsAssumption == Confirmations \in Nat \ {0}
ASSUME BoundsAssumption == MaxHeight \in Nat /\ MaxReorgs \in Nat

Hashes == {i.hash : i \in Transfers}
Blocks == 1..MaxHeight

Handlers == {h \in Transfers \X Blocks : h[2] \in h[1].blocks}

VARIABLES
  height,    \* blocks mined
  at,        \* the block that holds a transaction, or 0
  reorgs,    \* reorganisations so far
  wallet,    \* addresses in table wallet
  unborn,    \* random addresses not given to a wallet yet
  watched,   \* MemoryService.wallets
  listed,    \* MemoryService.tokens
  up,        \* wallet-service is listening
  seen,      \* last block the provider announced to the process
  blk,       \* the handler of each block
  pc,        \* the handlers of transfers
  wal,       \* the wallet a handler chose
  row,       \* the status in table transaction of the row it created
  refreshed, \* history: handlers that reached the update of the balance
  faulted,   \* history: handlers that the node failed
  cut,       \* history: transfers whose handling a crash cut, or which were
             \* mined while the process was down
  moved      \* history: transactions a reorganisation took out of a block

chainVars == <<height, at, reorgs, moved>>
memVars == <<wallet, unborn, watched, listed>>
procVars == <<up, seen, blk>>
history == <<refreshed, faulted, cut>>
vars == <<chainVars, memVars, procVars, pc, wal, row, history>>

NoWallet == [none |-> TRUE]

InFlight == {"fetch", "wait", "confirmed", "threw", "balance"}
Settled == {"ignored", "done", "lost"}

TypeOK ==
  /\ height \in 0..MaxHeight
  /\ at \in [Hashes -> 0..height]
  /\ reorgs \in 0..MaxReorgs
  /\ wallet \subseteq Addresses
  /\ unborn \subseteq Newcomers \ wallet
  /\ watched \subseteq Addresses
  /\ listed \subseteq Tokens
  /\ up \in BOOLEAN
  /\ seen \in 0..height
  /\ blk \in [Blocks -> {"unseen", "fetching", "loop", "lost"}]
  /\ pc \in [Handlers -> {"none", "queued"} \cup InFlight \cup Settled]
  /\ wal \in [Handlers -> Addresses \cup {NoWallet}]
  /\ row \in [Handlers -> {"none", "pending", "success", "failed", "gone"}]
  /\ refreshed \subseteq Handlers
  /\ faulted \subseteq Handlers
  /\ cut \subseteq Transfers
  /\ moved \subseteq Hashes

Init ==
  /\ height = 0
  /\ at = [hash \in Hashes |-> 0]
  /\ reorgs = 0
  /\ wallet \in SUBSET Addresses
  /\ unborn = Newcomers \ wallet
  /\ watched = wallet
  /\ listed = Tokens
  /\ up = TRUE
  /\ seen = 0
  /\ blk = [b \in Blocks |-> "unseen"]
  /\ pc = [h \in Handlers |-> "none"]
  /\ wal = [h \in Handlers |-> NoWallet]
  /\ row = [h \in Handlers |-> "none"]
  /\ refreshed = {}
  /\ faulted = {}
  /\ cut = {}
  /\ moved = {}

Goes(h, state) == pc' = [pc EXCEPT ![h] = state]

-----------------------------------------------------------------------------
(* The chain *)

Fits == {i.hash : i \in {j \in Transfers : height + 1 \in j.blocks}}
Due == {hash \in Fits \ moved : at[hash] = 0}
Displaced == {hash \in Fits \cap moved : at[hash] = 0}

\* A block takes what is due, and may take what lost its place.
Mine ==
  /\ height < MaxHeight
  /\ height' = height + 1
  /\ \E back \in SUBSET Displaced :
       at' = [hash \in Hashes |-> IF hash \in Due \cup back THEN height + 1 ELSE at[hash]]
  /\ UNCHANGED <<reorgs, moved, memVars, procVars, pc, wal, row, history>>

\* A fork replaces blocks that have too few confirmations to be final.  It holds
\* some of their transactions, in the block it has instead.
Reorganise ==
  /\ reorgs < MaxReorgs
  /\ reorgs' = reorgs + 1
  /\ \E depth \in 1..Confirmations - 1 :
       LET out == {hash \in Hashes : at[hash] > height - depth /\ at[hash] > 0}
       IN \E kept \in SUBSET out :
            /\ out # kept
            /\ at' = [hash \in Hashes |-> IF hash \in out \ kept THEN 0 ELSE at[hash]]
            /\ moved' = moved \cup (out \ kept)
  /\ UNCHANGED <<height, memVars, procVars, pc, wal, row, history>>

-----------------------------------------------------------------------------
(* The rest of the service *)

\* createWallet: inserted, then announced to the map.
AddWallet(a) ==
  /\ up
  /\ a \in unborn
  /\ unborn' = unborn \ {a}
  /\ wallet' = wallet \cup {a}
  /\ watched' = watched \cup {a}
  /\ UNCHANGED <<chainVars, listed, procVars, pc, wal, row, history>>

\* removeWallet or the deletion of the user: its transactions go with the row.
DeleteWallet(a) ==
  /\ a \in wallet
  /\ wallet' = wallet \ {a}
  /\ row' = [h \in Handlers |-> IF wal[h] = a /\ row[h] # "none" THEN "gone" ELSE row[h]]
  /\ UNCHANGED <<chainVars, unborn, watched, listed, procVars, pc, wal, history>>

\* The event of removeWallet; there is none for a user.
UnwatchWallet(a) ==
  /\ a \in watched \ wallet
  /\ watched' = watched \ {a}
  /\ UNCHANGED <<chainVars, wallet, unborn, listed, procVars, pc, wal, row, history>>

RemoveToken(t) ==
  /\ t \in listed
  /\ listed' = listed \ {t}
  /\ UNCHANGED <<chainVars, wallet, unborn, watched, procVars, pc, wal, row, history>>

-----------------------------------------------------------------------------
(* provider.on('block', ...) *)

\* Mutant: a block is announced before it is mined.
NewBlock_Ahead ==
  /\ up
  /\ seen < MaxHeight
  /\ seen' = seen + 1
  /\ blk' = [blk EXCEPT ![seen + 1] = "fetching"]
  /\ UNCHANGED <<chainVars, memVars, up, pc, wal, row, history>>

\* The provider polls, and announces each height once and in order.
NewBlock ==
  /\ up
  /\ seen < height
  /\ seen' = seen + 1
  /\ blk' = [blk EXCEPT ![seen + 1] = "fetching"]
  /\ UNCHANGED <<chainVars, memVars, up, pc, wal, row, history>>

\* What a block holds when the node is asked for it.
Held(b) == {h \in Handlers : h[2] = b /\ at[h[1].hash] = b}
LogsOf(b) == {h \in Held(b) : h[1].token # Native}

\* The sender of a log is made lower-case as the keys of the map are; the one
\* of a transaction comes checksummed and is looked up as it comes.
KnownFrom(i) == i.from \in watched /\ (i.token = Native => i.from \in Plain)

Concerns(i) ==
  /\ KnownFrom(i) \/ i.to \in watched
  /\ i.token = Native \/ i.token \in listed

WalletOf(i) == IF KnownFrom(i) THEN i.from ELSE i.to

\* getBlock and getLogs have answered.  The handler of each log runs up to its
\* first await, getTransaction; the transactions are queued.
FetchBlock(b) ==
  /\ blk[b] = "fetching"
  /\ blk' = [blk EXCEPT ![b] = "loop"]
  /\ pc' = [h \in Handlers |->
              CASE h \notin Held(b) -> pc[h]
                [] h \in Held(b) \ LogsOf(b) -> "queued"
                [] OTHER -> IF Concerns(h[1]) THEN "fetch" ELSE "ignored"]
  /\ wal' = [h \in Handlers |->
               IF h \in LogsOf(b) /\ Concerns(h[1]) THEN WalletOf(h[1]) ELSE wal[h]]
  /\ UNCHANGED <<chainVars, memVars, up, seen, row, history>>

\* One of them threw: the block is logged and forgotten.
FetchBlockFails(b) ==
  /\ blk[b] = "fetching"
  /\ blk' = [blk EXCEPT ![b] = "lost"]
  /\ pc' = [h \in Handlers |-> IF h \in Held(b) THEN "lost" ELSE pc[h]]
  /\ faulted' = faulted \cup Held(b)
  /\ UNCHANGED <<chainVars, memVars, up, seen, wal, row, refreshed, cut>>

\* The transactions before this one in the block as it was fetched.
Before(h) ==
  {g \in Handlers : /\ g[2] = h[2] /\ g[1].pos < h[1].pos
                    /\ g[1].token = Native /\ pc[g] # "none"}

\* Mutant: the loop ends at a transaction that is not watched.
NextTransaction_Stops(h) ==
  /\ pc[h] = "queued"
  /\ \A g \in Before(h) : pc[g] \in {"done", "lost"}
  /\ Goes(h, IF Concerns(h[1]) THEN "fetch" ELSE "ignored")
  /\ wal' = IF Concerns(h[1]) THEN [wal EXCEPT ![h] = WalletOf(h[1])] ELSE wal
  /\ UNCHANGED <<chainVars, memVars, procVars, row, history>>

\* handleTransaction, up to its first await, of the next transaction of the
\* block once the one before is settled.
NextTransaction(h) ==
  /\ pc[h] = "queued"
  /\ \A g \in Before(h) : pc[g] \in Settled
  /\ Goes(h, IF Concerns(h[1]) THEN "fetch" ELSE "ignored")
  /\ wal' = IF Concerns(h[1]) THEN [wal EXCEPT ![h] = WalletOf(h[1])] ELSE wal
  /\ UNCHANGED <<chainVars, memVars, procVars, row, history>>

-----------------------------------------------------------------------------
(* txProcessing *)

\* getTransaction, which finds what is off the chain as long as the node keeps
\* it, and the row is created as pending.
CreatePending(h) ==
  /\ pc[h] = "fetch"
  /\ wal[h] \in wallet
  /\ row' = [row EXCEPT ![h] = "pending"]
  /\ Goes(h, "wait")
  /\ UNCHANGED <<chainVars, memVars, procVars, wal, history>>

\* The wallet's row is gone, and the foreign key refuses the insert.
CreateRefused(h) ==
  /\ pc[h] = "fetch"
  /\ wal[h] \notin wallet
  /\ Goes(h, "lost")
  /\ UNCHANGED <<chainVars, memVars, procVars, wal, row, history>>

\* The node failed getTransaction, or does not know the transaction any more.
FetchFails(h) ==
  /\ pc[h] = "fetch"
  /\ Goes(h, "lost")
  /\ faulted' = faulted \cup {h}
  /\ UNCHANGED <<chainVars, memVars, procVars, wal, row, refreshed, cut>>

\* wait(3) looks the receipt up again with every block, wherever it is now.
Confirmed(i) == at[i.hash] > 0 /\ height - at[i.hash] + 1 >= Confirmations

Waited(h) == IF h[1].hash \in Reverted THEN "threw" ELSE "confirmed"

\* Mutant: no confirmation is waited for.
WaitEnds_Early(h) ==
  /\ pc[h] = "wait"
  /\ Goes(h, Waited(h))
  /\ UNCHANGED <<chainVars, memVars, procVars, wal, row, history>>

\* wait(3) returns the receipt, or throws for a transaction that was reverted.  The
\* receipt and the height are two requests of the library, and one step here: a
\* fork that falls between them is left out.
WaitEnds(h) ==
  /\ pc[h] = "wait"
  /\ Confirmed(h[1])
  /\ Goes(h, Waited(h))
  /\ UNCHANGED <<chainVars, memVars, procVars, wal, row, history>>

\* The node failed wait(3), or confirmations() after it.
WaitFails(h) ==
  /\ pc[h] \in {"wait", "confirmed"}
  /\ Goes(h, "threw")
  /\ faulted' = faulted \cup {h}
  /\ UNCHANGED <<chainVars, memVars, procVars, wal, row, refreshed, cut>>

\* Mutant: updateMany without its where clause.
Settle_All(hash, status) ==
  row' = [h \in Handlers |-> IF row[h] \notin {"none", "gone"} THEN status ELSE row[h]]

\* updateMany where hash = ...: every row of the transaction.
Settle(hash, status) ==
  row' = [h \in Handlers |->
            IF h[1].hash = hash /\ row[h] \notin {"none", "gone"} THEN status ELSE row[h]]

\* Mutant: only the handler's own row is updated.
MarkSuccess_OwnRow(h) ==
  /\ pc[h] = "confirmed"
  /\ row' = [row EXCEPT ![h] = IF @ = "gone" THEN @ ELSE "success"]
  /\ Goes(h, "balance")
  /\ UNCHANGED <<chainVars, memVars, procVars, wal, history>>

\* Mutant: txProcessing returns nothing after the update.
MarkSuccess_NoRefresh(h) ==
  /\ pc[h] = "confirmed"
  /\ Settle(h[1].hash, "success")
  /\ Goes(h, "done")
  /\ UNCHANGED <<chainVars, memVars, procVars, wal, history>>

MarkSuccess(h) ==
  /\ pc[h] = "confirmed"
  /\ Settle(h[1].hash, "success")
  /\ Goes(h, "balance")
  /\ UNCHANGED <<chainVars, memVars, procVars, wal, history>>

\* Mutant: the catch block only logs.
MarkFailed_LogsOnly(h) ==
  /\ pc[h] = "threw"
  /\ Goes(h, "done")
  /\ UNCHANGED <<chainVars, memVars, procVars, wal, row, history>>

MarkFailed(h) ==
  /\ pc[h] = "threw"
  /\ Settle(h[1].hash, "failed")
  /\ Goes(h, "done")
  /\ UNCHANGED <<chainVars, memVars, procVars, wal, history>>

\* getBalance or balanceOf, then updateBalance (module BalanceBook).
RefreshBalance(h) ==
  /\ pc[h] = "balance"
  /\ h[1].token \in listed \cup {Native}
  /\ refreshed' = refreshed \cup {h}
  /\ Goes(h, "done")
  /\ UNCHANGED <<chainVars, memVars, procVars, wal, row, faulted, cut>>

\* The token left the map: this.memoryService.tokens[key].contract throws.
RefreshThrows(h) ==
  /\ pc[h] = "balance"
  /\ h[1].token \notin listed \cup {Native}
  /\ Goes(h, "lost")
  /\ UNCHANGED <<chainVars, memVars, procVars, wal, row, history>>

\* The node failed getBalance.
RefreshFails(h) ==
  /\ pc[h] = "balance"
  /\ Goes(h, "lost")
  /\ faulted' = faulted \cup {h}
  /\ UNCHANGED <<chainVars, memVars, procVars, wal, row, refreshed, cut>>

-----------------------------------------------------------------------------
(* The process dies with its handlers, and starts again with the map that   *)
(* the tables give; blocks mined before that are never announced to it.     *)

Unfinished == {h \in Handlers : pc[h] \in InFlight \cup {"queued"}}
Overlooked == {i \in Transfers : at[i.hash] > 0 /\ blk[at[i.hash]] \in {"unseen", "fetching"}}

Forget ==
  /\ blk' = [b \in Blocks |-> IF b <= height THEN "lost" ELSE blk[b]]
  /\ pc' = [h \in Handlers |-> IF h \in Unfinished THEN "lost" ELSE pc[h]]
  /\ cut' = cut \cup Overlooked \cup {h[1] : h \in Unfinished}

Crash ==
  /\ up
  /\ up' = FALSE
  /\ watched' = {}
  /\ seen' = 0
  /\ Forget
  /\ UNCHANGED <<chainVars, wallet, unborn, listed, wal, row, refreshed, faulted>>

Start ==
  /\ ~up
  /\ up' = TRUE
  /\ watched' = wallet
  /\ seen' = height
  /\ Forget
  /\ UNCHANGED <<chainVars, wallet, unborn, listed, wal, row, refreshed, faulted>>

-----------------------------------------------------------------------------
Process(h) ==
  \/ NextTransaction(h)
  \/ CreatePending(h)
  \/ CreateRefused(h)
  \/ WaitEnds(h)
  \/ MarkSuccess(h)
  \/ MarkFailed(h)
  \/ RefreshBalance(h)
  \/ RefreshThrows(h)

NodeFails(h) == FetchFails(h) \/ WaitFails(h) \/ RefreshFails(h)

Next ==
  \/ Mine
  \/ Reorganise
  \/ \E a \in Addresses : AddWallet(a) \/ DeleteWallet(a) \/ UnwatchWallet(a)
  \/ \E t \in Tokens : RemoveToken(t)
  \/ NewBlock
  \/ \E b \in Blocks : FetchBlock(b) \/ FetchBlockFails(b)
  \/ \E h \in Handlers : Process(h) \/ NodeFails(h)
  \/ Crash
  \/ Start

Spec == Init /\ [][Next]_vars

\* The chain grows, the provider polls it, and a handler resumes when its
\* await is over.
Fairness ==
  /\ WF_vars(Mine)
  /\ WF_vars(NewBlock)
  /\ \A b \in Blocks : WF_vars(FetchBlock(b) \/ FetchBlockFails(b))
  /\ \A h \in Handlers : WF_vars(Process(h))

FairSpec == Spec /\ Fairness

-----------------------------------------------------------------------------
(* Properties *)

\* A row says success only of a transaction that was executed and is three
\* blocks deep, although any handler settles every row of its hash, its own
\* block and its own wallet or not (updateMany where hash).
SuccessIsConfirmed ==
  \A h \in Handlers :
    row[h] = "success" => h[1].hash \notin Reverted /\ Confirmed(h[1])

\* A row says failed only of a transaction that was reverted, or when the node
\* failed one of the handlers of its hash.
FailureHasACause ==
  \A h \in Handlers :
    row[h] = "failed" =>
      h[1].hash \in Reverted \/ \E g \in faulted : g[1].hash = h[1].hash

AtRest(hash) == \A h \in Handlers : h[1].hash = hash => pc[h] \notin InFlight

\* Handlers of one transaction settle each other's rows.  When none is left,
\* no row is pending and all the rows agree, even if the node failed some of
\* them; only rows of handlers that a crash cut stay pending, for good.
RowsOfAHashAgree ==
  \A g, h \in Handlers :
    /\ g[1].hash = h[1].hash
    /\ AtRest(h[1].hash)
    /\ \A i \in cut : i.hash # h[1].hash
    /\ {row[g], row[h]} \cap {"none", "gone"} = {}
    => row[g] = row[h] /\ row[h] # "pending"

\* A transfer that is shown as success had its wallet's balance refreshed after
\* three confirmations, unless the node failed, a crash cut it, or its token
\* left the map while it waited.
SuccessRefreshes ==
  \A h \in Handlers :
    row[h] = "success" /\ pc[h] \in Settled =>
      h \in refreshed \cup faulted \/ h[1] \in cut \/ h[1].token \in Tokens \ listed

OffChain(h) == at[h[1].hash] = 0

\* A pending row is settled, unless the wallet goes, a crash cuts it, or a
\* reorganisation took its transaction off the chain.
PendingEnds ==
  \A h \in Handlers :
    row[h] = "pending" ~> row[h] # "pending" \/ h[1] \in cut \/ OffChain(h)

\* A transfer to a watched wallet is recorded, however long the transactions
\* before it in the block are waited for, unless the wallet or the token goes
\* meanwhile, the node fails or the process dies, the map sent it to the
\* sender's wallet although that one is deleted, or a transaction before it in
\* the block was taken off the chain and is waited for in vain.
IncomingIsRecorded ==
  \A h \in Handlers :
    blk[h[2]] = "fetching" /\ h \in Held(h[2]) /\ Concerns(h[1]) /\ h[1].to \in watched \cap wallet
      ~> \/ row[h] # "none"
         \/ h[1].to \notin wallet
         \/ h[1].token \in Tokens \ listed
         \/ h \in faulted \/ h[1] \in cut
         \/ wal[h] = h[1].from /\ h[1].from \notin wallet
         \/ OffChain(h) \/ \E g \in Before(h) : OffChain(g)
=============================================================================
