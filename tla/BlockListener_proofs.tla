------------------------- MODULE BlockListener_proofs -------------------------
(***************************************************************************)
(* Proofs about BlockListener for any transfers and any order of blocks     *)
(* that may hold them, any set of wallets and of token contracts, any       *)
(* number of confirmations above 0, and any bounds on the chain and on its  *)
(* reorganisations.                                                         *)
(*                                                                         *)
(* IInv is the inductive invariant.  That a success is confirmed needs what *)
(* a handler knows between the end of its wait and the update (Waits), and  *)
(* that no reorganisation reaches so deep (ConfirmedStep).  That a success  *)
(* refreshes and that rows of a hash agree needs the reason for which a     *)
(* handler ended (Ends), that none starts twice (Announced, NotFetched),    *)
(* where a row is while its handler is (Rows), and that rows which have a   *)
(* status were given it together (Alike).                                   *)
(***************************************************************************)
EXTENDS BlockListener, TLAPS

\* Blocks that the provider has still to announce, or that are still to be mined
\* while the process is down, have no handler.
Announced ==
  \A b \in Blocks : b > (IF up THEN seen ELSE height) => blk[b] = "unseen"

\* A block that has not been fetched has started no handler of a transfer.
NotFetched ==
  \A h \in Handlers : blk[h[2]] \in {"unseen", "fetching"} => pc[h] = "none"

\* A handler has a row once it waits, and one that still says pending is still
\* to be settled by it, unless a crash cut it.
Rows ==
  \A h \in Handlers :
    /\ pc[h] \in {"none", "queued", "fetch", "ignored"} => row[h] = "none"
    /\ row[h] = "pending" => pc[h] \in {"wait", "confirmed", "threw"} \/ h[1] \in cut

\* How the wait of a handler ended.
Waits ==
  \A h \in Handlers :
    /\ pc[h] = "confirmed" => h[1].hash \notin Reverted /\ Confirmed(h[1])
    /\ pc[h] = "threw" => h[1].hash \in Reverted \/ h \in faulted

\* Why a handler ended.
Ends ==
  \A h \in Handlers :
    /\ pc[h] = "done" => h \in refreshed \cup faulted \/ h[1].hash \in Reverted
    /\ pc[h] = "lost" =>
         row[h] = "none" \/ h \in faulted \/ h[1] \in cut \/ h[1].token \in Tokens \ listed

\* Two rows of a hash that have been settled say the same.
Alike ==
  \A g, h \in Handlers :
    g[1].hash = h[1].hash /\ {row[g], row[h]} \subseteq {"success", "failed"} => row[g] = row[h]

IInv ==
  /\ TypeOK
  /\ Announced
  /\ NotFetched
  /\ Rows
  /\ Waits
  /\ Ends
  /\ Alike
  /\ SuccessIsConfirmed
  /\ FailureHasACause

-----------------------------------------------------------------------------
(* The chain and the actions. *)

\* What a handler is one of.
LEMMA HandlerShape ==
  ASSUME NEW h \in Handlers
  PROVE  /\ h = <<h[1], h[2]>>
         /\ h[1] \in Transfers /\ h[2] \in Blocks /\ h[1].hash \in Hashes
         /\ h[1].token \in Tokens \cup {Native}
         /\ h[1].from \in Addresses /\ h[1].to \in Addresses
BY TransfersAssumption DEF Handlers, Hashes

-----------------------------------------------------------------------------
\* Every variable keeps its type: nothing is announced that has not been mined,
\* and no wallet is given an address that may still be given to another.
LEMMA TypeOKStep ==
  ASSUME TypeOK, [Next]_vars
  PROVE  TypeOK'
<1> USE DEF TypeOK, chainVars, memVars, procVars, history, Goes, InFlight, Settled
<1>1. CASE Mine
  <2>1. height' \in 0..MaxHeight /\ height' = height + 1
    BY <1>1, BoundsAssumption DEF Mine
  <2>2. at' \in [Hashes -> 0..height']
    BY <1>1, <2>1 DEF Mine
  <2>3. seen' \in 0..height'
    BY <1>1, <2>1 DEF Mine
  <2> QED  BY <1>1, <2>1, <2>2, <2>3 DEF Mine
<1>2. CASE Reorganise
  <2>1. reorgs' \in 0..MaxReorgs
    BY <1>2, BoundsAssumption DEF Reorganise
  <2>2. at' \in [Hashes -> 0..height'] /\ moved' \subseteq Hashes
    BY <1>2 DEF Reorganise
  <2> QED  BY <1>2, <2>1, <2>2 DEF Reorganise
<1>3. ASSUME NEW a \in Addresses, AddWallet(a)
      PROVE  TypeOK'
  BY <1>3 DEF AddWallet
<1>4. ASSUME NEW a \in Addresses, DeleteWallet(a)
      PROVE  TypeOK'
  BY <1>4 DEF DeleteWallet
<1>5. ASSUME NEW a \in Addresses, UnwatchWallet(a)
      PROVE  TypeOK'
  BY <1>5 DEF UnwatchWallet
<1>6. ASSUME NEW t \in Tokens, RemoveToken(t)
      PROVE  TypeOK'
  BY <1>6 DEF RemoveToken
<1>7. CASE NewBlock
  <2>1. seen' \in 0..height' /\ seen + 1 \in Blocks
    BY <1>7, BoundsAssumption DEF NewBlock, Blocks
  <2> QED  BY <1>7, <2>1 DEF NewBlock
<1>8. ASSUME NEW b \in Blocks, FetchBlock(b)
      PROVE  TypeOK'
  <2>1. pc' \in [Handlers -> {"none", "queued"} \cup InFlight \cup Settled]
    BY <1>8 DEF FetchBlock
  <2>2. wal' \in [Handlers -> Addresses \cup {NoWallet}]
    BY <1>8, HandlerShape DEF FetchBlock, WalletOf
  <2> QED  BY <1>8, <2>1, <2>2 DEF FetchBlock
<1>9. ASSUME NEW b \in Blocks, FetchBlockFails(b)
      PROVE  TypeOK'
  <2>1. pc' \in [Handlers -> {"none", "queued"} \cup InFlight \cup Settled]
    BY <1>9 DEF FetchBlockFails
  <2>2. faulted' \subseteq Handlers
    BY <1>9 DEF FetchBlockFails, Held
  <2> QED  BY <1>9, <2>1, <2>2 DEF FetchBlockFails
<1>10. ASSUME NEW h \in Handlers, NextTransaction(h)
       PROVE  TypeOK'
  <2>1. WalletOf(h[1]) \in Addresses
    BY HandlerShape DEF WalletOf
  <2> QED  BY <1>10, <2>1 DEF NextTransaction
<1>11. ASSUME NEW h \in Handlers, CreatePending(h)
       PROVE  TypeOK'
  BY <1>11 DEF CreatePending
<1>12. ASSUME NEW h \in Handlers, CreateRefused(h) \/ WaitEnds(h) \/ RefreshThrows(h)
       PROVE  TypeOK'
  BY <1>12 DEF CreateRefused, WaitEnds, Waited, RefreshThrows
<1>13. ASSUME NEW h \in Handlers, MarkSuccess(h) \/ MarkFailed(h)
       PROVE  TypeOK'
  BY <1>13 DEF MarkSuccess, MarkFailed, Settle
<1>14. ASSUME NEW h \in Handlers, RefreshBalance(h) \/ NodeFails(h)
       PROVE  TypeOK'
  BY <1>14 DEF RefreshBalance, NodeFails, FetchFails, WaitFails, RefreshFails
<1>15. CASE Crash \/ Start
  <2>1. Forget
    BY <1>15 DEF Crash, Start
  <2>2. /\ blk' \in [Blocks -> {"unseen", "fetching", "loop", "lost"}]
        /\ pc' \in [Handlers -> {"none", "queued"} \cup InFlight \cup Settled]
    BY <2>1 DEF Forget
  <2>3. cut' \subseteq Transfers
    BY <2>1, HandlerShape DEF Forget, Overlooked, Unfinished
  <2>4. UNCHANGED <<chainVars, wallet, unborn, listed, wal, row, refreshed, faulted>>
    BY <1>15 DEF Crash, Start
  <2>5. watched' \subseteq Addresses /\ up' \in BOOLEAN
    BY <1>15 DEF Crash, Start
  <2>6. seen' \in 0..height'
    BY <1>15, <2>4 DEF Crash, Start
  <2> QED  BY <2>2, <2>3, <2>4, <2>5, <2>6
<1>16. CASE UNCHANGED vars
  BY <1>16 DEF vars
<1> QED  BY <1>1, <1>2, <1>3, <1>4, <1>5, <1>6, <1>7, <1>8, <1>9, <1>10, <1>11, <1>12,
             <1>13, <1>14, <1>15, <1>16 DEF Next, Process

\* What only ever grows or shrinks.
LEMMA OneWay ==
  ASSUME TypeOK, [Next]_vars
  PROVE  /\ refreshed \subseteq refreshed'
         /\ faulted \subseteq faulted'
         /\ cut \subseteq cut'
         /\ listed' \subseteq listed
BY DEF Next, Mine, Reorganise, AddWallet, DeleteWallet, UnwatchWallet, RemoveToken, NewBlock,
       FetchBlock, FetchBlockFails, Process, NextTransaction, CreatePending, CreateRefused,
       WaitEnds, MarkSuccess, MarkFailed, RefreshBalance, RefreshThrows, NodeFails, FetchFails,
       WaitFails, RefreshFails, Crash, Start, Forget, vars, chainVars, memVars, procVars, history

\* A reorganisation replaces fewer blocks than it takes to confirm one, so what
\* is confirmed stays confirmed.
LEMMA ConfirmedStep ==
  ASSUME TypeOK, [Next]_vars, NEW i \in Transfers, Confirmed(i)
  PROVE  Confirmed(i)'
<1> USE DEF TypeOK, Confirmed, chainVars, memVars, procVars, history
<1>1. i.hash \in Hashes /\ at[i.hash] \in Nat /\ height \in Nat
  BY DEF Hashes
<1>2. CASE Mine
  BY <1>1, <1>2, BoundsAssumption, ConfirmationsAssumption DEF Mine, Due, Displaced
<1>3. CASE Reorganise
  <2>1. PICK depth \in 1..Confirmations - 1 :
          LET out == {hash \in Hashes : at[hash] > height - depth /\ at[hash] > 0}
          IN \E kept \in SUBSET out :
               at' = [hash \in Hashes |-> IF hash \in out \ kept THEN 0 ELSE at[hash]]
    BY <1>3 DEF Reorganise
  <2>2. ~(at[i.hash] > height - depth)
    BY <1>1, ConfirmationsAssumption
  <2>3. at'[i.hash] = at[i.hash]
    BY <1>1, <2>1, <2>2
  <2> QED  BY <1>3, <2>3 DEF Reorganise
<1>4. CASE UNCHANGED <<at, height>>
  BY <1>4
<1> QED
  BY <1>2, <1>3, <1>4
  DEF Next, AddWallet, DeleteWallet, UnwatchWallet, RemoveToken, NewBlock, FetchBlock,
      FetchBlockFails, Process, NextTransaction, CreatePending, CreateRefused, WaitEnds,
      MarkSuccess, MarkFailed, RefreshBalance, RefreshThrows, NodeFails, FetchFails, WaitFails,
      RefreshFails, Crash, Start, vars

\* A handler is moved by its own steps, by the answer that starts those of its
\* block, and by the death of the process.
LEMMA PcStep ==
  ASSUME TypeOK, NotFetched, [Next]_vars, NEW h \in Handlers
  PROVE  \/ pc'[h] = pc[h]
         \/ pc[h] \in {"none", "queued"} /\ pc'[h] \in {"queued", "fetch", "ignored"}
         \/ pc[h] \in {"none", "fetch", "balance"} /\ pc'[h] = "lost" /\ h \in faulted'
         \/ pc[h] = "fetch" /\ pc'[h] = "wait" /\ CreatePending(h)
         \/ pc[h] = "fetch" /\ pc'[h] = "lost" /\ CreateRefused(h)
         \/ pc[h] = "wait" /\ pc'[h] = Waited(h) /\ Confirmed(h[1])
         \/ pc[h] \in {"wait", "confirmed"} /\ pc'[h] = "threw" /\ h \in faulted'
         \/ pc[h] = "confirmed" /\ pc'[h] = "balance" /\ MarkSuccess(h)
         \/ pc[h] = "threw" /\ pc'[h] = "done" /\ MarkFailed(h)
         \/ pc[h] = "balance" /\ pc'[h] = "done" /\ h \in refreshed'
         \/ pc[h] = "balance" /\ pc'[h] = "lost" /\ h[1].token \notin listed \cup {Native}
         \/ pc[h] \in InFlight \cup {"queued"} /\ pc'[h] = "lost" /\ h[1] \in cut'
<1> USE DEF TypeOK, chainVars, memVars, procVars, history, Goes
<1>1. ASSUME pc' = pc
      PROVE  pc'[h] = pc[h]
  BY <1>1
<1>2. ASSUME NEW b \in Blocks, FetchBlock(b), pc'[h] # pc[h]
      PROVE  pc[h] = "none" /\ pc'[h] \in {"queued", "fetch", "ignored"}
  <2>1. h \in Held(b) /\ blk[h[2]] = "fetching"
    BY <1>2 DEF FetchBlock, Held
  <2> QED  BY <1>2, <2>1 DEF FetchBlock, NotFetched
<1>3. ASSUME NEW b \in Blocks, FetchBlockFails(b), pc'[h] # pc[h]
      PROVE  pc[h] = "none" /\ pc'[h] = "lost" /\ h \in faulted'
  <2>1. h \in Held(b) /\ blk[h[2]] = "fetching"
    BY <1>3 DEF FetchBlockFails, Held
  <2> QED  BY <1>3, <2>1 DEF FetchBlockFails, NotFetched
<1>4. ASSUME NEW g \in Handlers, Process(g) \/ NodeFails(g), g # h
      PROVE  pc'[h] = pc[h]
  BY <1>4 DEF Process, NextTransaction, CreatePending, CreateRefused, WaitEnds, MarkSuccess,
              MarkFailed, RefreshBalance, RefreshThrows, NodeFails, FetchFails, WaitFails,
              RefreshFails
<1>5. CASE NextTransaction(h)
  BY <1>5 DEF NextTransaction
<1>6. CASE CreatePending(h) \/ CreateRefused(h)
  BY <1>6 DEF CreatePending, CreateRefused
<1>7. CASE WaitEnds(h)
  BY <1>7 DEF WaitEnds
<1>8. CASE MarkSuccess(h) \/ MarkFailed(h)
  BY <1>8 DEF MarkSuccess, MarkFailed
<1>9. CASE RefreshBalance(h) \/ RefreshThrows(h)
  BY <1>9 DEF RefreshBalance, RefreshThrows
<1>10. CASE NodeFails(h)
  BY <1>10 DEF NodeFails, FetchFails, WaitFails, RefreshFails
<1>11. CASE Crash \/ Start
  BY <1>11 DEF Crash, Start, Forget, Unfinished
<1> QED  BY <1>1, <1>2, <1>3, <1>4, <1>5, <1>6, <1>7, <1>8, <1>9, <1>10, <1>11
         DEF Next, Mine, Reorganise, AddWallet, DeleteWallet, UnwatchWallet, RemoveToken,
             NewBlock, Process, vars

\* A row is created by its handler, settled by any handler of its hash, and goes
\* with its wallet.
LEMMA RowStep ==
  ASSUME TypeOK, [Next]_vars, NEW h \in Handlers
  PROVE  \/ row'[h] = row[h]
         \/ row[h] # "none" /\ row'[h] = "gone"
         \/ pc[h] = "fetch" /\ pc'[h] = "wait" /\ row'[h] = "pending"
         \/ /\ row[h] \notin {"none", "gone"}
            /\ \E g \in Handlers :
                 /\ g[1].hash = h[1].hash
                 /\ \/ MarkSuccess(g) /\ row'[h] = "success"
                    \/ MarkFailed(g) /\ row'[h] = "failed"
<1> USE DEF TypeOK, chainVars, memVars, procVars, history, Goes
<1>1. ASSUME NEW a \in Addresses, DeleteWallet(a), row'[h] # row[h]
      PROVE  row[h] # "none" /\ row'[h] = "gone"
  BY <1>1 DEF DeleteWallet
<1>2. ASSUME NEW g \in Handlers, CreatePending(g), row'[h] # row[h]
      PROVE  pc[h] = "fetch" /\ pc'[h] = "wait" /\ row'[h] = "pending"
  BY <1>2 DEF CreatePending
<1>3. ASSUME NEW g \in Handlers, MarkSuccess(g), row'[h] # row[h]
      PROVE  /\ row[h] \notin {"none", "gone"}
             /\ g[1].hash = h[1].hash /\ row'[h] = "success"
  BY <1>3 DEF MarkSuccess, Settle
<1>4. ASSUME NEW g \in Handlers, MarkFailed(g), row'[h] # row[h]
      PROVE  /\ row[h] \notin {"none", "gone"}
             /\ g[1].hash = h[1].hash /\ row'[h] = "failed"
  BY <1>4 DEF MarkFailed, Settle
<1>5. CASE row' = row
  BY <1>5
<1> QED  BY <1>1, <1>2, <1>3, <1>4, <1>5
         DEF Next, Mine, Reorganise, AddWallet, UnwatchWallet, RemoveToken, NewBlock,
             FetchBlock, FetchBlockFails, Process, NextTransaction, CreateRefused, WaitEnds,
             RefreshBalance, RefreshThrows, NodeFails, FetchFails, WaitFails, RefreshFails,
             Crash, Start, vars

-----------------------------------------------------------------------------
(* The conjuncts of the invariant. *)

\* The provider announces heights in order and once, and a process that starts
\* again begins behind what was mined.
LEMMA AnnouncedStep ==
  ASSUME TypeOK, Announced, [Next]_vars
  PROVE  Announced'
<1> USE DEF Announced, TypeOK, chainVars, memVars, procVars, history
<1>1. CASE Mine
  BY <1>1, BoundsAssumption DEF Mine, Blocks
<1>2. CASE NewBlock
  BY <1>2, BoundsAssumption DEF NewBlock, Blocks
<1>3. ASSUME NEW b \in Blocks, FetchBlock(b) \/ FetchBlockFails(b)
      PROVE  Announced'
  BY <1>3, BoundsAssumption DEF FetchBlock, FetchBlockFails, Blocks
<1>4. CASE Crash \/ Start
  BY <1>4, BoundsAssumption DEF Crash, Start, Forget, Blocks
<1>5. CASE UNCHANGED <<up, seen, height, blk>>
  BY <1>5
<1> QED
  BY <1>1, <1>2, <1>3, <1>4, <1>5
  DEF Next, Reorganise, AddWallet, DeleteWallet, UnwatchWallet, RemoveToken, Process,
      NextTransaction, CreatePending, CreateRefused, WaitEnds, MarkSuccess, MarkFailed,
      RefreshBalance, RefreshThrows, NodeFails, FetchFails, WaitFails, RefreshFails, vars

\* The answer that starts the handlers of a block also says that it was fetched.
LEMMA NotFetchedStep ==
  ASSUME TypeOK, Announced, NotFetched, [Next]_vars
  PROVE  NotFetched'
<1> USE DEF NotFetched, TypeOK, chainVars, memVars, procVars, history
<1>1. CASE NewBlock
  <2>1. seen + 1 \in Blocks /\ blk[seen + 1] = "unseen"
    BY <1>1, BoundsAssumption DEF NewBlock, Announced, Blocks
  <2> QED  BY <1>1, <2>1, HandlerShape DEF NewBlock
<1>2. ASSUME NEW b \in Blocks, FetchBlock(b) \/ FetchBlockFails(b)
      PROVE  NotFetched'
  BY <1>2, HandlerShape DEF FetchBlock, FetchBlockFails, Held
<1>3. ASSUME NEW h \in Handlers, Process(h) \/ NodeFails(h)
      PROVE  NotFetched'
  <2>1. blk' = blk /\ pc[h] # "none" /\ \A g \in Handlers \ {h} : pc'[g] = pc[g]
    BY <1>3 DEF Process, NextTransaction, CreatePending, CreateRefused, WaitEnds, MarkSuccess,
                MarkFailed, RefreshBalance, RefreshThrows, NodeFails, FetchFails, WaitFails,
                RefreshFails, Goes
  <2> QED  BY <2>1
<1>4. CASE Crash \/ Start
  BY <1>4, HandlerShape DEF Crash, Start, Forget, Unfinished, InFlight
<1>5. CASE UNCHANGED <<blk, pc>>
  BY <1>5
<1> QED  BY <1>1, <1>2, <1>3, <1>4, <1>5
         DEF Next, Mine, Reorganise, AddWallet, DeleteWallet, UnwatchWallet, RemoveToken, vars

\* A handler that settles the rows of its hash settles its own among them.
LEMMA RowsStep ==
  ASSUME TypeOK, NotFetched, Rows, [Next]_vars
  PROVE  Rows'
<1> SUFFICES ASSUME NEW h \in Handlers
             PROVE  /\ pc'[h] \in {"none", "queued", "fetch", "ignored"} => row'[h] = "none"
                    /\ row'[h] = "pending" =>
                         pc'[h] \in {"wait", "confirmed", "threw"} \/ h[1] \in cut'
  BY DEF Rows
<1>1. cut \subseteq cut'
  BY OneWay
<1>2. /\ pc[h] \in {"none", "queued", "fetch", "ignored"} => row[h] = "none"
      /\ row[h] = "pending" => pc[h] \in {"wait", "confirmed", "threw"} \/ h[1] \in cut
  BY DEF Rows
<1>3. pc'[h] \in {"none", "queued", "fetch", "ignored"} => row'[h] = "none"
  BY <1>2, PcStep, RowStep DEF Waited
<1>4. MarkSuccess(h) \/ MarkFailed(h) => row'[h] # "pending"
  BY DEF MarkSuccess, MarkFailed, Settle, TypeOK
<1>5. CASE row'[h] = "pending"
  BY <1>1, <1>2, <1>4, <1>5, PcStep, RowStep DEF Waited, TypeOK
<1> QED  BY <1>3, <1>5

\* A wait that ends without an error ends confirmed, and stays so.
LEMMA WaitsStep ==
  ASSUME TypeOK, NotFetched, Waits, [Next]_vars
  PROVE  Waits'
<1> SUFFICES ASSUME NEW h \in Handlers
             PROVE  /\ pc'[h] = "confirmed" => h[1].hash \notin Reverted /\ Confirmed(h[1])'
                    /\ pc'[h] = "threw" => h[1].hash \in Reverted \/ h \in faulted'
  BY DEF Waits
<1>1. faulted \subseteq faulted' /\ (Confirmed(h[1]) => Confirmed(h[1])')
  BY OneWay, ConfirmedStep, HandlerShape
<1>2. /\ pc[h] = "confirmed" => h[1].hash \notin Reverted /\ Confirmed(h[1])
      /\ pc[h] = "threw" => h[1].hash \in Reverted \/ h \in faulted
  BY DEF Waits
<1> QED  BY <1>1, <1>2, PcStep DEF Waited

\* A handler ends when it has refreshed the balance or marked the rows as failed,
\* or is lost for a reason that is on record.
LEMMA EndsStep ==
  ASSUME TypeOK, NotFetched, Rows, Waits, Ends, [Next]_vars
  PROVE  Ends'
<1> SUFFICES ASSUME NEW h \in Handlers
             PROVE  /\ pc'[h] = "done" =>
                         h \in refreshed' \cup faulted' \/ h[1].hash \in Reverted
                    /\ pc'[h] = "lost" =>
                         \/ row'[h] = "none"
                         \/ h \in faulted' \/ h[1] \in cut' \/ h[1].token \in Tokens \ listed'
  BY DEF Ends
<1>1. /\ refreshed \subseteq refreshed' /\ faulted \subseteq faulted'
      /\ cut \subseteq cut' /\ listed' \subseteq listed
  BY OneWay
<1>2. /\ pc[h] = "done" => h \in refreshed \cup faulted \/ h[1].hash \in Reverted
      /\ pc[h] = "lost" =>
           row[h] = "none" \/ h \in faulted \/ h[1] \in cut \/ h[1].token \in Tokens \ listed
      /\ pc[h] = "threw" => h[1].hash \in Reverted \/ h \in faulted
      /\ pc[h] \in {"none", "fetch"} => row[h] = "none"
  BY DEF Ends, Waits, Rows
<1>3. h[1].token \in Tokens \cup {Native}
  BY HandlerShape
<1>4. CASE pc'[h] = "done"
  BY <1>1, <1>2, <1>4, PcStep DEF Waited
<1>5. CASE pc'[h] = "lost"
  <2>1. row'[h] # "none" => row[h] # "none"
    BY <1>5, RowStep
  <2>2. pc'[h] = pc[h] \/ h \in faulted' \/ CreateRefused(h) \/ h[1] \in cut'
        \/ h[1].token \notin listed \cup {Native}
    BY <1>5, PcStep DEF Waited
  <2>3. CreateRefused(h) => row[h] = "none"
    BY <1>2 DEF CreateRefused
  <2> QED  BY <1>1, <1>2, <1>3, <1>5, <2>1, <2>2, <2>3
<1> QED  BY <1>4, <1>5

\* A step that settles a row settles every row of its hash that there is.
LEMMA AlikeStep ==
  ASSUME TypeOK, Alike, [Next]_vars
  PROVE  Alike'
<1> SUFFICES ASSUME NEW g \in Handlers, NEW h \in Handlers, g[1].hash = h[1].hash,
                    row'[g] \in {"success", "failed"}, row'[h] \in {"success", "failed"}
             PROVE  row'[g] = row'[h]
  BY DEF Alike
<1>1. ASSUME NEW x \in Handlers, NEW y \in Handlers, NEW z \in Handlers, NEW status,
             Settle(z[1].hash, status),
             x[1].hash = z[1].hash, y[1].hash = z[1].hash,
             row'[x] \in {"success", "failed"}, row'[y] \in {"success", "failed"}
      PROVE  row'[x] = row'[y]
  BY <1>1 DEF Settle, TypeOK
<1>2. ASSUME NEW z \in Handlers, z[1].hash = g[1].hash, MarkSuccess(z) \/ MarkFailed(z)
      PROVE  row'[g] = row'[h]
  <2>1. \E status : Settle(z[1].hash, status)
    BY <1>2 DEF MarkSuccess, MarkFailed
  <2> QED  BY <1>1, <1>2, <2>1
<1>3. CASE row'[g] = row[g] /\ row'[h] = row[h]
  BY <1>3 DEF Alike
<1> QED  BY <1>2, <1>3, RowStep

\* Only a handler whose wait ended confirmed marks a success, and whichever row it
\* marks is of the transaction it waited for.
LEMMA SuccessIsConfirmedStep ==
  ASSUME TypeOK, Waits, SuccessIsConfirmed, [Next]_vars
  PROVE  SuccessIsConfirmed'
<1> SUFFICES ASSUME NEW h \in Handlers, row'[h] = "success"
             PROVE  h[1].hash \notin Reverted /\ Confirmed(h[1])'
  BY DEF SuccessIsConfirmed
<1>1. Confirmed(h[1]) => Confirmed(h[1])'
  BY ConfirmedStep, HandlerShape
<1>2. CASE row[h] = "success"
  BY <1>1, <1>2 DEF SuccessIsConfirmed
<1>3. ASSUME NEW g \in Handlers, g[1].hash = h[1].hash, MarkSuccess(g)
      PROVE  h[1].hash \notin Reverted /\ Confirmed(h[1])
  BY <1>3 DEF MarkSuccess, Waits, Confirmed
<1>4. CASE row[h] # "success"
  <2>1. \E g \in Handlers : g[1].hash = h[1].hash /\ MarkSuccess(g)
    BY <1>4, RowStep
  <2> QED  BY <1>1, <1>3, <2>1
<1> QED  BY <1>2, <1>4

\* Only a handler whose wait threw marks a failure.
LEMMA FailureHasACauseStep ==
  ASSUME TypeOK, Waits, FailureHasACause, [Next]_vars
  PROVE  FailureHasACause'
<1> SUFFICES ASSUME NEW h \in Handlers, row'[h] = "failed"
             PROVE  h[1].hash \in Reverted \/ \E g \in faulted' : g[1].hash = h[1].hash
  BY DEF FailureHasACause
<1>1. faulted \subseteq faulted'
  BY OneWay
<1>2. CASE row[h] = "failed"
  BY <1>1, <1>2 DEF FailureHasACause
<1>3. CASE row[h] # "failed"
  <2>1. PICK g \in Handlers : g[1].hash = h[1].hash /\ MarkFailed(g)
    BY <1>3, RowStep
  <2>2. g[1].hash \in Reverted \/ g \in faulted
    BY <2>1 DEF MarkFailed, Waits
  <2> QED  BY <1>1, <2>1, <2>2
<1> QED  BY <1>2, <1>3

-----------------------------------------------------------------------------
(* The theorems. *)

\* At first the process is up and the chain is empty.
LEMMA InitIInv ==
  ASSUME Init
  PROVE  IInv
<1> USE DEF Init
<1>1. TypeOK
  BY BoundsAssumption, AddressesAssumption DEF TypeOK
<1>2. Announced /\ NotFetched
  BY HandlerShape DEF Announced, NotFetched
<1>3. Rows /\ Waits /\ Ends /\ Alike
  BY DEF Rows, Waits, Ends, Alike
<1>4. SuccessIsConfirmed /\ FailureHasACause
  BY DEF SuccessIsConfirmed, FailureHasACause
<1> QED  BY <1>1, <1>2, <1>3, <1>4 DEF IInv

\* The inductive invariant: what handlers of one hash wait for, mark and leave
\* behind stands with the chain, through reorganisations, faults of the node
\* and deaths of the process.
THEOREM Invariance == Spec => []IInv
<1>1. Init => IInv
  BY InitIInv
<1>2. IInv /\ [Next]_vars => IInv'
  <2> SUFFICES ASSUME IInv, [Next]_vars PROVE IInv'
    OBVIOUS
  <2>1. TypeOK' /\ Announced' /\ NotFetched'
    BY TypeOKStep, AnnouncedStep, NotFetchedStep DEF IInv
  <2>2. Rows' /\ Waits' /\ Ends' /\ Alike'
    BY RowsStep, WaitsStep, EndsStep, AlikeStep DEF IInv
  <2>3. SuccessIsConfirmed' /\ FailureHasACause'
    BY SuccessIsConfirmedStep, FailureHasACauseStep DEF IInv
  <2> QED  BY <2>1, <2>2, <2>3 DEF IInv
<1> QED  BY <1>1, <1>2, PTL DEF Spec

\* Handlers, rows and the chain keep their types.
THEOREM TypeCorrect == Spec => []TypeOK
BY Invariance, PTL DEF IInv

\* A row that says success is of a transaction that was executed and is as deep
\* as the handler waited for, whatever forks the chain takes afterwards.
THEOREM SuccessConfirmed == Spec => []SuccessIsConfirmed
BY Invariance, PTL DEF IInv

\* A row that says failed has a reverted transaction or a fault of the node
\* behind it.
THEOREM FailureCaused == Spec => []FailureHasACause
BY Invariance, PTL DEF IInv

\* The rows of a transaction that no handler is at work on agree, and none of
\* them is pending, but for those a crash cut.
THEOREM RowsAgree == Spec => []RowsOfAHashAgree
<1>1. IInv => RowsOfAHashAgree
  <2> SUFFICES ASSUME IInv, NEW g \in Handlers, NEW h \in Handlers,
                      g[1].hash = h[1].hash, AtRest(h[1].hash),
                      \A i \in cut : i.hash # h[1].hash,
                      {row[g], row[h]} \cap {"none", "gone"} = {}
               PROVE  row[g] = row[h] /\ row[h] # "pending"
    BY DEF RowsOfAHashAgree
  <2>1. pc[g] \notin InFlight /\ pc[h] \notin InFlight /\ g[1] \notin cut /\ h[1] \notin cut
    BY DEF AtRest
  <2>2. row[g] # "pending" /\ row[h] # "pending"
    BY <2>1 DEF IInv, Rows, InFlight
  <2>3. {row[g], row[h]} \subseteq {"success", "failed"}
    BY <2>2 DEF IInv, TypeOK
  <2> QED  BY <2>2, <2>3 DEF IInv, Alike
<1> QED  BY <1>1, Invariance, PTL

\* A success whose handler has ended left the wallet's balance refreshed, or has
\* the reason why not on record.
THEOREM SuccessRefreshed == Spec => []SuccessRefreshes
<1>1. IInv => SuccessRefreshes
  <2> SUFFICES ASSUME IInv, NEW h \in Handlers, row[h] = "success", pc[h] \in Settled
               PROVE  h \in refreshed \cup faulted \/ h[1] \in cut
                      \/ h[1].token \in Tokens \ listed
    BY DEF SuccessRefreshes
  <2>1. h[1].hash \notin Reverted
    BY DEF IInv, SuccessIsConfirmed
  <2> QED  BY <2>1 DEF IInv, Settled, Rows, Ends
<1> QED  BY <1>1, Invariance, PTL
=============================================================================
