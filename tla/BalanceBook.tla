----------------------------- MODULE BalanceBook -----------------------------
(***************************************************************************)
(* The `balance` table and the two writers of it in wallet-service:         *)
(* WalletsService.updateBalances, which a client asks for, and the block    *)
(* listener after a transfer was confirmed.  Both read a balance from the   *)
(* chain, look for the wallet's row of that currency, and update that row   *)
(* or create one: three awaits, no transaction, and no unique key on        *)
(* (walletId, networkId, currency).                                        *)
(*                                                                         *)
(* A currency here is the native one of a network or a token contract on    *)
(* it.  A row names it by the network and its symbol (symbolOf), which two  *)
(* currencies may share: then they share the row.                          *)
(*                                                                         *)
(* The amounts of a currency are numbered, so that a larger one is a later  *)
(* balance.  The provider of a network is one object for all tasks; for     *)
(* 250 ms it answers a request with what it answered the same one before    *)
(* (cacheTimeout of ethers).  How long that is in steps is left open.       *)
(***************************************************************************)
EXTENDS Naturals, FiniteSets

CONSTANTS
  Wallets,     \* wallets there are at first
  Currencies,  \* what updateBalances goes through: native currencies and tokens
  Symbols,     \* pairs of a network and a symbol
  Tasks,       \* slots: how many writers are in flight at most
  MaxAmount    \* bound: amounts that a currency goes through

ASSUME BoundsAssumption == MaxAmount \in Nat /\ IsFiniteSet(Tasks)

VARIABLES
  wallet,   \* rows of table wallet
  balance,  \* rows of table balance
  lastId,   \* the id sequence of table balance
  chain,    \* chain[w][c]: the balance on the chain
  symbolOf, \* symbolOf[c]: by what rows name currency c
  kept,     \* kept[w][c]: the answer that the provider still gives, if any
  task,     \* the writers in flight
  shared    \* history: tasks that overlapped another one on the same wallet

vars == <<wallet, balance, lastId, chain, symbolOf, kept, task, shared>>

\* of is history: the currency whose amount it is.
Row(id, w, c, a) ==
  [id |-> id, walletId |-> w, currency |-> symbolOf[c], of |-> c, amount |-> a]

RowsOf(w, s) == {b \in balance : b.walletId = w /\ b.currency = s}

NoAnswer == 0

\* What the provider answers when asked for a balance.
Answer(w, c) == IF kept[w][c] = NoAnswer THEN chain[w][c] ELSE kept[w][c]

(* A task updates wallet w in the currencies of todo, one after the other.   *)
(* all and since are history: the currencies it started with, and what the   *)
(* provider would have answered at that time.                               *)
Idle == [pc |-> "idle"]
Busy == [pc : {"read", "find", "write"}, w : Wallets, todo : SUBSET Currencies,
         c : Currencies, amount : Nat, row : Nat,
         all : SUBSET Currencies, since : [Currencies -> Nat]]

NoRow == 0

TypeOK ==
  /\ wallet \subseteq Wallets
  /\ lastId \in Nat
  /\ balance \subseteq [id : 1..lastId, walletId : Wallets, currency : Symbols,
                       of : Currencies, amount : Nat]
  /\ chain \in [Wallets -> [Currencies -> Nat \ {NoAnswer}]]
  /\ symbolOf \in [Currencies -> Symbols]
  /\ kept \in [Wallets -> [Currencies -> Nat]]
  /\ task \in [Tasks -> Busy \cup {Idle}]
  /\ shared \subseteq Tasks

Init ==
  /\ wallet = Wallets
  /\ balance = {}
  /\ lastId = 0
  /\ symbolOf \in [Currencies -> Symbols]  \* whatever the rows of the tokens say
  /\ chain = [w \in Wallets |-> [c \in Currencies |-> 1]]
  /\ kept = [w \in Wallets |-> [c \in Currencies |-> NoAnswer]]
  /\ task = [t \in Tasks |-> Idle]
  /\ shared = {}

-----------------------------------------------------------------------------
Working(w) == {t \in Tasks : task[t] # Idle /\ task[t].w = w}

\* History: what the provider gives out for the currencies a task begins with.
Since(w, cs) == [c \in Currencies |-> IF c \in cs THEN Answer(w, c) ELSE NoAnswer]

\* A task begins; it and the others at work on the wallet overlap.
Begin(t, w, cs) ==
  /\ task[t] = Idle
  /\ \E c \in cs :
       task' = [task EXCEPT ![t] = [pc |-> "read", w |-> w, todo |-> cs, c |-> c,
                                    amount |-> 0, row |-> NoRow,
                                    all |-> cs, since |-> Since(w, cs)]]
  /\ shared' = IF Working(w) = {} THEN shared \ {t} ELSE shared \cup Working(w) \cup {t}
  /\ UNCHANGED <<wallet, balance, lastId, chain, symbolOf, kept>>

\* updateBalances finds the wallet and goes through every network and, in it,
\* every token of the network.
UpdateBalances(t, w) == w \in wallet /\ Begin(t, w, Currencies)

\* Mutant: the listener reads the balance before it waits for the confirmations.
Confirmed_ReadsFirst(t, w, c) ==
  /\ task[t] = Idle
  /\ \E earlier \in 1..chain[w][c] :
       task' = [task EXCEPT ![t] = [pc |-> "find", w |-> w, todo |-> {c}, c |-> c,
                                    amount |-> earlier, row |-> NoRow,
                                    all |-> {c}, since |-> Since(w, {c})]]
  /\ shared' = IF Working(w) = {} THEN shared \ {t} ELSE shared \cup Working(w) \cup {t}
  /\ UNCHANGED <<wallet, balance, lastId, chain, symbolOf, kept>>

\* handleTransaction or handleTokenTransfer, once txProcessing has returned
\* true.  The map may name a wallet that is no longer in the table.
Confirmed(t, w, c) == Begin(t, w, {c})

\* getBalance or balanceOf: the provider asks the node, or repeats itself.
ReadChain(t) ==
  /\ task[t].pc = "read"
  /\ LET answer == Answer(task[t].w, task[t].c) IN
       /\ task' = [task EXCEPT ![t].pc = "find", ![t].amount = answer]
       /\ kept' = [kept EXCEPT ![task[t].w][task[t].c] = answer]
  /\ UNCHANGED <<wallet, balance, lastId, chain, symbolOf, shared>>

\* Mutant: the lookup never matches.
FindRow_NoMatch(t) ==
  /\ task[t].pc = "find"
  /\ \E id \in {NoRow} :
       task' = [task EXCEPT ![t].pc = "write", ![t].row = id]
  /\ UNCHANGED <<wallet, balance, lastId, chain, symbolOf, kept, shared>>

\* findFirst names no order: any row of the wallet and the symbol.
FindRow(t) ==
  /\ task[t].pc = "find"
  /\ \E id \in IF RowsOf(task[t].w, symbolOf[task[t].c]) = {} THEN {NoRow}
               ELSE {b.id : b \in RowsOf(task[t].w, symbolOf[task[t].c])} :
       task' = [task EXCEPT ![t].pc = "write", ![t].row = id]
  /\ UNCHANGED <<wallet, balance, lastId, chain, symbolOf, kept, shared>>

\* Mutant: the loop returns after its first currency.
Proceed_First(t) == task' = [task EXCEPT ![t] = Idle]

\* Mutant: the loop ends one element too late.
Proceed_PastTheEnd(t) ==
  LET rest == task[t].todo \ {task[t].c} IN
  IF task[t].todo = {} THEN task' = [task EXCEPT ![t] = Idle]
  ELSE \E c \in IF rest = {} THEN {NoRow} ELSE rest :
         task' = [task EXCEPT ![t].pc = "read", ![t].todo = rest, ![t].c = c]

\* The loop goes on to another currency, whose amount and row it does not know yet,
\* or ends.
Proceed(t) ==
  LET rest == task[t].todo \ {task[t].c} IN
  IF rest = {} THEN task' = [task EXCEPT ![t] = Idle]
  ELSE \E c \in rest :
         task' = [task EXCEPT ![t].pc = "read", ![t].todo = rest, ![t].c = c,
                                 ![t].amount = 0, ![t].row = NoRow]

\* balance.update of the row that was found
UpdateRow(t) ==
  /\ task[t].pc = "write"
  /\ \E b \in balance :
       /\ b.id = task[t].row
       /\ balance' = (balance \ {b}) \cup {[b EXCEPT !.of = task[t].c, !.amount = task[t].amount]}
  /\ Proceed(t)
  /\ UNCHANGED <<wallet, lastId, chain, symbolOf, kept, shared>>

\* balance.create, when no row was found
CreateRow(t) ==
  /\ task[t].pc = "write"
  /\ task[t].row = NoRow
  /\ task[t].w \in wallet
  /\ lastId' = lastId + 1
  /\ balance' = balance \cup {Row(lastId + 1, task[t].w, task[t].c, task[t].amount)}
  /\ Proceed(t)
  /\ UNCHANGED <<wallet, chain, symbolOf, kept, shared>>

\* The write throws, for the row that was found is gone or the wallet is; or an
\* await before it does, for the node or the database failed.  The task ends
\* where it is, the rows it has written stay as they are.
Fail(t) ==
  /\ task[t] # Idle
  /\ task' = [task EXCEPT ![t] = Idle]
  /\ UNCHANGED <<wallet, balance, lastId, chain, symbolOf, kept, shared>>

-----------------------------------------------------------------------------
\* removeWallet, or the deletion of the user: the balances go with the wallet.
RemoveWallet(w) ==
  /\ w \in wallet
  /\ wallet' = wallet \ {w}
  /\ balance' = {b \in balance : b.walletId # w}
  /\ UNCHANGED <<lastId, chain, symbolOf, kept, task, shared>>

\* A transaction changes a balance on the chain.
ChainMoves(w, c) ==
  /\ chain[w][c] < MaxAmount
  /\ chain' = [chain EXCEPT ![w][c] = @ + 1]
  /\ UNCHANGED <<wallet, balance, lastId, symbolOf, kept, task, shared>>

\* The time is over for which the provider repeats an answer.
AnswerExpires(w, c) ==
  /\ kept[w][c] # NoAnswer
  /\ kept' = [kept EXCEPT ![w][c] = NoAnswer]
  /\ UNCHANGED <<wallet, balance, lastId, chain, symbolOf, task, shared>>

\* wallet-service dies with the tasks and the providers in it.
Crash ==
  /\ task' = [t \in Tasks |-> Idle]
  /\ kept' = [w \in Wallets |-> [c \in Currencies |-> NoAnswer]]
  /\ UNCHANGED <<wallet, balance, lastId, chain, symbolOf, shared>>

-----------------------------------------------------------------------------
Next ==
  \/ \E t \in Tasks, w \in Wallets : UpdateBalances(t, w)
  \/ \E t \in Tasks, w \in Wallets, c \in Currencies : Confirmed(t, w, c)
  \/ \E t \in Tasks : \/ ReadChain(t)
                      \/ FindRow(t)
                      \/ UpdateRow(t)
                      \/ CreateRow(t)
                      \/ Fail(t)
  \/ \E w \in Wallets : RemoveWallet(w)
  \/ \E w \in Wallets, c \in Currencies : ChainMoves(w, c) \/ AnswerExpires(w, c)
  \/ Crash

Spec == Init /\ [][Next]_vars

-----------------------------------------------------------------------------
(* Properties *)

\* One wallet and symbol has no more rows than tasks were in flight at once: a
\* task that finds no row may create one only while others that found none do, and
\* with one task at a time the row is unique.
RowsAreFew ==
  \A w \in Wallets, s \in Symbols : Cardinality(RowsOf(w, s)) <= Cardinality(Tasks)

\* A row's amount goes back to an older balance of the same currency only by a task
\* that overlapped another one on the same wallet: an answer that the provider
\* repeats is no older than what an earlier task wrote.
BackOnlyByOverlap ==
  [][\A b \in balance, n \in balance' :
       b.id = n.id /\ b.of = n.of /\ n.amount < b.amount =>
         \E t \in shared : task[t] # Idle /\ task[t].row = b.id]_vars

\* When a task ends with its last write and nothing overlapped it, the symbol of
\* each currency it was to update has a row that the task kept fresh: its amount is
\* of a currency of that symbol, and no older than what the provider was giving out
\* for that currency when the task started.  This is what updateBalances vouches for
\* when it replies success; of currencies that share a symbol it keeps only one.
SuccessIsFresh ==
  [][\A t \in Tasks \ shared :
       (UpdateRow(t) \/ CreateRow(t)) /\ task'[t] = Idle =>
         \A c \in task[t].all :
           \E n \in balance' : /\ n.walletId = task[t].w
                               /\ n.currency = symbolOf[c]
                               /\ n.of \in task[t].all
                               /\ n.amount >= task[t].since[n.of]]_vars
=============================================================================
