-------------------------- MODULE BalanceBook_proofs --------------------------
(***************************************************************************)
(* Proofs about BalanceBook: how many rows a wallet and a currency can have, *)
(* how an amount can go back, and what a success of updateBalances vouches   *)
(* for, for every set of wallets, currencies and tasks.                     *)
(*                                                                         *)
(* A task that is not in shared is alone at work on its wallet (Alone), so   *)
(* that no other writes between what it reads and what it writes.           *)
(***************************************************************************)
EXTENDS BalanceBook, FiniteSetTheorems, TLAPS

IsBusy(t) == task[t].pc # "idle"
HasRead(t) == task[t].pc \in {"find", "write"}

\* The id of a row is its own, and the row's wallet is there.
Rows ==
  /\ \A b, d \in balance : b.id = d.id => b = d
  /\ \A b \in balance : b.walletId \in wallet
  /\ IsFiniteSet(balance)

\* A task that is to write to a row found it under its wallet and its symbol.
Found ==
  \A t \in Tasks :
    task[t].pc = "write" =>
      /\ task[t].row <= lastId
      /\ \A b \in balance :
           b.id = task[t].row => b.walletId = task[t].w /\ b.currency = symbolOf[task[t].c]

\* The loop is at one of the currencies it has still to do.
Loop ==
  \A t \in Tasks : IsBusy(t) => task[t].c \in task[t].todo /\ task[t].todo \subseteq task[t].all

\* Two tasks at work on one wallet are on record.
Alone ==
  \A t, u \in Tasks :
    t # u /\ IsBusy(t) /\ IsBusy(u) /\ task[t].w = task[u].w => t \in shared

\* What the provider repeats is not ahead of the chain.
Lags == \A w \in Wallets, c \in Currencies : kept[w][c] <= chain[w][c]

\* What is in the table, in hand and on record is not ahead of what the provider
\* gives out.
Behind ==
  /\ \A b \in balance : b.amount <= Answer(b.walletId, b.of)
  /\ \A t \in Tasks, w \in Wallets, c \in Currencies :
       IsBusy(t) /\ task[t].w = w => task[t].since[c] <= Answer(w, c)
  /\ \A t \in Tasks, w \in Wallets, c \in Currencies :
       HasRead(t) /\ task[t].w = w /\ task[t].c = c => task[t].amount <= Answer(w, c)

\* What a task has read is not older than its start; if it is alone, no row has
\* a later balance of the currency.
Latest ==
  \A t \in Tasks :
    HasRead(t) =>
      /\ task[t].since[task[t].c] <= task[t].amount
      /\ t \notin shared =>
           \A b \in balance :
             b.walletId = task[t].w /\ b.of = task[t].c => b.amount <= task[t].amount

\* A row of the currency's symbol that the task kept fresh.
Fresh(t, c) ==
  \E n \in balance : /\ n.walletId = task[t].w
                     /\ n.currency = symbolOf[c]
                     /\ n.of \in task[t].all
                     /\ n.amount >= task[t].since[n.of]

\* A task that is alone has left a fresh row of each currency it is done with.
Done ==
  \A t \in Tasks :
    IsBusy(t) /\ t \notin shared /\ task[t].w \in wallet =>
      \A c \in task[t].all \ task[t].todo : Fresh(t, c)

\* Tasks that found no row and are about to create one.
Blind(w, s) ==
  {t \in Tasks : /\ task[t].pc = "write" /\ task[t].row = NoRow
                 /\ task[t].w = w /\ symbolOf[task[t].c] = s}

\* The rows there are and those that may come.
Few ==
  \A w \in Wallets, s \in Symbols :
    Cardinality(RowsOf(w, s)) + Cardinality(Blind(w, s)) <= Cardinality(Tasks)

IInv ==
  TypeOK /\ Rows /\ Found /\ Loop /\ Alone /\ Lags /\ Behind /\ Latest /\ Done /\ Few

-----------------------------------------------------------------------------
(* What one step does to a task *)

Writes(t) == UpdateRow(t) \/ CreateRow(t)

LEMMA ProceedStep ==
  ASSUME TypeOK, Loop, NEW t \in Tasks, IsBusy(t), Proceed(t)
  PROVE  /\ \A u \in Tasks : u # t => task'[u] = task[u]
         /\ \/ task'[t] = Idle
            \/ /\ task'[t].pc = "read"
               /\ task'[t].todo = task[t].todo \ {task[t].c}
               /\ task'[t].c \in task'[t].todo
               /\ task'[t] \in Busy
               /\ task'[t].w = task[t].w
               /\ task'[t].all = task[t].all
               /\ task'[t].since = task[t].since
         /\ task'[t] = Idle <=> task[t].todo = {task[t].c}
<1> USE DEF TypeOK
<1>1. task[t] \in Busy
  BY DEF IsBusy, Idle, Busy
<1> DEFINE rest == task[t].todo \ {task[t].c}
<1>2. rest \in SUBSET Currencies
  BY <1>1 DEF Busy
<1>3. task[t].c \in task[t].todo
  BY DEF Loop
<1> HIDE DEF rest
<1>4. CASE rest = {}
  <2>1. task' = [task EXCEPT ![t] = Idle]
    BY <1>4 DEF Proceed, rest
  <2> QED  BY <1>3, <1>4, <2>1 DEF rest
<1>5. CASE rest # {}
  <2>1. PICK c \in rest :
          task' = [task EXCEPT ![t].pc = "read", ![t].todo = rest, ![t].c = c,
                               ![t].amount = 0, ![t].row = NoRow]
    BY <1>5 DEF Proceed, rest
  <2>2. task'[t] = [task[t] EXCEPT !.pc = "read", !.todo = rest, !.c = c,
                                   !.amount = 0, !.row = NoRow]
    BY <2>1
  <2>3. task'[t] \in Busy
    BY <1>1, <1>2, <2>1, <2>2 DEF Busy, NoRow
  <2>4. task'[t].w = task[t].w /\ task'[t].all = task[t].all /\ task'[t].since = task[t].since
    BY <1>1, <2>2 DEF Busy
  <2>5. task'[t].pc = "read" /\ task'[t].todo = rest /\ task'[t].c = c
    BY <1>1, <2>2 DEF Busy
  <2>6. task'[t] # Idle
    BY <2>5 DEF Idle
  <2>7. rest = {} <=> task[t].todo = {task[t].c}
    BY <1>3 DEF rest
  <2>8. \A u \in Tasks : u # t => task'[u] = task[u]
    BY <2>1
  <2> QED  BY <1>5, <2>3, <2>4, <2>5, <2>6, <2>7, <2>8 DEF rest
<1> QED  BY <1>4, <1>5

LEMMA AnswerType ==
  ASSUME TypeOK, NEW w \in Wallets, NEW c \in Currencies
  PROVE  Answer(w, c) \in Nat /\ Answer(w, c) # NoAnswer
BY DEF TypeOK, Answer, NoAnswer

LEMMA SinceType ==
  ASSUME TypeOK, NEW w \in Wallets, NEW cs
  PROVE  /\ Since(w, cs) \in [Currencies -> Nat]
         /\ \A c \in Currencies : Since(w, cs)[c] <= Answer(w, c)
<1>1. \A c \in Currencies : Answer(w, c) \in Nat
  BY AnswerType
<1> QED  BY <1>1 DEF Since, NoAnswer

\* A task that begins: where it stands, and that it is on record unless it is alone.
LEMMA BeginStep ==
  ASSUME TypeOK, NEW t \in Tasks, NEW w \in Wallets, NEW cs \in SUBSET Currencies,
         Begin(t, w, cs)
  PROVE  /\ \A u \in Tasks : u # t => task'[u] = task[u]
         /\ ~IsBusy(t)
         /\ task'[t] \in Busy
         /\ task'[t].pc = "read" /\ task'[t].w = w
         /\ task'[t].todo = cs /\ task'[t].all = cs /\ task'[t].c \in cs
         /\ task'[t].since = Since(w, cs)
         /\ shared \ {t} \subseteq shared' /\ shared' \subseteq Tasks
         /\ \A u \in Tasks : u # t /\ IsBusy(u) /\ task[u].w = w => {t, u} \subseteq shared'
         /\ UNCHANGED <<wallet, balance, lastId, chain, symbolOf, kept>>
<1> PICK c \in cs :
      task' = [task EXCEPT ![t] = [pc |-> "read", w |-> w, todo |-> cs, c |-> c,
                                   amount |-> 0, row |-> NoRow, all |-> cs,
                                   since |-> Since(w, cs)]]
  BY DEF Begin
<1>1. task'[t] = [pc |-> "read", w |-> w, todo |-> cs, c |-> c, amount |-> 0, row |-> NoRow,
                  all |-> cs, since |-> Since(w, cs)]
  BY DEF TypeOK
<1>2. task'[t] \in Busy
  BY <1>1, SinceType DEF Busy, NoRow
<1>3. \A u \in Tasks : u # t => task'[u] = task[u]
  BY DEF TypeOK
<1>4. Working(w) \subseteq Tasks /\ \A u \in Tasks : IsBusy(u) /\ task[u].w = w => u \in Working(w)
  BY DEF Working, IsBusy, Idle
<1>5. shared' = IF Working(w) = {} THEN shared \ {t} ELSE shared \cup Working(w) \cup {t}
  BY DEF Begin
<1>6. shared \ {t} \subseteq shared' /\ shared' \subseteq Tasks
  BY <1>4, <1>5 DEF TypeOK
<1>7. \A u \in Tasks : u # t /\ IsBusy(u) /\ task[u].w = w => {t, u} \subseteq shared'
  BY <1>4, <1>5
<1>8. ~IsBusy(t)
  BY DEF Begin, IsBusy, Idle
<1>9. UNCHANGED <<wallet, balance, lastId, chain, symbolOf, kept>>
  BY DEF Begin
<1> QED  BY <1>1, <1>2, <1>3, <1>6, <1>7, <1>8, <1>9

LEMMA ReadStep ==
  ASSUME TypeOK, NEW t \in Tasks, ReadChain(t)
  PROVE  /\ \A u \in Tasks : u # t => task'[u] = task[u]
         /\ task[t] \in Busy /\ task[t].pc = "read"
         /\ task'[t] \in Busy /\ task'[t].pc = "find"
         /\ task'[t].amount = Answer(task[t].w, task[t].c)
         /\ task'[t].w = task[t].w /\ task'[t].c = task[t].c
         /\ task'[t].todo = task[t].todo
         /\ task'[t].all = task[t].all /\ task'[t].since = task[t].since
         /\ kept' \in [Wallets -> [Currencies -> Nat]]
         /\ \A w \in Wallets, c \in Currencies :
              \/ kept'[w][c] = kept[w][c]
              \/ kept'[w][c] = Answer(w, c)
         /\ UNCHANGED <<wallet, balance, lastId, chain, symbolOf, shared>>
<1>1. task[t] \in Busy /\ task[t].pc = "read"
  BY DEF ReadChain, TypeOK, Idle
<1>2. PICK answer : /\ answer = Answer(task[t].w, task[t].c)
                    /\ task' = [task EXCEPT ![t].pc = "find", ![t].amount = answer]
                    /\ kept' = [kept EXCEPT ![task[t].w][task[t].c] = answer]
  BY DEF ReadChain
<1>3. task[t].w \in Wallets /\ task[t].c \in Currencies
  BY <1>1 DEF Busy
<1>4. answer \in Nat
  BY <1>2, <1>3, AnswerType
<1>5. task'[t] = [task[t] EXCEPT !.pc = "find", !.amount = answer]
  BY <1>2 DEF TypeOK
<1>6. task'[t] \in Busy
  BY <1>1, <1>4, <1>5 DEF Busy
<1>7. /\ task'[t].pc = "find" /\ task'[t].amount = answer
      /\ task'[t].w = task[t].w /\ task'[t].c = task[t].c
      /\ task'[t].todo = task[t].todo
      /\ task'[t].all = task[t].all /\ task'[t].since = task[t].since
  BY <1>1, <1>5 DEF Busy
<1>8. /\ kept' \in [Wallets -> [Currencies -> Nat]]
      /\ \A w \in Wallets, c \in Currencies :
           kept'[w][c] = IF w = task[t].w /\ c = task[t].c THEN answer ELSE kept[w][c]
  BY <1>2, <1>3, <1>4 DEF TypeOK
<1>9. \A u \in Tasks : u # t => task'[u] = task[u]
  BY <1>2 DEF TypeOK
<1>10. \A w \in Wallets, c \in Currencies :
         kept'[w][c] = kept[w][c] \/ kept'[w][c] = Answer(w, c)
  BY <1>2, <1>8
<1>11. UNCHANGED <<wallet, balance, lastId, chain, symbolOf, shared>>
  BY DEF ReadChain
<1> QED  BY <1>1, <1>2, <1>6, <1>7, <1>8, <1>9, <1>10, <1>11

LEMMA FindStep ==
  ASSUME TypeOK, NEW t \in Tasks, FindRow(t)
  PROVE  /\ \A u \in Tasks : u # t => task'[u] = task[u]
         /\ task[t] \in Busy /\ task[t].pc = "find"
         /\ task'[t] \in Busy /\ task'[t].pc = "write"
         /\ \/ RowsOf(task[t].w, symbolOf[task[t].c]) = {} /\ task'[t].row = NoRow
            \/ \E b \in RowsOf(task[t].w, symbolOf[task[t].c]) : task'[t].row = b.id
         /\ task'[t].amount = task[t].amount
         /\ task'[t].w = task[t].w /\ task'[t].c = task[t].c
         /\ task'[t].todo = task[t].todo
         /\ task'[t].all = task[t].all /\ task'[t].since = task[t].since
         /\ UNCHANGED <<wallet, balance, lastId, chain, symbolOf, kept, shared>>
<1>1. task[t] \in Busy /\ task[t].pc = "find"
  BY DEF FindRow, TypeOK, Idle
<1>2. PICK id : /\ \/ RowsOf(task[t].w, symbolOf[task[t].c]) = {} /\ id = NoRow
                   \/ \E b \in RowsOf(task[t].w, symbolOf[task[t].c]) : id = b.id
                /\ task' = [task EXCEPT ![t].pc = "write", ![t].row = id]
  BY DEF FindRow
<1>3. id \in Nat
  BY <1>2 DEF RowsOf, TypeOK, NoRow
<1>4. task'[t] = [task[t] EXCEPT !.pc = "write", !.row = id]
  BY <1>2 DEF TypeOK
<1>5. task'[t] \in Busy
  BY <1>1, <1>3, <1>4 DEF Busy
<1>6. /\ task'[t].pc = "write" /\ task'[t].row = id
      /\ task'[t].amount = task[t].amount
      /\ task'[t].w = task[t].w /\ task'[t].c = task[t].c
      /\ task'[t].todo = task[t].todo
      /\ task'[t].all = task[t].all /\ task'[t].since = task[t].since
  BY <1>1, <1>4 DEF Busy
<1>7. \A u \in Tasks : u # t => task'[u] = task[u]
  BY <1>2 DEF TypeOK
<1>8. \/ RowsOf(task[t].w, symbolOf[task[t].c]) = {} /\ task'[t].row = NoRow
      \/ \E b \in RowsOf(task[t].w, symbolOf[task[t].c]) : task'[t].row = b.id
  BY <1>2, <1>6
<1>9. UNCHANGED <<wallet, balance, lastId, chain, symbolOf, kept, shared>>
  BY DEF FindRow
<1> QED  BY <1>1, <1>5, <1>6, <1>7, <1>8, <1>9

\* A write changes the row that was found or adds one with a new id.
LEMMA WriteStep ==
  ASSUME TypeOK, Rows, Found, NEW t \in Tasks, Writes(t)
  PROVE  /\ task[t] \in Busy /\ task[t].pc = "write" /\ Proceed(t)
         /\ task[t].w \in wallet
         /\ UNCHANGED <<wallet, chain, symbolOf, kept, shared>>
         /\ lastId <= lastId' /\ lastId' \in Nat
         /\ \E n : /\ n \in balance' /\ n \in [id : 1..lastId', walletId : Wallets,
                                                currency : Symbols, of : Currencies,
                                                amount : Nat]
                   /\ n.walletId = task[t].w /\ n.currency = symbolOf[task[t].c]
                   /\ n.of = task[t].c /\ n.amount = task[t].amount
                   /\ \/ /\ task[t].row = NoRow /\ n.id = lastId + 1
                         /\ balance' = balance \cup {n} /\ lastId' = lastId + 1
                      \/ \E b \in balance :
                           /\ b.id = n.id /\ b.id = task[t].row /\ lastId' = lastId
                           /\ b.walletId = n.walletId /\ b.currency = n.currency
                           /\ balance' = (balance \ {b}) \cup {n}
<1>0. task[t].pc = "write" /\ Proceed(t)
  BY DEF Writes, UpdateRow, CreateRow
<1>1. task[t] \in Busy /\ task[t].pc = "write" /\ Proceed(t)
  BY <1>0 DEF TypeOK, Idle
<1>2. /\ task[t].w \in Wallets /\ task[t].c \in Currencies /\ task[t].amount \in Nat
      /\ symbolOf[task[t].c] \in Symbols
  BY <1>1 DEF Busy, TypeOK
<1>3. CASE UpdateRow(t)
  <2>1. PICK b \in balance : /\ b.id = task[t].row
                             /\ balance' = (balance \ {b}) \cup {[b EXCEPT !.of = task[t].c, !.amount = task[t].amount]}
    BY <1>3 DEF UpdateRow
  <2> DEFINE n == [b EXCEPT !.of = task[t].c, !.amount = task[t].amount]
  <2>2. b \in [id : 1..lastId, walletId : Wallets, currency : Symbols, of : Currencies,
                 amount : Nat]
    BY DEF TypeOK
  <2>3. /\ n \in [id : 1..lastId, walletId : Wallets, currency : Symbols, of : Currencies,
                 amount : Nat]
        /\ n.id = b.id /\ n.walletId = b.walletId /\ n.currency = b.currency
        /\ n.of = task[t].c /\ n.amount = task[t].amount
    BY <1>2, <2>2
  <2>4. b.walletId = task[t].w /\ b.currency = symbolOf[task[t].c]
    BY <1>1, <2>1 DEF Found
  <2>5. task[t].w \in wallet
    BY <2>4 DEF Rows
  <2>6. lastId' = lastId /\ UNCHANGED <<wallet, chain, symbolOf, kept, shared>> /\ lastId \in Nat
    BY <1>3 DEF UpdateRow, TypeOK
  <2> HIDE DEF n
  <2>7. balance' = (balance \ {b}) \cup {n}
    BY <2>1 DEF n
  <2> QED  BY <1>1, <2>1, <2>3, <2>4, <2>5, <2>6, <2>7
<1>4. CASE CreateRow(t)
  <2> DEFINE n == Row(lastId + 1, task[t].w, task[t].c, task[t].amount)
  <2>1. /\ task[t].row = NoRow /\ task[t].w \in wallet /\ lastId' = lastId + 1
        /\ balance' = balance \cup {n} /\ UNCHANGED <<wallet, chain, symbolOf, kept, shared>>
    BY <1>4 DEF CreateRow
  <2>2. lastId \in Nat
    BY DEF TypeOK
  <2>3. /\ n \in [id : 1..lastId', walletId : Wallets, currency : Symbols, of : Currencies,
                 amount : Nat]
        /\ n.id = lastId + 1 /\ n.walletId = task[t].w /\ n.currency = symbolOf[task[t].c]
        /\ n.of = task[t].c /\ n.amount = task[t].amount
    BY <1>2, <2>1, <2>2 DEF Row
  <2> HIDE DEF n
  <2> QED  BY <1>1, <2>1, <2>2, <2>3
<1> QED  BY <1>3, <1>4 DEF Writes

\* The steps in which no task goes on: tasks end, the chain moves, answers expire,
\* wallets go.
Quiet ==
  /\ \A t \in Tasks : task'[t] = task[t] \/ task'[t] = Idle
  /\ task' \in [Tasks -> Busy \cup {Idle}]
  /\ chain' \in [Wallets -> [Currencies -> Nat \ {NoAnswer}]]
  /\ kept' \in [Wallets -> [Currencies -> Nat]]
  /\ \A w \in Wallets, c \in Currencies :
       chain[w][c] <= chain'[w][c] /\ kept'[w][c] \in {kept[w][c], NoAnswer}
  /\ wallet' \subseteq wallet
  /\ balance' = {b \in balance : b.walletId \in wallet'}
  /\ UNCHANGED <<lastId, symbolOf, shared>>

LEMMA StepCases ==
  ASSUME TypeOK, Rows, [Next]_vars
  PROVE  \/ \E t \in Tasks, w \in Wallets, cs \in SUBSET Currencies : Begin(t, w, cs)
         \/ \E t \in Tasks : ReadChain(t) \/ FindRow(t) \/ Writes(t)
         \/ Quiet
<1>1. balance = {b \in balance : b.walletId \in wallet}
  BY DEF Rows
<1>2. \A w \in Wallets, c \in Currencies : chain[w][c] \in Nat \ {NoAnswer}
  BY DEF TypeOK
<1>3. ASSUME NEW w \in Wallets, NEW c \in Currencies, ChainMoves(w, c)
      PROVE  Quiet
  <2>1. /\ chain' \in [Wallets -> [Currencies -> Nat \ {NoAnswer}]]
        /\ \A v \in Wallets, d \in Currencies : chain[v][d] <= chain'[v][d]
    BY <1>2, <1>3 DEF ChainMoves, TypeOK, NoAnswer
  <2> QED  BY <1>1, <1>3, <2>1 DEF ChainMoves, Quiet, TypeOK
<1>4. ASSUME NEW w \in Wallets, RemoveWallet(w)
      PROVE  Quiet
  BY <1>1, <1>2, <1>4 DEF RemoveWallet, Quiet, TypeOK, Rows
<1>5. ASSUME NEW t \in Tasks, Fail(t)
      PROVE  Quiet
  BY <1>1, <1>2, <1>5 DEF Fail, Quiet, TypeOK
<1>6. CASE Crash
  <2>1. /\ kept' \in [Wallets -> [Currencies -> Nat]]
        /\ \A v \in Wallets, d \in Currencies : kept'[v][d] = NoAnswer
    BY <1>6 DEF Crash, NoAnswer
  <2> QED  BY <1>1, <1>2, <1>6, <2>1 DEF Crash, Quiet, TypeOK
<1>7. CASE UNCHANGED vars
  BY <1>1, <1>2, <1>7 DEF vars, Quiet, TypeOK
<1>8. ASSUME NEW w \in Wallets, NEW c \in Currencies, AnswerExpires(w, c)
      PROVE  Quiet
  <2>1. /\ kept' \in [Wallets -> [Currencies -> Nat]]
        /\ \A v \in Wallets, d \in Currencies : kept'[v][d] \in {kept[v][d], NoAnswer}
    BY <1>8 DEF AnswerExpires, TypeOK, NoAnswer
  <2> QED  BY <1>1, <1>2, <1>8, <2>1 DEF AnswerExpires, Quiet, TypeOK
<1> QED
  BY <1>3, <1>4, <1>5, <1>6, <1>7, <1>8 DEF Next, UpdateBalances, Confirmed, Writes

-----------------------------------------------------------------------------
(* The parts of the inductive invariant *)

LEMMA TypeStep ==
  ASSUME TypeOK, Rows, Found, Loop, [Next]_vars
  PROVE  TypeOK'
<1>1. ASSUME NEW t \in Tasks, NEW w \in Wallets, NEW cs \in SUBSET Currencies, Begin(t, w, cs)
      PROVE  TypeOK'
  BY <1>1, BeginStep DEF TypeOK, Begin
<1>2. ASSUME NEW t \in Tasks, ReadChain(t)
      PROVE  TypeOK'
  <2>1. \E answer : task' = [task EXCEPT ![t].pc = "find", ![t].amount = answer]
    BY <1>2 DEF ReadChain
  <2>2. task' = [u \in Tasks |-> task'[u]]
    BY <2>1 DEF TypeOK
  <2>3. \A u \in Tasks : task'[u] \in Busy \cup {Idle}
    BY <1>2, ReadStep DEF TypeOK
  <2>4. task' \in [Tasks -> Busy \cup {Idle}]
    BY <2>2, <2>3
  <2> QED  BY <1>2, <2>4, ReadStep DEF TypeOK
<1>3. ASSUME NEW t \in Tasks, FindRow(t)
      PROVE  TypeOK'
  <2>1. \E id : task' = [task EXCEPT ![t].pc = "write", ![t].row = id]
    BY <1>3 DEF FindRow
  <2>2. task' = [u \in Tasks |-> task'[u]]
    BY <2>1 DEF TypeOK
  <2>3. \A u \in Tasks : task'[u] \in Busy \cup {Idle}
    BY <1>3, FindStep DEF TypeOK
  <2>4. task' \in [Tasks -> Busy \cup {Idle}]
    BY <2>2, <2>3
  <2> QED  BY <1>3, <2>4 DEF TypeOK, FindRow
<1>4. ASSUME NEW t \in Tasks, Writes(t)
      PROVE  TypeOK'
  <2>1. Proceed(t) /\ IsBusy(t)
    BY <1>4, WriteStep DEF IsBusy
  <2>2. task' \in [Tasks -> Busy \cup {Idle}]
    <3>1. \/ task' = [task EXCEPT ![t] = Idle]
          \/ \E c : task' = [task EXCEPT ![t].pc = "read",
                                         ![t].todo = task[t].todo \ {task[t].c}, ![t].c = c,
                                         ![t].amount = 0, ![t].row = NoRow]
      BY <2>1 DEF Proceed
    <3>2. task' = [u \in Tasks |-> task'[u]]
      BY <3>1 DEF TypeOK
    <3>3. \A u \in Tasks : task'[u] \in Busy \cup {Idle}
      BY <2>1, ProceedStep DEF TypeOK
    <3> QED  BY <3>2, <3>3
  <2>3. /\ UNCHANGED <<wallet, chain, symbolOf, kept, shared>> /\ lastId' \in Nat
        /\ balance' \subseteq [id : 1..lastId', walletId : Wallets,
                               currency : Symbols, of : Currencies, amount : Nat]
    BY <1>4, WriteStep DEF TypeOK
  <2> QED  BY <2>2, <2>3 DEF TypeOK
<1>5. CASE Quiet
  BY <1>5 DEF Quiet, TypeOK
<1> QED  BY <1>1, <1>2, <1>3, <1>4, <1>5, StepCases

LEMMA RowsStep ==
  ASSUME TypeOK, Rows, Found, [Next]_vars
  PROVE  Rows'
<1>1. ASSUME NEW t \in Tasks, Writes(t)
      PROVE  Rows'
  <2>1. PICK n : /\ n \in balance' /\ n.walletId = task[t].w
                 /\ \/ n.id = lastId + 1 /\ balance' = balance \cup {n}
                    \/ \E b \in balance : b.id = n.id /\ balance' = (balance \ {b}) \cup {n}
    BY <1>1, WriteStep
  <2>2. \A b \in balance : b.id \in Nat /\ b.id <= lastId
    BY DEF TypeOK
  <2>3. lastId \in Nat /\ task[t].w \in wallet /\ wallet' = wallet
    BY <1>1, WriteStep DEF TypeOK
  <2>4. CASE n.id = lastId + 1 /\ balance' = balance \cup {n}
    BY <2>1, <2>2, <2>3, <2>4, FS_AddElement DEF Rows
  <2>5. ASSUME NEW b \in balance, b.id = n.id, balance' = (balance \ {b}) \cup {n}
        PROVE  Rows'
    <3>1. IsFiniteSet(balance')
      BY <2>5, FS_RemoveElement, FS_AddElement DEF Rows
    <3> QED  BY <2>1, <2>3, <2>5, <3>1 DEF Rows
  <2> QED  BY <2>1, <2>4, <2>5
<1>2. CASE Quiet
  <2>1. IsFiniteSet(balance')
    BY <1>2, FS_Subset DEF Quiet, Rows
  <2> QED  BY <1>2, <2>1 DEF Quiet, Rows
<1> QED  BY <1>1, <1>2, StepCases DEF Begin, ReadChain, FindRow, Rows

LEMMA FoundStep ==
  ASSUME TypeOK, Rows, Found, Loop, [Next]_vars
  PROVE  Found'
<1>1. \A t \in Tasks : task[t].pc = "write" => task[t].row \in Nat
  BY DEF TypeOK, Busy, Idle
<1>2. lastId \in Nat /\ \A b \in balance : b.id \in Nat /\ b.id > 0 /\ b.id <= lastId
  BY DEF TypeOK
<1>3. ASSUME NEW t \in Tasks, NEW w \in Wallets, NEW cs \in SUBSET Currencies, Begin(t, w, cs)
      PROVE  Found'
  BY <1>3, BeginStep DEF Found
<1>4. ASSUME NEW t \in Tasks, ReadChain(t)
      PROVE  Found'
  BY <1>4, ReadStep DEF Found
<1>5. ASSUME NEW t \in Tasks, FindRow(t)
      PROVE  Found'
  <2>1. /\ task'[t].row <= lastId
        /\ \A b \in balance :
             b.id = task'[t].row =>
               b.walletId = task'[t].w /\ b.currency = symbolOf[task'[t].c]
    BY <1>2, <1>5, FindStep DEF RowsOf, Rows, NoRow
  <2>2. \A u \in Tasks : u # t => task'[u] = task[u]
    BY <1>5, FindStep
  <2>3. lastId' = lastId /\ balance' = balance /\ symbolOf' = symbolOf
    BY <1>5, FindStep
  <2> QED  BY <2>1, <2>2, <2>3 DEF Found
<1>6. ASSUME NEW t \in Tasks, Writes(t)
      PROVE  Found'
  <2>1. PICK n : \/ n.id = lastId + 1 /\ balance' = balance \cup {n}
                 \/ \E b \in balance :
                      /\ b.id = n.id /\ b.walletId = n.walletId /\ b.currency = n.currency
                      /\ balance' = (balance \ {b}) \cup {n}
    BY <1>6, WriteStep
  <2>2. lastId <= lastId' /\ lastId' \in Nat
    BY <1>6, WriteStep
  <2>3. \A u \in Tasks : task'[u] = task[u] \/ task'[u].pc # "write"
    BY <1>6, WriteStep, ProceedStep DEF IsBusy, Idle
  <2>4. symbolOf' = symbolOf
    BY <1>6, WriteStep
  <2> QED  BY <1>1, <1>2, <2>1, <2>2, <2>3, <2>4 DEF Found
<1>7. CASE Quiet
  BY <1>7 DEF Quiet, Found, Idle
<1> QED  BY <1>3, <1>4, <1>5, <1>6, <1>7, StepCases

LEMMA LoopStep ==
  ASSUME TypeOK, Rows, Found, Loop, [Next]_vars
  PROVE  Loop'
<1>1. ASSUME NEW t \in Tasks, NEW w \in Wallets, NEW cs \in SUBSET Currencies, Begin(t, w, cs)
      PROVE  Loop'
  BY <1>1, BeginStep DEF Loop, IsBusy
<1>2. ASSUME NEW t \in Tasks, ReadChain(t)
      PROVE  Loop'
  BY <1>2, ReadStep DEF Loop, IsBusy
<1>3. ASSUME NEW t \in Tasks, FindRow(t)
      PROVE  Loop'
  BY <1>3, FindStep DEF Loop, IsBusy
<1>4. ASSUME NEW t \in Tasks, Writes(t)
      PROVE  Loop'
  BY <1>4, WriteStep, ProceedStep DEF Loop, IsBusy, Idle
<1>5. CASE Quiet
  BY <1>5 DEF Quiet, Loop, IsBusy, Idle
<1> QED  BY <1>1, <1>2, <1>3, <1>4, <1>5, StepCases

LEMMA AloneStep ==
  ASSUME TypeOK, Rows, Found, Loop, Alone, [Next]_vars
  PROVE  Alone'
<1>1. ASSUME NEW t \in Tasks, NEW w \in Wallets, NEW cs \in SUBSET Currencies, Begin(t, w, cs)
      PROVE  Alone'
  BY <1>1, BeginStep DEF Alone, IsBusy
<1>2. ASSUME NEW t \in Tasks, ReadChain(t)
      PROVE  Alone'
  BY <1>2, ReadStep DEF Alone, IsBusy
<1>3. ASSUME NEW t \in Tasks, FindRow(t)
      PROVE  Alone'
  BY <1>3, FindStep DEF Alone, IsBusy
<1>4. ASSUME NEW t \in Tasks, Writes(t)
      PROVE  Alone'
  BY <1>4, WriteStep, ProceedStep DEF Alone, IsBusy, Idle
<1>5. CASE Quiet
  BY <1>5 DEF Quiet, Alone, IsBusy, Idle
<1> QED  BY <1>1, <1>2, <1>3, <1>4, <1>5, StepCases

\* What the provider gives out for a currency never grows older.
LEMMA ProviderStep ==
  ASSUME TypeOK, Rows, Found, Lags, [Next]_vars
  PROVE  /\ Lags' /\ symbolOf' = symbolOf
         /\ \A w \in Wallets, c \in Currencies :
              Answer(w, c) \in Nat /\ Answer(w, c)' \in Nat /\ Answer(w, c) <= Answer(w, c)'
<1>1. /\ symbolOf' = symbolOf
      /\ \A w \in Wallets, c \in Currencies :
           /\ chain'[w][c] \in Nat \ {NoAnswer} /\ chain[w][c] <= chain'[w][c]
           /\ kept'[w][c] \in {kept[w][c], Answer(w, c), NoAnswer}
  <2>1. \A w \in Wallets, c \in Currencies : chain[w][c] \in Nat \ {NoAnswer}
    BY DEF TypeOK
  <2>2. ASSUME NEW t \in Tasks, NEW w \in Wallets, NEW cs \in SUBSET Currencies, Begin(t, w, cs)
        PROVE  UNCHANGED <<chain, symbolOf, kept>>
    BY <2>2, BeginStep
  <2>3. ASSUME NEW t \in Tasks, FindRow(t) \/ Writes(t)
        PROVE  UNCHANGED <<chain, symbolOf, kept>>
    BY <2>3, FindStep, WriteStep
  <2>4. ASSUME NEW t \in Tasks, ReadChain(t)
        PROVE  /\ UNCHANGED <<chain, symbolOf>>
               /\ \A w \in Wallets, c \in Currencies :
                    kept'[w][c] \in {kept[w][c], Answer(w, c)}
    BY <2>4, ReadStep
  <2>5. CASE Quiet
    BY <2>1, <2>5 DEF Quiet
  <2> QED  BY <2>1, <2>2, <2>3, <2>4, <2>5, StepCases
<1>2. ASSUME NEW w \in Wallets, NEW c \in Currencies
      PROVE  /\ kept'[w][c] <= chain'[w][c]
             /\ Answer(w, c) \in Nat /\ Answer(w, c)' \in Nat /\ Answer(w, c) <= Answer(w, c)'
  <2>1. /\ chain[w][c] \in Nat \ {NoAnswer} /\ kept[w][c] \in Nat
        /\ kept[w][c] <= chain[w][c]
    BY DEF TypeOK, Lags
  <2>2. /\ chain'[w][c] \in Nat \ {NoAnswer} /\ chain[w][c] <= chain'[w][c]
        /\ kept'[w][c] \in {kept[w][c], Answer(w, c), NoAnswer}
    BY <1>1
  <2>3. Answer(w, c) = IF kept[w][c] = NoAnswer THEN chain[w][c] ELSE kept[w][c]
    BY DEF Answer
  <2>4. Answer(w, c)' = IF kept'[w][c] = NoAnswer THEN chain'[w][c] ELSE kept'[w][c]
    BY DEF Answer
  <2> QED  BY <2>1, <2>2, <2>3, <2>4 DEF NoAnswer
<1> QED  BY <1>1, <1>2 DEF Lags

\* What is at most what the provider gave out is at most what it gives out next.
LEMMA StillBehind ==
  ASSUME TypeOK, Rows, Found, Lags, [Next]_vars,
         NEW w \in Wallets, NEW c \in Currencies, NEW n \in Nat, n <= Answer(w, c)
  PROVE  n <= Answer(w, c)'
<1>1. Answer(w, c) \in Nat /\ Answer(w, c)' \in Nat /\ Answer(w, c) <= Answer(w, c)'
  BY ProviderStep
<1> QED  BY <1>1

LEMMA BehindStep ==
  ASSUME TypeOK, Rows, Found, Loop, Lags, Behind, [Next]_vars
  PROVE  Behind'
<1>1. /\ \A t \in Tasks : IsBusy(t) => task[t] \in Busy
      /\ \A t \in Tasks : HasRead(t) => IsBusy(t)
      /\ \A b \in balance : b.amount \in Nat /\ b.walletId \in Wallets /\ b.of \in Currencies
  BY DEF TypeOK, IsBusy, Idle, HasRead
<1>2. ASSUME NEW n \in balance'
      PROVE  n.amount <= Answer(n.walletId, n.of)'
  <2>1. CASE n \in balance
    <3>1. n.amount <= Answer(n.walletId, n.of)
      BY <2>1 DEF Behind
    <3> QED  BY <1>1, <2>1, <3>1, StillBehind
  <2>2. CASE n \notin balance
    <3>1. PICK t \in Tasks : Writes(t)
      BY <1>2, <2>2, StepCases, BeginStep, ReadStep, FindStep DEF Quiet
    <3>2. /\ n.walletId = task[t].w /\ n.of = task[t].c /\ n.amount = task[t].amount
          /\ HasRead(t) /\ task[t] \in Busy
      BY <1>2, <2>2, <3>1, WriteStep DEF HasRead
    <3>3. n.walletId \in Wallets /\ n.of \in Currencies /\ n.amount \in Nat
      BY <3>2 DEF Busy
    <3>4. n.amount <= Answer(n.walletId, n.of)
      BY <3>2, <3>3 DEF Behind
    <3> QED  BY <3>3, <3>4, StillBehind
  <2> QED  BY <2>1, <2>2
<1>3. ASSUME NEW u \in Tasks, NEW w \in Wallets, NEW c \in Currencies,
             IsBusy(u)', task'[u].w = w
      PROVE  task'[u].since[c] <= Answer(w, c)'
  <2>1. ASSUME IsBusy(u), task'[u].w = task[u].w, task'[u].since = task[u].since
        PROVE  task'[u].since[c] <= Answer(w, c)'
    <3>1. task[u].since[c] \in Nat
      BY <1>1, <2>1 DEF Busy
    <3>2. task[u].since[c] <= Answer(w, c)
      BY <1>3, <2>1 DEF Behind
    <3> QED  BY <2>1, <3>1, <3>2, StillBehind
  <2>2. ASSUME NEW t \in Tasks, NEW v \in Wallets, NEW cs \in SUBSET Currencies, Begin(t, v, cs)
        PROVE  task'[u].since[c] <= Answer(w, c)'
    <3>1. CASE u = t
      <4>1. v = w /\ task'[u].since = Since(w, cs)
        BY <1>3, <2>2, <3>1, BeginStep
      <4>2. Since(w, cs)[c] \in Nat /\ Since(w, cs)[c] <= Answer(w, c)
        BY SinceType
      <4> QED  BY <4>1, <4>2, StillBehind
    <3>2. CASE u # t
      BY <1>3, <2>1, <2>2, <3>2, BeginStep DEF IsBusy
    <3> QED  BY <3>1, <3>2
  <2>3. ASSUME NEW t \in Tasks, ReadChain(t) \/ FindRow(t) \/ Writes(t)
        PROVE  IsBusy(u) /\ task'[u].w = task[u].w /\ task'[u].since = task[u].since
    BY <1>3, <2>3, ReadStep, FindStep, WriteStep, ProceedStep DEF IsBusy, Idle
  <2>4. CASE Quiet
    BY <1>3, <2>1, <2>4 DEF Quiet, IsBusy, Idle
  <2> QED  BY <2>1, <2>2, <2>3, <2>4, StepCases
<1>4. ASSUME NEW u \in Tasks, NEW w \in Wallets, NEW c \in Currencies,
             HasRead(u)', task'[u].w = w, task'[u].c = c
      PROVE  task'[u].amount <= Answer(w, c)'
  <2>1. ASSUME HasRead(u), task'[u].w = task[u].w, task'[u].c = task[u].c,
               task'[u].amount = task[u].amount
        PROVE  task'[u].amount <= Answer(w, c)'
    <3>1. task[u].amount \in Nat
      BY <1>1, <2>1 DEF Busy
    <3>2. task[u].amount <= Answer(w, c)
      BY <1>4, <2>1 DEF Behind
    <3> QED  BY <2>1, <3>1, <3>2, StillBehind
  <2>2. ASSUME NEW t \in Tasks, ReadChain(t), u = t
        PROVE  task'[u].amount <= Answer(w, c)'
    <3>1. task'[u].amount = Answer(w, c)
      BY <1>4, <2>2, ReadStep
    <3>2. Answer(w, c) \in Nat /\ Answer(w, c) <= Answer(w, c)
      BY AnswerType
    <3> QED  BY <3>1, <3>2, StillBehind
  <2>3. ASSUME NEW t \in Tasks, u # t, ReadChain(t) \/ FindRow(t) \/ Writes(t)
        PROVE  HasRead(u) /\ task'[u] = task[u]
    BY <1>4, <2>3, ReadStep, FindStep, WriteStep, ProceedStep DEF HasRead, IsBusy
  <2>4. ASSUME NEW t \in Tasks, u = t, FindRow(t)
        PROVE  /\ HasRead(u) /\ task'[u].w = task[u].w /\ task'[u].c = task[u].c
               /\ task'[u].amount = task[u].amount
    BY <2>4, FindStep DEF HasRead
  <2>5. ASSUME NEW t \in Tasks, Writes(t)
        PROVE  u # t
    BY <1>4, <2>5, WriteStep, ProceedStep DEF HasRead, IsBusy, Idle
  <2>6. ASSUME NEW t \in Tasks, NEW v \in Wallets, NEW cs \in SUBSET Currencies, Begin(t, v, cs)
        PROVE  HasRead(u) /\ task'[u] = task[u]
    BY <1>4, <2>6, BeginStep DEF HasRead
  <2>7. CASE Quiet
    BY <1>4, <2>1, <2>7 DEF Quiet, HasRead, Idle
  <2> QED  BY <2>1, <2>2, <2>3, <2>4, <2>5, <2>6, <2>7, StepCases
<1> QED  BY <1>2, <1>3, <1>4 DEF Behind

\* A task that is alone finds no later balance than the one it reads.
LEMMA LatestStep ==
  ASSUME TypeOK, Rows, Found, Loop, Alone, Behind, Latest, [Next]_vars
  PROVE  Latest'
<1> SUFFICES ASSUME NEW u \in Tasks, HasRead(u)'
             PROVE  /\ task'[u].since[task'[u].c] <= task'[u].amount
                    /\ u \notin shared' =>
                         \A b \in balance' :
                           b.walletId = task'[u].w /\ b.of = task'[u].c =>
                             b.amount <= task'[u].amount
  BY DEF Latest
<1>1. ASSUME NEW t \in Tasks, NEW w \in Wallets, NEW cs \in SUBSET Currencies, Begin(t, w, cs)
      PROVE  /\ HasRead(u) /\ task'[u] = task[u] /\ balance' = balance
             /\ u \notin shared' => u \notin shared
  BY <1>1, BeginStep DEF HasRead
<1>2. ASSUME NEW t \in Tasks, ReadChain(t), u = t
      PROVE  /\ task'[u].since[task'[u].c] <= task'[u].amount
             /\ \A b \in balance' :
                  b.walletId = task'[u].w /\ b.of = task'[u].c =>
                    b.amount <= task'[u].amount
  <2>1. IsBusy(t) /\ task[t].c \in Currencies /\ task[t].w \in Wallets
    BY <1>2, ReadStep DEF IsBusy, Busy
  <2> QED  BY <1>2, <2>1, ReadStep DEF Behind
<1>3. ASSUME NEW t \in Tasks, ReadChain(t) \/ FindRow(t), u # t
      PROVE  HasRead(u) /\ task'[u] = task[u] /\ balance' = balance /\ shared' = shared
  BY <1>3, ReadStep, FindStep DEF HasRead
<1>4. ASSUME NEW t \in Tasks, FindRow(t), u = t
      PROVE  /\ HasRead(u) /\ balance' = balance /\ shared' = shared
             /\ task'[u].w = task[u].w /\ task'[u].c = task[u].c
             /\ task'[u].since = task[u].since /\ task'[u].amount = task[u].amount
  BY <1>4, FindStep DEF HasRead
<1>5. ASSUME NEW t \in Tasks, Writes(t)
      PROVE  /\ HasRead(u) /\ task'[u] = task[u] /\ shared' = shared
             /\ u \notin shared =>
                  \A b \in balance' : b.walletId = task[u].w => b \in balance
  <2>1. IsBusy(t) /\ Proceed(t) /\ shared' = shared
    BY <1>5, WriteStep DEF IsBusy
  <2>2. u # t
    BY <2>1, ProceedStep DEF HasRead, Idle
  <2>3. HasRead(u) /\ task'[u] = task[u]
    BY <2>1, <2>2, ProceedStep DEF HasRead
  <2>4. u \notin shared => task[u].w # task[t].w
    BY <2>1, <2>2, <2>3 DEF Alone, HasRead, IsBusy
  <2>5. \A b \in balance' : b \in balance \/ b.walletId = task[t].w
    BY <1>5, WriteStep
  <2> QED  BY <2>1, <2>3, <2>4, <2>5
<1>6. CASE Quiet
  <2>1. HasRead(u) /\ task'[u] = task[u] /\ balance' \subseteq balance /\ shared' = shared
    BY <1>6 DEF Quiet, HasRead, Idle
  <2> QED  BY <2>1 DEF Latest
<1> QED
  BY <1>1, <1>2, <1>3, <1>4, <1>5, <1>6, StepCases DEF Latest

\* The write of a task that is alone leaves what it is done with fresh.
LEMMA WriteFresh ==
  ASSUME TypeOK, Rows, Found, Loop, Latest, Done, NEW t \in Tasks, t \notin shared, Writes(t),
         NEW c \in task[t].all \ (task[t].todo \ {task[t].c})
  PROVE  \E n \in balance' : /\ n.walletId = task[t].w
                             /\ n.currency = symbolOf[c]
                             /\ n.of \in task[t].all
                             /\ n.amount >= task[t].since[n.of]
<1>1. IsBusy(t) /\ HasRead(t) /\ task[t].w \in wallet /\ task[t] \in Busy
  BY WriteStep DEF IsBusy, HasRead
<1>2. PICK n \in balance' :
        /\ n.walletId = task[t].w /\ n.currency = symbolOf[task[t].c]
        /\ n.of = task[t].c /\ n.amount = task[t].amount
        /\ \A b \in balance : b.currency # symbolOf[task[t].c] => b \in balance'
  BY WriteStep
<1>3. n.of \in task[t].all /\ n.amount >= task[t].since[n.of]
  <2>1. task[t].amount \in Nat /\ task[t].c \in task[t].all /\ task[t].since[task[t].c] \in Nat
    BY <1>1 DEF Busy, Loop
  <2>2. task[t].since[task[t].c] <= task[t].amount
    BY <1>1 DEF Latest
  <2> QED  BY <1>2, <2>1, <2>2
<1>4. CASE symbolOf[c] = symbolOf[task[t].c]
  BY <1>2, <1>3, <1>4
<1>5. CASE symbolOf[c] # symbolOf[task[t].c]
  <2>1. c # task[t].c
    BY <1>5
  <2>2. Fresh(t, c)
    BY <1>1, <2>1 DEF Done
  <2> QED  BY <1>2, <1>5, <2>2 DEF Fresh
<1> QED  BY <1>4, <1>5

LEMMA DoneStep ==
  ASSUME TypeOK, Rows, Found, Loop, Alone, Lags, Latest, Done, [Next]_vars
  PROVE  Done'
<1> SUFFICES ASSUME NEW u \in Tasks, IsBusy(u)', u \notin shared', task'[u].w \in wallet',
                    NEW c \in task'[u].all \ task'[u].todo
             PROVE  \E n \in balance' : /\ n.walletId = task'[u].w
                                        /\ n.currency = symbolOf'[c]
                                        /\ n.of \in task'[u].all
                                        /\ n.amount >= task'[u].since[n.of]
  BY DEF Done, Fresh
<1>0. symbolOf' = symbolOf
  BY ProviderStep
<1>1. ASSUME NEW t \in Tasks, NEW w \in Wallets, NEW cs \in SUBSET Currencies, Begin(t, w, cs)
      PROVE  /\ IsBusy(u) /\ u \notin shared /\ task'[u] = task[u]
             /\ balance' = balance /\ wallet' = wallet
  BY <1>1, BeginStep DEF IsBusy
<1>2. ASSUME NEW t \in Tasks, ReadChain(t) \/ FindRow(t)
      PROVE  /\ IsBusy(u) /\ u \notin shared /\ task'[u].w = task[u].w
             /\ task'[u].all = task[u].all /\ task'[u].todo = task[u].todo
             /\ task'[u].since = task[u].since
             /\ balance' = balance /\ wallet' = wallet
  BY <1>2, ReadStep, FindStep DEF IsBusy
<1>3. ASSUME NEW t \in Tasks, Writes(t), u = t
      PROVE  /\ task'[u].w = task[u].w /\ task'[u].since = task[u].since /\ u \notin shared
             /\ task'[u].all = task[u].all
             /\ c \in task[u].all \ (task[u].todo \ {task[u].c})
  BY <1>3, WriteStep, ProceedStep DEF IsBusy, Idle
<1>4. ASSUME NEW t \in Tasks, Writes(t), u # t
      PROVE  /\ IsBusy(u) /\ u \notin shared /\ task'[u] = task[u] /\ wallet' = wallet
             /\ \A b \in balance : b.walletId = task[u].w => b \in balance'
  <2>1. IsBusy(t) /\ Proceed(t) /\ shared' = shared /\ wallet' = wallet
    BY <1>4, WriteStep DEF IsBusy
  <2>2. IsBusy(u) /\ task'[u] = task[u]
    BY <1>4, <2>1, ProceedStep DEF IsBusy
  <2>3. task[u].w # task[t].w
    BY <1>4, <2>1, <2>2 DEF Alone
  <2>4. \A b \in balance : b \in balance' \/ b.walletId = task[t].w
    BY <1>4, WriteStep
  <2> QED  BY <2>1, <2>2, <2>3, <2>4
<1>5. CASE Quiet
  <2>1. IsBusy(u) /\ task'[u] = task[u] /\ u \notin shared /\ task[u].w \in wallet
    BY <1>5 DEF Quiet, IsBusy, Idle
  <2>2. \A b \in balance : b.walletId = task[u].w => b \in balance'
    BY <1>0, <1>5, <2>1 DEF Quiet
  <2>3. symbolOf' = symbolOf /\ c \in task[u].all \ task[u].todo
    BY <1>5, <2>1 DEF Quiet
  <2>4. Fresh(u, c)
    BY <2>1, <2>3 DEF Done
  <2> QED  BY <2>1, <2>2, <2>3, <2>4 DEF Fresh
<1> QED
  BY <1>0, <1>1, <1>2, <1>3, <1>4, <1>5, WriteFresh, StepCases DEF Done, Fresh

LEMMA OneMore ==
  ASSUME NEW X, IsFiniteSet(X), NEW x
  PROVE  /\ IsFiniteSet(X \cup {x}) /\ Cardinality(X \cup {x}) \in Nat
         /\ Cardinality(X \cup {x}) <= Cardinality(X) + 1
<1>1. Cardinality(X) \in Nat
  BY FS_CardinalityType
<1>2. /\ IsFiniteSet(X \cup {x})
      /\ Cardinality(X \cup {x}) = IF x \in X THEN Cardinality(X) ELSE Cardinality(X) + 1
  BY FS_AddElement
<1> QED  BY <1>1, <1>2

\* Only a task that found no row makes the rows more, and ceases to be one.
LEMMA FewStep ==
  ASSUME TypeOK, Rows, Found, Loop, Lags, Few, [Next]_vars
  PROVE  Few'
<1> SUFFICES ASSUME NEW w \in Wallets, NEW s \in Symbols
             PROVE  Cardinality(RowsOf(w, s)') + Cardinality(Blind(w, s)') <= Cardinality(Tasks)
  BY DEF Few, RowsOf, Blind
<1>0. symbolOf' = symbolOf
  BY ProviderStep
<1> DEFINE R == RowsOf(w, s)
           S == RowsOf(w, s)'
           B == Blind(w, s)
           D == Blind(w, s)'
<1>1. R = {b \in balance : b.walletId = w /\ b.currency = s}
  BY DEF RowsOf
<1>2. S = {b \in balance' : b.walletId = w /\ b.currency = s}
  BY DEF RowsOf
<1>3. /\ B = {t \in Tasks : /\ task[t].pc = "write" /\ task[t].row = NoRow
                            /\ task[t].w = w /\ symbolOf[task[t].c] = s}
      /\ D = {t \in Tasks : /\ task'[t].pc = "write" /\ task'[t].row = NoRow
                            /\ task'[t].w = w /\ symbolOf[task'[t].c] = s}
  BY <1>0 DEF Blind
<1>4. /\ IsFiniteSet(R) /\ Cardinality(R) \in Nat
      /\ IsFiniteSet(B) /\ Cardinality(B) \in Nat
      /\ Cardinality(Tasks) \in Nat
  <2>1. IsFiniteSet(R)
    BY <1>1, FS_Subset DEF Rows
  <2>2. IsFiniteSet(B)
    BY <1>3, FS_Subset, BoundsAssumption
  <2> QED  BY <2>1, <2>2, FS_CardinalityType, BoundsAssumption
<1>5. Cardinality(R) + Cardinality(B) <= Cardinality(Tasks)
  BY DEF Few
<1> HIDE DEF R, S, B, D
<1>6. ASSUME S \subseteq R, D \subseteq B
      PROVE  Cardinality(S) + Cardinality(D) <= Cardinality(Tasks)
  <2>1. /\ Cardinality(S) <= Cardinality(R) /\ Cardinality(D) <= Cardinality(B)
        /\ Cardinality(S) \in Nat /\ Cardinality(D) \in Nat
    BY <1>4, <1>6, FS_Subset, FS_CardinalityType
  <2> QED  BY <1>4, <1>5, <2>1
<1>7. ASSUME NEW t \in Tasks, NEW v \in Wallets, NEW cs \in SUBSET Currencies, Begin(t, v, cs)
      PROVE  S \subseteq R /\ D \subseteq B
  BY <1>1, <1>2, <1>3, <1>7, BeginStep
<1>8. ASSUME NEW t \in Tasks, ReadChain(t)
      PROVE  S \subseteq R /\ D \subseteq B
  BY <1>1, <1>2, <1>3, <1>8, ReadStep
<1>9. ASSUME NEW t \in Tasks, FindRow(t)
      PROVE  Cardinality(S) + Cardinality(D) <= Cardinality(Tasks)
  <2>1. S = R
    BY <1>1, <1>2, <1>9 DEF FindRow
  <2>2. CASE R = {}
    <3>1. Cardinality(S) = 0
      BY <2>1, <2>2, FS_EmptySet
    <3>2. D \subseteq Tasks
      BY <1>3
    <3>3. Cardinality(D) <= Cardinality(Tasks) /\ Cardinality(D) \in Nat
      BY <3>2, FS_Subset, FS_CardinalityType, BoundsAssumption
    <3> QED  BY <1>4, <3>1, <3>3
  <2>3. CASE R # {}
    <3>1. \A b \in balance : b.id # NoRow
      BY DEF TypeOK, NoRow
    <3>2. t \notin D
      BY <1>1, <1>3, <1>9, <2>3, <3>1, FindStep DEF RowsOf
    <3>3. \A u \in Tasks : u # t => task'[u] = task[u]
      BY <1>9, FindStep
    <3>4. D \subseteq B
      BY <1>3, <3>2, <3>3
    <3> QED  BY <1>6, <2>1, <3>4
  <2> QED  BY <2>2, <2>3
<1>10. ASSUME NEW t \in Tasks, Writes(t)
       PROVE  Cardinality(S) + Cardinality(D) <= Cardinality(Tasks)
  <2>1. task[t].pc = "write" /\ IsBusy(t) /\ Proceed(t)
    BY <1>10, WriteStep DEF IsBusy
  <2>2. D \subseteq B \ {t}
    BY <1>3, <2>1, ProceedStep DEF Idle
  <2>3. CASE ~(task[t].w = w /\ symbolOf[task[t].c] = s)
    <3>1. S \subseteq R
      BY <1>1, <1>2, <1>10, <2>3, WriteStep
    <3> QED  BY <1>6, <2>2, <3>1
  <2>4. CASE task[t].w = w /\ symbolOf[task[t].c] = s
    <3>1. PICK n : \/ task[t].row = NoRow /\ balance' = balance \cup {n}
                   \/ \E b \in balance : /\ b.walletId = w /\ b.currency = s
                                         /\ balance' = (balance \ {b}) \cup {n}
      BY <1>10, <2>4, WriteStep
    <3>2. CASE task[t].row = NoRow /\ balance' = balance \cup {n}
      <4>1. S \subseteq R \cup {n}
        BY <1>1, <1>2, <3>2
      <4>2. t \in B
        BY <1>3, <2>1, <2>4, <3>2
      <4>3. Cardinality(B \ {t}) = Cardinality(B) - 1 /\ IsFiniteSet(B \ {t})
        BY <1>4, <4>2, FS_RemoveElement
      <4>4. Cardinality(D) <= Cardinality(B) - 1 /\ Cardinality(D) \in Nat
        BY <2>2, <4>3, FS_Subset, FS_CardinalityType
      <4>5. IsFiniteSet(R \cup {n}) /\ Cardinality(R \cup {n}) <= Cardinality(R) + 1
        BY <1>4, OneMore
      <4>6. Cardinality(S) <= Cardinality(R \cup {n}) /\ Cardinality(S) \in Nat
        BY <4>1, <4>5, FS_Subset, FS_CardinalityType
      <4>7. Cardinality(R \cup {n}) \in Nat
        BY <1>4, OneMore
      <4> QED  BY <1>4, <1>5, <4>4, <4>5, <4>6, <4>7
    <3>3. ASSUME NEW b \in balance, b.walletId = w, b.currency = s,
                 balance' = (balance \ {b}) \cup {n}
          PROVE  Cardinality(S) + Cardinality(D) <= Cardinality(Tasks)
      <4>1. b \in R
        BY <1>1, <3>3
      <4>2. S \subseteq (R \ {b}) \cup {n}
        BY <1>1, <1>2, <3>3
      <4>3. Cardinality(R \ {b}) = Cardinality(R) - 1 /\ IsFiniteSet(R \ {b})
        BY <1>4, <4>1, FS_RemoveElement
      <4>4. Cardinality(R \ {b}) \in Nat
        BY <4>3, FS_CardinalityType
      <4>5. /\ IsFiniteSet((R \ {b}) \cup {n})
            /\ Cardinality((R \ {b}) \cup {n}) <= Cardinality(R \ {b}) + 1
        BY <4>3, OneMore
      <4>6. Cardinality(S) <= Cardinality((R \ {b}) \cup {n}) /\ Cardinality(S) \in Nat
        BY <4>2, <4>5, FS_Subset, FS_CardinalityType
      <4>7. Cardinality((R \ {b}) \cup {n}) \in Nat
        BY <4>3, OneMore
      <4>8. Cardinality(D) <= Cardinality(B) /\ Cardinality(D) \in Nat
        BY <1>4, <2>2, FS_Subset, FS_CardinalityType
      <4> QED  BY <1>4, <1>5, <4>3, <4>4, <4>5, <4>6, <4>7, <4>8
    <3> QED  BY <3>1, <3>2, <3>3
  <2> QED  BY <2>3, <2>4
<1>11. CASE Quiet
  <2>1. S \subseteq R
    BY <1>1, <1>2, <1>11 DEF Quiet
  <2>2. D \subseteq B
    BY <1>3, <1>11 DEF Quiet, Idle
  <2> QED  BY <1>6, <2>1, <2>2 DEF S, D
<1> QED  BY <1>6, <1>7, <1>8, <1>9, <1>10, <1>11, StepCases DEF S, D

-----------------------------------------------------------------------------
(* The theorems. *)

LEMMA InitInv == Init => IInv
<1> SUFFICES ASSUME Init
             PROVE  IInv
  OBVIOUS
<1> USE DEF Init
<1>1. TypeOK
  BY DEF TypeOK, NoAnswer
<1>2. \A t \in Tasks : task[t].pc = "idle"
  BY DEF Idle
<1>3. Rows
  BY FS_EmptySet DEF Rows
<1>4. Found /\ Loop /\ Alone /\ Lags /\ Behind /\ Latest /\ Done
  BY <1>2 DEF Found, Loop, Alone, Lags, Behind, Latest, Done, IsBusy, HasRead, NoAnswer
<1>5. ASSUME NEW w \in Wallets, NEW s \in Symbols
      PROVE  Cardinality(RowsOf(w, s)) + Cardinality(Blind(w, s)) <= Cardinality(Tasks)
  <2>1. RowsOf(w, s) = {} /\ Blind(w, s) = {}
    BY <1>2 DEF RowsOf, Blind
  <2>2. Cardinality(Tasks) \in Nat
    BY BoundsAssumption, FS_CardinalityType
  <2> QED  BY <2>1, <2>2, FS_EmptySet
<1>6. Few
  BY <1>5 DEF Few
<1> QED  BY <1>1, <1>3, <1>4, <1>6 DEF IInv

\* The inductive invariant: the table, the chain and the tasks between them stand
\* together through overlapping tasks, removals and deaths.
THEOREM Invariance == Spec => []IInv
<1>1. Init => IInv
  BY InitInv
<1>2. IInv /\ [Next]_vars => IInv'
  <2> SUFFICES ASSUME IInv, [Next]_vars
               PROVE  IInv'
    OBVIOUS
  <2>1. TypeOK' /\ Rows' /\ Found' /\ Loop' /\ Alone' /\ Lags' /\ Behind'
    BY TypeStep, RowsStep, FoundStep, LoopStep, AloneStep, ProviderStep, BehindStep DEF IInv
  <2>2. Latest' /\ Done' /\ Few'
    BY LatestStep, DoneStep, FewStep DEF IInv
  <2> QED  BY <2>1, <2>2 DEF IInv
<1> QED  BY <1>1, <1>2, PTL DEF Spec

\* Rows and tasks keep their types.
THEOREM TypeCorrect == Spec => []TypeOK
BY Invariance, PTL DEF IInv

\* A wallet has no more rows of a symbol than tasks can be in flight.
THEOREM RowsFew == Spec => []RowsAreFew
<1>1. IInv => RowsAreFew
  <2> SUFFICES ASSUME IInv, NEW w \in Wallets, NEW s \in Symbols
               PROVE  Cardinality(RowsOf(w, s)) <= Cardinality(Tasks)
    BY DEF RowsAreFew
  <2>1. IsFiniteSet(RowsOf(w, s)) /\ IsFiniteSet(Blind(w, s)) /\ IsFiniteSet(Tasks)
    BY FS_Subset, BoundsAssumption DEF IInv, Rows, RowsOf, Blind
  <2>2. /\ Cardinality(RowsOf(w, s)) \in Nat /\ Cardinality(Blind(w, s)) \in Nat
        /\ Cardinality(Tasks) \in Nat
    BY <2>1, FS_CardinalityType
  <2>3. Cardinality(RowsOf(w, s)) + Cardinality(Blind(w, s)) <= Cardinality(Tasks)
    BY DEF IInv, Few
  <2> QED  BY <2>2, <2>3
<1> QED  BY <1>1, Invariance, PTL

\* An amount goes back only by a task that overlapped another one on its wallet.
THEOREM BackByOverlap == Spec => BackOnlyByOverlap
<1>1. ASSUME IInv, [Next]_vars, NEW b \in balance, NEW n \in balance',
             b.id = n.id, b.of = n.of, n.amount < b.amount
      PROVE  \E t \in shared : task[t] # Idle /\ task[t].row = b.id
  <2>1. b.amount \in Nat /\ b.id \in Nat /\ b.id > 0 /\ b.id <= lastId /\ lastId \in Nat
    BY <1>1 DEF IInv, TypeOK
  <2>2. n \notin balance
    BY <1>1, <2>1 DEF IInv, Rows
  <2>3. PICK t \in Tasks : Writes(t)
    BY <1>1, <2>2, StepCases DEF IInv, Begin, ReadChain, FindRow, Quiet
  <2>4. PICK m : /\ m.amount = task[t].amount /\ balance' \subseteq balance \cup {m}
                 /\ m.of = task[t].c
                 /\ \/ m.id = lastId + 1
                    \/ m.id = task[t].row
    BY <1>1, <2>3, WriteStep DEF IInv
  <2>5. m = n
    BY <2>2, <2>4
  <2>6. task[t].row = b.id
    BY <1>1, <2>1, <2>4, <2>5
  <2>7. task[t].pc = "write" /\ task[t] \in Busy
    BY <1>1, <2>3, WriteStep DEF IInv
  <2>8. b.walletId = task[t].w /\ b.of = task[t].c
    BY <1>1, <2>4, <2>5, <2>6, <2>7 DEF IInv, Found
  <2>9. t \in shared
    <3>1. SUFFICES ASSUME t \notin shared
                   PROVE  FALSE
      OBVIOUS
    <3>2. b.amount <= task[t].amount
      BY <1>1, <2>7, <2>8, <3>1 DEF IInv, Latest, HasRead
    <3>3. task[t].amount \in Nat
      BY <2>7 DEF Busy
    <3> QED  BY <1>1, <2>1, <2>4, <2>5, <3>2, <3>3
  <2>10. task[t] # Idle
    BY <2>7 DEF Idle
  <2> QED  BY <2>6, <2>9, <2>10
<1>2. IInv /\ [Next]_vars =>
        [\A b \in balance, n \in balance' :
           b.id = n.id /\ b.of = n.of /\ n.amount < b.amount =>
             \E t \in shared : task[t] # Idle /\ task[t].row = b.id]_vars
  BY <1>1
<1> QED  BY Invariance, <1>2, PTL DEF Spec, BackOnlyByOverlap

\* A task that was alone and ends with its last write leaves a row of its own, no older
\* than what the provider gave out at its start, for every symbol it was to update.
THEOREM SuccessFresh == Spec => SuccessIsFresh
<1>1. ASSUME IInv, [Next]_vars, NEW t \in Tasks \ shared, UpdateRow(t) \/ CreateRow(t),
             task'[t] = Idle, NEW c \in task[t].all
      PROVE  \E n \in balance' : /\ n.walletId = task[t].w
                                 /\ n.currency = symbolOf[c]
                                 /\ n.of \in task[t].all
                                 /\ n.amount >= task[t].since[n.of]
  <2>1. Writes(t)
    BY <1>1 DEF Writes
  <2>2. IsBusy(t) /\ Proceed(t)
    BY <1>1, <2>1, WriteStep DEF IInv, IsBusy
  <2>3. task[t].todo = {task[t].c}
    BY <1>1, <2>2, ProceedStep DEF IInv
  <2> QED  BY <1>1, <2>1, <2>3, WriteFresh DEF IInv
<1>2. IInv /\ [Next]_vars =>
        [\A t \in Tasks \ shared :
           (UpdateRow(t) \/ CreateRow(t)) /\ task'[t] = Idle =>
             \A c \in task[t].all :
               \E n \in balance' : /\ n.walletId = task[t].w
                                   /\ n.currency = symbolOf[c]
                                   /\ n.of \in task[t].all
                                   /\ n.amount >= task[t].since[n.of]]_vars
  BY <1>1
<1> QED  BY Invariance, <1>2, PTL DEF Spec, SuccessIsFresh
===============================================================================
