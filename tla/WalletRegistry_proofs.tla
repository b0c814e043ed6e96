------------------------ MODULE WalletRegistry_proofs ------------------------
(***************************************************************************)
(* Proofs about WalletRegistry for any set of users and of handler slots,   *)
(* any partition size above 0 and any bound on the wallets created.         *)
(*                                                                         *)
(* IInv is the inductive invariant: TypeOK, what a handler in flight knows, *)
(* what a load has read and what it has missed, and the two properties that *)
(* relate the table and the map.                                            *)
(***************************************************************************)
EXTENDS WalletRegistry, FiniteSetTheorems, TLAPS

\* Handlers run only while the process takes requests, and a dead process has
\* an empty map.
Process ==
  /\ svc # "up" => \A r \in Requests : req[r] = Idle
  /\ svc = "down" => wallets = {}

\* What a handler learnt before its last await and still relies on.
HandlersKnow ==
  \A r \in Requests :
    /\ req[r].pc = "found" => req[r].userId = owner[req[r].id]
    /\ req[r].pc = "deleted" => req[r].id \notin rows
    /\ req[r].pc = "inserted" =>
         req[r].id \in rows \/ owner[req[r].id] \notin users \/ req[r].id \in stray

\* Only one handler announces a wallet, and it has not done so yet.
Unannounced ==
  \A r \in Requests : req[r].pc = "inserted" =>
    /\ req[r].id \notin wallets
    /\ \A q \in Requests : q # r => req[q] # req[r]

\* The rows that would have been in a page read by now and are not in the map.
Missed == {id \in rows : id \notin wallets /\ Rank(id) < skip}

\* A load misses no more rows than vanished under it.
PagesRead ==
  svc = "loading" =>
    /\ total = Cardinality(rows) + vanished
    /\ Cardinality(Missed) <= vanished

IInv ==
  /\ TypeOK /\ Process /\ HandlersKnow /\ Unannounced
  /\ PagesRead /\ SkippedAtMostVanished /\ KeysHaveRows

-----------------------------------------------------------------------------
(* Facts about the table. *)

\* The table is finite, as are the part of it below an id and a user's part,
\* and fewer rows lie below a row than there are rows.
LEMMA TableIsFinite ==
  ASSUME TypeOK
  PROVE  /\ IsFiniteSet(rows)
         /\ Cardinality(rows) \in Nat
         /\ \A id \in rows : Rank(id) \in Nat /\ Rank(id) < Cardinality(rows)
         /\ \A u : IsFiniteSet(WalletsOf(u)) /\ Cardinality(WalletsOf(u)) \in Nat
<1>1. IsFiniteSet(Ids)
  BY FS_Interval DEF TypeOK, Ids
<1>2. IsFiniteSet(rows) /\ Cardinality(rows) \in Nat
  BY <1>1, FS_Subset, FS_CardinalityType DEF TypeOK
<1>3. ASSUME NEW id \in rows
      PROVE  Rank(id) \in Nat /\ Rank(id) < Cardinality(rows)
  <2> DEFINE Below == {x \in rows : x < id}
  <2>1. Below \subseteq rows /\ id \in rows /\ id \notin Below
    BY DEF TypeOK, Ids
  <2>2. IsFiniteSet(Below) /\ Cardinality(Below) <= Cardinality(rows)
    BY <1>2, <2>1, FS_Subset
  <2>3. Cardinality(Below) # Cardinality(rows)
    BY <1>2, <2>1, FS_Subset
  <2>4. Cardinality(Below) \in Nat
    BY <2>2, FS_CardinalityType
  <2> QED  BY <1>2, <2>2, <2>3, <2>4 DEF Rank
<1>4. ASSUME NEW u
      PROVE  IsFiniteSet(WalletsOf(u)) /\ Cardinality(WalletsOf(u)) \in Nat
  <2>1. WalletsOf(u) \subseteq rows
    BY DEF WalletsOf
  <2> QED  BY <1>2, <2>1, FS_Subset, FS_CardinalityType
<1> QED  BY <1>2, <1>3, <1>4

\* A task is determined by its pc, the id it names and, while it is to delete
\* the wallet, the user who asked for it.
LEMMA TaskShape ==
  ASSUME TypeOK, NEW r \in Requests
  PROVE  /\ req[r] \in Tasks
         /\ req[r].pc \in {"idle", "inserted", "found", "deleted"}
         /\ req[r].pc = "idle" <=> req[r] = Idle
         /\ req[r].pc # "idle" => req[r].id \in Ids
         /\ req[r].pc = "inserted" => req[r] = Inserted(req[r].id)
         /\ req[r].pc = "found" =>
              req[r].userId \in Users /\ req[r] = Found(req[r].id, req[r].userId)
         /\ req[r].pc = "deleted" => req[r] = Deleted(req[r].id)
<1> USE DEF Tasks, Idle, Inserted, Found, Deleted
<1>1. req[r] \in Tasks
  BY DEF TypeOK
<1>2. CASE req[r] = Idle
  BY <1>1, <1>2
<1>3. CASE req[r] \in [pc : {"inserted", "deleted"}, id : Ids]
  BY <1>1, <1>3
<1>4. CASE req[r] \in [pc : {"found"}, id : Ids, userId : Users]
  BY <1>1, <1>4
<1> QED  BY <1>1, <1>2, <1>3, <1>4

-----------------------------------------------------------------------------
\* Every variable keeps its type: ids in the map, in the table and in the
\* hands of handlers are ids the table has given.
LEMMA TypeOKStep ==
  ASSUME TypeOK, [Next]_vars
  PROVE  TypeOK'
<1> USE DEF TypeOK, Tasks, Ids, dbVars, bootVars, Idle, Inserted, Found, Deleted
<1>1. CASE CountWallets
  BY <1>1, TableIsFinite DEF CountWallets
<1>2. CASE LoadPartition
  <2>1. wallets' \subseteq Ids
    BY <1>2 DEF LoadPartition
  <2>3. skip' \in Nat
    BY <1>2, PartitionSizeAssumption DEF LoadPartition
  <2>2. UNCHANGED <<users, owner, rows, svc, total, req, vanished, stray>>
    BY <1>2 DEF LoadPartition
  <2> QED  BY <2>1, <2>2, <2>3
<1>3. CASE Listen
  BY <1>3 DEF Listen
<1>4. CASE Crash
  BY <1>4 DEF Crash
<1>5. ASSUME NEW r \in Requests, NEW u \in Users, CreateInsert(r, u)
      PROVE  TypeOK'
  <2>1. owner' \in Seq(Users) /\ Len(owner') = Len(owner) + 1
    BY <1>5 DEF CreateInsert
  <2>2. Ids \subseteq Ids' /\ Len(owner) + 1 \in Ids'
    BY <2>1
  <2>3. req' \in [Requests -> Tasks']
    BY <1>5, <2>1 DEF CreateInsert
  <2> QED  BY <1>5, <2>1, <2>2, <2>3 DEF CreateInsert
<1>6. ASSUME NEW r \in Requests, NEW id \in Ids, NEW u \in Users, RemoveFind(r, id, u)
      PROVE  TypeOK'
  <2>1. Found(id, u) \in Tasks
    OBVIOUS
  <2>2. req' \in [Requests -> Tasks]
    BY <1>6, <2>1 DEF RemoveFind
  <2>3. UNCHANGED <<users, owner, rows, wallets, svc, total, skip, vanished, stray>>
    BY <1>6 DEF RemoveFind
  <2> QED  BY <2>2, <2>3
<1>7. ASSUME NEW r \in Requests, CreateAnnounce(r)
      PROVE  TypeOK'
  <2>1. req[r].id \in Ids
    BY <1>7, TaskShape DEF CreateAnnounce
  <2> QED  BY <1>7, <2>1 DEF CreateAnnounce
<1>8. ASSUME NEW r \in Requests, RemoveDelete(r)
      PROVE  TypeOK'
  <2>1. req[r].id \in Ids
    BY <1>8, TaskShape DEF RemoveDelete
  <2> QED  BY <1>8, <2>1 DEF RemoveDelete
<1>9. ASSUME NEW r \in Requests, RemoveDeleteFails(r)
      PROVE  TypeOK'
  BY <1>9 DEF RemoveDeleteFails
<1>10. ASSUME NEW r \in Requests, RemoveAnnounce(r)
       PROVE  TypeOK'
  BY <1>10 DEF RemoveAnnounce
<1>11. ASSUME NEW u \in Users, RemoveUser(u)
       PROVE  TypeOK'
  <2>1. users' \subseteq Users /\ rows' \subseteq Ids
    BY <1>11 DEF RemoveUser
  <2>2. vanished' \in Nat
    BY <1>11, TableIsFinite DEF RemoveUser
  <2>3. UNCHANGED <<owner, wallets, svc, total, skip, req, stray>>
    BY <1>11 DEF RemoveUser
  <2> QED  BY <2>1, <2>2, <2>3
<1>12. CASE UNCHANGED vars
  BY <1>12 DEF vars
<1> QED  BY <1>1, <1>2, <1>3, <1>4, <1>5, <1>6, <1>7, <1>8, <1>9, <1>10, <1>11, <1>12
         DEF Next, Handler
-----------------------------------------------------------------------------
\* Only a process that takes requests has handlers in flight; a crash takes
\* them and the map with it.
LEMMA ProcessStep ==
  ASSUME TypeOK, Process, [Next]_vars
  PROVE  Process'
<1> USE DEF Process, dbVars, bootVars, TypeOK
<1>1. CASE CountWallets
  BY <1>1 DEF CountWallets
<1>2. CASE LoadPartition
  BY <1>2 DEF LoadPartition
<1>3. CASE Listen
  BY <1>3 DEF Listen
<1>4. CASE Crash
  BY <1>4 DEF Crash
<1>5. ASSUME NEW r \in Requests, NEW u \in Users, CreateInsert(r, u)
      PROVE  Process'
  BY <1>5 DEF CreateInsert
<1>6. ASSUME NEW r \in Requests, NEW id \in Ids, NEW u \in Users, RemoveFind(r, id, u)
      PROVE  Process'
  BY <1>6 DEF RemoveFind
<1>7. ASSUME NEW r \in Requests, Handler(r)
      PROVE  Process'
  <2>1. req[r] # Idle
    BY <1>7 DEF Handler, CreateAnnounce, RemoveDelete, RemoveDeleteFails, RemoveAnnounce, Idle
  <2>2. svc = "up"
    BY <2>1
  <2>3. svc' = svc
    BY <1>7 DEF Handler, CreateAnnounce, RemoveDelete, RemoveDeleteFails, RemoveAnnounce
  <2> QED  BY <2>2, <2>3
<1>8. ASSUME NEW u \in Users, RemoveUser(u)
      PROVE  Process'
  BY <1>8 DEF RemoveUser
<1>9. CASE UNCHANGED vars
  BY <1>9 DEF vars
<1> QED  BY <1>1, <1>2, <1>3, <1>4, <1>5, <1>6, <1>7, <1>8, <1>9 DEF Next

\* What a handler found out before an await is still so after it: the owner of
\* a wallet does not change, a deleted row does not come back, and a row that
\* was inserted goes only with its user or by a delete that notes it as stray.
LEMMA HandlersKnowStep ==
  ASSUME TypeOK, HandlersKnow, [Next]_vars
  PROVE  HandlersKnow'
<1> DEFINE Knows(q) ==
      /\ req[q].pc = "found" => req[q].userId = owner[req[q].id]
      /\ req[q].pc = "deleted" => req[q].id \notin rows
      /\ req[q].pc = "inserted" =>
           req[q].id \in rows \/ owner[req[q].id] \notin users \/ req[q].id \in stray
<1> SUFFICES ASSUME NEW q \in Requests
             PROVE  Knows(q)'
  BY DEF HandlersKnow
<1>k. Knows(q)
  BY DEF HandlersKnow
<1>t. /\ req \in [Requests -> Tasks] /\ owner \in Seq(Users) /\ rows \subseteq Ids
      /\ req[q].pc # "idle" => req[q].id \in Ids
      /\ Idle.pc = "idle"
  BY TaskShape DEF TypeOK, Idle
<1> USE DEF dbVars, bootVars
<1>1. CASE CountWallets \/ LoadPartition \/ Listen
  BY <1>1, <1>k DEF CountWallets, LoadPartition, Listen
<1>2. CASE Crash
  <2>1. req'[q].pc = "idle"
    BY <1>2, <1>t DEF Crash
  <2> QED  BY <2>1
<1>3. ASSUME NEW r \in Requests, NEW u \in Users, CreateInsert(r, u)
      PROVE  Knows(q)'
  <2> DEFINE new == Len(owner) + 1
  <2>1. /\ \A id \in Ids : id # new /\ owner'[id] = owner[id]
        /\ rows' = rows \cup {new}
        /\ users' = users /\ stray' = stray
        /\ req' = [req EXCEPT ![r] = Inserted(new)]
    BY <1>3, <1>t DEF CreateInsert, Ids
  <2>2. CASE q = r
    <3>1. req'[q] = Inserted(new)
      BY <2>1, <2>2, <1>t
    <3> QED  BY <3>1, <2>1 DEF Inserted
  <2>3. CASE q # r
    <3>1. req'[q] = req[q]
      BY <2>1, <2>3, <1>t
    <3>2. req[q].pc = "idle" => Knows(q)'
      BY <3>1
    <3>3. req[q].pc # "idle" => Knows(q)'
      BY <3>1, <2>1, <1>t, <1>k
    <3> QED  BY <3>2, <3>3
  <2> QED  BY <2>2, <2>3
<1>4. ASSUME NEW r \in Requests, NEW id \in Ids, NEW u \in Users, RemoveFind(r, id, u)
      PROVE  Knows(q)'
  BY <1>4, <1>k, <1>t DEF RemoveFind, Found
<1>5. ASSUME NEW r \in Requests, CreateAnnounce(r) \/ RemoveDeleteFails(r) \/ RemoveAnnounce(r)
      PROVE  Knows(q)'
  <2>1. req' = [req EXCEPT ![r] = Idle] /\ UNCHANGED <<users, owner, rows, stray>>
    BY <1>5 DEF CreateAnnounce, RemoveDeleteFails, RemoveAnnounce
  <2> QED  BY <2>1, <1>k, <1>t
<1>6. ASSUME NEW r \in Requests, RemoveDelete(r)
      PROVE  Knows(q)'
  <2>1. /\ req' = [req EXCEPT ![r] = Deleted(req[r].id)]
        /\ rows' = rows \ {req[r].id}
        /\ UNCHANGED <<users, owner>>
        /\ stray \subseteq stray'
        /\ BeingAnnounced(req[r].id) => req[r].id \in stray'
    BY <1>6 DEF RemoveDelete
  <2>2. CASE q = r
    <3>1. req'[q] = Deleted(req[q].id)
      BY <2>1, <2>2, <1>t
    <3> QED  BY <3>1, <2>1, <2>2 DEF Deleted
  <2>3. CASE q # r
    <3>1. req'[q] = req[q]
      BY <2>1, <2>3, <1>t
    <3>2. req[q].pc = "inserted" /\ req[q].id = req[r].id => BeingAnnounced(req[r].id)
      BY TaskShape DEF BeingAnnounced
    <3> QED  BY <3>1, <3>2, <2>1, <1>k
  <2> QED  BY <2>2, <2>3
<1>7. ASSUME NEW u \in Users, RemoveUser(u)
      PROVE  Knows(q)'
  BY <1>7, <1>k DEF RemoveUser, WalletsOf
<1>8. CASE UNCHANGED vars
  BY <1>8, <1>k DEF vars
<1> QED  BY <1>1, <1>2, <1>3, <1>4, <1>5, <1>6, <1>7, <1>8 DEF Next, Handler
-----------------------------------------------------------------------------
\* A wallet is announced once: by the handler that inserted it, from whose
\* insert on nobody else can have its id.
LEMMA UnannouncedStep ==
  ASSUME TypeOK, Process, Unannounced, [Next]_vars
  PROVE  Unannounced'
<1> SUFFICES ASSUME NEW q \in Requests, req'[q].pc = "inserted"
             PROVE  /\ req'[q].id \notin wallets'
                    /\ \A p \in Requests : p # q => req'[p] # req'[q]
  BY DEF Unannounced
<1>t. /\ req \in [Requests -> Tasks] /\ wallets \subseteq Ids /\ rows \subseteq Ids
      /\ Idle.pc = "idle"
  BY DEF TypeOK, Idle
<1>k. ASSUME req'[q] = req[q]
      PROVE  /\ req'[q].id \notin wallets
             /\ \A p \in Requests : p # q => req[p] # req'[q]
  BY <1>k DEF Unannounced
<1> USE DEF dbVars, bootVars
<1>1. CASE CountWallets \/ Listen \/ UNCHANGED vars
  BY <1>1, <1>k DEF CountWallets, Listen, vars
<1>2. CASE LoadPartition \/ Crash
  <2>1. req'[q].pc = "idle"
    BY <1>2, <1>t DEF LoadPartition, Crash, Process
  <2> QED  BY <2>1
<1>3. ASSUME NEW r \in Requests, NEW u \in Users, CreateInsert(r, u)
      PROVE  /\ req'[q].id \notin wallets'
             /\ \A p \in Requests : p # q => req'[p] # req'[q]
  <2> DEFINE new == Len(owner) + 1
  <2>1. wallets' = wallets /\ new \notin Ids /\ req' = [req EXCEPT ![r] = Inserted(new)]
    BY <1>3 DEF CreateInsert, Ids, TypeOK
  <2>2. \A p \in Requests : req[p] # Inserted(new)
    BY <2>1, TaskShape DEF Inserted
  <2>3. CASE q = r
    <3>1. req'[q] = Inserted(new) /\ \A p \in Requests : p # q => req'[p] = req[p]
      BY <2>1, <2>3, <1>t
    <3> QED  BY <3>1, <2>1, <2>2, <1>t DEF Inserted
  <2>4. CASE q # r
    <3>1. /\ req'[q] = req[q] /\ req'[r] = Inserted(new)
          /\ \A p \in Requests : p # r => req'[p] = req[p]
      BY <2>1, <2>4, <1>t
    <3> QED  BY <3>1, <2>1, <2>2, <1>k
  <2> QED  BY <2>3, <2>4
<1>4. ASSUME NEW r \in Requests, req'[r].pc # "inserted",
             \A p \in Requests : p # r => req'[p] = req[p]
      PROVE  /\ q # r /\ req'[q] = req[q]
             /\ \A p \in Requests : p # q => req'[p] # req'[q]
  BY <1>4, <1>k
<1>5. ASSUME NEW r \in Requests, NEW id \in Ids, NEW u \in Users, RemoveFind(r, id, u)
      PROVE  /\ req'[q].id \notin wallets'
             /\ \A p \in Requests : p # q => req'[p] # req'[q]
  <2>1. req'[r].pc = "found" /\ \A p \in Requests : p # r => req'[p] = req[p]
    BY <1>5, <1>t DEF RemoveFind, Found
  <2> QED  BY <1>5, <2>1, <1>4, <1>k DEF RemoveFind
<1>6. ASSUME NEW r \in Requests, Handler(r)
      PROVE  /\ req'[q].id \notin wallets'
             /\ \A p \in Requests : p # q => req'[p] # req'[q]
  <2>1. req'[r].pc \in {"idle", "deleted"} /\ \A p \in Requests : p # r => req'[p] = req[p]
    BY <1>6, <1>t
    DEF Handler, CreateAnnounce, RemoveDelete, RemoveDeleteFails, RemoveAnnounce, Deleted
  <2>2. q # r /\ req'[q] = req[q] /\ \A p \in Requests : p # q => req'[p] # req'[q]
    BY <2>1, <1>4
  <2>3. CASE CreateAnnounce(r)
    <3>1. req[r] = Inserted(req[r].id) /\ req[q] = Inserted(req[q].id)
      BY <2>2, <2>3, TaskShape DEF CreateAnnounce
    <3>2. req[r].id # req[q].id
      BY <2>2, <3>1 DEF Unannounced
    <3> QED  BY <2>2, <2>3, <3>2, <1>k DEF CreateAnnounce
  <2>4. CASE ~CreateAnnounce(r)
    <3>1. wallets' \subseteq wallets
      BY <1>6, <2>4 DEF Handler, RemoveDelete, RemoveDeleteFails, RemoveAnnounce
    <3> QED  BY <2>2, <3>1, <1>k
  <2> QED  BY <2>3, <2>4
<1>7. ASSUME NEW u \in Users, RemoveUser(u)
      PROVE  /\ req'[q].id \notin wallets'
             /\ \A p \in Requests : p # q => req'[p] # req'[q]
  BY <1>7, <1>k DEF RemoveUser
<1> QED  BY <1>1, <1>2, <1>3, <1>5, <1>6, <1>7, <1>k DEF Next
-----------------------------------------------------------------------------
(* How many rows a load misses. *)

\* No two rows have the same rank.
LEMMA RanksDiffer ==
  ASSUME TypeOK, NEW a \in rows, NEW b \in rows, Rank(a) = Rank(b)
  PROVE  a = b
<1>1. \A id \in rows : id \in Nat
  BY DEF TypeOK, Ids
<1>2. ASSUME NEW x \in rows, NEW y \in rows, x < y, Rank(x) = Rank(y)
      PROVE  FALSE
  <2> DEFINE BelowX == {z \in rows : z < x}
             BelowY == {z \in rows : z < y}
  <2>1. BelowX \subseteq BelowY /\ x \in BelowY /\ x \notin BelowX
    BY <1>1, <1>2
  <2>2. IsFiniteSet(BelowY)
    <3>1. BelowY \subseteq rows
      OBVIOUS
    <3> QED  BY <3>1, TableIsFinite, FS_Subset
  <2>3. Cardinality(BelowX) = Cardinality(BelowY)
    BY <1>2 DEF Rank
  <2> HIDE DEF BelowX, BelowY
  <2> QED  BY <2>1, <2>2, <2>3, FS_Subset
<1> QED  BY <1>1, <1>2

\* At most k rows have a rank among k numbers that follow each other.
LEMMA RanksApart ==
  ASSUME TypeOK, NEW from \in Nat, NEW k \in Nat, NEW S \in SUBSET rows,
         \A id \in S : from <= Rank(id) /\ Rank(id) < from + k
  PROVE  IsFiniteSet(S) /\ Cardinality(S) \in Nat /\ Cardinality(S) <= k
<1> DEFINE T == from .. from + k - 1
           rank == [id \in S |-> Rank(id)]
<1>1. IsFiniteSet(S) /\ Cardinality(S) \in Nat
  BY TableIsFinite, FS_Subset, FS_CardinalityType
<1>2. IsFiniteSet(T) /\ Cardinality(T) = k
  BY FS_Interval
<1>3. rank \in [S -> T]
  BY TableIsFinite
<1>4. \A a, b \in S : rank[a] = rank[b] => a = b
  BY RanksDiffer
<1> HIDE DEF T, rank
<1>5. ~(Cardinality(T) < Cardinality(S))
  BY <1>1, <1>2, <1>3, <1>4, FS_PigeonHole
<1> QED  BY <1>1, <1>2, <1>5

\* When some rows are deleted, a row moves down by no more than their number.
LEMMA RankFalls ==
  ASSUME TypeOK, TypeOK', NEW gone \in SUBSET rows, rows' = rows \ gone, NEW id \in rows'
  PROVE  Rank(id) <= Rank(id)' + Cardinality(gone)
<1> DEFINE Before == {x \in rows : x < id}
           After == {x \in rows' : x < id}
<1>1. /\ IsFiniteSet(gone) /\ Cardinality(gone) \in Nat
      /\ IsFiniteSet(After) /\ Cardinality(After) \in Nat
  <2>1. After \subseteq rows
    OBVIOUS
  <2> HIDE DEF After
  <2> QED  BY <2>1, TableIsFinite, FS_Subset, FS_CardinalityType
<1>2. Rank(id)' = Cardinality(After) /\ Rank(id) = Cardinality(Before)
  BY DEF Rank
<1>3. Before \subseteq After \cup gone
  OBVIOUS
<1> HIDE DEF Before, After
<1>4. /\ IsFiniteSet(After \cup gone)
      /\ Cardinality(After \cup gone) = Cardinality(After) + Cardinality(gone)
                                        - Cardinality(After \cap gone)
  BY <1>1, FS_Union
<1>5. Cardinality(After \cap gone) \in Nat
  <2>1. After \cap gone \subseteq gone
    OBVIOUS
  <2> QED  BY <2>1, <1>1, FS_Subset, FS_CardinalityType
<1>6. Cardinality(Before) <= Cardinality(After \cup gone) /\ Cardinality(Before) \in Nat
  BY <1>3, <1>4, FS_Subset, FS_CardinalityType
<1> QED  BY <1>1, <1>2, <1>4, <1>5, <1>6

\* A page that is read leaves fewer rows missed; a deletion makes rows missed that
\* were yet to be read, as many as it takes away at most.
LEMMA PagesReadStep ==
  ASSUME TypeOK, TypeOK', Process, PagesRead, [Next]_vars
  PROVE  PagesRead'
<1> SUFFICES ASSUME svc' = "loading"
             PROVE  /\ total' = Cardinality(rows') + vanished'
                    /\ Cardinality(Missed') <= vanished'
  BY DEF PagesRead
<1>f. IsFiniteSet(rows) /\ Cardinality(rows) \in Nat /\ \A id \in rows : Rank(id) \in Nat
  BY TableIsFinite
<1>m. Missed \subseteq rows /\ IsFiniteSet(Missed) /\ Cardinality(Missed) \in Nat
  <2>1. Missed \subseteq rows
    BY DEF Missed
  <2> QED  BY <2>1, <1>f, FS_Subset, FS_CardinalityType
<1>s. ASSUME rows' = rows
      PROVE  \A id : Rank(id)' = Rank(id)
  BY <1>s DEF Rank
<1> USE DEF dbVars, bootVars
<1>1. CASE CountWallets
  <2>1. total' = Cardinality(rows) /\ skip' = 0 /\ rows' = rows /\ vanished' = 0
    BY <1>1 DEF CountWallets
  <2>2. Missed' = {}
    BY <2>1, <1>f, <1>s DEF Missed
  <2> QED  BY <2>1, <2>2, <1>f, FS_EmptySet
<1>2. CASE LoadPartition
  <2>1. /\ svc = "loading" /\ rows' = rows /\ total' = total /\ vanished' = vanished
        /\ skip' = skip + PartitionSize
        /\ wallets' = wallets \cup
             {id \in rows : skip <= Rank(id) /\ Rank(id) < skip + PartitionSize}
    BY <1>2 DEF LoadPartition
  <2>2. Missed' \subseteq Missed
    <3> SUFFICES ASSUME NEW id \in rows, id \notin wallets', Rank(id) < skip + PartitionSize
                 PROVE  id \in Missed
      BY <2>1, <1>s DEF Missed
    <3>1. ~(skip <= Rank(id)) /\ id \notin wallets
      BY <2>1
    <3> QED  BY <3>1, <1>f DEF Missed, TypeOK
  <2>3. Cardinality(Missed') <= Cardinality(Missed) /\ Cardinality(Missed') \in Nat
    BY <2>2, <1>m, FS_Subset, FS_CardinalityType
  <2> QED  BY <2>1, <2>3, <1>m DEF PagesRead, TypeOK
<1>3. CASE Listen \/ Crash
  BY <1>3 DEF Listen, Crash
<1>4. ASSUME NEW r \in Requests, NEW u \in Users, CreateInsert(r, u)
      PROVE  FALSE
  BY <1>4 DEF CreateInsert
<1>5. ASSUME NEW r \in Requests, NEW id \in Ids, NEW u \in Users, RemoveFind(r, id, u)
      PROVE  FALSE
  BY <1>5 DEF RemoveFind
<1>6. ASSUME NEW r \in Requests, Handler(r)
      PROVE  FALSE
  <2>1. svc = "loading"
    BY <1>6 DEF Handler, CreateAnnounce, RemoveDelete, RemoveDeleteFails, RemoveAnnounce
  <2>2. req[r] = Idle
    BY <2>1 DEF Process
  <2> QED  BY <1>6, <2>2
           DEF Handler, CreateAnnounce, RemoveDelete, RemoveDeleteFails, RemoveAnnounce, Idle
<1>7. ASSUME NEW u \in Users, RemoveUser(u)
      PROVE  /\ total' = Cardinality(rows') + vanished'
             /\ Cardinality(Missed') <= vanished'
  <2> DEFINE gone == WalletsOf(u)
             k == Cardinality(gone)
             New == Missed' \ Missed
  <2>1. /\ svc = "loading" /\ rows' = rows \ gone /\ vanished' = vanished + k
        /\ UNCHANGED <<total, skip, wallets>>
    BY <1>7 DEF RemoveUser
  <2>2. gone \in SUBSET rows /\ IsFiniteSet(gone) /\ k \in Nat
    BY TableIsFinite DEF WalletsOf
  <2> HIDE DEF gone
  <2>3. /\ IsFiniteSet(rows') /\ Cardinality(rows') = Cardinality(rows) - k
    <3>1. rows \cap gone = gone
      BY <2>2
    <3>2. /\ IsFiniteSet(rows \ gone)
          /\ Cardinality(rows \ gone) = Cardinality(rows) - Cardinality(rows \cap gone)
      BY <1>f, FS_Difference
    <3> QED  BY <3>1, <3>2, <2>1
  <2>4. New \subseteq rows /\ \A id \in New : skip <= Rank(id) /\ Rank(id) < skip + k
    <3> SUFFICES ASSUME NEW id \in New
                 PROVE  id \in rows /\ skip <= Rank(id) /\ Rank(id) < skip + k
      OBVIOUS
    <3>1. id \in rows' /\ id \in rows /\ id \notin wallets /\ Rank(id)' < skip
      BY <2>1 DEF Missed
    <3>2. Rank(id) <= Rank(id)' + k
      BY <2>1, <2>2, <3>1, RankFalls
    <3>3. Rank(id)' \in Nat /\ Rank(id) \in Nat /\ skip \in Nat
      <4>1. Rank(id)' = Cardinality({x \in rows' : x < id})
        BY DEF Rank
      <4>2. {x \in rows' : x < id} \subseteq rows'
        OBVIOUS
      <4> QED  BY <4>1, <4>2, <2>3, <3>1, <1>f, FS_Subset, FS_CardinalityType DEF TypeOK
    <3>4. ~(Rank(id) < skip)
      BY <3>1 DEF Missed
    <3> QED  BY <2>2, <3>1, <3>2, <3>3, <3>4
  <2>5. IsFiniteSet(New) /\ Cardinality(New) \in Nat /\ Cardinality(New) <= k
    <3> HIDE DEF New, k
    <3> QED  BY <2>2, <2>4, RanksApart DEF TypeOK
  <2>6. Missed' \subseteq Missed \cup New
    OBVIOUS
  <2> HIDE DEF New
  <2>7. /\ IsFiniteSet(Missed \cup New)
        /\ Cardinality(Missed \cup New) =
             Cardinality(Missed) + Cardinality(New) - Cardinality(Missed \cap New)
    BY <2>5, <1>m, FS_Union
  <2>8. Cardinality(Missed \cap New) \in Nat
    <3>1. Missed \cap New \subseteq New
      OBVIOUS
    <3> QED  BY <3>1, <2>5, FS_Subset, FS_CardinalityType
  <2>9. Cardinality(Missed') <= Cardinality(Missed \cup New) /\ Cardinality(Missed') \in Nat
    BY <2>6, <2>7, FS_Subset, FS_CardinalityType
  <2>10. total = Cardinality(rows) + vanished /\ Cardinality(Missed) <= vanished
    BY <2>1 DEF PagesRead
  <2> HIDE DEF k
  <2> QED  BY <2>1, <2>2, <2>3, <2>5, <2>7, <2>8, <2>9, <2>10, <1>f, <1>m DEF TypeOK
<1>8. CASE UNCHANGED vars
  BY <1>8, <1>s DEF vars, PagesRead, Missed
<1> QED  BY <1>1, <1>2, <1>3, <1>4, <1>5, <1>6, <1>7, <1>8 DEF Next

\* While the process serves, a row enters the table with a handler that will
\* announce it, and leaves the map only after it left the table.
LEMMA NoMoreUnwatched ==
  ASSUME TypeOK, HandlersKnow, svc = "up", svc' = "up", [Next]_vars
  PROVE  Unwatched' \subseteq Unwatched /\ vanished' = vanished
<1>v. vanished' = vanished
  BY DEF Next, CountWallets, LoadPartition, Listen, Crash, CreateInsert, RemoveFind, Handler,
         CreateAnnounce, RemoveDelete, RemoveDeleteFails, RemoveAnnounce, RemoveUser, vars
<1> SUFFICES ASSUME NEW id \in rows', id \in rows => id \in wallets \/ BeingAnnounced(id)
             PROVE  id \in wallets' \/ BeingAnnounced(id)'
  BY <1>v DEF Unwatched
<1>r. req \in [Requests -> Tasks] /\ rows \subseteq Ids
  BY DEF TypeOK
<1> USE DEF dbVars, bootVars
<1>1. CASE CountWallets \/ LoadPartition \/ Crash \/ Listen
  BY <1>1 DEF CountWallets, LoadPartition, Crash, Listen
<1>3. ASSUME NEW r \in Requests, NEW u \in Users, CreateInsert(r, u)
      PROVE  id \in wallets' \/ BeingAnnounced(id)'
  <2>1. /\ wallets' = wallets
        /\ req[r] = Idle
        /\ rows' = rows \cup {Len(owner) + 1}
        /\ req' = [req EXCEPT ![r] = Inserted(Len(owner) + 1)]
    BY <1>3 DEF CreateInsert
  <2>2. CASE id = Len(owner) + 1
    BY <2>1, <2>2, <1>r DEF BeingAnnounced
  <2>3. CASE id \in rows
    <3>1. \A q \in Requests : req[q] = Inserted(id) => req'[q] = Inserted(id)
      BY <2>1, <1>r DEF Idle, Inserted
    <3> QED  BY <3>1, <2>1, <2>3 DEF BeingAnnounced
  <2> QED  BY <2>1, <2>2, <2>3
<1>4. ASSUME NEW r \in Requests, NEW i \in Ids, NEW u \in Users, RemoveFind(r, i, u)
      PROVE  id \in wallets' \/ BeingAnnounced(id)'
  <2>1. /\ wallets' = wallets /\ rows' = rows
        /\ req[r] = Idle
        /\ req' = [req EXCEPT ![r] = Found(i, u)]
    BY <1>4 DEF RemoveFind
  <2>2. \A q \in Requests : req[q] = Inserted(id) => req'[q] = Inserted(id)
    BY <2>1, <1>r DEF Idle, Inserted
  <2> QED  BY <2>1, <2>2 DEF BeingAnnounced
<1>5. ASSUME NEW r \in Requests, CreateAnnounce(r)
      PROVE  id \in wallets' \/ BeingAnnounced(id)'
  <2>1. /\ rows' = rows
        /\ wallets' = wallets \cup {req[r].id}
        /\ req' = [req EXCEPT ![r] = Idle]
    BY <1>5 DEF CreateAnnounce
  <2>2. \A q \in Requests :
          req[q] = Inserted(id) => req'[q] = Inserted(id) \/ (q = r /\ id = req[r].id)
    BY <2>1, <1>r DEF Inserted
  <2> QED  BY <2>1, <2>2 DEF BeingAnnounced
<1>6. ASSUME NEW r \in Requests, RemoveDelete(r) \/ RemoveDeleteFails(r)
      PROVE  id \in wallets' \/ BeingAnnounced(id)'
  <2>1. /\ rows' \subseteq rows
        /\ wallets' = wallets /\ req[r].pc = "found"
        /\ \A q \in Requests : q # r => req'[q] = req[q]
    BY <1>6, <1>r DEF RemoveDelete, RemoveDeleteFails
  <2>2. \A q \in Requests : req[q] = Inserted(id) => req'[q] = Inserted(id)
    BY <2>1 DEF Inserted
  <2> QED  BY <2>1, <2>2 DEF BeingAnnounced
<1>7. ASSUME NEW r \in Requests, RemoveAnnounce(r)
      PROVE  id \in wallets' \/ BeingAnnounced(id)'
  <2>1. /\ rows' = rows /\ req[r].pc = "deleted"
        /\ wallets' = wallets \ {req[r].id}
        /\ \A q \in Requests : q # r => req'[q] = req[q]
    BY <1>7, <1>r DEF RemoveAnnounce
  <2>2. id # req[r].id
    BY <2>1 DEF HandlersKnow
  <2>3. \A q \in Requests : req[q] = Inserted(id) => req'[q] = Inserted(id)
    BY <2>1 DEF Inserted
  <2> QED  BY <2>1, <2>2, <2>3 DEF BeingAnnounced
<1>8. ASSUME NEW u \in Users, RemoveUser(u)
      PROVE  id \in wallets' \/ BeingAnnounced(id)'
  BY <1>8 DEF RemoveUser, BeingAnnounced
<1>9. CASE UNCHANGED vars
  BY <1>9 DEF vars, BeingAnnounced
<1> QED  BY <1>1, <1>3, <1>4, <1>5, <1>6, <1>7, <1>8, <1>9 DEF Next, Handler

\* Once every page is read, what is not watched was missed.
LEMMA SkippedStep ==
  ASSUME TypeOK, HandlersKnow, PagesRead, SkippedAtMostVanished, [Next]_vars
  PROVE  SkippedAtMostVanished'
<1> SUFFICES ASSUME svc' = "up"
             PROVE  Cardinality(Unwatched') <= vanished'
  BY DEF SkippedAtMostVanished
<1>1. IsFiniteSet(rows) /\ Cardinality(rows) \in Nat
  BY TableIsFinite
<1>2. CASE svc = "up"
  <2>1. Unwatched \subseteq rows
    BY DEF Unwatched
  <2>2. IsFiniteSet(Unwatched) /\ Cardinality(Unwatched) \in Nat
    BY <1>1, <2>1, FS_Subset, FS_CardinalityType
  <2>3. Unwatched' \subseteq Unwatched /\ vanished' = vanished
    BY <1>2, NoMoreUnwatched
  <2>4. Cardinality(Unwatched') <= Cardinality(Unwatched) /\ Cardinality(Unwatched') \in Nat
    BY <2>2, <2>3, FS_Subset, FS_CardinalityType
  <2> QED  BY <1>2, <2>2, <2>3, <2>4 DEF SkippedAtMostVanished, TypeOK
<1>3. CASE svc # "up"
  <2>1. Listen
    BY <1>3 DEF Next, CountWallets, LoadPartition, Crash, CreateInsert, RemoveFind, Handler,
                CreateAnnounce, RemoveDelete, RemoveDeleteFails, RemoveAnnounce, RemoveUser,
                vars, bootVars
  <2>2. /\ svc = "loading" /\ skip >= total
        /\ rows' = rows /\ wallets' = wallets /\ vanished' = vanished
    BY <2>1 DEF Listen, dbVars
  <2>3. total = Cardinality(rows) + vanished /\ Cardinality(Missed) <= vanished
    BY <2>2 DEF PagesRead
  <2>4. \A id \in rows : Rank(id) < skip
    BY <2>2, <2>3, TableIsFinite DEF TypeOK
  <2>5. Unwatched' \subseteq Missed /\ Missed \subseteq rows
    BY <2>2, <2>4 DEF Unwatched, Missed
  <2>6. IsFiniteSet(Missed) /\ Cardinality(Missed) \in Nat
    BY <1>1, <2>5, FS_Subset, FS_CardinalityType
  <2>7. Cardinality(Unwatched') <= Cardinality(Missed) /\ Cardinality(Unwatched') \in Nat
    BY <2>5, <2>6, FS_Subset, FS_CardinalityType
  <2> QED  BY <2>2, <2>3, <2>6, <2>7 DEF TypeOK
<1> QED  BY <1>2, <1>3
-----------------------------------------------------------------------------
\* A key enters the map with its row, or is announced by a handler whose row
\* went in one of the ways KeysHaveRows allows; the handler that deletes the
\* row of a key removes the key.
LEMMA KeysHaveRowsStep ==
  ASSUME TypeOK, Process, HandlersKnow, KeysHaveRows, [Next]_vars
  PROVE  KeysHaveRows'
<1> DEFINE Excused(id) == \/ \E r \in Requests : req[r] = Deleted(id)
                          \/ owner[id] \notin users
                          \/ id \in stray
<1> SUFFICES ASSUME NEW id \in wallets', id \notin rows'
             PROVE  Excused(id)'
  BY DEF KeysHaveRows
<1>r. req \in [Requests -> Tasks] /\ rows \subseteq Ids /\ wallets \subseteq Ids
  BY DEF TypeOK
<1>k. ASSUME id \in wallets, id \notin rows
      PROVE  Excused(id)
  BY <1>k DEF KeysHaveRows
<1> USE DEF dbVars, bootVars
<1>1. CASE CountWallets \/ LoadPartition \/ Listen
  BY <1>1, <1>k DEF CountWallets, LoadPartition, Listen
<1>2. CASE Crash
  BY <1>2 DEF Crash
<1>3. ASSUME NEW r \in Requests, NEW u \in Users, CreateInsert(r, u)
      PROVE  Excused(id)'
  <2>1. /\ wallets' = wallets /\ rows \subseteq rows' /\ users' = users /\ stray' = stray
        /\ req[r] = Idle /\ req' = [req EXCEPT ![r] = Inserted(Len(owner) + 1)]
        /\ owner' = Append(owner, u)
    BY <1>3 DEF CreateInsert
  <2>2. owner'[id] = owner[id]
    BY <2>1, <1>r DEF TypeOK, Ids
  <2>3. \A q \in Requests : req[q] = Deleted(id) => req'[q] = Deleted(id)
    BY <2>1, <1>r DEF Idle, Deleted
  <2> QED  BY <2>1, <2>2, <2>3, <1>k
<1>4. ASSUME NEW r \in Requests, NEW i \in Ids, NEW u \in Users, RemoveFind(r, i, u)
      PROVE  Excused(id)'
  <2>1. /\ UNCHANGED <<wallets, rows, users, stray, owner>>
        /\ req[r] = Idle /\ req' = [req EXCEPT ![r] = Found(i, u)]
    BY <1>4 DEF RemoveFind
  <2>2. \A q \in Requests : req[q] = Deleted(id) => req'[q] = Deleted(id)
    BY <2>1, <1>r DEF Idle, Deleted
  <2> QED  BY <2>1, <2>2, <1>k
<1>5. ASSUME NEW r \in Requests, CreateAnnounce(r)
      PROVE  Excused(id)'
  <2>1. /\ UNCHANGED <<rows, users, stray, owner>>
        /\ req[r].pc = "inserted"
        /\ wallets' = wallets \cup {req[r].id}
        /\ req' = [req EXCEPT ![r] = Idle]
    BY <1>5 DEF CreateAnnounce
  <2>2. \A q \in Requests : req[q] = Deleted(id) => req'[q] = Deleted(id)
    BY <2>1, <1>r DEF Deleted
  <2>3. CASE id = req[r].id
    BY <2>1, <2>3 DEF HandlersKnow
  <2> QED  BY <2>1, <2>2, <2>3, <1>k
<1>6. ASSUME NEW r \in Requests, RemoveDelete(r)
      PROVE  Excused(id)'
  <2>1. /\ UNCHANGED <<users, owner, wallets>> /\ stray \subseteq stray'
        /\ rows' = rows \ {req[r].id} /\ req[r].pc = "found"
        /\ req' = [req EXCEPT ![r] = Deleted(req[r].id)]
    BY <1>6 DEF RemoveDelete
  <2>2. \A q \in Requests : req[q] = Deleted(id) => req'[q] = Deleted(id)
    BY <2>1, <1>r DEF Deleted
  <2>3. CASE id = req[r].id
    BY <2>1, <2>3, <1>r
  <2> QED  BY <2>1, <2>2, <2>3, <1>k
<1>7. ASSUME NEW r \in Requests, RemoveDeleteFails(r)
      PROVE  Excused(id)'
  <2>1. /\ UNCHANGED <<users, owner, wallets, stray, rows>> /\ req[r].pc = "found"
        /\ req' = [req EXCEPT ![r] = Idle]
    BY <1>7 DEF RemoveDeleteFails
  <2>2. \A q \in Requests : req[q] = Deleted(id) => req'[q] = Deleted(id)
    BY <2>1, <1>r DEF Deleted
  <2> QED  BY <2>1, <2>2, <1>k
<1>8. ASSUME NEW r \in Requests, RemoveAnnounce(r)
      PROVE  Excused(id)'
  <2>1. /\ UNCHANGED <<users, owner, stray, rows>> /\ req[r].pc = "deleted"
        /\ wallets' = wallets \ {req[r].id}
        /\ req' = [req EXCEPT ![r] = Idle]
    BY <1>8 DEF RemoveAnnounce
  <2>2. \A q \in Requests : req[q] = Deleted(id) => req'[q] = Deleted(id)
    BY <2>1, <1>r DEF Deleted
  <2> QED  BY <2>1, <2>2, <1>k
<1>9. ASSUME NEW u \in Users, RemoveUser(u)
      PROVE  Excused(id)'
  <2>1. /\ UNCHANGED <<owner, wallets, stray, req>>
        /\ users' = users \ {u} /\ rows' = rows \ WalletsOf(u)
    BY <1>9 DEF RemoveUser
  <2>2. CASE id \in rows
    BY <2>1, <2>2 DEF WalletsOf
  <2> QED  BY <2>1, <2>2, <1>k
<1>10. CASE UNCHANGED vars
  BY <1>10, <1>k DEF vars
<1> QED  BY <1>1, <1>2, <1>3, <1>4, <1>5, <1>6, <1>7, <1>8, <1>9, <1>10 DEF Next, Handler

-----------------------------------------------------------------------------
LEMMA InitIInv == Init => IInv
<1> SUFFICES ASSUME Init
             PROVE  IInv
  OBVIOUS
<1>1. TypeOK
  BY DEF Init, TypeOK, Tasks, Ids
<1>2. Process
  BY DEF Init, Process
<1>3. HandlersKnow
  BY DEF Init, HandlersKnow, Idle
<1>4. Unannounced
  BY DEF Init, Unannounced, Idle
<1>5. PagesRead /\ SkippedAtMostVanished /\ KeysHaveRows
  BY DEF Init, PagesRead, SkippedAtMostVanished, KeysHaveRows
<1> QED  BY <1>1, <1>2, <1>3, <1>4, <1>5 DEF IInv

\* The invariant holds in every reachable state.
THEOREM Invariance == Spec => []IInv
<1>1. IInv /\ [Next]_vars => IInv'
  BY TypeOKStep, ProcessStep, HandlersKnowStep, UnannouncedStep, PagesReadStep, SkippedStep,
     KeysHaveRowsStep DEF IInv
<1> QED  BY InitIInv, <1>1, PTL DEF Spec

\* Type correctness of the registry.
THEOREM TypeCorrect == Spec => []TypeOK
<1>1. IInv => TypeOK
  BY DEF IInv
<1> QED  BY Invariance, <1>1, PTL

\* A load misses no more wallets than vanished while it read its pages.
THEOREM FewAreSkipped == Spec => []SkippedAtMostVanished
<1>1. IInv => SkippedAtMostVanished
  BY DEF IInv
<1> QED  BY Invariance, <1>1, PTL

\* No wallet of the database goes unwatched while the service takes requests,
\* unless a row vanished under the load of the map.
THEOREM EveryRowIsWatched == Spec => []RowsAreWatched
<1>1. IInv => RowsAreWatched
  <2> SUFFICES ASSUME IInv, svc = "up", vanished = 0
               PROVE  Unwatched = {}
    BY DEF RowsAreWatched
  <2>1. IsFiniteSet(rows) /\ Unwatched \subseteq rows
    BY TableIsFinite DEF IInv, Unwatched
  <2>2. IsFiniteSet(Unwatched) /\ Cardinality(Unwatched) \in Nat
    BY <2>1, FS_Subset, FS_CardinalityType
  <2>3. Cardinality(Unwatched) <= 0
    BY DEF IInv, SkippedAtMostVanished
  <2> QED  BY <2>2, <2>3, FS_EmptySet
<1> QED  BY Invariance, <1>1, PTL

\* A key of the map without its row is being removed, or is one of those the
\* code never hears of.
THEOREM EveryKeyIsExplained == Spec => []KeysHaveRows
<1>1. IInv => KeysHaveRows
  BY DEF IInv
<1> QED  BY Invariance, <1>1, PTL

\* A wallet row goes only with its user or by its owner's removeWallet.
THEOREM RemovalIsTheOwners == Spec => OnlyTheOwnerRemoves
<1> DEFINE Allowed(id) ==
      \/ owner[id] \notin users'
      \/ \E r \in Requests : req[r] = Found(id, owner[id]) /\ req'[r] = Deleted(id)
<1>1. ASSUME IInv, [Next]_vars, NEW id \in rows \ rows'
      PROVE  Allowed(id)
  <2> USE DEF dbVars, bootVars
  <2>1. CASE CountWallets \/ LoadPartition \/ Listen \/ Crash \/ UNCHANGED vars
    BY <2>1, <1>1 DEF CountWallets, LoadPartition, Listen, Crash, vars
  <2>2. ASSUME NEW r \in Requests, NEW u \in Users, CreateInsert(r, u)
        PROVE  Allowed(id)
    BY <2>2, <1>1 DEF CreateInsert
  <2>3. ASSUME NEW r \in Requests, NEW i \in Ids, NEW u \in Users, RemoveFind(r, i, u)
        PROVE  Allowed(id)
    BY <2>3, <1>1 DEF RemoveFind
  <2>4. ASSUME NEW r \in Requests, Handler(r)
        PROVE  Allowed(id)
    <3>1. CASE CreateAnnounce(r) \/ RemoveDeleteFails(r) \/ RemoveAnnounce(r)
      BY <3>1, <1>1 DEF CreateAnnounce, RemoveDeleteFails, RemoveAnnounce
    <3>2. CASE RemoveDelete(r)
      <4>1. req[r].pc = "found" /\ id = req[r].id /\ req' = [req EXCEPT ![r] = Deleted(id)]
        BY <3>2, <1>1 DEF RemoveDelete
      <4>2. req[r] = Found(id, owner[id])
        BY <4>1, <1>1, TaskShape DEF IInv, HandlersKnow
      <4> QED  BY <4>1, <4>2, <1>1 DEF IInv, TypeOK
    <3> QED  BY <2>4, <3>1, <3>2 DEF Handler
  <2>5. ASSUME NEW u \in Users, RemoveUser(u)
        PROVE  Allowed(id)
    BY <2>5, <1>1 DEF RemoveUser, WalletsOf
  <2> QED  BY <1>1, <2>1, <2>2, <2>3, <2>4, <2>5 DEF Next
<1>2. IInv /\ [Next]_vars => [\A id \in rows \ rows' : Allowed(id)]_vars
  BY <1>1
<1> QED  BY Invariance, <1>2, PTL DEF Spec, OnlyTheOwnerRemoves

-----------------------------------------------------------------------------
(* The map as a watch list: every step of the registry is one of WatchList,  *)
(* or hidden from those who read the map.                                    *)

\* The life of a wallet, case by case, in a state and in the next.
LEMMA LifeNow ==
  ASSUME TypeOK, NEW id
  PROVE  /\ id \notin Ids => LifeOf(id) = "unborn"
         /\ id \in rows /\ svc # "up" => LifeOf(id) = "asleep"
         /\ id \in rows /\ svc = "up" /\ id \in wallets => LifeOf(id) = "watched"
         /\ id \in rows /\ svc = "up" /\ id \notin wallets =>
              LifeOf(id) = IF BeingAnnounced(id) THEN "due" ELSE "missed"
         /\ id \in Ids /\ id \notin rows /\ id \in wallets => LifeOf(id) = "stale"
         /\ id \in Ids /\ id \notin rows /\ id \notin wallets =>
              LifeOf(id) = IF BeingAnnounced(id) THEN "late" ELSE "dead"
<1> USE DEF LifeOf, Unwatched, TypeOK
<1>1. CASE id \notin Ids
  BY <1>1
<1>2. CASE id \in rows
  <2>1. CASE svc # "up"
    BY <1>2, <2>1
  <2>2. CASE svc = "up" /\ id \in wallets
    BY <1>2, <2>2
  <2>3. CASE svc = "up" /\ id \notin wallets /\ BeingAnnounced(id)
    BY <1>2, <2>3
  <2>4. CASE svc = "up" /\ id \notin wallets /\ ~BeingAnnounced(id)
    BY <1>2, <2>4
  <2> QED  BY <1>2, <2>1, <2>2, <2>3, <2>4
<1>3. CASE id \in Ids /\ id \notin rows
  BY <1>3
<1> QED  BY <1>1, <1>2, <1>3

LEMMA LifeThen ==
  ASSUME TypeOK', NEW id
  PROVE  /\ id \notin Ids' => LifeOf(id)' = "unborn"
         /\ id \in rows' /\ svc' # "up" => LifeOf(id)' = "asleep"
         /\ id \in rows' /\ svc' = "up" /\ id \in wallets' => LifeOf(id)' = "watched"
         /\ id \in rows' /\ svc' = "up" /\ id \notin wallets' =>
              LifeOf(id)' = IF BeingAnnounced(id)' THEN "due" ELSE "missed"
         /\ id \in Ids' /\ id \notin rows' /\ id \in wallets' => LifeOf(id)' = "stale"
         /\ id \in Ids' /\ id \notin rows' /\ id \notin wallets' =>
              LifeOf(id)' = IF BeingAnnounced(id)' THEN "late" ELSE "dead"
<1> USE DEF LifeOf, Unwatched, TypeOK
<1>1. CASE id \notin Ids'
  BY <1>1
<1>2. CASE id \in rows'
  <2>1. CASE svc' # "up"
    BY <1>2, <2>1
  <2>2. CASE svc' = "up" /\ id \in wallets'
    BY <1>2, <2>2
  <2>3. CASE svc' = "up" /\ id \notin wallets' /\ BeingAnnounced(id)'
    BY <1>2, <2>3
  <2>4. CASE svc' = "up" /\ id \notin wallets' /\ ~BeingAnnounced(id)'
    BY <1>2, <2>4
  <2> QED  BY <1>2, <2>1, <2>2, <2>3, <2>4
<1>3. CASE id \in Ids' /\ id \notin rows'
  BY <1>3
<1> QED  BY <1>1, <1>2, <1>3

LEMMA LifeStays ==
  ASSUME TypeOK, TypeOK', NEW id,
         id \in Ids' <=> id \in Ids,
         id \in rows' <=> id \in rows,
         id \in wallets' <=> id \in wallets,
         svc' = "up" <=> svc = "up",
         BeingAnnounced(id)' <=> BeingAnnounced(id)
  PROVE  LifeOf(id)' = LifeOf(id)
<1>1. rows \subseteq Ids /\ rows' \subseteq Ids'
  BY DEF TypeOK
<1>2. CASE id \notin Ids
  BY <1>2, LifeNow, LifeThen
<1>3. CASE id \in rows
  <2>1. CASE svc = "up" /\ id \notin wallets
    BY <1>1, <1>3, <2>1, LifeNow, LifeThen
  <2>2. CASE svc # "up"
    BY <1>1, <1>3, <2>2, LifeNow, LifeThen
  <2>3. CASE svc = "up" /\ id \in wallets
    BY <1>1, <1>3, <2>3, LifeNow, LifeThen
  <2> QED  BY <2>1, <2>2, <2>3
<1>4. CASE id \in Ids /\ id \notin rows
  BY <1>4, LifeNow, LifeThen
<1> QED  BY <1>2, <1>3, <1>4

LEMMA AnnouncedStays ==
  ASSUME NEW r \in Requests, \A q \in Requests : q # r => req'[q] = req[q],
         NEW id, req[r] # Inserted(id), req'[r] # Inserted(id)
  PROVE  BeingAnnounced(id)' <=> BeingAnnounced(id)
BY DEF BeingAnnounced, Inserted

LEMMA NobodyAnnounces ==
  ASSUME Process, svc # "up", NEW id
  PROVE  ~BeingAnnounced(id)
BY DEF Process, BeingAnnounced, Idle, Inserted

\* Nobody who reads the map notices.
LEMMA HiddenStep ==
  ASSUME \A id \in 1..MaxWallets : LifeOf(id)' = LifeOf(id), svc' = "up" <=> svc = "up"
  PROVE  UNCHANGED List!vars
BY DEF List!vars

\* One wallet turns.
LEMMA OneTurns ==
  ASSUME svc' = "up" <=> svc = "up", NEW id \in 1..MaxWallets,
         \A i \in 1..MaxWallets : i # id => LifeOf(i)' = LifeOf(i),
         NEW before, NEW after, LifeOf(id) = before, LifeOf(id)' = after
  PROVE  List!Turns(id, before, after) /\ (svc' = "up") = (svc = "up")
BY DEF List!Turns

LEMMA LoadIsHidden ==
  ASSUME TypeOK, TypeOK', Process, CountWallets \/ LoadPartition
  PROVE  UNCHANGED List!vars
<1>1. /\ svc # "up" /\ svc' # "up" /\ owner' = owner /\ rows' = rows /\ req' = req
      /\ \A id : id \notin rows => (id \in wallets' <=> id \in wallets)
  BY DEF CountWallets, LoadPartition, dbVars
<1>2. ASSUME NEW id \in 1..MaxWallets
      PROVE  LifeOf(id)' = LifeOf(id)
  <2>1. CASE id \in rows
    BY <1>1, <2>1, LifeNow, LifeThen
  <2>2. CASE id \notin rows
    <3>1. BeingAnnounced(id)' <=> BeingAnnounced(id)
      BY <1>1 DEF BeingAnnounced
    <3>2. id \in Ids' <=> id \in Ids
      BY <1>1 DEF Ids
    <3> QED  BY <1>1, <2>2, <3>1, <3>2, LifeStays
  <2> QED  BY <2>1, <2>2
<1> QED  BY <1>1, <1>2, HiddenStep

LEMMA ListenIsStart ==
  ASSUME TypeOK, TypeOK', Process, Listen
  PROVE  List!Next
<1>1. /\ svc # "up" /\ svc' = "up" /\ owner' = owner /\ rows' = rows /\ wallets' = wallets
      /\ req' = req
  BY DEF Listen, dbVars
<1> DEFINE missed == {id \in 1..MaxWallets : id \in rows \ wallets}
<1>2. ASSUME NEW id \in 1..MaxWallets
      PROVE  /\ ~BeingAnnounced(id)
             /\ id \in rows <=> LifeOf(id) = "asleep"
             /\ LifeOf(id)' = IF LifeOf(id) = "asleep"
                                THEN IF id \in missed THEN "missed" ELSE "watched"
                                ELSE LifeOf(id)
  <2>1. ~BeingAnnounced(id) /\ ~BeingAnnounced(id)'
    <3>1. ~BeingAnnounced(id)
      BY <1>1, NobodyAnnounces
    <3> QED  BY <3>1, <1>1 DEF BeingAnnounced
  <2>2. id \in Ids' <=> id \in Ids
    BY <1>1 DEF Ids
  <2>3. CASE id \in rows
    BY <1>1, <2>1, <2>3, LifeNow, LifeThen
  <2>4. CASE id \notin rows
    BY <1>1, <2>1, <2>2, <2>4, LifeNow, LifeThen DEF TypeOK
  <2> QED  BY <2>1, <2>3, <2>4
<1>3. missed \in SUBSET (1..MaxWallets)
  OBVIOUS
<1> HIDE DEF missed
<1>4. List!Start(missed)
  BY <1>1, <1>2 DEF List!Start
<1> QED  BY <1>3, <1>4 DEF List!Next

LEMMA CrashIsStop ==
  ASSUME TypeOK, TypeOK', Crash
  PROVE  List!Next
<1>1. /\ svc' # "up" /\ owner' = owner /\ rows' = rows /\ wallets' = {}
      /\ req' = [r \in Requests |-> Idle]
  BY DEF Crash, dbVars
<1>2. ASSUME NEW id \in 1..MaxWallets
      PROVE  LifeOf(id)' = CASE LifeOf(id) \in {"due", "watched", "missed", "asleep"} -> "asleep"
                             [] LifeOf(id) \in {"late", "stale", "dead"} -> "dead"
                             [] OTHER -> "unborn"
  <2>1. ~BeingAnnounced(id)'
    BY <1>1 DEF BeingAnnounced, Idle, Inserted
  <2>2. id \in Ids' <=> id \in Ids
    BY <1>1 DEF Ids
  <2>3. CASE id \notin Ids
    BY <2>2, <2>3, LifeNow, LifeThen
  <2>4. CASE id \in rows
    <3>1. LifeOf(id) \in {"due", "watched", "missed", "asleep"}
      BY <2>4, LifeNow
    <3>2. LifeOf(id)' = "asleep"
      BY <1>1, <2>4, LifeThen
    <3> QED  BY <3>1, <3>2
  <2>5. CASE id \in Ids /\ id \notin rows
    <3>1. LifeOf(id) \in {"late", "stale", "dead"}
      BY <2>5, LifeNow
    <3>2. LifeOf(id)' = "dead"
      BY <1>1, <2>1, <2>2, <2>5, LifeThen
    <3> QED  BY <3>1, <3>2
  <2> QED  BY <2>3, <2>4, <2>5
<1>3. List!Stop
  BY <1>1, <1>2 DEF List!Stop
<1> QED  BY <1>3 DEF List!Next

LEMMA CreateIsCreate ==
  ASSUME TypeOK, TypeOK', NEW r \in Requests, NEW u \in Users, CreateInsert(r, u)
  PROVE  List!Next
<1> SUFFICES ASSUME NEW new, new = Len(owner) + 1
             PROVE  List!Next
  OBVIOUS
<1>1. /\ svc = "up" /\ svc' = svc /\ wallets' = wallets /\ rows' = rows \cup {new}
      /\ req[r] = Idle /\ req' = [req EXCEPT ![r] = Inserted(new)]
      /\ owner' = Append(owner, u) /\ new \in 1..MaxWallets
  BY MaxWalletsAssumption DEF CreateInsert, bootVars, TypeOK
<1>2. req \in [Requests -> Tasks] /\ new \notin Ids /\ Ids' = Ids \cup {new}
  BY <1>1 DEF TypeOK, Ids
<1>3. LifeOf(new) = "unborn"
  BY <1>2, LifeNow
<1>4. LifeOf(new)' = "due"
  <2>1. BeingAnnounced(new)'
    BY <1>1, <1>2 DEF BeingAnnounced
  <2>2. new \notin wallets
    BY <1>2 DEF TypeOK
  <2> QED  BY <1>1, <2>1, <2>2, LifeThen
<1>5. ASSUME NEW id \in 1..MaxWallets, id # new
      PROVE  LifeOf(id)' = LifeOf(id)
  <2>1. req[r] # Inserted(id) /\ req'[r] # Inserted(id) /\ \A q \in Requests : q # r => req'[q] = req[q]
    BY <1>1, <1>2, <1>5 DEF Idle, Inserted
  <2>2. BeingAnnounced(id)' <=> BeingAnnounced(id)
    BY <2>1, AnnouncedStays
  <2> QED  BY <1>1, <1>2, <1>5, <2>2, LifeStays
<1>6. List!Create(new)
  BY <1>1, <1>3, <1>4, <1>5, OneTurns DEF List!Create
<1> QED  BY <1>1, <1>6 DEF List!Next

LEMMA AnnounceIsAnnounce ==
  ASSUME TypeOK, TypeOK', Process, NEW r \in Requests, CreateAnnounce(r)
  PROVE  [List!Next]_(List!vars)
<1> SUFFICES ASSUME NEW new, new = req[r].id
             PROVE  [List!Next]_(List!vars)
  OBVIOUS
<1>1. /\ svc' = svc /\ rows' = rows /\ owner' = owner /\ wallets' = wallets \cup {new}
      /\ req[r] = Inserted(new) /\ req' = [req EXCEPT ![r] = Idle] /\ new \in Ids
  <2>1. /\ req[r].pc = "inserted" /\ req' = [req EXCEPT ![r] = Idle]
        /\ svc' = svc /\ rows' = rows /\ owner' = owner /\ wallets' = wallets \cup {new}
    BY DEF CreateAnnounce, bootVars, dbVars
  <2>2. req[r] = Inserted(new) /\ new \in Ids
    BY <2>1, TaskShape
  <2> QED  BY <2>1, <2>2
<1>2. svc = "up" /\ Ids' = Ids /\ req \in [Requests -> Tasks]
  <2>1. req[r] # Idle
    BY <1>1 DEF Idle, Inserted
  <2> QED  BY <2>1, <1>1 DEF Process, Ids, TypeOK
<1>3. ASSUME NEW id \in 1..MaxWallets, id # new
      PROVE  LifeOf(id)' = LifeOf(id)
  <2>1. req[r] # Inserted(id) /\ req'[r] # Inserted(id) /\ \A q \in Requests : q # r => req'[q] = req[q]
    BY <1>1, <1>2, <1>3 DEF Idle, Inserted
  <2>2. BeingAnnounced(id)' <=> BeingAnnounced(id)
    BY <2>1, AnnouncedStays
  <2> QED  BY <1>1, <1>2, <1>3, <2>2, LifeStays
<1>4. BeingAnnounced(new)
  BY <1>1 DEF BeingAnnounced
<1>5. CASE new \notin 1..MaxWallets \/ new \in wallets
  <2>1. new \in wallets => LifeOf(new)' = LifeOf(new)
    BY <1>1, <1>2, LifeNow, LifeThen
  <2> QED  BY <1>1, <1>3, <1>5, <2>1, HiddenStep
<1>6. CASE new \in 1..MaxWallets /\ new \notin wallets
  <2>1. CASE new \in rows
    <3>1. LifeOf(new) = "due" /\ LifeOf(new)' = "watched"
      BY <1>1, <1>2, <1>4, <1>6, <2>1, LifeNow, LifeThen
    <3>2. List!Announce(new)
      BY <1>1, <1>3, <1>6, <3>1, OneTurns DEF List!Announce
    <3> QED  BY <1>6, <3>2 DEF List!Next
  <2>2. CASE new \notin rows
    <3>1. LifeOf(new) = "late" /\ LifeOf(new)' = "stale"
      BY <1>1, <1>2, <1>4, <1>6, <2>2, LifeNow, LifeThen
    <3>2. List!Announce(new)
      BY <1>1, <1>3, <1>6, <3>1, OneTurns DEF List!Announce
    <3> QED  BY <1>6, <3>2 DEF List!Next
  <2> QED  BY <2>1, <2>2
<1> QED  BY <1>5, <1>6

\* A handler finds the wallet, or finds it gone.
LEMMA FindIsHidden ==
  ASSUME TypeOK, TypeOK', NEW r \in Requests,
         (\E id \in Ids : \E u \in Users : RemoveFind(r, id, u)) \/ RemoveDeleteFails(r)
  PROVE  UNCHANGED List!vars
<1>1. /\ svc' = svc /\ rows' = rows /\ owner' = owner /\ wallets' = wallets
      /\ req[r].pc \in {"idle", "found"} /\ req'[r].pc \in {"idle", "found"}
      /\ \A q \in Requests : q # r => req'[q] = req[q]
  BY DEF RemoveFind, RemoveDeleteFails, bootVars, dbVars, Idle, Found, TypeOK
<1>2. ASSUME NEW id \in 1..MaxWallets
      PROVE  LifeOf(id)' = LifeOf(id)
  <2>1. req[r] # Inserted(id) /\ req'[r] # Inserted(id)
    BY <1>1 DEF Inserted
  <2>2. BeingAnnounced(id)' <=> BeingAnnounced(id)
    BY <1>1, <2>1, AnnouncedStays
  <2>3. id \in Ids' <=> id \in Ids
    BY <1>1 DEF Ids
  <2> QED  BY <1>1, <2>2, <2>3, LifeStays
<1> QED  BY <1>1, <1>2, HiddenStep

\* Rows go, by whichever way.
LEMMA RowsGo ==
  ASSUME TypeOK, TypeOK', Process, NEW gone \in SUBSET rows,
         rows' = rows \ gone, owner' = owner, wallets' = wallets, svc' = svc,
         \A id : BeingAnnounced(id)' <=> BeingAnnounced(id)
  PROVE  List!Next
<1> DEFINE lost == {id \in 1..MaxWallets : id \in gone}
           read == {id \in 1..MaxWallets : id \in wallets}
<1>1. Ids' = Ids /\ rows \subseteq Ids
  BY DEF Ids, TypeOK
<1>2. ASSUME NEW id \in lost
      PROVE  /\ LifeOf(id) \in {"due", "watched", "missed", "asleep"}
             /\ LifeOf(id)' = CASE LifeOf(id) = "due" -> "late"
                                [] LifeOf(id) = "watched" -> "stale"
                                [] LifeOf(id) = "asleep" /\ id \in read -> "stale"
                                [] OTHER -> "dead"
  <2>1. id \in rows /\ id \notin rows' /\ id \in Ids' /\ (id \in read <=> id \in wallets)
    BY <1>1
  <2>2. CASE svc = "up" /\ id \in wallets
    BY <2>1, <2>2, LifeNow, LifeThen
  <2>3. CASE svc = "up" /\ id \notin wallets
    BY <2>1, <2>3, LifeNow, LifeThen
  <2>4. CASE svc # "up"
    <3>1. ~BeingAnnounced(id)
      BY <2>4, NobodyAnnounces
    <3>2. LifeOf(id) = "asleep"
      BY <2>1, <2>4, LifeNow
    <3>3. LifeOf(id)' = IF id \in wallets THEN "stale" ELSE "dead"
      BY <2>1, <3>1, LifeThen
    <3> QED  BY <2>1, <3>2, <3>3
  <2> QED  BY <2>2, <2>3, <2>4
<1>3. ASSUME NEW id \in 1..MaxWallets, id \notin lost
      PROVE  LifeOf(id)' = LifeOf(id)
  <2>1. id \in rows' <=> id \in rows
    BY <1>3
  <2> QED  BY <1>1, <2>1, LifeStays
<1>4. lost \in SUBSET (1..MaxWallets) /\ read \in SUBSET (1..MaxWallets)
  OBVIOUS
<1> HIDE DEF lost, read
<1>5. [id \in 1..MaxWallets |-> LifeOf(id)]' =
        [id \in 1..MaxWallets |->
           CASE id \notin lost -> LifeOf(id)
             [] id \in lost /\ LifeOf(id) = "due" -> "late"
             [] id \in lost /\ LifeOf(id) = "watched" -> "stale"
             [] id \in lost /\ LifeOf(id) = "asleep" /\ id \in read -> "stale"
             [] OTHER -> "dead"]
  <2>1. ASSUME NEW id \in 1..MaxWallets
        PROVE  LifeOf(id)' =
                 CASE id \notin lost -> LifeOf(id)
                   [] id \in lost /\ LifeOf(id) = "due" -> "late"
                   [] id \in lost /\ LifeOf(id) = "watched" -> "stale"
                   [] id \in lost /\ LifeOf(id) = "asleep" /\ id \in read -> "stale"
                   [] OTHER -> "dead"
    <3>1. CASE id \in lost
      BY <1>2, <3>1
    <3>2. CASE id \notin lost
      BY <1>3, <3>2
    <3> QED  BY <3>1, <3>2
  <2> QED  BY <2>1
<1>6. List!Delete(lost, read)
  <2>1. \A id \in lost : id \in 1..MaxWallets /\ LifeOf(id) \in {"due", "watched", "missed", "asleep"}
    BY <1>2, <1>4
  <2> QED  BY <1>5, <2>1 DEF List!Delete
<1> QED  BY <1>4, <1>6 DEF List!Next

LEMMA RemoveIsForget ==
  ASSUME TypeOK, TypeOK', Process, HandlersKnow,
         NEW r \in Requests, RemoveAnnounce(r), Unannounced
  PROVE  [List!Next]_(List!vars)
<1> SUFFICES ASSUME NEW old, old = req[r].id
             PROVE  [List!Next]_(List!vars)
  OBVIOUS
<1>1. /\ svc' = svc /\ rows' = rows /\ owner' = owner /\ wallets' = wallets \ {old}
      /\ req[r].pc = "deleted" /\ old \notin rows /\ old \in Ids
      /\ req'[r] = Idle /\ \A q \in Requests : q # r => req'[q] = req[q]
  BY TaskShape DEF RemoveAnnounce, bootVars, dbVars, HandlersKnow, TypeOK
<1>2. svc = "up" /\ Ids' = Ids
  BY <1>1 DEF Process, Idle, Ids
<1>3. \A id : BeingAnnounced(id)' <=> BeingAnnounced(id)
  <2>1. \A id : req[r] # Inserted(id) /\ req'[r] # Inserted(id)
    BY <1>1 DEF Inserted, Idle
  <2> QED  BY <1>1, <2>1, AnnouncedStays
<1>4. ASSUME NEW id \in 1..MaxWallets, id # old \/ old \notin wallets
      PROVE  LifeOf(id)' = LifeOf(id)
  BY <1>1, <1>2, <1>3, <1>4, LifeStays
<1>5. CASE old \notin 1..MaxWallets \/ old \notin wallets
  BY <1>1, <1>4, <1>5, HiddenStep
<1>6. CASE old \in 1..MaxWallets /\ old \in wallets
  <2>1. ~BeingAnnounced(old)
    BY <1>6 DEF BeingAnnounced, Unannounced, Inserted
  <2>2. LifeOf(old) = "stale" /\ LifeOf(old)' = "dead"
    BY <1>1, <1>2, <1>3, <1>6, <2>1, LifeNow, LifeThen
  <2>3. List!Forget(old)
    BY <1>1, <1>4, <1>6, <2>2, OneTurns DEF List!Forget
  <2> QED  BY <1>6, <2>3 DEF List!Next
<1> QED  BY <1>5, <1>6

\* Whatever overlaps, the map is a watch list: a wallet that lives is watched from
\* its announcement until the process stops, and the dead do not come back.
THEOREM MapIsAWatchList == Spec => IsAWatchList
<1>1. Init => List!Init
  <2> SUFFICES ASSUME Init
               PROVE  List!Init
    OBVIOUS
  <2>1. Ids = {} /\ svc = "down"
    BY DEF Init, Ids
  <2>2. \A id : LifeOf(id) = "unborn"
    BY <2>1, InitIInv, LifeNow DEF IInv
  <2> QED  BY <2>1, <2>2 DEF List!Init
<1>2. IInv /\ IInv' /\ [Next]_vars => [List!Next]_(List!vars)
  <2> SUFFICES ASSUME IInv, IInv', [Next]_vars
               PROVE  [List!Next]_(List!vars)
    OBVIOUS
  <2> USE DEF IInv
  <2>1. CASE CountWallets \/ LoadPartition
    BY <2>1, LoadIsHidden
  <2>2. CASE Listen \/ Crash
    BY <2>2, ListenIsStart, CrashIsStop
  <2>3. ASSUME NEW r \in Requests, NEW u \in Users, CreateInsert(r, u)
        PROVE  List!Next
    BY <2>3, CreateIsCreate
  <2>4. ASSUME NEW r \in Requests, NEW id \in Ids, NEW u \in Users, RemoveFind(r, id, u)
        PROVE  UNCHANGED List!vars
    BY <2>4, FindIsHidden
  <2>5. ASSUME NEW r \in Requests, Handler(r)
        PROVE  [List!Next]_(List!vars)
    <3>1. CASE CreateAnnounce(r)
      BY <3>1, AnnounceIsAnnounce
    <3>2. CASE RemoveDelete(r)
      <4>1. /\ rows' = rows \ {req[r].id} /\ {req[r].id} \in SUBSET rows
            /\ owner' = owner /\ wallets' = wallets /\ svc' = svc
            /\ req[r].pc = "found" /\ req'[r].pc = "deleted"
            /\ \A q \in Requests : q # r => req'[q] = req[q]
        BY <3>2 DEF RemoveDelete, bootVars, Deleted, TypeOK
      <4>2. \A id : req[r] # Inserted(id) /\ req'[r] # Inserted(id)
        BY <4>1 DEF Inserted
      <4>3. \A id : BeingAnnounced(id)' <=> BeingAnnounced(id)
        BY <4>1, <4>2, AnnouncedStays
      <4> QED  BY <4>1, <4>3, RowsGo
    <3>3. CASE RemoveDeleteFails(r)
      BY <3>3, FindIsHidden
    <3>4. CASE RemoveAnnounce(r)
      BY <3>4, RemoveIsForget
    <3> QED  BY <2>5, <3>1, <3>2, <3>3, <3>4 DEF Handler
  <2>6. ASSUME NEW u \in Users, RemoveUser(u)
        PROVE  List!Next
    <3>1. /\ WalletsOf(u) \in SUBSET rows /\ rows' = rows \ WalletsOf(u)
          /\ owner' = owner /\ wallets' = wallets /\ svc' = svc /\ req' = req
      BY <2>6 DEF RemoveUser, WalletsOf, bootVars
    <3>2. \A id : BeingAnnounced(id)' <=> BeingAnnounced(id)
      BY <3>1 DEF BeingAnnounced
    <3> QED  BY <3>1, <3>2, RowsGo
  <2>7. CASE UNCHANGED vars
    <3>1. ASSUME NEW id \in 1..MaxWallets
          PROVE  LifeOf(id)' = LifeOf(id)
      <4>1. BeingAnnounced(id)' <=> BeingAnnounced(id)
        BY <2>7 DEF vars, BeingAnnounced
      <4>2. id \in Ids' <=> id \in Ids
        BY <2>7 DEF vars, Ids
      <4> QED  BY <2>7, <4>1, <4>2, LifeStays DEF vars
    <3> QED  BY <2>7, <3>1, HiddenStep DEF vars
  <2> QED  BY <2>1, <2>2, <2>3, <2>4, <2>5, <2>6, <2>7 DEF Next
<1> QED  BY <1>1, <1>2, Invariance, PTL DEF Spec, IsAWatchList, List!Spec
=============================================================================
