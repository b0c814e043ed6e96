---------------------------- MODULE Sending_proofs ----------------------------
(***************************************************************************)
(* Proofs about Sending: a payment that was reported as sent keeps its      *)
(* place, for every set of accounts and every set of calls.                *)
(*                                                                         *)
(* The nonces that the node has for an account are those below the next     *)
(* one, each once (Distinct, Slots).  So the nonce of an answer is above    *)
(* those of the transactions that the node had when it counted (Counted),   *)
(* and a call that replaces a payment goes by an answer older than it.      *)
(***************************************************************************)
EXTENDS Sending, FiniteSetTheorems, TLAPS

Node == pool \cup mined

Finite == IsFiniteSet(pool) /\ IsFiniteSet(mined)

Distinct ==
  /\ \A t, u \in Node : SameSlot(t, u) => t = u
  /\ pool \cap mined = {}

\* The nonces of an account: no more and no less than those below the next one.
Slots ==
  \A a \in Accounts :
    /\ \A t \in Node : t.account = a => t.nonce < PendingNonce(a)
    /\ \A n \in Nat : n < PendingNonce(a) => \E t \in Node : t.account = a /\ t.nonce = n

\* A nonce that a call holds, or that the provider repeats, is not above the next
\* one.
Held ==
  /\ \A s \in kept : s.nonce <= PendingNonce(s.account)
  /\ \A r \in Requests, a \in Accounts :
       call[r].pc = "ready" /\ call[r].account = a => call[r].nonce <= PendingNonce(a)

Sent == {"taken", "yes"}
Holding == {"ready"} \cup Sent
Signed == [pc : {"taken", "yes", "no", "lost"},
           account : Accounts, nonce : Nat, counted : SUBSET Requests]

\* A call that was counted has been broadcast, with a nonce below the answer's.
Under(q, nonce) ==
  /\ call[q].pc \notin {"new", "found", "ready"}
  /\ call[q].pc \in Sent => call[q].nonce < nonce

Counted ==
  /\ \A s \in kept : \A q \in s.counted : Under(q, s.nonce)
  /\ \A r \in Requests :
       call[r].pc = "ready" => \A q \in call[r].counted : Under(q, call[r].nonce)

\* What the node has comes from calls that are past their broadcast.
Senders == \A t \in Node : call[t.by] \in Signed

\* What was broadcast has its place, itself or by a call with an answer older than it.
Placed ==
  \A r \in Requests :
    call[r].pc \in Sent =>
      \E t \in Node :
        /\ SameSlot(t, TxOf(r))
        /\ t.by # r => r \notin call[t.by].counted

IInv == TypeOK /\ Finite /\ Distinct /\ Slots /\ Held /\ Counted /\ Senders /\ Placed

-----------------------------------------------------------------------------
(* The nonce the node answers *)

LEMMA OnFinite ==
  ASSUME NEW set, IsFiniteSet(set), NEW a
  PROVE  IsFiniteSet(On(set, a)) /\ Cardinality(On(set, a)) \in Nat
<1>1. IsFiniteSet(On(set, a))
  BY FS_Subset DEF On
<1> QED  BY <1>1, FS_CardinalityType

LEMMA PendingType ==
  ASSUME Finite, NEW a
  PROVE  PendingNonce(a) \in Nat
BY OnFinite DEF Finite, PendingNonce

\* An answer is the node's or one that was kept.
LEMMA AnswerType ==
  ASSUME TypeOK, Finite, NEW a \in Accounts, NEW s \in Answers(a)
  PROVE  s \in Answer /\ s.account = a /\ (s \in kept \/ s = NodeAnswer(a))
<1>1. NodeAnswer(a) \in Answer /\ NodeAnswer(a).account = a
  BY PendingType DEF NodeAnswer, Answer
<1>2. \A u \in On(kept, a) : u \in kept /\ u \in Answer /\ u.account = a
  BY DEF On, TypeOK
<1> QED  BY <1>1, <1>2 DEF Answers

-----------------------------------------------------------------------------
(* What one step does to a call and to the answers *)

LEMMA TypeStep ==
  ASSUME TypeOK, Finite, [Next]_vars
  PROVE  TypeOK'
<1> USE DEF TypeOK, Calls, Transactions
<1>1. ASSUME NEW r \in Requests, NEW a \in Accounts, Find(r, a)
      PROVE  TypeOK'
  BY <1>1 DEF Find
<1>2. ASSUME NEW r \in Requests, Refuse(r)
      PROVE  TypeOK'
  <2>1. [call[r] EXCEPT !.pc = "no"] \in Calls
    BY <1>2 DEF Refuse
  <2> QED  BY <1>2, <2>1 DEF Refuse, Becomes
<1>3. ASSUME NEW r \in Requests, ReadNonce(r)
      PROVE  TypeOK'
  <2>1. call[r].account \in Accounts
    BY <1>3 DEF ReadNonce
  <2>2. PICK u \in Answers(call[r].account) :
          /\ call' = [call EXCEPT ![r] = [pc |-> "ready", account |-> u.account,
                                          nonce |-> u.nonce, counted |-> u.counted]]
          /\ kept' = kept \cup {u}
    BY <1>3 DEF ReadNonce
  <2>3. u \in Answer
    BY <2>1, AnswerType
  <2>4. call' \in [Requests -> Calls] /\ kept' \subseteq Answer
    BY <2>2, <2>3 DEF Answer
  <2> QED  BY <1>3, <2>4 DEF ReadNonce
<1>4. ASSUME NEW r \in Requests, Fails(r)
      PROVE  TypeOK'
  <2>1. [call[r] EXCEPT !.pc = "no"] \in Calls
    BY <1>4 DEF Fails
  <2> QED  BY <1>4, <2>1 DEF Fails, Becomes
<1>5. ASSUME NEW r \in Requests, Broadcast(r)
      PROVE  TypeOK'
  <2>1. [call[r] EXCEPT !.pc = "taken"] \in Calls /\ TxOf(r) \in Transactions
    BY <1>5 DEF Broadcast, TxOf
  <2> QED  BY <1>5, <2>1 DEF Broadcast, Becomes
<1>6. ASSUME NEW r \in Requests, BroadcastRefused(r)
      PROVE  TypeOK'
  <2>1. [call[r] EXCEPT !.pc = "no"] \in Calls
    BY <1>6 DEF BroadcastRefused
  <2> QED  BY <1>6, <2>1 DEF BroadcastRefused, Becomes
<1>7. ASSUME NEW r \in Requests, Return(r)
      PROVE  TypeOK'
  <2>1. [call[r] EXCEPT !.pc = "yes"] \in Calls
    BY <1>7 DEF Return
  <2> QED  BY <1>7, <2>1 DEF Return, Becomes
<1>8. ASSUME NEW r \in Requests, LoseAnswer(r)
      PROVE  TypeOK'
  <2>1. [call[r] EXCEPT !.pc = "no"] \in Calls
    BY <1>8 DEF LoseAnswer
  <2> QED  BY <1>8, <2>1 DEF LoseAnswer, Becomes
<1>9. CASE ServiceDies
  <2>1. \A r \in Requests : call[r].pc \in Running => [call[r] EXCEPT !.pc = "lost"] \in Calls
    BY DEF Running
  <2> QED  BY <1>9, <2>1 DEF ServiceDies
<1>10. CASE MineSome
  BY <1>10 DEF MineSome, Mine
<1>11. CASE \E u \in kept : AnswerExpires(u)
  BY <1>11 DEF AnswerExpires
<1> QED
  BY <1>1, <1>2, <1>3, <1>4, <1>5, <1>6, <1>7, <1>8, <1>9, <1>10, <1>11 DEF Next, vars

\* A call holds a nonce from the time it is answered one, and keeps it.
LEMMA CallStep ==
  ASSUME TypeOK, Finite, [Next]_vars, NEW r \in Requests, call'[r].pc \in Holding
  PROVE  \/ /\ call[r].pc \in Holding
            /\ call'[r].account = call[r].account
            /\ call'[r].nonce = call[r].nonce
            /\ call'[r].counted = call[r].counted
            /\ call'[r].pc = "ready" => call[r].pc = "ready"
            /\ call'[r].pc \in Sent => call[r].pc \in Sent \/ Broadcast(r)
         \/ /\ call[r].pc = "found"
            /\ call'[r].pc = "ready"
            /\ UNCHANGED <<pool, mined>>
            /\ \E a \in Accounts : \E s \in Answers(a) :
                 /\ call'[r].account = a
                 /\ call'[r].nonce = s.nonce
                 /\ call'[r].counted = s.counted
<1> USE DEF TypeOK, Holding, Sent
<1>1. CASE ReadNonce(r)
  <2>1. call[r].account \in Accounts
    BY <1>1 DEF ReadNonce, Calls
  <2>2. PICK s \in Answers(call[r].account) :
          call' = [call EXCEPT ![r] = [pc |-> "ready", account |-> s.account,
                                       nonce |-> s.nonce, counted |-> s.counted]]
    BY <1>1 DEF ReadNonce
  <2>3. s.account = call[r].account
    BY <2>1, AnswerType
  <2>4. /\ call'[r].pc = "ready" /\ call'[r].account = s.account
        /\ call'[r].nonce = s.nonce /\ call'[r].counted = s.counted
    BY <2>2
  <2> QED  BY <1>1, <2>1, <2>3, <2>4 DEF ReadNonce
<1>2. CASE Broadcast(r)
  BY <1>2 DEF Broadcast, Becomes, Calls
<1>3. CASE Return(r)
  BY <1>3 DEF Return, Becomes, Calls
<1>4. CASE call'[r] = call[r]
  BY <1>4
<1>5. CASE Refuse(r) \/ Fails(r) \/ BroadcastRefused(r) \/ LoseAnswer(r)
  BY <1>5 DEF Refuse, Fails, BroadcastRefused, LoseAnswer, Becomes, Calls
<1>6. CASE \E a \in Accounts : Find(r, a)
  BY <1>6 DEF Find
<1>7. CASE ServiceDies
  BY <1>7 DEF ServiceDies, Calls
<1>8. CASE MineSome \/ (\E s \in kept : AnswerExpires(s)) \/ UNCHANGED vars
  BY <1>8 DEF MineSome, Mine, AnswerExpires, vars
<1>9. ASSUME NEW q \in Requests, q # r,
             \/ \E a \in Accounts : Find(q, a)
             \/ Refuse(q) \/ ReadNonce(q) \/ Fails(q) \/ Broadcast(q)
             \/ BroadcastRefused(q) \/ Return(q) \/ LoseAnswer(q)
      PROVE  call'[r] = call[r]
  BY <1>9 DEF Find, Refuse, ReadNonce, Fails, Broadcast, BroadcastRefused, Return,
              LoseAnswer, Becomes
<1> QED
  BY <1>1, <1>2, <1>3, <1>4, <1>5, <1>6, <1>7, <1>8, <1>9 DEF Next

\* A call past its broadcast stays so, and so does what it goes by.
LEMMA PastStep ==
  ASSUME TypeOK, [Next]_vars, NEW r \in Requests
  PROVE  /\ call[r].pc \notin {"new", "found", "ready"} =>
              call'[r].pc \notin {"new", "found", "ready"}
         /\ call[r] \in Signed => call'[r] \in Signed /\ call'[r].counted = call[r].counted
<1>1. CASE call'[r] = call[r]
  BY <1>1
<1>2. CASE \E x \in {"yes", "no", "lost"} : call'[r] = [call[r] EXCEPT !.pc = x]
  BY <1>2 DEF Signed, TypeOK, Calls
<1>3. CASE call[r].pc \in {"new", "found", "ready"}
  BY <1>3 DEF Signed
<1>4. CASE call[r].pc \notin {"new", "found", "ready"}
  <2>1. ASSUME NEW q \in Requests,
               \/ \E a \in Accounts : Find(q, a)
               \/ Refuse(q) \/ ReadNonce(q) \/ Fails(q) \/ Broadcast(q) \/ BroadcastRefused(q)
        PROVE  call'[r] = call[r]
    BY <1>4, <2>1 DEF Find, Refuse, ReadNonce, Fails, Broadcast, BroadcastRefused, Becomes,
                      TypeOK
  <2>2. ASSUME NEW q \in Requests, Return(q) \/ LoseAnswer(q)
        PROVE  \/ call'[r] = call[r]
               \/ \E x \in {"yes", "no", "lost"} : call'[r] = [call[r] EXCEPT !.pc = x]
    BY <2>2 DEF Return, LoseAnswer, Becomes, TypeOK
  <2>3. ASSUME ServiceDies
        PROVE  \/ call'[r] = call[r]
               \/ \E x \in {"yes", "no", "lost"} : call'[r] = [call[r] EXCEPT !.pc = x]
    BY <2>3 DEF ServiceDies
  <2>4. ASSUME MineSome \/ (\E u \in kept : AnswerExpires(u)) \/ UNCHANGED vars
        PROVE  call'[r] = call[r]
    BY <2>4 DEF MineSome, Mine, AnswerExpires, vars
  <2> QED  BY <1>1, <1>2, <2>1, <2>2, <2>3, <2>4 DEF Next
<1> QED  BY <1>3, <1>4

\* What is kept anew is what the node answers.
LEMMA AnswersStep ==
  ASSUME TypeOK, Finite, [Next]_vars
  PROVE  \A s \in kept' : \/ s \in kept
                         \/ \E a \in Accounts : s = NodeAnswer(a) /\ UNCHANGED <<pool, mined>>
<1>1. ASSUME NEW r \in Requests, ReadNonce(r), NEW s \in kept', s \notin kept
      PROVE  \E a \in Accounts : s = NodeAnswer(a) /\ UNCHANGED <<pool, mined>>
  <2>1. s \in Answers(call[r].account) /\ call[r].pc = "found" /\ UNCHANGED <<pool, mined>>
    BY <1>1 DEF ReadNonce
  <2>2. call[r].account \in Accounts
    BY <2>1 DEF TypeOK, Calls
  <2> QED  BY <1>1, <2>1, <2>2, AnswerType
<1> QED
  BY <1>1 DEF Next, vars, Find, Refuse, Fails, Broadcast, BroadcastRefused, Return,
              LoseAnswer, AnswerExpires, ServiceDies, MineSome, Mine, Becomes

-----------------------------------------------------------------------------
(* What one step does to the node *)

\* A transaction that is mined leaves the next nonce what it was.
LEMMA MineStep ==
  ASSUME Finite, Distinct, NEW t, Mine(t)
  PROVE  Finite' /\ Distinct' /\ Node' = Node /\ \A a : PendingNonce(a)' = PendingNonce(a)
<1> USE DEF Mine
<1>1. Finite'
  BY FS_RemoveElement, FS_AddElement DEF Finite
<1>2. Node' = Node
  BY DEF Node
<1>3. Distinct'
  BY <1>2 DEF Distinct
<1>4. ASSUME NEW a
      PROVE  PendingNonce(a)' = PendingNonce(a)
  <2>1. CASE t.account = a
    <3>1. On(pool', a) = On(pool, a) \ {t} /\ t \in On(pool, a)
      BY <2>1 DEF On
    <3>2. On(mined', a) = On(mined, a) \cup {t} /\ t \notin On(mined, a)
      BY <2>1 DEF On, Distinct
    <3>3. /\ IsFiniteSet(On(pool, a)) /\ Cardinality(On(pool, a)) \in Nat
          /\ IsFiniteSet(On(mined, a)) /\ Cardinality(On(mined, a)) \in Nat
      BY OnFinite DEF Finite
    <3>4. Cardinality(On(pool', a)) = Cardinality(On(pool, a)) - 1
      BY <3>1, <3>3, FS_RemoveElement
    <3>5. Cardinality(On(mined', a)) = Cardinality(On(mined, a)) + 1
      BY <3>2, <3>3, FS_AddElement
    <3>6. PendingNonce(a)' = Cardinality(On(mined', a)) + Cardinality(On(pool', a))
      BY DEF PendingNonce, On
    <3> QED  BY <3>3, <3>4, <3>5, <3>6 DEF PendingNonce
  <2>2. CASE t.account # a
    <3>1. On(pool, a)' = On(pool, a) /\ On(mined, a)' = On(mined, a)
      BY <2>2 DEF On
    <3> QED  BY <3>1 DEF PendingNonce
  <2> QED  BY <2>1, <2>2
<1> QED  BY <1>1, <1>2, <1>3, <1>4

\* A broadcast takes the place of its rival, or the next place.
LEMMA BroadcastStep ==
  ASSUME TypeOK, Finite, Distinct, Slots, Held, NEW r \in Requests, Broadcast(r)
  PROVE  /\ Finite' /\ Distinct' /\ Slots'
         /\ \A a \in Accounts : PendingNonce(a) <= PendingNonce(a)'
         /\ TxOf(r) \in Node'
         /\ \A t \in Node : SameSlot(t, TxOf(r)) \/ t \in Node'
<1> DEFINE tx == TxOf(r)
           A == call[r].account
           k == PendingNonce(A)
           n == call[r].nonce
<1>1. A \in Accounts /\ n \in Nat /\ call[r].pc = "ready"
  BY DEF TypeOK, Calls, Broadcast
<1>2. tx.account = A /\ tx.nonce = n
  BY DEF TxOf
<1>3. k \in Nat /\ n <= k
  BY <1>1, PendingType DEF Held
<1>4. pool' = (pool \ Rivals(r)) \cup {tx} /\ mined' = mined
  BY DEF Broadcast
<1>5. \A t \in mined : ~SameSlot(t, tx)
  BY DEF Broadcast, TooLow
<1>6. \A t \in Node : SameSlot(t, tx) <=> t \in Rivals(r)
  BY <1>5 DEF Node, Rivals
<1>7. Rivals(r) = {t \in pool : SameSlot(t, tx)}
  BY DEF Rivals
<1>8. A \in Accounts => /\ \A t \in Node : t.account = A => t.nonce < k
                        /\ \A m \in Nat : m < k => \E t \in Node : t.account = A /\ t.nonce = m
  BY DEF Slots
<1>9. k = Cardinality(On(mined, A)) + Cardinality(On(pool, A))
  BY DEF PendingNonce
<1>10. \A a \in Accounts : PendingNonce(a) \in Nat
  BY PendingType
<1> HIDE DEF tx, A, k, n
<1>11. Node' = (Node \ Rivals(r)) \cup {tx}
  BY <1>4, <1>5, <1>7 DEF Node
<1>12. Finite'
  <2>1. IsFiniteSet(pool \ Rivals(r))
    BY FS_Subset DEF Finite
  <2> QED  BY <1>4, <2>1, FS_AddElement DEF Finite
<1>13. Distinct'
  <2>1. \A t, u \in Node' : SameSlot(t, u) => t = u
    BY <1>6, <1>11 DEF Distinct, SameSlot
  <2>2. tx \notin mined
    BY <1>5 DEF SameSlot
  <2>3. pool' \cap mined' = {}
    BY <1>4, <2>2 DEF Distinct
  <2> QED  BY <2>1, <2>3 DEF Distinct
<1>14. \A a \in Accounts : a # A => PendingNonce(a)' = PendingNonce(a)
  <2> SUFFICES ASSUME NEW a \in Accounts, a # A
               PROVE  PendingNonce(a)' = PendingNonce(a)
    OBVIOUS
  <2>1. On(pool, a)' = On(pool, a) /\ On(mined, a)' = On(mined, a)
    BY <1>2, <1>4, <1>7 DEF On, SameSlot
  <2> QED  BY <2>1 DEF PendingNonce
<1>15. /\ IsFiniteSet(On(pool, A)) /\ Cardinality(On(pool, A)) \in Nat
       /\ Cardinality(On(mined, A)) \in Nat
  BY OnFinite DEF Finite
<1>16. ASSUME NEW a \in Accounts, a = A
       PROVE  PendingNonce(a)' = Cardinality(On(mined, A)) + Cardinality(On(pool', A))
  BY <1>4, <1>16 DEF PendingNonce, On
<1>17. CASE Rivals(r) = {}
  <2>1. n = k
    <3>1. ~(n < k)
      BY <1>1, <1>2, <1>6, <1>8, <1>17 DEF SameSlot
    <3> QED  BY <1>1, <1>3, <3>1
  <2>2. On(pool', A) = On(pool, A) \cup {tx} /\ tx \notin On(pool, A)
    BY <1>2, <1>4, <1>7, <1>17 DEF On, SameSlot
  <2>3. Cardinality(On(pool', A)) = Cardinality(On(pool, A)) + 1
    BY <1>15, <2>2, FS_AddElement
  <2>4. \A a \in Accounts : a = A => PendingNonce(a)' = k + 1 /\ PendingNonce(a) = k
    BY <1>9, <1>15, <1>16, <2>3 DEF k
  <2>5. Node' = Node \cup {tx}
    BY <1>11, <1>17
  <2>6. Slots'
    <3>1. ASSUME NEW a \in Accounts, a = A
          PROVE  /\ \A t \in Node' : t.account = a => t.nonce < PendingNonce(a)'
                 /\ \A m \in Nat : m < PendingNonce(a)' =>
                      \E t \in Node' : t.account = a /\ t.nonce = m
      <4>1. \A t \in Node' : t.account = a => t.nonce < k + 1
        <5>1. \A t \in Node : t.account = a => t.nonce \in Nat
          BY DEF TypeOK, Transactions, Node
        <5> QED  BY <1>1, <1>2, <1>3, <1>8, <2>1, <2>5, <3>1, <5>1
      <4>2. ASSUME NEW m \in Nat, m < k + 1
            PROVE  \E t \in Node' : t.account = a /\ t.nonce = m
        <5>1. CASE m = k
          BY <1>2, <2>1, <2>5, <3>1, <5>1
        <5>2. CASE m < k
          BY <1>1, <1>8, <2>5, <3>1, <5>2
        <5> QED  BY <1>3, <4>2, <5>1, <5>2
      <4> QED  BY <2>4, <3>1, <4>1, <4>2
    <3>2. ASSUME NEW a \in Accounts, a # A
          PROVE  /\ \A t \in Node' : t.account = a => t.nonce < PendingNonce(a)'
                 /\ \A m \in Nat : m < PendingNonce(a)' =>
                      \E t \in Node' : t.account = a /\ t.nonce = m
      BY <1>2, <1>14, <2>5, <3>2 DEF Slots
    <3> QED  BY <3>1, <3>2 DEF Slots
  <2>7. \A a \in Accounts : PendingNonce(a) <= PendingNonce(a)'
    BY <1>3, <1>10, <1>14, <2>4
  <2> QED  BY <1>11, <1>12, <1>13, <2>5, <2>6, <2>7 DEF tx
<1>18. CASE Rivals(r) # {}
  <2>1. PICK u \in Rivals(r) : TRUE
    BY <1>18
  <2>2. Rivals(r) = {u} /\ u \in pool /\ u.account = A /\ u.nonce = n
    BY <1>2, <1>7, <2>1 DEF Distinct, Node, SameSlot
  <2>3. On(pool', A) = (On(pool, A) \ {u}) \cup {tx} /\ u \in On(pool, A)
    BY <1>2, <1>4, <2>2 DEF On
  <2>4. tx \notin On(pool, A) \ {u}
    BY <2>2, <1>6 DEF On, SameSlot, Node
  <2>5. Cardinality(On(pool', A)) = Cardinality(On(pool, A))
    <3>1. /\ IsFiniteSet(On(pool, A) \ {u})
          /\ Cardinality(On(pool, A) \ {u}) = Cardinality(On(pool, A)) - 1
      BY <1>15, <2>3, FS_RemoveElement
    <3>2. Cardinality((On(pool, A) \ {u}) \cup {tx}) = Cardinality(On(pool, A) \ {u}) + 1
      BY <2>4, <3>1, FS_AddElement
    <3> QED  BY <1>15, <2>3, <3>1, <3>2
  <2>6. \A a \in Accounts : PendingNonce(a)' = PendingNonce(a)
    BY <1>9, <1>14, <1>16, <2>5 DEF k
  <2>7. Node' = (Node \ {u}) \cup {tx}
    BY <1>11, <2>2
  <2>8. u \in Node
    BY <2>2 DEF Node
  <2>9. Slots'
    <3>1. ASSUME NEW a \in Accounts
          PROVE  /\ \A t \in Node' : t.account = a => t.nonce < PendingNonce(a)
                 /\ \A m \in Nat : m < PendingNonce(a) =>
                      \E t \in Node' : t.account = a /\ t.nonce = m
      BY <1>2, <2>2, <2>7, <2>8 DEF Slots
    <3> QED  BY <2>6, <3>1 DEF Slots
  <2>10. \A a \in Accounts : PendingNonce(a) <= PendingNonce(a)'
    BY <1>10, <2>6
  <2>11. \A t \in Node : SameSlot(t, tx) \/ t \in Node'
    BY <1>6, <1>11
  <2>12. tx \in Node'
    BY <2>7
  <2> QED  BY <1>12, <1>13, <2>9, <2>10, <2>11, <2>12 DEF tx
<1> QED  BY <1>17, <1>18

\* The steps other than those two leave the node as it is.
LEMMA NodeStep ==
  ASSUME TypeOK, Finite, Distinct, Slots, Held, [Next]_vars
  PROVE  /\ Finite' /\ Distinct' /\ Slots'
         /\ \A a \in Accounts : PendingNonce(a) <= PendingNonce(a)'
<1>1. CASE UNCHANGED <<pool, mined>>
  <2>1. \A a : PendingNonce(a)' = PendingNonce(a) /\ PendingNonce(a) \in Nat
    BY <1>1, PendingType DEF PendingNonce, On
  <2>2. Slots'
    BY <1>1, <2>1 DEF Slots, Node
  <2> QED  BY <1>1, <2>1, <2>2 DEF Finite, Distinct, Node
<1>2. CASE MineSome
  <2> PICK t \in pool : Mine(t)
    BY <1>2 DEF MineSome
  <2>1. Finite' /\ Distinct' /\ Node' = Node /\ \A a : PendingNonce(a)' = PendingNonce(a)
    BY MineStep
  <2>2. Slots'
    BY <2>1 DEF Slots
  <2>3. \A a : PendingNonce(a) \in Nat
    BY PendingType
  <2> QED  BY <2>1, <2>2, <2>3
<1>3. CASE \E r \in Requests : Broadcast(r)
  BY <1>3, BroadcastStep
<1> QED
  BY <1>1, <1>2, <1>3
  DEF Next, vars, Find, Refuse, ReadNonce, Fails, BroadcastRefused, Return, LoseAnswer,
      AnswerExpires, ServiceDies

LEMMA HeldStep ==
  ASSUME TypeOK, Finite, Distinct, Slots, Held, [Next]_vars
  PROVE  Held'
<1>1. \A a \in Accounts : /\ PendingNonce(a) <= PendingNonce(a)'
                           /\ PendingNonce(a) \in Nat /\ PendingNonce(a)' \in Nat
  BY NodeStep, PendingType, OnFinite DEF Finite, PendingNonce
<1>2. \A s \in kept : s.account \in Accounts /\ s.nonce \in Nat
  BY DEF TypeOK, Answer
<1>3. \A a \in Accounts : NodeAnswer(a).account = a /\ NodeAnswer(a).nonce = PendingNonce(a)
  BY DEF NodeAnswer
<1>4. ASSUME NEW s \in kept', NEW a \in Accounts, s.account = a
      PROVE  s.nonce <= PendingNonce(a)'
  <2>1. CASE s \in kept
    <3>1. s.nonce <= PendingNonce(a) /\ s.nonce \in Nat
      BY <1>2, <1>4, <2>1 DEF Held
    <3> QED  BY <1>1, <3>1
  <2>2. CASE \E b \in Accounts : s = NodeAnswer(b)
    BY <1>1, <1>3, <1>4, <2>2
  <2> QED  BY <2>1, <2>2, AnswersStep
<1>5. \A s \in kept' : s.account \in Accounts
  BY <1>2, <1>3, AnswersStep
<1>6. ASSUME NEW r \in Requests, NEW a \in Accounts,
             call'[r].pc = "ready", call'[r].account = a
      PROVE  call'[r].nonce <= PendingNonce(a)'
  <2>1. CASE call[r].pc = "ready" /\ call'[r].account = call[r].account
             /\ call'[r].nonce = call[r].nonce
    <3>1. call[r].nonce <= PendingNonce(a) /\ call[r].nonce \in Nat
      BY <1>6, <2>1 DEF Held, TypeOK, Calls
    <3> QED  BY <1>1, <2>1, <3>1
  <2>2. ASSUME NEW s \in Answers(a), call'[r].nonce = s.nonce
        PROVE  call'[r].nonce <= PendingNonce(a)'
    <3>1. s.nonce <= PendingNonce(a) /\ s.nonce \in Nat
      BY <1>1, <1>2, <1>3, AnswerType DEF Held
    <3> QED  BY <1>1, <2>2, <3>1
  <2> QED  BY <1>6, <2>1, <2>2, CallStep DEF Holding, Sent
<1>7. \A s \in kept' : s.nonce <= PendingNonce(s.account)'
  BY <1>4, <1>5
<1>8. \A r \in Requests, a \in Accounts :
        call'[r].pc = "ready" /\ call'[r].account = a => call'[r].nonce <= PendingNonce(a)'
  BY <1>6
<1> QED  BY <1>7, <1>8 DEF Held

-----------------------------------------------------------------------------
(* What was counted, and what was sent *)

\* What the node counts is below the nonce it answers.
LEMMA NodeAnswerFair ==
  ASSUME TypeOK, Finite, Slots, Placed, NEW a \in Accounts
  PROVE  \A q \in NodeAnswer(a).counted : Under(q, NodeAnswer(a).nonce)
<1> SUFFICES ASSUME NEW q \in Requests, call[q].pc \in Sent, call[q].account = a
             PROVE  Under(q, PendingNonce(a))
  BY DEF NodeAnswer, Sent
<1>1. PICK t \in Node : SameSlot(t, TxOf(q))
  BY DEF Placed
<1>2. t.account = a /\ t.nonce = call[q].nonce
  BY <1>1 DEF SameSlot, TxOf
<1>3. call[q].nonce < PendingNonce(a)
  BY <1>2 DEF Slots
<1> QED  BY <1>3 DEF Under, Sent

\* What was counted stays under the answer.
LEMMA UnderStep ==
  ASSUME TypeOK, Finite, [Next]_vars, NEW q \in Requests, NEW n, Under(q, n)
  PROVE  Under(q, n)'
<1>1. call'[q].pc \notin {"new", "found", "ready"}
  BY PastStep DEF Under
<1>2. ASSUME call'[q].pc \in Sent
      PROVE  call'[q].nonce < n
  BY <1>2, CallStep DEF Under, Holding, Sent, Broadcast
<1> QED  BY <1>1, <1>2 DEF Under

LEMMA CountedStep ==
  ASSUME TypeOK, Finite, Slots, Counted, Placed, [Next]_vars
  PROVE  Counted'
<1>1. \A s \in kept : s.counted \subseteq Requests
  BY DEF TypeOK, Answer
<1>2. \A a \in Accounts : NodeAnswer(a).counted \subseteq Requests
  BY DEF NodeAnswer
<1>3. ASSUME NEW s, NEW q \in s.counted,
             s \in kept \/ \E a \in Accounts : s = NodeAnswer(a)
      PROVE  q \in Requests /\ Under(q, s.nonce)
  BY <1>1, <1>2, <1>3, NodeAnswerFair DEF Counted
<1>4. ASSUME NEW s \in kept', NEW q \in s.counted
      PROVE  Under(q, s.nonce)'
  <2>1. q \in Requests /\ Under(q, s.nonce)
    BY <1>3, <1>4, AnswersStep
  <2> QED  BY <2>1, UnderStep
<1>5. ASSUME NEW r \in Requests, call'[r].pc = "ready", NEW q \in call'[r].counted
      PROVE  \A n : n = call'[r].nonce => Under(q, n)'
  <2>1. CASE call[r].pc = "ready" /\ call'[r].nonce = call[r].nonce
             /\ call'[r].counted = call[r].counted
    <3>1. call[r].counted \subseteq Requests
      BY <2>1 DEF TypeOK, Calls
    <3>2. \A n : n = call[r].nonce => q \in Requests /\ Under(q, n)
      BY <1>5, <2>1, <3>1 DEF Counted
    <3> QED  BY <2>1, <3>2, UnderStep
  <2>2. ASSUME NEW a \in Accounts, NEW s \in Answers(a),
               call'[r].nonce = s.nonce, call'[r].counted = s.counted
        PROVE  \A n : n = call'[r].nonce => Under(q, n)'
    <3>1. q \in Requests /\ Under(q, s.nonce)
      BY <1>3, <1>5, <2>2, AnswerType
    <3> QED  BY <2>2, <3>1, UnderStep
  <2> QED  BY <1>5, <2>1, <2>2, CallStep DEF Holding, Sent
<1>6. \A r \in Requests :
        call'[r].pc = "ready" => \A q \in call'[r].counted :
                                   \A n : n = call'[r].nonce => Under(q, n)'
  BY <1>5
<1> QED  BY <1>4, <1>6 DEF Counted, Under

LEMMA SendersStep ==
  ASSUME TypeOK, Senders, [Next]_vars
  PROVE  Senders'
<1> SUFFICES ASSUME NEW t \in Node'
             PROVE  call'[t.by] \in Signed
  BY DEF Senders
<1>1. CASE t \in Node
  BY <1>1, PastStep DEF Senders, TypeOK, Transactions, Node
<1>2. ASSUME NEW r \in Requests, Broadcast(r), t \notin Node
      PROVE  call'[t.by] \in Signed
  <2>1. t = TxOf(r)
    BY <1>2 DEF Broadcast, Node
  <2>2. call'[r] = [call[r] EXCEPT !.pc = "taken"]
    BY <1>2 DEF Broadcast, Becomes, TypeOK
  <2>3. call'[r] \in Signed
    BY <1>2, <2>2 DEF Broadcast, TypeOK, Calls, Signed
  <2> QED  BY <2>1, <2>3 DEF TxOf
<1> QED
  BY <1>1, <1>2
  DEF Next, vars, Find, Refuse, ReadNonce, Fails, BroadcastRefused, Return, LoseAnswer,
      AnswerExpires, ServiceDies, MineSome, Mine, Node

\* Whoever replaces a transaction goes by an answer that did not count it.
LEMMA PlacedStep ==
  ASSUME TypeOK, Finite, Distinct, Slots, Held, Counted, Senders, Placed, [Next]_vars
  PROVE  Placed'
<1> SUFFICES ASSUME NEW r \in Requests, call'[r].pc \in Sent
             PROVE  \E t \in Node' : /\ SameSlot(t, TxOf(r)')
                                     /\ t.by # r => r \notin call'[t.by].counted
  BY DEF Placed, SameSlot
<1>1. /\ call[r].pc \in Holding
      /\ call[r].pc \in Sent \/ Broadcast(r)
      /\ TxOf(r)' = TxOf(r)
  BY CallStep DEF Holding, Sent, TxOf
<1>2. \A t \in Node : t.by \in Requests /\ call'[t.by].counted = call[t.by].counted
  BY PastStep DEF Senders, TypeOK, Transactions, Node
<1>3. CASE Broadcast(r)
  BY <1>1, <1>3, BroadcastStep DEF SameSlot, TxOf
<1>4. CASE call[r].pc \in Sent
  <2>1. PICK t \in Node : SameSlot(t, TxOf(r)) /\ (t.by # r => r \notin call[t.by].counted)
    BY <1>4 DEF Placed
  <2>2. CASE t \in Node'
    BY <1>1, <1>2, <2>1, <2>2
  <2>3. CASE t \notin Node'
    <3>1. PICK q \in Requests : Broadcast(q)
      BY <2>3, MineStep
      DEF Next, vars, Find, Refuse, ReadNonce, Fails, BroadcastRefused, Return, LoseAnswer,
          AnswerExpires, ServiceDies, MineSome, Node
    <3>2. TxOf(q) \in Node' /\ SameSlot(t, TxOf(q))
      BY <2>3, <3>1, BroadcastStep
    <3>3. SameSlot(TxOf(q), TxOf(r))
      BY <2>1, <3>2 DEF SameSlot
    <3>4. call[q].nonce = call[r].nonce /\ call[r].nonce \in Nat /\ call[q].pc = "ready"
      BY <1>4, <3>1, <3>3 DEF SameSlot, TxOf, Broadcast, TypeOK, Calls, Sent
    <3>5. ~Under(r, call[q].nonce)
      BY <1>4, <3>4 DEF Under
    <3>6. r \notin call[q].counted
      BY <3>4, <3>5 DEF Counted
    <3>7. call'[q] = [call[q] EXCEPT !.pc = "taken"]
      BY <3>1 DEF Broadcast, Becomes, TypeOK
    <3>8. call'[q].counted = call[q].counted
      BY <3>4, <3>7 DEF TypeOK, Calls
    <3>9. TxOf(q).by = q
      BY DEF TxOf
    <3> QED  BY <1>1, <3>2, <3>3, <3>6, <3>8, <3>9
  <2> QED  BY <2>2, <2>3
<1> QED  BY <1>1, <1>3, <1>4

-----------------------------------------------------------------------------
(* The theorems. *)

LEMMA InitInv == Init => IInv
<1> SUFFICES ASSUME Init
             PROVE  IInv
  OBVIOUS
<1> USE DEF Init
<1>1. Finite
  BY FS_EmptySet DEF Finite
<1>2. \A a : PendingNonce(a) = 0
  <2>1. \A a : On(pool, a) = {} /\ On(mined, a) = {}
    BY DEF On
  <2> QED  BY <2>1, FS_EmptySet DEF PendingNonce
<1>3. Slots
  BY <1>2 DEF Slots, Node
<1>4. TypeOK
  BY DEF TypeOK, Calls
<1>5. Distinct /\ Held /\ Counted /\ Senders /\ Placed
  BY DEF Distinct, Node, Held, Counted, Senders, Placed, Sent
<1> QED  BY <1>1, <1>3, <1>4, <1>5 DEF IInv

\* The inductive invariant: the node holds an account's nonces without a gap, and the
\* nonce of an answer, however long it is repeated, is above what the node had counted.
THEOREM Invariance == Spec => []IInv
<1>1. Init => IInv
  BY InitInv
<1>2. IInv /\ [Next]_vars => IInv'
  BY TypeStep, NodeStep, HeldStep, CountedStep, SendersStep, PlacedStep
  DEF IInv
<1> QED  BY <1>1, <1>2, PTL DEF Spec

\* Calls and transactions keep their types.
THEOREM TypeCorrect == Spec => []TypeOK
BY Invariance, PTL DEF IInv

\* A payment that was reported as sent waits or is in a block, itself or one whose
\* nonce was counted before it, whatever is replaced, mined or lost afterwards.
THEOREM SentKept == Spec => []SentIsKept
<1>1. IInv => SentIsKept
  BY DEF IInv, Placed, SentIsKept, Node, Sent
<1> QED  BY <1>1, Invariance, PTL
===============================================================================
