------------------------------- MODULE Sending -------------------------------
(***************************************************************************)
(* wallet-service: sendTransactionWithNativeCurrency.                       *)
(*                                                                         *)
(* Each call makes a signer of its own, which asks the provider for the     *)
(* nonce, counting what is pending, then for gas and fees, signs and        *)
(* broadcasts.  The provider of a network is one object for all calls; for  *)
(* 250 ms it answers the question for an account's nonce with what it       *)
(* answered before (cacheTimeout of ethers).  Calls for one wallet are not  *)
(* serialised: two of them may sign with the same nonce when they overlap,  *)
(* or when the provider repeats itself, and the node keeps one of them.     *)
(* An account is a wallet on a network; nobody else holds the wallet's key. *)
(***************************************************************************)
EXTENDS FiniteSets, Naturals

CONSTANTS Accounts, Requests

VARIABLES
  call,      \* the calls
  pool,      \* transactions that wait in the node
  mined,     \* transactions in blocks
  kept       \* the answers that the providers still repeat

vars == <<call, pool, mined, kept>>

Running == {"found", "ready", "taken"}

\* counted is history: the calls whose transactions the node had by then.
Answer == [account : Accounts, nonce : Nat, counted : SUBSET Requests]
Calls == [pc : {"new", "no"}]
           \cup [pc : {"found", "no", "lost"}, account : Accounts]
           \cup [pc : {"ready", "taken", "yes", "no", "lost"},
                 account : Accounts, nonce : Nat, counted : SUBSET Requests]
Transactions == [by : Requests, account : Accounts, nonce : Nat]

TypeOK ==
  /\ call \in [Requests -> Calls]
  /\ pool \subseteq Transactions
  /\ mined \subseteq Transactions
  /\ kept \subseteq Answer

Init ==
  /\ call = [r \in Requests |-> [pc |-> "new"]]
  /\ pool = {}
  /\ mined = {}
  /\ kept = {}

Becomes(r, pc) == call' = [call EXCEPT ![r].pc = pc]
On(set, a) == {t \in set : t.account = a}
TxOf(r) == [by |-> r, account |-> call[r].account, nonce |-> call[r].nonce]
SameSlot(t, u) == t.account = u.account /\ t.nonce = u.nonce

-----------------------------------------------------------------------------
(* The service *)

\* The wallet is the user's, the network is known and the key can be read.
Find(r, a) ==
  /\ call[r].pc = "new"
  /\ call' = [call EXCEPT ![r] = [pc |-> "found", account |-> a]]
  /\ UNCHANGED <<pool, mined, kept>>

Refuse(r) ==
  /\ call[r].pc = "new"
  /\ Becomes(r, "no")
  /\ UNCHANGED <<pool, mined, kept>>

\* Mutant: what is pending is not counted.
PendingNonce_Latest(a) == Cardinality(On(mined, a))

\* Mutant: the count is taken for the last nonce.
PendingNonce_OneTooHigh(a) == Cardinality(On(mined, a)) + Cardinality(On(pool, a)) + 1

\* What the node answers when asked for the nonce of the next transaction.
PendingNonce(a) == Cardinality(On(mined, a)) + Cardinality(On(pool, a))

NodeAnswer(a) ==
  [account |-> a, nonce |-> PendingNonce(a),
   counted |-> {r \in Requests : call[r].pc \in {"taken", "yes"} /\ call[r].account = a}]

\* What the provider answers: the node's answer, unless it still has one.
Answers(a) == IF On(kept, a) = {} THEN {NodeAnswer(a)} ELSE On(kept, a)

\* Mutant: the transaction is signed without a nonce.
ReadNonce_Skips(r) ==
  /\ call[r].pc = "found"
  /\ Becomes(r, "ready")
  /\ UNCHANGED <<pool, mined, kept>>

\* sendTransaction fills in the nonce: the provider asks the node, or repeats itself.
ReadNonce(r) ==
  /\ call[r].pc = "found"
  /\ \E s \in Answers(call[r].account) :
       /\ call' = [call EXCEPT ![r] = [pc |-> "ready", account |-> s.account,
                                       nonce |-> s.nonce, counted |-> s.counted]]
       /\ kept' = kept \cup {s}
  /\ UNCHANGED <<pool, mined>>

\* The time is over for which the provider repeats an answer.
AnswerExpires(s) ==
  /\ kept' = kept \ {s}
  /\ UNCHANGED <<call, pool, mined>>

\* The node fails, or finds that the wallet cannot pay.
Fails(r) ==
  /\ call[r].pc \in {"found", "ready"}
  /\ Becomes(r, "no")
  /\ UNCHANGED <<pool, mined, kept>>

Rivals(r) == {t \in pool : SameSlot(t, TxOf(r))}
TooLow(r) == \E t \in mined : SameSlot(t, TxOf(r))

\* A rival is replaced if the new transaction offers enough more for its gas,
\* which depends on when each asked for the fees.
Broadcast(r) ==
  /\ call[r].pc = "ready"
  /\ ~TooLow(r)
  /\ pool' = (pool \ Rivals(r)) \cup {TxOf(r)}
  /\ Becomes(r, "taken")
  /\ UNCHANGED <<mined, kept>>

\* Nonce too low, or a replacement that offers too little.
BroadcastRefused(r) ==
  /\ call[r].pc = "ready"
  /\ TooLow(r) \/ Rivals(r) # {}
  /\ Becomes(r, "no")
  /\ UNCHANGED <<pool, mined, kept>>

Return(r) ==
  /\ call[r].pc = "taken"
  /\ Becomes(r, "yes")
  /\ UNCHANGED <<pool, mined, kept>>

\* The node took it, but its answer, or that to the question for the height
\* which is asked along with it, does not arrive: status false.
LoseAnswer(r) ==
  /\ call[r].pc = "taken"
  /\ Becomes(r, "no")
  /\ UNCHANGED <<pool, mined, kept>>

\* The calls end where they are; the providers go with their answers.
ServiceDies ==
  /\ \E r \in Requests : call[r].pc \in Running
  /\ call' = [r \in Requests |->
                IF call[r].pc \in Running THEN [call[r] EXCEPT !.pc = "lost"] ELSE call[r]]
  /\ kept' = {}
  /\ UNCHANGED <<pool, mined>>

-----------------------------------------------------------------------------
(* The chain takes an account's transactions in the order of their nonces. *)

Mine(t) ==
  /\ t \in pool
  /\ t.nonce = Cardinality(On(mined, t.account))
  /\ pool' = pool \ {t}
  /\ mined' = mined \cup {t}
  /\ UNCHANGED <<call, kept>>

MineSome == \E t \in pool : Mine(t)

Next ==
  \/ \E r \in Requests :
       \/ \E a \in Accounts : Find(r, a)
       \/ Refuse(r) \/ ReadNonce(r) \/ Fails(r)
       \/ Broadcast(r) \/ BroadcastRefused(r)
       \/ Return(r) \/ LoseAnswer(r)
  \/ \E s \in kept : AnswerExpires(s)
  \/ ServiceDies
  \/ MineSome

Spec == Init /\ [][Next]_vars

\* The chain goes on.
FairSpec == Spec /\ WF_vars(MineSome)

-----------------------------------------------------------------------------
(* Properties *)

\* A payment that was reported as sent keeps its place: it waits or is in a
\* block, unless it was replaced, and then what replaced it, or what replaced that
\* in turn, is there instead.  Only a call whose nonce the node had counted before
\* it took the payment can do so: one that overlapped the payment's call, or that
\* began while the provider still repeated an answer that old.
SentIsKept ==
  \A r \in Requests :
    call[r].pc = "yes" =>
      \E t \in pool \cup mined :
        /\ SameSlot(t, TxOf(r))
        /\ t.by # r => r \notin call[t.by].counted

\* No payment waits for a nonce that nobody uses: what was reported as sent is
\* in a block in the end, or what replaced it is.
SentIsMined ==
  \A r \in Requests :
    call[r].pc = "yes" ~> call[r].pc = "yes" /\ \E t \in mined : SameSlot(t, TxOf(r))
=============================================================================
