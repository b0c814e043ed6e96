------------------------- MODULE TokenRegistry_proofs -------------------------
(***************************************************************************)
(* Proofs about TokenRegistry for any keys, networks, seed, token data and  *)
(* handler slots, and any bound on the tokens added.                        *)
(*                                                                         *)
(* IInv is the inductive invariant: a handler between its statement and its *)
(* event leaves the entry of its key behind the table, so what the table    *)
(* holds then is kept beside it (HandlersKnow); a process that does not run *)
(* has empty maps (Process); and the table is finite, for the count of the  *)
(* rows of a key to tell whether there are several.                         *)
(***************************************************************************)
EXTENDS TokenRegistry, FiniteSetTheorems, TLAPS

\* Only a process that is up has handlers and entries, and only one that is
\* starting seeds.
Process ==
  /\ svc # "up" =>
       /\ \A r \in Requests : req[r] = Idle
       /\ \A k \in Keys : tokens[k] = None
       /\ networks = {}
       /\ astray = {}
  /\ svc # "starting" => toSeed = {}

\* While a key has not gone astray one handler has it in hand, whose row is the
\* only one of the key or was so until it was deleted.
HandlersKnow ==
  \A k \in Known \ astray, r \in Requests :
    req[r] # Idle /\ req[r].row.key = k =>
      /\ \A r2 \in Requests : req[r2] # Idle /\ req[r2].row.key = k => r2 = r
      /\ RowsOf(k) = IF req[r].pc = "inserted" THEN {req[r].row} ELSE {}

IInv ==
  /\ TypeOK
  /\ IsFiniteSet(token)
  /\ Process
  /\ HandlersKnow
  /\ EntriesAreCurrent
  /\ EntriesHaveProviders
  /\ OneRowANetwork

-----------------------------------------------------------------------------
(* Tasks and entries. *)

\* What stands for no entry is not a row.
LEMMA NoneIsNoRow == None \notin Rows
BY DEF None, Rows

\* A task that is not idle holds a row.
LEMMA TaskShape ==
  ASSUME TypeOK, NEW r \in Requests
  PROVE  /\ req[r] # Idle => req[r].pc \in {"inserted", "deleted"}
         /\ req[r].pc \in {"inserted", "deleted"} => req[r] # Idle
         /\ req[r] # Idle => req[r].row \in Rows /\ req[r].row.key \in Keys
BY DEF TypeOK, Idle, Rows

-----------------------------------------------------------------------------
\* Rows keep ids the table has given, and entries are rows that were in it.
LEMMA TypeOKStep ==
  ASSUME TypeOK, [Next]_vars
  PROVE  TypeOK'
<1> USE DEF TypeOK, netVars
<1>1. CASE Begin
  BY <1>1 DEF Begin
<1>2. ASSUME NEW n \in Seeds, Seed(n)
      PROVE  TypeOK'
  BY <1>2 DEF Seed
<1>3. CASE SeedFails
  BY <1>3 DEF SeedFails
<1>4. CASE Load
  BY <1>4 DEF Load, InTable
<1>5. CASE LoadThrows
  BY <1>5 DEF LoadThrows
<1>6. CASE Crash
  BY <1>6 DEF Crash
<1>7. ASSUME NEW r \in Requests, NEW k \in Keys, NEW d \in Data, AddInsert(r, k, d)
      PROVE  TypeOK'
  <2>1. lastId + 1 \in 1..MaxTokens
    BY <1>7, MaxTokensAssumption DEF AddInsert
  <2>2. [id |-> lastId + 1, key |-> k, data |-> d] \in Rows
    BY <2>1 DEF Rows
  <2>3. lastId' \in 0..MaxTokens
    BY <1>7, <2>1 DEF AddInsert
  <2> QED  BY <1>7, <2>2, <2>3 DEF AddInsert, Inserted
<1>8. ASSUME NEW r \in Requests, AddAnnounce(r)
      PROVE  TypeOK'
  <2>1. req[r].row \in Rows
    BY <1>8, TaskShape DEF AddAnnounce
  <2> QED  BY <1>8, <2>1 DEF AddAnnounce
<1>9. ASSUME NEW r \in Requests, RemoveAnnounce(r)
      PROVE  TypeOK'
  BY <1>9 DEF RemoveAnnounce
<1>10. ASSUME NEW row \in token, NEW k \in Keys, NEW d \in Data, Update(row, k, d)
       PROVE  TypeOK'
  <2>1. [row EXCEPT !.key = k, !.data = d] \in Rows /\ row.key \in Keys
    BY DEF Rows
  <2> QED  BY <1>10, <2>1 DEF Update
<1>11. ASSUME NEW r \in Requests, NEW row \in token, RemoveDelete(r, row)
       PROVE  TypeOK'
  <2>1. row.key \in Keys
    BY DEF Rows
  <2> QED  BY <1>11, <2>1 DEF RemoveDelete, Deleted
<1>12. CASE UNCHANGED vars
  BY <1>12 DEF vars
<1> QED  BY <1>1, <1>2, <1>3, <1>4, <1>5, <1>6, <1>7, <1>8, <1>9, <1>10, <1>11, <1>12 DEF Next

\* Rows are added one at a time.
LEMMA TableIsFiniteStep ==
  ASSUME IsFiniteSet(token), [Next]_vars
  PROVE  IsFiniteSet(token)'
<1> USE DEF netVars
<1>1. ASSUME NEW r \in Requests, NEW k \in Keys, NEW d \in Data, AddInsert(r, k, d)
      PROVE  IsFiniteSet(token')
  BY <1>1, FS_AddElement DEF AddInsert
<1>2. ASSUME NEW row \in token, NEW k \in Keys, NEW d \in Data, Update(row, k, d)
      PROVE  IsFiniteSet(token')
  BY <1>2, FS_AddElement, FS_RemoveElement DEF Update
<1>3. ASSUME NEW r \in Requests, NEW row \in token, RemoveDelete(r, row)
      PROVE  IsFiniteSet(token')
  BY <1>3, FS_RemoveElement DEF RemoveDelete
<1>4. CASE token' = token
  BY <1>4
<1> QED  BY <1>1, <1>2, <1>3, <1>4
         DEF Next, Begin, Seed, SeedFails, Load, LoadThrows, Crash, AddAnnounce,
             RemoveAnnounce, vars

\* Handlers, entries and networks come after a load and go with a crash.
LEMMA ProcessStep ==
  ASSUME TypeOK, Process, [Next]_vars
  PROVE  Process'
<1> USE DEF Process, netVars
<1>1. CASE Begin
  BY <1>1 DEF Begin
<1>2. ASSUME NEW n \in Seeds, Seed(n)
      PROVE  Process'
  BY <1>2 DEF Seed
<1>3. CASE SeedFails
  BY <1>3 DEF SeedFails
<1>4. CASE Load
  BY <1>4 DEF Load
<1>5. CASE LoadThrows
  BY <1>5 DEF LoadThrows
<1>6. CASE Crash
  BY <1>6 DEF Crash
<1>7. ASSUME svc = "up", svc' = svc, toSeed' = toSeed
      PROVE  Process'
  BY <1>7
<1>8. ASSUME NEW r \in Requests, AddAnnounce(r) \/ RemoveAnnounce(r)
      PROVE  Process'
  <2>1. svc = "up"
    BY <1>8 DEF AddAnnounce, RemoveAnnounce, Idle, TypeOK
  <2> QED  BY <1>7, <1>8, <2>1 DEF AddAnnounce, RemoveAnnounce
<1>9. CASE UNCHANGED vars
  BY <1>9 DEF vars
<1> QED  BY <1>1, <1>2, <1>3, <1>4, <1>5, <1>6, <1>7, <1>8, <1>9
         DEF Next, AddInsert, Update, RemoveDelete

\* A network is created only when the table does not have it, and only what the
\* table has gets a provider.
LEMMA OneRowANetworkStep ==
  ASSUME TypeOK, OneRowANetwork, [Next]_vars
  PROVE  OneRowANetwork'
<1> USE DEF OneRowANetwork, TypeOK, netVars
<1>1. ASSUME NEW n \in Seeds, Seed(n)
      PROVE  OneRowANetwork'
  BY <1>1 DEF Seed
<1>2. CASE Load
  BY <1>2 DEF Load, InTable
<1>3. CASE Crash
  BY <1>3 DEF Crash
<1>4. CASE UNCHANGED <<network, networks>>
  BY <1>4
<1> QED  BY <1>1, <1>2, <1>3, <1>4
         DEF Next, Begin, SeedFails, LoadThrows, AddInsert, AddAnnounce, RemoveAnnounce,
             Update, RemoveDelete, vars

\* An entry is set only when its network has a provider, and providers stay as
\* long as the entries do.
LEMMA EntriesHaveProvidersStep ==
  ASSUME TypeOK, Process, EntriesHaveProviders, [Next]_vars
  PROVE  EntriesHaveProviders'
<1> USE DEF EntriesHaveProviders, TypeOK, Known, netVars
<1>1. CASE Load
  BY <1>1 DEF Load, Loadable, RowsOf
<1>2. CASE Crash
  BY <1>2 DEF Crash
<1>3. ASSUME NEW r \in Requests, AddAnnounce(r)
      PROVE  EntriesHaveProviders'
  BY <1>3 DEF AddAnnounce
<1>4. ASSUME NEW r \in Requests, RemoveAnnounce(r)
      PROVE  EntriesHaveProviders'
  BY <1>4 DEF RemoveAnnounce
<1>5. CASE UNCHANGED <<networks, tokens>>
  BY <1>5
<1> QED  BY <1>1, <1>2, <1>3, <1>4, <1>5
         DEF Next, Begin, Seed, SeedFails, LoadThrows, AddInsert, Update, RemoveDelete, vars

-----------------------------------------------------------------------------
\* What a handler holds stays so until its event, unless its key goes astray: a
\* second row of the key, a second handler of it and an update all say so.
LEMMA HandlersKnowStep ==
  ASSUME TypeOK, Process, HandlersKnow, EntriesAreCurrent, [Next]_vars
  PROVE  HandlersKnow'
<1> SUFFICES ASSUME NEW k \in Keys, k \in Known', k \notin astray',
                    NEW r \in Requests, req'[r] # Idle, req'[r].row.key = k
             PROVE  /\ \A r2 \in Requests : req'[r2] # Idle /\ req'[r2].row.key = k => r2 = r
                    /\ {x \in token' : x.key = k}
                         = IF req'[r].pc = "inserted" THEN {req'[r].row} ELSE {}
  BY DEF HandlersKnow, RowsOf, Known
<1> DEFINE Goal ==
      /\ \A r2 \in Requests : req'[r2] # Idle /\ req'[r2].row.key = k => r2 = r
      /\ {x \in token' : x.key = k} = IF req'[r].pc = "inserted" THEN {req'[r].row} ELSE {}
<1> USE DEF TypeOK, netVars
\* A step of handlers of other keys.
<1>1. ASSUME k \in Known \ astray,
             req'[r] = req[r],
             \A r2 \in Requests : req'[r2] # Idle /\ req'[r2].row.key = k => req'[r2] = req[r2],
             {x \in token' : x.key = k} = {x \in token : x.key = k}
      PROVE  Goal
  BY <1>1 DEF HandlersKnow, RowsOf
<1>2. ASSUME NEW r0 \in Requests, NEW k0 \in Keys, NEW d \in Data, AddInsert(r0, k0, d)
      PROVE  Goal
  <2> DEFINE row == [id |-> lastId + 1, key |-> k0, data |-> d]
  <2>1. /\ req'[r0] = [pc |-> "inserted", row |-> row]
        /\ \A r2 \in Requests \ {r0} : req'[r2] = req[r2]
        /\ token' = token \cup {row}
        /\ astray \subseteq astray'
        /\ RowsOf(k0) # {} \/ Busy(k0) => k0 \in astray'
        /\ Known' = Known
    BY <1>2 DEF AddInsert, Inserted, Known
  <2>2. CASE k = k0
    <3>1. RowsOf(k) = {} /\ ~Busy(k)
      BY <2>1, <2>2
    <3>2. \A r2 \in Requests \ {r0} : ~(req'[r2] # Idle /\ req'[r2].row.key = k)
      BY <2>1, <3>1 DEF Busy
    <3>3. {x \in token' : x.key = k} = {row}
      BY <2>1, <2>2, <3>1 DEF RowsOf
    <3> QED  BY <2>1, <3>2, <3>3
  <2>3. CASE k # k0
    <3>1. {x \in token' : x.key = k} = {x \in token : x.key = k}
      BY <2>1, <2>3
    <3>2. \A r2 \in Requests : req'[r2].row.key = k => req'[r2] = req[r2]
      BY <2>1, <2>3
    <3> QED  BY <1>1, <2>1, <3>1, <3>2
  <2> QED  BY <2>2, <2>3
<1>3. ASSUME NEW r0 \in Requests, AddAnnounce(r0) \/ RemoveAnnounce(r0)
      PROVE  Goal
  <2>1. /\ req' = [req EXCEPT ![r0] = Idle]
        /\ UNCHANGED <<networks, token, astray>>
    BY <1>3 DEF AddAnnounce, RemoveAnnounce
  <2> QED  BY <1>1, <2>1 DEF Known
<1>4. ASSUME NEW row \in token, NEW k0 \in Keys, NEW d \in Data, Update(row, k0, d)
      PROVE  Goal
  <2>1. /\ token' = (token \ {row}) \cup {[row EXCEPT !.key = k0, !.data = d]}
        /\ k # row.key /\ k # k0 /\ k \in Known \ astray
        /\ req' = req
        /\ [row EXCEPT !.key = k0, !.data = d].key = k0
    BY <1>4 DEF Update, Rows, Known
  <2>2. {x \in token' : x.key = k} = {x \in token : x.key = k}
    BY <2>1
  <2> QED  BY <1>1, <2>1, <2>2
<1>5. ASSUME NEW r0 \in Requests, NEW row \in token, RemoveDelete(r0, row)
      PROVE  Goal
  <2>1. /\ req'[r0] = [pc |-> "deleted", row |-> row]
        /\ \A r2 \in Requests \ {r0} : req'[r2] = req[r2]
        /\ token' = token \ {row}
        /\ k \in Known \ astray
        /\ Busy(row.key) => row.key \in astray'
        /\ svc = "up"
    BY <1>5 DEF RemoveDelete, Deleted, Known
  <2>2. CASE k = row.key
    <3>1. ~Busy(k)
      BY <2>1, <2>2
    <3>2. \A r2 \in Requests \ {r0} : ~(req'[r2] # Idle /\ req'[r2].row.key = k)
      BY <2>1, <3>1 DEF Busy
    <3>3. RowsOf(k) = {row}
      BY <2>1, <2>2, <3>1 DEF EntriesAreCurrent, RowsOf
    <3>4. {x \in token' : x.key = k} = {}
      BY <2>1, <3>3 DEF RowsOf
    <3> QED  BY <2>1, <3>2, <3>4
  <2>3. CASE k # row.key
    <3>1. {x \in token' : x.key = k} = {x \in token : x.key = k}
      BY <2>1, <2>3
    <3>2. \A r2 \in Requests : req'[r2].row.key = k => req'[r2] = req[r2]
      BY <2>1, <2>3
    <3> QED  BY <1>1, <2>1, <3>1, <3>2
  <2> QED  BY <2>2, <2>3
<1>6. CASE Load \/ Crash
  BY <1>6 DEF Load, Crash, Process
<1>7. ASSUME UNCHANGED <<networks, token, req, astray>>
      PROVE  Goal
  BY <1>1, <1>7 DEF Known
<1> QED  BY <1>2, <1>3, <1>4, <1>5, <1>6, <1>7
         DEF Next, Begin, Seed, SeedFails, LoadThrows, vars

\* A load and the event of a key's only handler leave its entry current.
LEMMA EntriesAreCurrentStep ==
  ASSUME TypeOK, IsFiniteSet(token), Process, HandlersKnow, EntriesAreCurrent, [Next]_vars
  PROVE  EntriesAreCurrent'
<1> SUFFICES ASSUME svc' = "up", NEW k \in Keys, k \in Known', k \notin astray',
                    \A r \in Requests : ~(req'[r] # Idle /\ req'[r].row.key = k)
             PROVE  {x \in token' : x.key = k}
                      = IF tokens'[k] = None THEN {} ELSE {tokens'[k]}
  BY DEF EntriesAreCurrent, Busy, RowsOf, Known
<1> USE DEF TypeOK, netVars
<1>1. CASE Load
  <2>1. /\ IF RowsOf(k) = {} THEN tokens'[k] = None ELSE tokens'[k] \in RowsOf(k)
        /\ token' = token
        /\ ~(Cardinality(RowsOf(k)) > 1)
    BY <1>1 DEF Load
  <2>2. IsFiniteSet(RowsOf(k)) /\ RowsOf(k) \subseteq Rows
    BY FS_Subset DEF RowsOf
  <2>3. CASE RowsOf(k) = {}
    BY <2>1, <2>3 DEF RowsOf
  <2>4. CASE RowsOf(k) # {}
    <3>1. Cardinality(RowsOf(k)) = 1
      BY <2>1, <2>2, <2>4, FS_CardinalityType, FS_EmptySet
    <3>2. PICK x : RowsOf(k) = {x}
      BY <2>2, <3>1, FS_Singleton
    <3> QED  BY <2>1, <2>2, <2>4, <3>2, NoneIsNoRow DEF RowsOf
  <2> QED  BY <2>3, <2>4
<1>2. ASSUME svc = "up", k \in Known \ astray, token' = token, tokens' = tokens, req' = req
      PROVE  {x \in token' : x.key = k} = IF tokens'[k] = None THEN {} ELSE {tokens'[k]}
  BY <1>2 DEF EntriesAreCurrent, Busy, RowsOf
<1>3. ASSUME NEW r0 \in Requests, NEW k0 \in Keys, NEW d \in Data, AddInsert(r0, k0, d)
      PROVE  {x \in token' : x.key = k} = IF tokens'[k] = None THEN {} ELSE {tokens'[k]}
  <2> DEFINE row == [id |-> lastId + 1, key |-> k0, data |-> d]
  <2>1. /\ req'[r0] = [pc |-> "inserted", row |-> row]
        /\ \A r \in Requests \ {r0} : req'[r] = req[r]
        /\ req[r0] = Idle
        /\ token' = token \cup {row}
        /\ astray \subseteq astray'
        /\ UNCHANGED <<tokens, svc, networks>>
    BY <1>3 DEF AddInsert, Inserted
  <2>2. k # k0
    BY <2>1 DEF Idle
  <2>3. k \in Known \ astray /\ ~Busy(k) /\ svc = "up"
    BY <2>1 DEF Known, Busy
  <2>4. {x \in token' : x.key = k} = RowsOf(k)
    BY <2>1, <2>2 DEF RowsOf
  <2> QED  BY <2>1, <2>3, <2>4 DEF EntriesAreCurrent
<1>4. ASSUME NEW r0 \in Requests, AddAnnounce(r0)
      PROVE  {x \in token' : x.key = k} = IF tokens'[k] = None THEN {} ELSE {tokens'[k]}
  <2>1. /\ req[r0].pc = "inserted" /\ req[r0] # Idle
        /\ req[r0].row \in Rows
        /\ req' = [req EXCEPT ![r0] = Idle]
        /\ tokens' = IF req[r0].row.key \in Known
                       THEN [tokens EXCEPT ![req[r0].row.key] = req[r0].row] ELSE tokens
        /\ UNCHANGED <<networks, token, svc, astray>>
    BY <1>4, TaskShape DEF AddAnnounce
  <2>2. k \in Known \ astray /\ svc = "up"
    BY <2>1 DEF Known
  <2>3. CASE req[r0].row.key = k
    <3>1. RowsOf(k) = {req[r0].row}
      BY <2>1, <2>2, <2>3 DEF HandlersKnow
    <3>2. tokens'[k] = req[r0].row
      BY <2>1, <2>2, <2>3
    <3> QED  BY <2>1, <3>1, <3>2, NoneIsNoRow DEF RowsOf
  <2>4. CASE req[r0].row.key # k
    <3>1. ~Busy(k) /\ tokens'[k] = tokens[k]
      BY <2>1, <2>4 DEF Busy
    <3> QED  BY <2>1, <2>2, <3>1 DEF EntriesAreCurrent, RowsOf
  <2> QED  BY <2>3, <2>4
<1>5. ASSUME NEW r0 \in Requests, RemoveAnnounce(r0)
      PROVE  {x \in token' : x.key = k} = IF tokens'[k] = None THEN {} ELSE {tokens'[k]}
  <2>1. /\ req[r0].pc = "deleted" /\ req[r0] # Idle
        /\ req' = [req EXCEPT ![r0] = Idle]
        /\ tokens' = [tokens EXCEPT ![req[r0].row.key] = None]
        /\ UNCHANGED <<networks, token, svc, astray>>
    BY <1>5, TaskShape DEF RemoveAnnounce
  <2>2. k \in Known \ astray /\ svc = "up"
    BY <2>1 DEF Known
  <2>3. CASE req[r0].row.key = k
    <3>1. RowsOf(k) = {}
      BY <2>1, <2>2, <2>3 DEF HandlersKnow
    <3>2. tokens'[k] = None
      BY <2>1, <2>2, <2>3
    <3> QED  BY <2>1, <3>1, <3>2 DEF RowsOf
  <2>4. CASE req[r0].row.key # k
    <3>1. ~Busy(k) /\ tokens'[k] = tokens[k]
      BY <2>1, <2>4 DEF Busy
    <3> QED  BY <2>1, <2>2, <3>1 DEF EntriesAreCurrent, RowsOf
  <2> QED  BY <2>3, <2>4
<1>6. ASSUME NEW row \in token, NEW k0 \in Keys, NEW d \in Data, Update(row, k0, d)
      PROVE  {x \in token' : x.key = k} = IF tokens'[k] = None THEN {} ELSE {tokens'[k]}
  <2>1. /\ token' = (token \ {row}) \cup {[row EXCEPT !.key = k0, !.data = d]}
        /\ k # row.key /\ k # k0 /\ k \in Known \ astray
        /\ UNCHANGED <<tokens, svc, req>>
        /\ [row EXCEPT !.key = k0, !.data = d].key = k0
    BY <1>6 DEF Update, Rows, Known
  <2>2. {x \in token' : x.key = k} = RowsOf(k)
    BY <2>1 DEF RowsOf
  <2> QED  BY <2>1, <2>2 DEF EntriesAreCurrent, Busy
<1>7. ASSUME NEW r0 \in Requests, NEW row \in token, RemoveDelete(r0, row)
      PROVE  {x \in token' : x.key = k} = IF tokens'[k] = None THEN {} ELSE {tokens'[k]}
  <2>1. /\ req'[r0] = [pc |-> "deleted", row |-> row]
        /\ \A r \in Requests \ {r0} : req'[r] = req[r]
        /\ req[r0] = Idle
        /\ token' = token \ {row}
        /\ astray \subseteq astray'
        /\ UNCHANGED <<tokens, svc, networks>>
    BY <1>7 DEF RemoveDelete, Deleted
  <2>2. k # row.key
    BY <2>1 DEF Idle
  <2>3. k \in Known \ astray /\ ~Busy(k) /\ svc = "up"
    BY <2>1 DEF Known, Busy
  <2>4. {x \in token' : x.key = k} = RowsOf(k)
    BY <2>1, <2>2 DEF RowsOf
  <2> QED  BY <2>1, <2>3, <2>4 DEF EntriesAreCurrent
<1>8. CASE UNCHANGED vars
  BY <1>2, <1>8 DEF vars, Known
<1>9. CASE Begin \/ LoadThrows \/ Crash
  BY <1>9 DEF Begin, LoadThrows, Crash
<1>10. ASSUME NEW n \in Seeds, Seed(n)
       PROVE  {x \in token' : x.key = k} = IF tokens'[k] = None THEN {} ELSE {tokens'[k]}
  BY <1>2, <1>10 DEF Seed, Known
<1>11. CASE SeedFails
  BY <1>2, <1>11 DEF SeedFails, Known
<1> QED  BY <1>1, <1>3, <1>4, <1>5, <1>6, <1>7, <1>8, <1>9, <1>10, <1>11 DEF Next

-----------------------------------------------------------------------------
(* The theorems. *)

\* Before the first start there is nothing.
LEMMA InitIInv ==
  ASSUME Init
  PROVE  IInv
<1> USE DEF Init
<1>1. TypeOK
  BY MaxTokensAssumption DEF TypeOK
<1>2. IsFiniteSet(token)
  BY FS_EmptySet
<1>3. Process /\ HandlersKnow
  BY DEF Process, HandlersKnow
<1>4. EntriesAreCurrent /\ EntriesHaveProviders /\ OneRowANetwork
  BY DEF EntriesAreCurrent, EntriesHaveProviders, OneRowANetwork
<1> QED  BY <1>1, <1>2, <1>3, <1>4 DEF IInv

\* The inductive invariant: table, entries and the handlers between them stand
\* together through overlapping handlers, starts that fail and deaths.
THEOREM Invariance == Spec => []IInv
<1>1. Init => IInv
  BY InitIInv
<1>2. IInv /\ [Next]_vars => IInv'
  <2> SUFFICES ASSUME IInv, [Next]_vars PROVE IInv'
    OBVIOUS
  <2>1. TypeOK' /\ IsFiniteSet(token)' /\ Process' /\ OneRowANetwork'
    BY TypeOKStep, TableIsFiniteStep, ProcessStep, OneRowANetworkStep DEF IInv
  <2>2. HandlersKnow' /\ EntriesAreCurrent' /\ EntriesHaveProviders'
    BY HandlersKnowStep, EntriesAreCurrentStep, EntriesHaveProvidersStep DEF IInv
  <2> QED  BY <2>1, <2>2 DEF IInv
<1> QED  BY <1>1, <1>2, PTL DEF Spec

\* Rows, entries and handlers keep their types.
THEOREM TypeCorrect == Spec => []TypeOK
BY Invariance, PTL DEF IInv

\* The entry of a key that no handler has in hand and that has not gone astray
\* is its row.
THEOREM EntriesCurrent == Spec => []EntriesAreCurrent
BY Invariance, PTL DEF IInv

\* There is never an entry without a provider.
THEOREM ProvidersForEntries == Spec => []EntriesHaveProviders
BY Invariance, PTL DEF IInv

\* No number of starts, cut short or not, seeds a network twice.
THEOREM SeedsOnce == Spec => []OneRowANetwork
BY Invariance, PTL DEF IInv
=============================================================================
