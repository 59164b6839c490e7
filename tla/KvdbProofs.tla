----------------------------- MODULE KvdbProofs -----------------------------
(***************************************************************************)
(* Proofs about Kvdb, for any number of threads, databases and scopes.     *)
(***************************************************************************)
EXTENDS Kvdb, FiniteSetTheorems, TLAPS

USE DEF manager, collection, rocksdb, locals

(* What the proofs use of column family numbers. *)
LEMMA CFFacts ==
  /\ None \in MaybeCF /\ CF \subseteq MaybeCF /\ None \notin CF
  /\ MaybeCF \subseteq Handle /\ Null \in Handle /\ Null \notin MaybeCF
  /\ \A c \in Handle : c # None /\ c # Null => c \in CF
  /\ \A c \in MaybeCF : c # None => c \in CF
  /\ 1 \in 1..(MaxCF + 1)
  /\ \A n \in 1..(MaxCF + 1) : n <= MaxCF => n \in CF /\ n + 1 \in 1..(MaxCF + 1)
  BY MaxCFAssumption DEF None, Null, CF, MaybeCF, Handle, MaxCFAssumption

-----------------------------------------------------------------------------
(* The type invariant is inductive. *)

LEMMA TypeInit == Init => TypeOK
<1> SUFFICES ASSUME Init PROVE TypeOK
  OBVIOUS
<1>1. ManagerTypeOK
  BY CFFacts DEF Init, ManagerTypeOK
<1>2. RocksTypeOK
  BY CFFacts DEF Init, RocksTypeOK
<1>3. /\ pc \in [Threads -> Pcs]
      /\ db \in [Threads -> Names \union {NoName}]
      /\ scope \in [Threads -> Scopes \union {NoScope}]
  BY DEF Init, Pcs
<1>4. /\ cf \in [Threads -> Handle]
      /\ file \in [Threads -> BOOLEAN]
      /\ todo \in [Threads -> SUBSET Keys]
      /\ made \in [Threads -> MaybeCF]
      /\ blockers \in [Threads -> SUBSET Threads]
  BY CFFacts DEF Init
<1>5. ArgumentsOK
  BY DEF Init, ArgumentsOK, UsePcs, StrongPcs, RocksPcs
<1> QED
  BY <1>1, <1>2, <1>3, <1>4, <1>5 DEF TypeOK, RequestTypeOK

(* A request that returns loses its locals and disturbs no other. *)
LEMMA ReturnType ==
  ASSUME RequestTypeOK, ArgumentsOK, NEW t \in Threads, Return(t)
  PROVE  RequestTypeOK' /\ ArgumentsOK'
<1> USE DEF RequestTypeOK, Return, Goto
<1>1. /\ pc' \in [Threads -> Pcs]
      /\ db' \in [Threads -> Names \union {NoName}]
      /\ scope' \in [Threads -> Scopes \union {NoScope}]
  BY DEF Pcs
<1>2. cf' \in [Threads -> Handle] /\ made' \in [Threads -> MaybeCF]
  BY CFFacts
<1>3. file' \in [Threads -> BOOLEAN] /\ todo' \in [Threads -> SUBSET Keys]
  OBVIOUS
<1>4. blockers' \in [Threads -> SUBSET Threads]
  OBVIOUS
<1>5. ArgumentsOK'
  BY DEF ArgumentsOK, UsePcs, StrongPcs, RocksPcs
<1> QED
  BY <1>1, <1>2, <1>3, <1>4, <1>5

(* So does a step of the manager that resets every thread. *)
LEMMA CrashType ==
  ASSUME Crash PROVE RequestTypeOK' /\ ArgumentsOK'
<1> USE DEF Crash
<1>1. /\ pc' \in [Threads -> Pcs]
      /\ db' \in [Threads -> Names \union {NoName}]
      /\ scope' \in [Threads -> Scopes \union {NoScope}]
  BY DEF Pcs
<1>2. cf' \in [Threads -> Handle] /\ made' \in [Threads -> MaybeCF]
  BY CFFacts
<1>3. file' \in [Threads -> BOOLEAN] /\ todo' \in [Threads -> SUBSET Keys]
  OBVIOUS
<1>4. blockers' \in [Threads -> SUBSET Threads]
  OBVIOUS
<1>5. ArgumentsOK'
  BY DEF ArgumentsOK, UsePcs, StrongPcs, RocksPcs
<1> QED
  BY <1>1, <1>2, <1>3, <1>4, <1>5 DEF RequestTypeOK

(* Only operator[] on a name that is not there makes an empty handle. *)
LEMMA IndexedFacts ==
  ASSUME mapCF \in [Names -> Handle], NEW d \in Names
  PROVE  /\ Indexed(d) \in Handle /\ Indexed(d) # None
         /\ Indexed(d) # Null => Indexed(d) \in CF
  BY CFFacts DEF Indexed

(* A step to another place of the same request, with or without a handle. *)
LEMMA GotoType ==
  ASSUME RequestTypeOK, ArgumentsOK, NEW t \in Threads, NEW label \in Pcs,
         Goto(t, label), pc[t] # "idle", label # "idle",
         label \in UsePcs => pc[t] \in UsePcs,
         \/ /\ UNCHANGED locals
            /\ label \in StrongPcs => cf[t] # None
            /\ label \in RocksPcs => cf[t] \in CF
         \/ \E c \in Handle :
              /\ SetCF(t, c)
              /\ label \in StrongPcs => c # None
              /\ label \in RocksPcs => c \in CF
  PROVE  RequestTypeOK' /\ ArgumentsOK'
<1>1. RequestTypeOK'
  BY DEF RequestTypeOK, Goto, SetCF
<1>2. ArgumentsOK'
  BY DEF RequestTypeOK, ArgumentsOK, Goto, SetCF
<1> QED
  BY <1>1, <1>2

(* Every step of a request, of the manager and of a crash keeps the types. *)
LEMMA TypeStep == TypeOK /\ [Next]_vars => TypeOK'
<1> SUFFICES ASSUME TypeOK, [Next]_vars PROVE TypeOK'
  OBVIOUS
<1> USE CFFacts DEF TypeOK, ManagerTypeOK, RocksTypeOK
<1>a. /\ UsePcs \subseteq Pcs /\ CreatePcs \subseteq Pcs /\ DeletePcs \subseteq Pcs
      /\ "idle" \notin UsePcs \union CreatePcs \union DeletePcs
  BY DEF Pcs, UsePcs, CreatePcs, DeletePcs
<1>1. CASE Initialize
  BY <1>1 DEF Initialize, RequestTypeOK, ArgumentsOK
<1>2. CASE Finalize
  <2>1. RequestTypeOK'
    BY <1>2 DEF Finalize, RequestTypeOK
  <2>2. ArgumentsOK'
    BY <1>2 DEF Finalize, ArgumentsOK, StrongPcs, RocksPcs
  <2> QED
    BY <1>2, <2>1, <2>2 DEF Finalize
<1>3. CASE Crash
  BY <1>3, CrashType DEF Crash
<1>4. ASSUME NEW t \in Threads, Use(t) PROVE TypeOK'
  <2>1. ASSUME NEW d \in Names, NEW s \in Scopes, UseExists(t, d, s) PROVE TypeOK'
    <3>1. RequestTypeOK'
      BY <2>1, <1>a DEF UseExists, RequestTypeOK, Goto, UsePcs
    <3>2. ArgumentsOK'
      BY <2>1 DEF UseExists, RequestTypeOK, ArgumentsOK, Goto, StrongPcs, RocksPcs
    <3> QED
      BY <2>1, <3>1, <3>2 DEF UseExists
  <2>2. CASE GetLookup(t)
    BY <2>2, <1>a, ReturnType, GotoType DEF GetLookup, UsePcs, StrongPcs, RocksPcs
  <2>2a. CASE GetCopy(t)
    <3>1. db[t] \in Names
      BY <2>2a DEF GetCopy, ArgumentsOK
    <3>2. /\ SetCF(t, Indexed(db[t])) /\ Goto(t, "addShared") /\ pc[t] = "getCopy"
          /\ mapCF' = [mapCF EXCEPT ![db[t]] = Indexed(db[t])]
          /\ UNCHANGED <<up, collection, rocksdb>>
      BY <2>2a DEF GetCopy, Subscript
    <3>3. Indexed(db[t]) \in Handle /\ Indexed(db[t]) # None
      BY <3>1, IndexedFacts
    <3>4. RequestTypeOK' /\ ArgumentsOK'
      BY <3>2, <3>3, <1>a, GotoType DEF UsePcs, StrongPcs, RocksPcs
    <3> QED
      BY <3>1, <3>2, <3>3, <3>4
  <2>3. CASE AddShared(t)
    <3>1. RequestTypeOK' /\ ArgumentsOK'
      BY <2>3, <1>a, GotoType DEF AddShared, UsePcs, StrongPcs, RocksPcs, ArgumentsOK
    <3>2. db[t] \in Names /\ scope[t] \in Scopes
      BY <2>3 DEF AddShared, ArgumentsOK, UsePcs
    <3> QED
      <4>1. CASE AddScope(db[t], scope[t])
        <5>1. cnt' \in [Names -> [Scopes -> Nat]] /\ instances' \subseteq Names
          BY <3>2, <4>1 DEF AddScope
        <5> QED
          BY <2>3, <3>1, <5>1 DEF AddShared
      <4>2. CASE UNCHANGED collection
        BY <2>3, <3>1, <4>2 DEF AddShared
      <4> QED
        BY <2>3, <4>1, <4>2 DEF AddShared
  <2>4. CASE AddUnique(t)
    <3>1. RequestTypeOK' /\ ArgumentsOK'
      BY <2>4, <1>a, GotoType DEF AddUnique, UsePcs, StrongPcs, RocksPcs
    <3>2. db[t] \in Names /\ scope[t] \in Scopes
      BY <2>4 DEF AddUnique, ArgumentsOK, UsePcs
    <3> QED
      BY <2>4, <3>1, <3>2 DEF AddUnique, AddScope
  <2>5. CASE OpLock(t)
    BY <2>5, <1>a, GotoType DEF OpLock, UsePcs, StrongPcs, RocksPcs, Alive, RequestTypeOK
  <2>6. ASSUME NEW k \in Keys, OpSet(t, k) PROVE TypeOK'
    <3>1. RequestTypeOK' /\ ArgumentsOK'
      BY <2>6, <1>a, GotoType DEF OpSet, UsePcs, StrongPcs, RocksPcs
    <3>2. data' \in [CF -> SUBSET Keys]
      BY <2>6 DEF OpSet, ArgumentsOK, StrongPcs, RocksPcs
    <3> QED
      BY <2>6, <3>1, <3>2 DEF OpSet
  <2>7. ASSUME NEW k \in Keys, OpRemove(t, k) PROVE TypeOK'
    <3>1. RequestTypeOK' /\ ArgumentsOK'
      BY <2>7, <1>a, GotoType DEF OpRemove, UsePcs, StrongPcs, RocksPcs
    <3> QED
      BY <2>7, <3>1 DEF OpRemove
  <2>8. CASE OpRead(t)
    BY <2>8, <1>a, GotoType DEF OpRead, UsePcs, StrongPcs, RocksPcs
  <2>9. CASE Close(t)
    <3>1. db[t] \in Names /\ scope[t] \in Scopes
      BY <2>9 DEF Close, ArgumentsOK, UsePcs
    <3>2. \A n \in Nat : (IF n = 0 THEN 0 ELSE n - 1) \in Nat
      OBVIOUS
    <3> DEFINE left == [cnt[db[t]] EXCEPT ![scope[t]] = IF @ = 0 THEN 0 ELSE @ - 1]
    <3>3. left \in [Scopes -> Nat]
      BY <3>1, <3>2
    <3>4. /\ cnt' \in {cnt, [cnt EXCEPT ![db[t]] = left]}
          /\ instances' \subseteq instances
      BY <2>9 DEF Close, RemoveScope
    <3> HIDE DEF left
    <3>5. cnt' \in [Names -> [Scopes -> Nat]] /\ instances' \subseteq Names
      BY <3>1, <3>3, <3>4
    <3> QED
      BY <2>9, <3>5, ReturnType DEF Close
  <2> QED
    BY <1>4, <2>1, <2>2, <2>2a, <2>3, <2>4, <2>5, <2>6, <2>7, <2>8, <2>9 DEF Use
<1>5. ASSUME NEW t \in Threads, Delete(t) PROVE TypeOK'
  <2>1. ASSUME NEW d \in Names, DeleteExists(t, d) PROVE TypeOK'
    <3>1. RequestTypeOK'
      BY <2>1, <1>a DEF DeleteExists, RequestTypeOK, Goto, DeletePcs
    <3>2. ArgumentsOK'
      BY <2>1 DEF DeleteExists, RequestTypeOK, ArgumentsOK, Goto, StrongPcs, RocksPcs, UsePcs
    <3> QED
      BY <2>1, <3>1, <3>2 DEF DeleteExists
  <2>2. CASE DelNames(t)
    <3>1. RequestTypeOK'
      BY <2>2, <1>a DEF DelNames, RequestTypeOK, Goto, DeletePcs
    <3>2. ArgumentsOK'
      BY <2>2 DEF DelNames, RequestTypeOK, ArgumentsOK, Goto, StrongPcs, RocksPcs, UsePcs
    <3> QED
      BY <2>2, <3>1, <3>2 DEF DelNames
  <2>3. CASE DelRefs(t)
    BY <2>3, <1>a, ReturnType, GotoType DEF DelRefs, DeletePcs, UsePcs, StrongPcs, RocksPcs
  <2>4. CASE DelFind(t)
    BY <2>4, <1>a, ReturnType, GotoType DEF DelFind, DeletePcs, UsePcs, StrongPcs, RocksPcs, ArgumentsOK
  <2>5. CASE DelDrop(t)
    <3>1. RequestTypeOK' /\ ArgumentsOK'
      BY <2>5, <1>a, ReturnType, GotoType DEF DelDrop, DeletePcs, UsePcs, StrongPcs, RocksPcs, ArgumentsOK
    <3> QED
      BY <2>5, <3>1 DEF DelDrop
  <2>6. CASE DelErase(t)
    BY <2>6, ReturnType DEF DelErase
  <2> QED
    BY <1>5, <2>1, <2>2, <2>3, <2>4, <2>5, <2>6 DEF Delete
<1>6. ASSUME NEW t \in Threads, Create(t) PROVE TypeOK'
  <2>1. ASSUME NEW d \in Names, NEW withFile \in BOOLEAN, NEW keys \in SUBSET Keys,
               PostExists(t, d, withFile, keys)
        PROVE  TypeOK'
    <3>1. RequestTypeOK'
      BY <2>1, <1>a DEF PostExists, RequestTypeOK, Goto, CreatePcs
    <3>2. ArgumentsOK'
      BY <2>1 DEF PostExists, RequestTypeOK, ArgumentsOK, Goto, StrongPcs, RocksPcs, UsePcs
    <3> QED
      BY <2>1, <3>1, <3>2 DEF PostExists
  <2>a. pc[t] \in CreatePcs /\ Created(t) => RequestTypeOK' /\ ArgumentsOK'
    BY <1>a, ReturnType, GotoType DEF Created, CreatePcs, UsePcs, StrongPcs, RocksPcs
  <2>b. pc[t] \in CreatePcs /\ RollBack(t) => RequestTypeOK' /\ ArgumentsOK'
    BY <1>a, GotoType DEF RollBack, CreatePcs, DeletePcs, UsePcs, StrongPcs, RocksPcs
  <2>2. CASE CreateExists(t)
    BY <2>2, <2>a, <1>a, GotoType DEF CreateExists, CreatePcs, UsePcs, StrongPcs, RocksPcs
  <2>3. CASE CreateCF(t)
    <3>1. CASE Return(t) /\ UNCHANGED <<rocks, nextCF>>
      BY <2>3, <3>1, ReturnType DEF CreateCF
    <3>2. CASE ~(Return(t) /\ UNCHANGED <<rocks, nextCF>>)
      <4>0. /\ nextCF <= MaxCF /\ nextCF' = nextCF + 1
            /\ rocks' = [rocks EXCEPT ![db[t]] = nextCF]
        BY <2>3, <3>2 DEF CreateCF
      <4>1. nextCF \in CF /\ nextCF' \in 1..(MaxCF + 1)
        BY <4>0, MaxCFAssumption DEF CF, MaxCFAssumption
      <4>2. /\ Goto(t, "emplace")
            /\ cf' = [cf EXCEPT ![t] = nextCF] /\ made' = [made EXCEPT ![t] = nextCF]
            /\ UNCHANGED <<db, scope, file, todo, blockers>>
        BY <2>3, <3>2 DEF CreateCF
      <4>3. cf' \in [Threads -> Handle] /\ made' \in [Threads -> MaybeCF]
        BY <4>1, <4>2 DEF RequestTypeOK
      <4>4. RequestTypeOK'
        BY <4>2, <4>3, <1>a DEF RequestTypeOK, Goto, CreatePcs
      <4>5. ArgumentsOK'
        BY <2>3, <4>1, <4>2 DEF CreateCF, RequestTypeOK, ArgumentsOK, Goto, UsePcs, StrongPcs, RocksPcs
      <4> QED
        BY <2>3, <4>0, <4>1, <4>4, <4>5 DEF CreateCF
    <3> QED
      BY <3>1, <3>2
  <2>4. CASE Emplace(t)
    BY <2>4, <2>a DEF Emplace, CreatePcs, RequestTypeOK
  <2>5. CASE LoadLookup(t)
    BY <2>5, <2>b, <1>a, GotoType DEF LoadLookup, CreatePcs, UsePcs, StrongPcs, RocksPcs
  <2>5a. CASE LoadCopy(t)
    <3>1. db[t] \in Names /\ pc[t] = "loadCopy" /\ UNCHANGED <<up, collection, rocksdb>>
      BY <2>5a DEF LoadCopy, ArgumentsOK
    <3>2. /\ Indexed(db[t]) \in Handle /\ Indexed(db[t]) # None
          /\ Indexed(db[t]) # Null => Indexed(db[t]) \in CF
      BY <3>1, IndexedFacts
    <3>3. CASE Indexed(db[t]) = Null
      BY <2>5a, <2>b, <3>1, <3>3 DEF LoadCopy, CreatePcs
    <3>4. CASE Indexed(db[t]) # Null
      <4>1. /\ SetCF(t, Indexed(db[t])) /\ Goto(t, "loadPut")
            /\ mapCF' = [mapCF EXCEPT ![db[t]] = Indexed(db[t])]
        BY <2>5a, <3>4 DEF LoadCopy, Subscript
      <4>2. RequestTypeOK' /\ ArgumentsOK'
        BY <3>1, <3>2, <3>4, <4>1, <1>a, GotoType
           DEF CreatePcs, UsePcs, StrongPcs, RocksPcs
      <4> QED
        BY <3>1, <3>2, <4>1, <4>2
    <3> QED
      BY <3>3, <3>4
  <2>6. CASE LoadPut(t)
    <3>1. CASE \E k \in todo[t] :
                 /\ data' = [data EXCEPT ![cf[t]] = @ \union {k}]
                 /\ todo' = [todo EXCEPT ![t] = @ \ {k}]
                 /\ UNCHANGED <<pc, db, scope, cf, file, made, blockers>>
      <4>1. cf[t] \in CF /\ todo[t] \subseteq Keys
        BY <2>6 DEF LoadPut, ArgumentsOK, StrongPcs, RocksPcs, RequestTypeOK
      <4>2. data' \in [CF -> SUBSET Keys]
        BY <3>1, <4>1
      <4>3. todo' \in [Threads -> SUBSET Keys]
        BY <3>1, <4>1 DEF RequestTypeOK
      <4> QED
        BY <2>6, <3>1, <4>2, <4>3 DEF LoadPut, RequestTypeOK, ArgumentsOK
    <3>2. CASE Return(t) /\ UNCHANGED data
      BY <2>6, <3>2, ReturnType DEF LoadPut
    <3>3. CASE RollBack(t) /\ UNCHANGED data
      BY <2>6, <3>3, <2>b DEF LoadPut, CreatePcs
    <3> QED
      BY <2>6, <3>1, <3>2, <3>3 DEF LoadPut
  <2> QED
    BY <1>6, <2>1, <2>2, <2>3, <2>4, <2>5, <2>5a, <2>6 DEF Create
<1>7. CASE UNCHANGED vars
  BY <1>7 DEF vars, RequestTypeOK, ArgumentsOK
<1> QED
  BY <1>1, <1>2, <1>3, <1>4, <1>5, <1>6, <1>7 DEF Next

(* Every variable of the manager keeps its type, and every thread in a     *)
(* request has the arguments that its place in the request needs.          *)
THEOREM TypeCorrect == Spec => []TypeOK
  BY TypeInit, TypeStep, PTL DEF Spec

-----------------------------------------------------------------------------
(* The counters of the collection are exact. *)

(* Holders are threads, and there are finitely many of them. *)
LEMMA HoldersFinite ==
  ASSUME NEW d, NEW s
  PROVE  IsFiniteSet(Holders(d, s)) /\ Cardinality(Holders(d, s)) \in Nat
  BY ThreadsAssumption, FS_Subset, FS_CardinalityType DEF Holders, ThreadsAssumption

(* A counter is not zero exactly when somebody holds. *)
LEMMA HoldersCounted ==
  ASSUME TypeOK, RefCountExact, NEW d \in Names, NEW s \in Scopes
  PROVE  cnt[d][s] # 0 <=> Holders(d, s) # {}
  BY HoldersFinite, FS_EmptySet DEF RefCountExact

(* A step that registers nobody and releases nobody. *)
LEMMA SameHolders ==
  ASSUME RefCountExact, UNCHANGED collection,
         \A u \in Threads : Registered(u)' <=> Registered(u),
         \A u \in Threads : Registered(u) => db'[u] = db[u] /\ scope'[u] = scope[u]
  PROVE  RefCountExact'
<1>1. \A d \in Names, s \in Scopes : Holders(d, s)' = Holders(d, s)
  BY DEF Holders
<1> QED
  BY <1>1 DEF RefCountExact

(* addScope and a handler more. *)
LEMMA OneMoreHolder ==
  ASSUME TypeOK, RefCountExact, NEW t \in Threads,
         db[t] \in Names, scope[t] \in Scopes, ~Registered(t), Registered(t)',
         AddScope(db[t], scope[t]), UNCHANGED <<db, scope>>,
         \A u \in Threads \ {t} : Registered(u)' <=> Registered(u)
  PROVE  RefCountExact'
<1> DEFINE d == db[t]
           s == scope[t]
<1>1. Holders(d, s)' = Holders(d, s) \union {t} /\ t \notin Holders(d, s)
  BY DEF Holders
<1>2. Cardinality(Holders(d, s)') = Cardinality(Holders(d, s)) + 1
  <2> DEFINE H == Holders(d, s)
  <2>1. IsFiniteSet(H)
    BY HoldersFinite
  <2>2. Holders(d, s)' = H \union {t} /\ t \notin H
    BY <1>1
  <2> HIDE DEF H
  <2>3. Cardinality(H \union {t}) = Cardinality(H) + 1
    BY <2>1, <2>2, FS_AddElement
  <2>4. Cardinality(Holders(d, s)') = Cardinality(H) + 1
    BY <2>2, <2>3
  <2> QED
    BY <2>4 DEF H
<1>3. \A e \in Names, r \in Scopes : e # d \/ r # s => Holders(e, r)' = Holders(e, r)
  BY DEF Holders
<1>4. /\ cnt' = [cnt EXCEPT ![d][s] = @ + 1] /\ cnt \in [Names -> [Scopes -> Nat]]
      /\ instances' = instances \union {d}
  BY DEF AddScope, TypeOK, ManagerTypeOK
<1>5. \A e \in Names, r \in Scopes :
        cnt'[e][r] = IF e = d /\ r = s THEN cnt[e][r] + 1 ELSE cnt[e][r]
  BY <1>4
<1>6. \A e \in Names, r \in Scopes : cnt'[e][r] = Cardinality(Holders(e, r)')
  BY <1>2, <1>3, <1>5 DEF RefCountExact
<1>7. \A e \in Names : e \in instances' <=> \E r \in Scopes : cnt'[e][r] # 0
  BY <1>4, <1>5 DEF RefCountExact
<1> QED
  BY <1>6, <1>7 DEF RefCountExact

(* removeScope and a handler less. *)
LEMMA OneHolderLess ==
  ASSUME TypeOK, RefCountExact, NEW t \in Threads,
         NEW d \in Names, NEW s \in Scopes, db[t] = d, scope[t] = s,
         Registered(t), ~Registered(t)', RemoveScope(d, s),
         \A u \in Threads \ {t} : /\ Registered(u)' <=> Registered(u)
                                  /\ db'[u] = db[u] /\ scope'[u] = scope[u]
  PROVE  RefCountExact'
<1> DEFINE left == [cnt[d] EXCEPT ![s] = IF @ = 0 THEN 0 ELSE @ - 1]
<1>1. t \in Holders(d, s) /\ Holders(d, s)' = Holders(d, s) \ {t}
  BY DEF Holders
<1>2. Cardinality(Holders(d, s)') = Cardinality(Holders(d, s)) - 1
  <2> DEFINE H == Holders(d, s)
  <2>1. IsFiniteSet(H) /\ t \in H
    BY <1>1, HoldersFinite
  <2> HIDE DEF left, H
  <2>2. Cardinality(H \ {t}) = Cardinality(H) - 1
    BY <2>1, FS_RemoveElement
  <2> QED BY <1>1, <2>2 DEF H
<1>3. \A e \in Names, r \in Scopes : e # d \/ r # s => Holders(e, r)' = Holders(e, r)
  BY DEF Holders
<1>4. cnt[d][s] # 0 /\ d \in instances
  BY <1>1, HoldersCounted DEF RefCountExact
<1>5. /\ cnt' = [cnt EXCEPT ![d] = left] /\ cnt \in [Names -> [Scopes -> Nat]]
      /\ instances' = IF \A r \in Scopes : left[r] = 0
                      THEN instances \ {d} ELSE instances
  BY <1>4 DEF RemoveScope, TypeOK, ManagerTypeOK
<1>6. \A e \in Names, r \in Scopes :
        cnt'[e][r] = IF e = d /\ r = s THEN cnt[e][r] - 1 ELSE cnt[e][r]
  <2>1. cnt[d][s] \in Nat /\ left = [cnt[d] EXCEPT ![s] = cnt[d][s] - 1]
    BY <1>4, <1>5
  <2> HIDE DEF left
  <2> QED
    BY <1>5, <2>1
<1>7. \A e \in Names, r \in Scopes : cnt'[e][r] = Cardinality(Holders(e, r)')
  BY <1>2, <1>3, <1>6 DEF RefCountExact
<1>8. \A r \in Scopes : cnt'[d][r] = left[r]
  BY <1>5
<1>9. \A e \in Names : e \in instances' <=> \E r \in Scopes : cnt'[e][r] # 0
  <2> HIDE DEF left
  <2> TAKE e \in Names
  <2>1. CASE e = d
    BY <2>1, <1>4, <1>5, <1>8
  <2>2. CASE e # d
    BY <2>2, <1>5, <1>6 DEF RefCountExact
  <2> QED
    BY <2>1, <2>2
<1> QED
  BY <1>7, <1>9 DEF RefCountExact

(* Nobody holds and nothing is counted at the start. *)
LEMMA RefCountInit == Init => RefCountExact
<1> SUFFICES ASSUME Init PROVE RefCountExact
  OBVIOUS
<1>1. \A d \in Names, s \in Scopes : Holders(d, s) = {}
  BY DEF Init, Holders, Registered
<1> QED
  BY <1>1, FS_EmptySet DEF Init, RefCountExact

(* Only addKVDBHandler and removeKVDBHandler change the counters, and they *)
(* change the holders in the same step; a crash forgets both.              *)
LEMMA RefCountStep == TypeOK /\ RefCountExact /\ [Next]_vars => RefCountExact'
<1> SUFFICES ASSUME TypeOK, RefCountExact, [Next]_vars PROVE RefCountExact'
  OBVIOUS
<1> USE DEF Registered, Goto, SetCF
<1>a. pc \in [Threads -> Pcs]
  BY DEF TypeOK, RequestTypeOK
<1>b. /\ db \in [Threads -> Names \union {NoName}]
      /\ scope \in [Threads -> Scopes \union {NoScope}]
  BY DEF TypeOK, RequestTypeOK
<1>c. ASSUME NEW t \in Threads, ~Registered(t), Return(t), UNCHANGED collection
      PROVE  RefCountExact'
  BY <1>a, <1>b, <1>c, SameHolders DEF Return
<1>d. ASSUME NEW t \in Threads, NEW label \in Pcs, Goto(t, label), UNCHANGED collection,
             Registered(t) <=> label \in {"open", "op", "close"},
             UNCHANGED <<db, scope>>
      PROVE  RefCountExact'
  BY <1>a, <1>b, <1>d, SameHolders
<1>1. CASE Initialize
  BY <1>1, SameHolders DEF Initialize
<1>2. CASE Finalize
  BY <1>2, SameHolders DEF Finalize
<1>3. CASE Crash
  <2>1. \A d \in Names, s \in Scopes : Holders(d, s)' = {}
    BY <1>3 DEF Crash, Holders
  <2> QED
    BY <1>3, <2>1, FS_EmptySet DEF Crash, RefCountExact
<1>4. ASSUME NEW t \in Threads, Use(t) PROVE RefCountExact'
  <2>1. ASSUME NEW d \in Names, NEW s \in Scopes, UseExists(t, d, s) PROVE RefCountExact'
    BY <2>1, <1>a, <1>b, SameHolders DEF UseExists
  <2>2. CASE GetLookup(t)
    BY <2>2, <1>c, <1>d DEF GetLookup, Pcs, UsePcs
  <2>2a. CASE GetCopy(t)
    BY <2>2a, <1>d DEF GetCopy, Subscript, Pcs, UsePcs
  <2>3. CASE AddShared(t)
    <3>1. db[t] \in Names /\ scope[t] \in Scopes
      BY <2>3 DEF AddShared, TypeOK, ArgumentsOK, UsePcs
    <3>2. CASE db[t] \in instances
      BY <2>3, <3>1, <3>2, <1>a, OneMoreHolder DEF AddShared
    <3>3. CASE db[t] \notin instances
      BY <2>3, <3>3, <1>d DEF AddShared, Pcs, UsePcs
    <3> QED
      BY <3>2, <3>3
  <2>4. CASE AddUnique(t)
    <3>1. db[t] \in Names /\ scope[t] \in Scopes
      BY <2>4 DEF AddUnique, TypeOK, ArgumentsOK, UsePcs
    <3> QED
      BY <2>4, <3>1, <1>a, OneMoreHolder DEF AddUnique
  <2>5. CASE OpLock(t)
    BY <2>5, <1>d DEF OpLock, Pcs, UsePcs
  <2>6. ASSUME NEW k \in Keys, OpSet(t, k) PROVE RefCountExact'
    BY <2>6, <1>d DEF OpSet, Pcs, UsePcs
  <2>7. ASSUME NEW k \in Keys, OpRemove(t, k) PROVE RefCountExact'
    BY <2>7, <1>d DEF OpRemove, Pcs, UsePcs
  <2>8. CASE OpRead(t)
    BY <2>8, <1>d DEF OpRead, Pcs, UsePcs
  <2>9. CASE Close(t)
    <3>1. db[t] \in Names /\ scope[t] \in Scopes
      BY <2>9 DEF Close, TypeOK, ArgumentsOK, UsePcs
    <3> QED
      BY <2>9, <3>1, <1>a, <1>b, OneHolderLess DEF Close, Return
  <2> QED
    BY <1>4, <2>1, <2>2, <2>2a, <2>3, <2>4, <2>5, <2>6, <2>7, <2>8, <2>9 DEF Use
<1>5. ASSUME NEW t \in Threads, Delete(t) PROVE RefCountExact'
  <2>1. ASSUME NEW d \in Names, DeleteExists(t, d) PROVE RefCountExact'
    BY <2>1, <1>a, <1>b, SameHolders DEF DeleteExists
  <2>2. CASE DelNames(t)
    BY <2>2, <1>d DEF DelNames, Pcs, DeletePcs
  <2>3. CASE DelRefs(t)
    BY <2>3, <1>c, <1>d DEF DelRefs, Pcs, DeletePcs
  <2>4. CASE DelFind(t)
    BY <2>4, <1>c, <1>d DEF DelFind, Pcs, DeletePcs
  <2>5. CASE DelDrop(t)
    BY <2>5, <1>c, <1>d DEF DelDrop, Pcs, DeletePcs
  <2>6. CASE DelErase(t)
    BY <2>6, <1>c DEF DelErase
  <2> QED
    BY <1>5, <2>1, <2>2, <2>3, <2>4, <2>5, <2>6 DEF Delete
<1>6. ASSUME NEW t \in Threads, Create(t) PROVE RefCountExact'
  <2>1. ASSUME NEW d \in Names, NEW withFile \in BOOLEAN, NEW keys \in SUBSET Keys,
               PostExists(t, d, withFile, keys)
        PROVE  RefCountExact'
    BY <2>1, <1>a, <1>b, SameHolders DEF PostExists
  <2>2. CASE CreateExists(t)
    BY <2>2, <1>c, <1>d DEF CreateExists, Created, Pcs, CreatePcs
  <2>3. CASE CreateCF(t)
    BY <2>3, <1>c, <1>d DEF CreateCF, Pcs, CreatePcs
  <2>4. CASE Emplace(t)
    BY <2>4, <1>c, <1>d DEF Emplace, Created, Pcs, CreatePcs
  <2>5. CASE LoadLookup(t)
    BY <2>5, <1>d DEF LoadLookup, RollBack, Pcs, CreatePcs, DeletePcs
  <2>5a. CASE LoadCopy(t)
    BY <2>5a, <1>d DEF LoadCopy, Subscript, RollBack, Pcs, CreatePcs, DeletePcs
  <2>6. CASE LoadPut(t)
    <3>1. CASE UNCHANGED <<pc, db, scope>>
      BY <2>6, <3>1, SameHolders DEF LoadPut
    <3>2. CASE Return(t) \/ RollBack(t)
      BY <2>6, <3>2, <1>c, <1>d DEF LoadPut, RollBack, Pcs, DeletePcs
    <3> QED
      BY <2>6, <3>1, <3>2 DEF LoadPut
  <2> QED
    BY <1>6, <2>1, <2>2, <2>3, <2>4, <2>5, <2>5a, <2>6 DEF Create
<1>7. CASE UNCHANGED vars
  BY <1>7, SameHolders DEF vars
<1> QED
  BY <1>1, <1>2, <1>3, <1>4, <1>5, <1>6, <1>7 DEF Next

(* The counters are exact in every behaviour, for any number of threads:   *)
(* two-phase registration loses no handler and counts none twice.          *)
THEOREM CountersExact == Spec => []RefCountExact
<1>1. Init => TypeOK /\ RefCountExact
  BY TypeInit, RefCountInit
<1>2. TypeOK /\ RefCountExact /\ [Next]_vars => (TypeOK /\ RefCountExact)'
  BY TypeStep, RefCountStep
<1> QED
  BY <1>1, <1>2, PTL DEF Spec

-----------------------------------------------------------------------------
(* A handler that deleteDB could have counted keeps it from dropping. *)

(* blockers holds handlers of the same database, and only during deleteDB. *)
BlockersOK ==
  /\ \A t \in Threads, u \in Threads :
       u \in blockers[t] => /\ Registered(u) /\ db[u] = db[t]
                           /\ pc[t] = "delRefs"
  /\ HandlerBlocksDelete

(* A handler that was open when a delete began to count is still counted   *)
(* when the counts are read.                                               *)
LEMMA BlockersStep ==
  TypeOK /\ RefCountExact /\ BlockersOK /\ [Next]_vars => BlockersOK'
<1> SUFFICES ASSUME TypeOK, RefCountExact, BlockersOK, [Next]_vars PROVE BlockersOK'
  OBVIOUS
<1> USE DEF BlockersOK, HandlerBlocksDelete, Registered, Goto, SetCF
<1>a. /\ pc \in [Threads -> Pcs] /\ db \in [Threads -> Names \union {NoName}]
      /\ blockers \in [Threads -> SUBSET Threads]
  BY DEF TypeOK, RequestTypeOK
<1>c. ASSUME NEW t \in Threads, Return(t) PROVE BlockersOK'
  BY <1>a, <1>c DEF Return
<1>d. ASSUME NEW t \in Threads, NEW label \in Pcs, Goto(t, label),
             pc[t] # "delRefs", label \notin {"delFind", "delDrop", "delErase"},
             Registered(t) => label \in {"open", "op", "close"},
             UNCHANGED <<db, blockers>>
      PROVE  BlockersOK'
  BY <1>a, <1>d
<1>1. CASE Initialize
  BY <1>1 DEF Initialize
<1>2. CASE Finalize
  BY <1>2 DEF Finalize
<1>3. CASE Crash
  BY <1>3 DEF Crash
<1>4. ASSUME NEW t \in Threads, Use(t) PROVE BlockersOK'
  <2>1. ASSUME NEW d \in Names, NEW s \in Scopes, UseExists(t, d, s) PROVE BlockersOK'
    BY <2>1, <1>a DEF UseExists
  <2>2. CASE GetLookup(t)
    BY <2>2, <1>c, <1>d DEF GetLookup, Pcs, UsePcs
  <2>2a. CASE GetCopy(t)
    BY <2>2a, <1>d DEF GetCopy, Subscript, Pcs, UsePcs
  <2>3. CASE AddShared(t)
    BY <2>3, <1>d DEF AddShared, Pcs, UsePcs
  <2>4. CASE AddUnique(t)
    BY <2>4, <1>d DEF AddUnique, Pcs, UsePcs
  <2>5. CASE OpLock(t)
    BY <2>5, <1>d DEF OpLock, Pcs, UsePcs
  <2>6. ASSUME NEW k \in Keys, OpSet(t, k) PROVE BlockersOK'
    BY <2>6, <1>d DEF OpSet, Pcs, UsePcs
  <2>7. ASSUME NEW k \in Keys, OpRemove(t, k) PROVE BlockersOK'
    BY <2>7, <1>d DEF OpRemove, Pcs, UsePcs
  <2>8. CASE OpRead(t)
    BY <2>8, <1>d DEF OpRead, Pcs, UsePcs
  <2>9. CASE Close(t)
    BY <2>9, <1>c DEF Close
  <2> QED
    BY <1>4, <2>1, <2>2, <2>2a, <2>3, <2>4, <2>5, <2>6, <2>7, <2>8, <2>9 DEF Use
<1>5. ASSUME NEW t \in Threads, Delete(t) PROVE BlockersOK'
  (* Whoever is registered on d is counted, because the counters are exact. *)
  <2>a. ASSUME NEW u \in Threads, Registered(u)
        PROVE  db[u] \in instances /\ InUse(db[u])
    <3>1. db[u] \in Names /\ scope[u] \in Scopes
      BY <2>a DEF TypeOK, ArgumentsOK, UsePcs
    <3>2. u \in Holders(db[u], scope[u])
      BY <2>a DEF Holders
    <3>3. cnt[db[u]][scope[u]] # 0 /\ cnt[db[u]][scope[u]] \in Nat
      BY <3>1, <3>2, HoldersCounted DEF TypeOK, ManagerTypeOK
    <3> QED
      BY <3>1, <3>3 DEF InUse, RefCountExact
  <2>1. ASSUME NEW d \in Names, DeleteExists(t, d) PROVE BlockersOK'
    BY <2>1, <1>a DEF DeleteExists
  <2>2. CASE DelNames(t)
    BY <2>2, <2>a, <1>a DEF DelNames
  <2>3. CASE DelRefs(t)
    <3>1. CASE InUse(db[t])
      BY <2>3, <3>1, <1>c DEF DelRefs
    <3>2. CASE ~InUse(db[t])
      <4>1. blockers[t] = {}
        BY <3>2, <2>a, <1>a
      <4> QED
        BY <2>3, <3>2, <4>1, <1>a DEF DelRefs
    <3> QED
      BY <3>1, <3>2
  <2>4. CASE DelFind(t)
    BY <2>4, <1>c, <1>a DEF DelFind
  <2>5. CASE DelDrop(t)
    BY <2>5, <1>c, <1>a DEF DelDrop
  <2>6. CASE DelErase(t)
    BY <2>6, <1>c DEF DelErase
  <2> QED
    BY <1>5, <2>1, <2>2, <2>3, <2>4, <2>5, <2>6 DEF Delete
<1>6. ASSUME NEW t \in Threads, Create(t) PROVE BlockersOK'
  <2>1. ASSUME NEW d \in Names, NEW withFile \in BOOLEAN, NEW keys \in SUBSET Keys,
               PostExists(t, d, withFile, keys)
        PROVE  BlockersOK'
    BY <2>1, <1>a DEF PostExists
  <2>2. CASE CreateExists(t)
    BY <2>2, <1>c, <1>d DEF CreateExists, Created, Pcs, CreatePcs
  <2>3. CASE CreateCF(t)
    BY <2>3, <1>c, <1>d DEF CreateCF, Pcs, CreatePcs
  <2>4. CASE Emplace(t)
    BY <2>4, <1>c, <1>d DEF Emplace, Created, Pcs, CreatePcs
  <2>5. CASE LoadLookup(t)
    BY <2>5, <1>d DEF LoadLookup, RollBack, Pcs, CreatePcs, DeletePcs
  <2>5a. CASE LoadCopy(t)
    BY <2>5a, <1>d DEF LoadCopy, Subscript, RollBack, Pcs, CreatePcs, DeletePcs
  <2>6. CASE LoadPut(t)
    <3>1. CASE UNCHANGED <<pc, db, blockers>>
      BY <2>6, <3>1 DEF LoadPut
    <3>2. CASE Return(t) \/ RollBack(t)
      BY <2>6, <3>2, <1>c, <1>d DEF LoadPut, RollBack, Pcs, DeletePcs
    <3> QED
      BY <2>6, <3>1, <3>2 DEF LoadPut
  <2> QED
    BY <1>6, <2>1, <2>2, <2>3, <2>4, <2>5, <2>5a, <2>6 DEF Create
<1>7. CASE UNCHANGED vars
  BY <1>7 DEF vars
<1> QED
  BY <1>1, <1>2, <1>3, <1>4, <1>5, <1>6, <1>7 DEF Next

(* deleteDB never drops a database under a handler that was open when it   *)
(* began to count, although names and counts are read under two separate   *)
(* locks and nothing is locked when the column family is dropped.          *)
THEOREM OpenHandlersBlockDelete == Spec => []HandlerBlocksDelete
<1> DEFINE IInv == TypeOK /\ RefCountExact /\ BlockersOK
<1>1. Init => IInv
  BY TypeInit, RefCountInit DEF Init, BlockersOK, HandlerBlocksDelete
<1>2. IInv /\ [Next]_vars => IInv'
  BY TypeStep, RefCountStep, BlockersStep
<1>3. IInv => HandlerBlocksDelete
  BY DEF BlockersOK
<1> QED
  BY <1>1, <1>2, <1>3, PTL DEF Spec

-----------------------------------------------------------------------------
(* The map and RocksDB. *)

(* Column family numbers in use are old ones. *)
NumbersOK ==
  /\ \A n \in Names : mapCF[n] < nextCF /\ rocks[n] < nextCF
  /\ \A t \in Threads : cf[t] < nextCF

(* What a thread between two steps on the map still knows. *)
DownOK ==
  ~up => /\ \A t \in Threads : pc[t] \in {"idle", "open", "close"}
         /\ \A n \in Names : mapCF[n] = None

ErasesDropped == \A t \in Threads : pc[t] = "delErase" => rocks[db[t]] # cf[t]

DropsMapped ==
  \A t \in Threads :
    pc[t] = "delDrop" /\ rocks[db[t]] = cf[t] => mapCF[db[t]] = cf[t]

EmplacesNew ==
  \A t \in Threads :
    pc[t] = "emplace" => rocks[db[t]] = cf[t] /\ mapCF[db[t]] # cf[t]

AloneOnName ==
  \A t \in Threads, u \in Threads :
    pc[t] = pc[u] /\ pc[t] \in {"emplace", "delErase"} /\ db[t] = db[u] => t = u

StepsOK == DownOK /\ ErasesDropped /\ DropsMapped /\ EmplacesNew /\ AloneOnName

MapInv == NumbersOK /\ StepsOK /\ DroppedOnlyMidDelete

(* A new column family has a number that nothing has referred to yet, and  *)
(* no step makes anything refer to a later one.                            *)
LEMMA NumbersStep == TypeOK /\ NumbersOK /\ [Next]_vars => NumbersOK'
<1> SUFFICES ASSUME TypeOK, NumbersOK, [Next]_vars PROVE NumbersOK'
  OBVIOUS
<1>0. /\ MaybeCF \subseteq Int /\ Handle \subseteq Int /\ None = 0 /\ Null = -1
  BY MaxCFAssumption DEF Handle, MaybeCF, CF, None, Null, MaxCFAssumption
<1>1. /\ nextCF \in Nat /\ 0 < nextCF /\ None = 0 /\ Null = -1
      /\ mapCF \in [Names -> Int] /\ rocks \in [Names -> Int]
      /\ cf \in [Threads -> Int]
  <2>1. nextCF \in Nat /\ 0 < nextCF
    BY MaxCFAssumption DEF TypeOK, RocksTypeOK, MaxCFAssumption
  <2>2. mapCF \in [Names -> Int] /\ rocks \in [Names -> Int]
    BY <1>0 DEF TypeOK, ManagerTypeOK, RocksTypeOK
  <2>3. cf \in [Threads -> Int]
    BY <1>0 DEF TypeOK, RequestTypeOK
  <2> QED
    BY <1>0, <2>1, <2>2, <2>3
<1>2. \A t \in Threads : pc[t] # "idle" => db[t] \in Names
  BY DEF TypeOK, ArgumentsOK
<1>3. /\ nextCF' \in Nat /\ nextCF <= nextCF'
      /\ \A n \in Names : rocks'[n] \in {rocks[n], None, nextCF}
      /\ \A n \in Names : rocks'[n] = nextCF => (rocks[n] = nextCF \/ nextCF < nextCF')
  BY <1>1, <1>2 DEF Next, vars, Initialize, Finalize, Crash, Use, Delete, Create,
       UseExists, GetLookup, GetCopy, Subscript, AddShared, AddUnique, OpLock, OpSet, OpRemove, OpRead,
       Close, DeleteExists, DelNames, DelRefs, DelFind, DelDrop, DelErase,
       PostExists, CreateExists, CreateCF, Emplace, LoadLookup, LoadCopy, LoadPut
<1>4. \A n \in Names :
        mapCF'[n] \in {mapCF[n], None, Null, rocks[n]} \union {cf[t] : t \in Threads}
  BY <1>1, <1>2 DEF Next, vars, Initialize, Finalize, Crash, Use, Delete, Create,
       UseExists, GetLookup, GetCopy, Subscript, AddShared, AddUnique, OpLock, OpSet, OpRemove, OpRead,
       Close, DeleteExists, DelNames, DelRefs, DelFind, DelDrop, DelErase,
       PostExists, CreateExists, CreateCF, Emplace, LoadLookup, LoadCopy, LoadPut, Indexed
<1>5. \A u \in Threads :
        \/ cf'[u] \in {cf[u], None, Null} \union {mapCF[n] : n \in Names}
        \/ cf'[u] = nextCF /\ nextCF < nextCF'
  <2> USE <1>1, <1>2 DEF Return, SetCF
  <2> TAKE u \in Threads
  <2>1. CASE Initialize \/ Finalize \/ Crash \/ UNCHANGED vars
    BY <2>1 DEF Initialize, Finalize, Crash, vars
  <2>2. ASSUME NEW t \in Threads, Use(t)
        PROVE  cf'[u] \in {cf[u], None, Null} \union {mapCF[n] : n \in Names}
    BY <2>2 DEF Use, UseExists, GetLookup, GetCopy, Subscript, Indexed, AddShared, AddUnique, OpLock, OpSet,
                OpRemove, OpRead, Close
  <2>3. ASSUME NEW t \in Threads, Delete(t)
        PROVE  cf'[u] \in {cf[u], None, Null} \union {mapCF[n] : n \in Names}
    BY <2>3 DEF Delete, DeleteExists, DelNames, DelRefs, DelFind, DelDrop, DelErase
  <2>4. ASSUME NEW t \in Threads, Create(t)
        PROVE  \/ cf'[u] \in {cf[u], None, Null} \union {mapCF[n] : n \in Names}
               \/ cf'[u] = nextCF /\ nextCF < nextCF'
    <3>1. CASE CreateCF(t)
      BY <3>1 DEF CreateCF
    <3>2. CASE ~CreateCF(t)
      BY <2>4, <3>2 DEF Create, PostExists, CreateExists, Emplace, LoadLookup, LoadCopy,
                        LoadPut, Subscript, Indexed,
                        Created, RollBack
    <3> QED
      BY <3>1, <3>2
  <2> QED
    BY <2>1, <2>2, <2>3, <2>4 DEF Next
<1>6. \A n \in Names : mapCF'[n] < nextCF' /\ rocks'[n] < nextCF'
  BY <1>1, <1>3, <1>4 DEF NumbersOK
<1>7. \A t \in Threads : cf'[t] < nextCF'
  BY <1>1, <1>3, <1>5 DEF NumbersOK
<1> QED
  BY <1>6, <1>7 DEF NumbersOK

(* Creations and deletions of the same names, step by step: none of them   *)
(* leaves the map with a dropped column family that no delete will erase.  *)
LEMMA MapStep == TypeOK /\ MapInv /\ [Next]_vars => StepsOK' /\ DroppedOnlyMidDelete'
<1> SUFFICES ASSUME TypeOK, MapInv, [Next]_vars
             PROVE  StepsOK' /\ DroppedOnlyMidDelete'
  OBVIOUS
<1> USE DEF MapInv, StepsOK, DownOK, ErasesDropped, DropsMapped, EmplacesNew, AloneOnName,
            DroppedOnlyMidDelete, Goto, SetCF
<1>a. /\ pc \in [Threads -> Pcs] /\ db \in [Threads -> Names \union {NoName}]
      /\ cf \in [Threads -> Handle] /\ up \in BOOLEAN
      /\ mapCF \in [Names -> Handle] /\ rocks \in [Names -> MaybeCF]
  BY DEF TypeOK, ManagerTypeOK, RocksTypeOK, RequestTypeOK
<1>b. /\ \A t \in Threads : pc[t] # "idle" => db[t] \in Names
      /\ \A t \in Threads : pc[t] \in StrongPcs \union {"emplace"} => cf[t] # None
  BY CFFacts DEF TypeOK, ArgumentsOK, RocksPcs
<1>g. /\ \A t \in Threads : pc[t] \in RocksPcs => cf[t] \in CF
      /\ None \notin CF /\ Null \notin CF /\ Null # None /\ Null \notin MaybeCF
      /\ \A c \in MaybeCF : c # None => c \in CF
  BY CFFacts DEF TypeOK, ArgumentsOK
<1> DEFINE Critical == {"emplace", "delDrop", "delErase"}
(* Steps that leave the map and RocksDB alone, of threads that know nothing. *)
<1>c. ASSUME NEW t \in Threads, NEW label \in Pcs, Goto(t, label),
             label \notin Critical, pc[t] # "delErase",
             label \in {"idle", "open", "close"} \/ up,
             \A u \in Threads \ {t} : db'[u] = db[u] /\ cf'[u] = cf[u],
             UNCHANGED <<up, mapCF, rocks>>
      PROVE  StepsOK' /\ DroppedOnlyMidDelete'
  <2>1. \A u \in Threads \ {t} : pc'[u] = pc[u]
    BY <1>a, <1>c
  <2>2. pc'[t] = label
    BY <1>a, <1>c
  <2>3. StepsOK'
    BY <1>a, <1>c, <2>1, <2>2
  <2>4. DroppedOnlyMidDelete'
    BY <1>a, <1>c, <2>1, <2>2
  <2> QED
    BY <2>3, <2>4
<1>d. ASSUME NEW t \in Threads, pc[t] # "delErase", Return(t), UNCHANGED <<up, mapCF, rocks>>
      PROVE  StepsOK' /\ DroppedOnlyMidDelete'
  BY <1>c, <1>d, <1>a DEF Return, Pcs
<1>e. ASSUME NEW t \in Threads, NEW label \in Pcs, Goto(t, label),
             label \notin Critical \union {"idle"},
             pc[t] # "delErase", pc[t] \in {"idle", "open", "close"} => up \/ label = "close",
             \A u \in Threads \ {t} : db'[u] = db[u] /\ cf'[u] = cf[u],
             UNCHANGED <<up, mapCF, rocks>>
      PROVE  StepsOK' /\ DroppedOnlyMidDelete'
  BY <1>c, <1>e, <1>a
(* operator[] of a thread that knows nothing either. *)
<1>f. ASSUME NEW t \in Threads, NEW label \in Pcs, Goto(t, label),
             pc[t] \in {"getCopy", "loadCopy"}, label \notin Critical \union {"idle"},
             \A u \in Threads \ {t} : db'[u] = db[u] /\ cf'[u] = cf[u],
             mapCF' = [mapCF EXCEPT ![db[t]] = Indexed(db[t])],
             UNCHANGED <<up, rocks>>
      PROVE  StepsOK' /\ DroppedOnlyMidDelete'
  <2>1. /\ \A u \in Threads \ {t} : pc'[u] = pc[u]
        /\ pc'[t] = label /\ up
    BY <1>a, <1>f
  <2>2. /\ \A n \in Names : \/ mapCF'[n] = mapCF[n]
                            \/ mapCF[n] = None /\ mapCF'[n] = Null
        /\ mapCF' \in [Names -> Handle]
    <3>1. db[t] \in Names
      BY <1>b, <1>f
    <3>2. Indexed(db[t]) \in Handle
      BY <3>1, <1>a, IndexedFacts
    <3>3. mapCF' \in [Names -> Handle]
      BY <1>a, <1>f, <3>1, <3>2
    <3>4. \A n \in Names : n # db[t] => mapCF'[n] = mapCF[n]
      BY <1>a, <1>f
    <3>5. mapCF'[db[t]] = Indexed(db[t])
      BY <1>a, <1>f, <3>1
    <3> QED
      BY <3>3, <3>4, <3>5 DEF Indexed
  <2>3. StepsOK'
    <3>1. \A u \in Threads : pc'[u] \in Critical =>
            /\ pc[u] = pc'[u] /\ db'[u] = db[u] /\ cf'[u] = cf[u]
            /\ db[u] \in Names /\ cf[u] # None
      BY <1>b, <1>f, <2>1 DEF StrongPcs
    <3>2. \A u \in Threads : pc'[u] = "emplace" => cf[u] # Null
      BY <1>g, <3>1 DEF RocksPcs
    <3> QED
      BY <1>f, <2>1, <2>2, <3>1, <3>2
  <2>4. DroppedOnlyMidDelete'
    <3>1. \A u \in Threads : pc[u] = "delErase" =>
            /\ pc'[u] = pc[u] /\ db'[u] = db[u] /\ cf'[u] = cf[u]
            /\ db[u] \in Names /\ cf[u] # None
      BY <1>b, <1>f, <2>1 DEF StrongPcs
    <3>2. \A u \in Threads : pc'[u] = "delErase" => pc[u] = "delErase"
      BY <1>f, <2>1
    <3> QED
      BY <1>f, <1>g, <2>1, <2>2, <3>1, <3>2
  <2> QED
    BY <2>3, <2>4
<1>1. CASE Initialize
  BY <1>1, <1>a, <1>b, <1>g DEF Initialize
<1>2. CASE Finalize
  BY <1>2, <1>a, <1>b, <1>g DEF Finalize
<1>3. CASE Crash
  BY <1>3, <1>a, <1>b, <1>g DEF Crash
<1>4. ASSUME NEW t \in Threads, Use(t) PROVE StepsOK' /\ DroppedOnlyMidDelete'
  <2>1. ASSUME NEW d \in Names, NEW s \in Scopes, UseExists(t, d, s)
        PROVE  StepsOK' /\ DroppedOnlyMidDelete'
    BY <2>1, <1>e, <1>a DEF UseExists, Pcs, UsePcs
  <2>2. CASE GetLookup(t)
    BY <2>2, <1>d, <1>e, <1>a DEF GetLookup, Pcs, UsePcs
  <2>2a. CASE GetCopy(t)
    BY <2>2a, <1>f, <1>a DEF GetCopy, Subscript, Pcs, UsePcs
  <2>3. CASE AddShared(t)
    BY <2>3, <1>e, <1>a DEF AddShared, Pcs, UsePcs
  <2>4. CASE AddUnique(t)
    BY <2>4, <1>e, <1>a DEF AddUnique, Pcs, UsePcs
  <2>5. CASE OpLock(t)
    <3>1. CASE Alive(cf[t])
      <4>1. up
        BY <3>1, <1>g DEF Alive, StrongPcs
      <4> QED
        BY <2>5, <3>1, <4>1, <1>e, <1>a DEF OpLock, Pcs, UsePcs
    <3>2. CASE ~Alive(cf[t])
      BY <2>5, <3>2, <1>e, <1>a DEF OpLock, Pcs, UsePcs
    <3> QED
      BY <3>1, <3>2
  <2>6. ASSUME NEW k \in Keys, OpSet(t, k) PROVE StepsOK' /\ DroppedOnlyMidDelete'
    BY <2>6, <1>e, <1>a DEF OpSet, Pcs, UsePcs
  <2>7. ASSUME NEW k \in Keys, OpRemove(t, k) PROVE StepsOK' /\ DroppedOnlyMidDelete'
    BY <2>7, <1>e, <1>a DEF OpRemove, Pcs, UsePcs
  <2>8. CASE OpRead(t)
    BY <2>8, <1>e, <1>a DEF OpRead, Pcs, UsePcs
  <2>9. CASE Close(t)
    BY <2>9, <1>d DEF Close
  <2> QED
    BY <1>4, <2>1, <2>2, <2>2a, <2>3, <2>4, <2>5, <2>6, <2>7, <2>8, <2>9 DEF Use
<1>5. ASSUME NEW t \in Threads, Delete(t) PROVE StepsOK' /\ DroppedOnlyMidDelete'
  <2>1. ASSUME NEW d \in Names, DeleteExists(t, d) PROVE StepsOK' /\ DroppedOnlyMidDelete'
    BY <2>1, <1>e, <1>a DEF DeleteExists, Pcs, DeletePcs
  <2>2. CASE DelNames(t)
    BY <2>2, <1>e, <1>a DEF DelNames, Pcs, DeletePcs
  <2>3. CASE DelRefs(t)
    BY <2>3, <1>d, <1>e, <1>a DEF DelRefs, Pcs, DeletePcs
  <2>4. CASE DelFind(t)
    <3>1. CASE mapCF[db[t]] = None
      BY <2>4, <3>1, <1>d DEF DelFind
    <3>2. CASE mapCF[db[t]] # None
      BY <2>4, <3>2, <1>a, <1>b DEF DelFind
    <3> QED
      BY <3>1, <3>2
  <2>5. CASE DelDrop(t)
    <3>1. CASE Return(t) /\ UNCHANGED rocks
      BY <2>5, <3>1, <1>d DEF DelDrop
    <3>2. CASE /\ rocks[db[t]] = cf[t] /\ rocks' = [rocks EXCEPT ![db[t]] = None]
               /\ Goto(t, "delErase") /\ UNCHANGED locals
      <4>1. /\ pc[t] = "delDrop" /\ db[t] \in Names /\ cf[t] # None
            /\ mapCF[db[t]] = cf[t] /\ UNCHANGED <<up, mapCF>>
        BY <2>5, <3>2, <1>b DEF DelDrop, StrongPcs, RocksPcs
      <4>2. \A u \in Threads : pc[u] = "delErase" => db[u] # db[t]
        BY <3>2, <4>1
      <4>3. StepsOK'
        BY <3>2, <4>1, <4>2, <1>a, <1>b DEF StrongPcs, RocksPcs
      <4>4. DroppedOnlyMidDelete'
        BY <3>2, <4>1, <1>a
      <4> QED
        BY <4>3, <4>4
    <3> QED
      BY <2>5, <3>1, <3>2 DEF DelDrop
  <2>6. CASE DelErase(t)
    <3>1. /\ pc[t] = "delErase" /\ db[t] \in Names /\ UNCHANGED <<up, rocks>>
          /\ mapCF' = [mapCF EXCEPT ![db[t]] = None] /\ Return(t)
      BY <2>6, <1>b DEF DelErase
    <3>2. \A u \in Threads \ {t} : pc'[u] = pc[u] /\ db'[u] = db[u] /\ cf'[u] = cf[u]
      BY <3>1 DEF Return
    <3>3. pc'[t] = "idle"
      BY <3>1, <1>a DEF Return
    <3>4. StepsOK'
      <4>1. DownOK' /\ ErasesDropped' /\ AloneOnName'
        BY <3>1, <3>2, <3>3, <1>a, <1>b
      <4>2. DropsMapped'
        BY <3>1, <3>2, <3>3, <1>a, <1>b
      <4>3. EmplacesNew'
        BY <3>1, <3>2, <3>3, <1>a, <1>b
      <4> QED
        BY <4>1, <4>2, <4>3
    <3>5. DroppedOnlyMidDelete'
      BY <3>1, <3>2, <3>3, <1>a, <1>b, <1>g
    <3> QED
      BY <3>4, <3>5
  <2> QED
    BY <1>5, <2>1, <2>2, <2>3, <2>4, <2>5, <2>6 DEF Delete
<1>6. ASSUME NEW t \in Threads, Create(t) PROVE StepsOK' /\ DroppedOnlyMidDelete'
  <2>1. ASSUME NEW d \in Names, NEW withFile \in BOOLEAN, NEW keys \in SUBSET Keys,
               PostExists(t, d, withFile, keys)
        PROVE  StepsOK' /\ DroppedOnlyMidDelete'
    BY <2>1, <1>e, <1>a DEF PostExists, Pcs, CreatePcs
  <2>2. CASE CreateExists(t)
    BY <2>2, <1>d, <1>e, <1>a DEF CreateExists, Created, Pcs, CreatePcs
  <2>3. CASE CreateCF(t)
    <3>1. CASE Return(t) /\ UNCHANGED <<rocks, nextCF>>
      BY <2>3, <3>1, <1>d DEF CreateCF
    <3>2. CASE /\ rocks[db[t]] = None /\ rocks' = [rocks EXCEPT ![db[t]] = nextCF]
               /\ cf' = [cf EXCEPT ![t] = nextCF] /\ Goto(t, "emplace") /\ UNCHANGED db
      <4>1. /\ pc[t] = "createCF" /\ db[t] \in Names /\ up
            /\ UNCHANGED <<up, mapCF>>
        BY <2>3, <3>2, <1>b DEF CreateCF
      <4>0. nextCF # None
        BY <2>3, <3>2, MaxCFAssumption DEF TypeOK, RocksTypeOK, None, MaxCFAssumption
      <4>2. /\ \A n \in Names : mapCF[n] # nextCF
            /\ \A u \in Threads : cf[u] # nextCF
        <5>1. Handle \subseteq Int /\ nextCF \in Int
          BY MaxCFAssumption DEF TypeOK, RocksTypeOK, Handle, MaybeCF, CF, None, Null,
                                 MaxCFAssumption
        <5> QED
          BY <1>a, <5>1 DEF NumbersOK
      <4>3. \A u \in Threads : pc[u] = "emplace" => db[u] # db[t]
        BY <3>2, <1>b
      <4>4. StepsOK'
        <5>1. /\ \A u \in Threads \ {t} : pc'[u] = pc[u] /\ db'[u] = db[u] /\ cf'[u] = cf[u]
              /\ pc'[t] = "emplace" /\ db'[t] = db[t] /\ cf'[t] = nextCF
              /\ rocks'[db[t]] = nextCF
              /\ \A n \in Names : n # db[t] => rocks'[n] = rocks[n]
          BY <3>2, <4>1, <1>a
        <5>2. DownOK' /\ AloneOnName'
          BY <4>1, <4>3, <5>1
        <5>3. ErasesDropped' /\ DropsMapped'
          BY <4>1, <4>2, <5>1, <1>b
        <5>4. EmplacesNew'
          BY <4>1, <4>2, <4>3, <5>1, <1>b
        <5> QED
          BY <5>2, <5>3, <5>4
      <4>5. DroppedOnlyMidDelete'
        BY <3>2, <4>1, <1>a, <1>g
      <4> QED
        BY <4>4, <4>5
    <3> QED
      BY <2>3, <3>1, <3>2 DEF CreateCF
  <2>4. CASE Emplace(t)
    <3>1. /\ pc[t] = "emplace" /\ db[t] \in Names /\ cf[t] # None /\ up
          /\ rocks[db[t]] = cf[t] /\ UNCHANGED <<up, rocks>>
      BY <2>4, <1>b DEF Emplace
    <3>2. /\ \A u \in Threads \ {t} : pc'[u] = pc[u] /\ db'[u] = db[u] /\ cf'[u] = cf[u]
          /\ pc'[t] \in {"load", "idle"}
      BY <2>4, <1>a DEF Emplace, Created, Return
    <3>3. CASE mapCF[db[t]] # None
      BY <2>4, <3>3, <1>d, <1>e, <1>a DEF Emplace, Created, Pcs, CreatePcs
    <3>4. CASE mapCF[db[t]] = None
      <4>1. mapCF' = [mapCF EXCEPT ![db[t]] = cf[t]]
        BY <2>4, <3>4 DEF Emplace
      <4>2. StepsOK'
        BY <3>1, <3>2, <3>4, <4>1, <1>a, <1>b DEF StrongPcs, RocksPcs
      <4>3. DroppedOnlyMidDelete'
        BY <3>1, <3>2, <3>4, <4>1, <1>a, <1>b DEF StrongPcs, RocksPcs
      <4> QED
        BY <4>2, <4>3
    <3> QED
      BY <3>3, <3>4
  <2>5. CASE LoadLookup(t)
    BY <2>5, <1>e, <1>a DEF LoadLookup, RollBack, Pcs, CreatePcs, DeletePcs
  <2>5a. CASE LoadCopy(t)
    <3>1. CASE Indexed(db[t]) = Null
      BY <2>5a, <3>1, <1>f, <1>a DEF LoadCopy, RollBack, Pcs, DeletePcs
    <3>2. CASE Indexed(db[t]) # Null
      BY <2>5a, <3>2, <1>f, <1>a DEF LoadCopy, Subscript, Pcs, CreatePcs
    <3> QED
      BY <3>1, <3>2
  <2>6. CASE LoadPut(t)
    <3>1. CASE UNCHANGED <<pc, db, cf>>
      BY <2>6, <3>1 DEF LoadPut
    <3>2. CASE Return(t) \/ RollBack(t)
      BY <2>6, <3>2, <1>d, <1>e, <1>a DEF LoadPut, RollBack, Pcs, DeletePcs
    <3> QED
      BY <2>6, <3>1, <3>2 DEF LoadPut
  <2> QED
    BY <1>6, <2>1, <2>2, <2>3, <2>4, <2>5, <2>5a, <2>6 DEF Create
<1>7. CASE UNCHANGED vars
  BY <1>7 DEF vars
<1> QED
  BY <1>1, <1>2, <1>3, <1>4, <1>5, <1>6, <1>7 DEF Next

(* Whatever the interleaving of create and delete requests, the map names  *)
(* a dropped column family only while its deleteDB is about to erase the   *)
(* entry, and the iterator it erases is the entry it found.                *)
THEOREM MapNamesDroppedOnlyMidDelete == Spec => []DroppedOnlyMidDelete
<1>1. Init => TypeOK /\ MapInv
  BY TypeInit DEF Init, MapInv, NumbersOK, StepsOK, DownOK, ErasesDropped, DropsMapped,
                  EmplacesNew, AloneOnName, DroppedOnlyMidDelete, None
<1>2. TypeOK /\ MapInv /\ [Next]_vars => (TypeOK /\ MapInv)'
  BY TypeStep, NumbersStep, MapStep DEF MapInv
<1>3. MapInv => DroppedOnlyMidDelete
  BY DEF MapInv
<1> QED
  BY <1>1, <1>2, <1>3, PTL DEF Spec

-----------------------------------------------------------------------------
(* What holds when one administrator at a time creates and deletes.        *)

OneAtATime == \A t, u \in Admins : t = u

ManagePcs == CreatePcs \union DeletePcs

ServedByAdmins ==
  \A t \in Threads : /\ pc[t] \in ManagePcs => t \in Admins
                     /\ file[t] \/ made[t] # None => pc[t] \in ManagePcs

(* NoOrphan, and the one that is about to emplace knows the name; what     *)
(* deleteDB has dropped stays without a column family until it erases.     *)
Reachable ==
  /\ up => \A n \in Names :
       rocks[n] # None /\ mapCF[n] \notin {rocks[n], Null} =>
         \E t \in Threads : pc[t] = "emplace" /\ db[t] = n /\ cf[t] = rocks[n]
  /\ \A t \in Threads : pc[t] = "delErase" => rocks[db[t]] = None

(* While a file is loaded, the map has under its name nothing but what the *)
(* request itself made.                                                    *)
OwnEntry ==
  \A t \in Threads : file[t] =>
    /\ mapCF[db[t]] \in {None, Null, made[t]}
    /\ pc[t] \in {"createExists", "createCF"} => made[t] = None
    /\ pc[t] = "emplace" => cf[t] = made[t]
    /\ pc[t] = "delDrop" => cf[t] \in {made[t], Null}

AloneInv == ServedByAdmins /\ Reachable /\ OwnEntry

(* The request of one thread leaves the locals of all others alone.        *)
LEMMA OthersKept ==
  ASSUME TypeOK, NEW t \in Threads, Use(t) \/ Delete(t) \/ Create(t),
         NEW u \in Threads, u # t
  PROVE  /\ pc'[u] = pc[u] /\ db'[u] = db[u] /\ cf'[u] = cf[u]
         /\ file'[u] = file[u] /\ todo'[u] = todo[u] /\ made'[u] = made[u]
<1> USE DEF Return, SetCF, Goto, TypeOK, RequestTypeOK
<1>1. CASE Use(t)
  BY <1>1 DEF Use, UseExists, GetLookup, GetCopy, Subscript, AddShared, AddUnique, OpLock,
              OpSet, OpRemove, OpRead, Close
<1>2. CASE Delete(t)
  BY <1>2 DEF Delete, DeleteExists, DelNames, DelRefs, DelFind, DelDrop, DelErase
<1>3. CASE Create(t)
  BY <1>3 DEF Create, PostExists, CreateExists, CreateCF, Emplace, LoadLookup, LoadCopy,
              LoadPut, Created, RollBack, Subscript
<1> QED
  BY <1>1, <1>2, <1>3

(* operator[] puts an empty handle where there was none, and no other.     *)
LEMMA SubscriptMap ==
  ASSUME TypeOK, NEW d \in Names, mapCF' = [mapCF EXCEPT ![d] = Indexed(d)]
  PROVE  \A n \in Names : mapCF'[n] = mapCF[n] \/ (mapCF[n] = None /\ mapCF'[n] = Null)
<1>1. mapCF \in [Names -> Handle]
  BY DEF TypeOK, ManagerTypeOK
<1>2. \A n \in Names : mapCF'[n] = IF n = d THEN Indexed(d) ELSE mapCF[n]
  BY <1>1
<1> QED
  BY <1>2 DEF Indexed

(* A request that uses a database can only do that to the map.             *)
LEMMA UseKeeps ==
  ASSUME TypeOK, NEW t \in Threads, Use(t)
  PROVE  /\ UNCHANGED <<up, rocks>>
         /\ \A n \in Names : mapCF'[n] = mapCF[n] \/ (mapCF[n] = None /\ mapCF'[n] = Null)
         /\ pc[t] \in {"idle"} \union UsePcs /\ pc'[t] \in {"idle"} \union UsePcs
         /\ file'[t] \in {file[t], FALSE} /\ made'[t] \in {made[t], None}
<1>0. /\ pc \in [Threads -> Pcs] /\ file \in [Threads -> BOOLEAN]
      /\ made \in [Threads -> MaybeCF]
      /\ pc[t] # "idle" => db[t] \in Names
  BY DEF TypeOK, RequestTypeOK, ArgumentsOK
<1>1. CASE GetCopy(t)
  <2>1. db[t] \in Names /\ mapCF' = [mapCF EXCEPT ![db[t]] = Indexed(db[t])]
    BY <1>0, <1>1 DEF GetCopy, Subscript
  <2> QED
    BY <1>0, <1>1, <2>1, SubscriptMap DEF GetCopy, Subscript, SetCF, Goto, UsePcs
<1>2. CASE ~GetCopy(t)
  BY <1>0, <1>2 DEF Use, UseExists, GetLookup, AddShared, AddUnique, OpLock, OpSet, OpRemove,
                    OpRead, Close, Return, Goto, UsePcs
<1> QED
  BY <1>1, <1>2

(* An administrator stays among the places of create and delete requests   *)
(* until it returns, and returns without a file and without a handle.      *)
LEMMA ManagePlaces ==
  ASSUME TypeOK, ServedByAdmins, NEW t \in Threads, Delete(t) \/ Create(t)
  PROVE  /\ t \in Admins
         /\ pc'[t] \in {"idle"} \union ManagePcs
         /\ file'[t] \/ made'[t] # None => pc'[t] \in ManagePcs
<1> USE DEF ManagePcs, CreatePcs, DeletePcs, Return, SetCF, Goto
<1>0. /\ pc \in [Threads -> Pcs] /\ file \in [Threads -> BOOLEAN]
      /\ pc[t] \in CreatePcs \union DeletePcs => t \in Admins
      /\ made \in [Threads -> MaybeCF]
      /\ file[t] \/ made[t] # None => pc[t] \in CreatePcs \union DeletePcs
  BY DEF TypeOK, RequestTypeOK, ServedByAdmins
<1>1. CASE Delete(t)
  <2>1. t \in Admins
    BY <1>0, <1>1 DEF Delete, DeleteExists, DelNames, DelRefs, DelFind, DelDrop, DelErase
  <2>2. \/ pc'[t] = "idle" /\ ~file'[t] /\ made'[t] = None
        \/ pc'[t] \in DeletePcs
    BY <1>0, <1>1 DEF Delete, DeleteExists, DelNames, DelRefs, DelFind, DelDrop, DelErase
  <2> QED
    BY <2>1, <2>2
<1>2. CASE Create(t)
  <2>1. t \in Admins
    BY <1>0, <1>2 DEF Create, PostExists, CreateExists, CreateCF, Emplace, LoadLookup,
                      LoadCopy, LoadPut
  <2>2. \/ pc'[t] = "idle" /\ ~file'[t] /\ made'[t] = None
        \/ pc'[t] \in CreatePcs \union DeletePcs
    BY <1>0, <1>2 DEF Create, PostExists, CreateExists, CreateCF, Emplace, LoadLookup,
                      LoadCopy, LoadPut, Created, RollBack, Subscript
  <2> QED
    BY <2>1, <2>2
<1> QED
  BY <1>1, <1>2

(* Nobody else is in such a request meanwhile. *)
LEMMA Bystanders ==
  ASSUME OneAtATime, TypeOK, ServedByAdmins, NEW t \in Threads, Delete(t) \/ Create(t),
         NEW u \in Threads, u # t
  PROVE  /\ pc[u] \notin ManagePcs /\ pc'[u] = pc[u]
         /\ ~file[u] /\ ~file'[u] /\ db'[u] = db[u] /\ cf'[u] = cf[u]
<1>1. t \in Admins
  BY ManagePlaces
<1>2. u \notin Admins
  BY <1>1 DEF OneAtATime
<1>3. pc[u] \notin ManagePcs /\ ~file[u]
  BY <1>2 DEF ServedByAdmins
<1> QED
  BY <1>3, OthersKept

(* While an administrator deletes, it alone can be about to emplace, and   *)
(* it is not: every column family is in the map.                           *)
LEMMA ReachedBut ==
  ASSUME OneAtATime, TypeOK, ServedByAdmins, Reachable, up,
         NEW t \in Threads, t \in Admins, NEW n \in Names,
         pc[t] # "emplace" \/ db[t] # n
  PROVE  rocks[n] = None \/ mapCF[n] \in {rocks[n], Null}
<1>1. \A u \in Threads : pc[u] = "emplace" /\ db[u] = n => FALSE
  BY DEF ServedByAdmins, ManagePcs, CreatePcs, OneAtATime
<1> QED
  BY <1>1 DEF Reachable

(* What the one request that may change it leaves of the map and RocksDB.  *)
LEMMA DeleteReachable ==
  ASSUME OneAtATime, TypeOK, MapInv, ServedByAdmins, Reachable, NEW t \in Threads, Delete(t)
  PROVE  Reachable'
<1>0. /\ pc \in [Threads -> Pcs] /\ mapCF \in [Names -> Handle] /\ rocks \in [Names -> MaybeCF]
      /\ pc[t] # "idle" => db[t] \in Names
      /\ t \in Admins
  BY ManagePlaces DEF TypeOK, RequestTypeOK, ArgumentsOK, ManagerTypeOK, RocksTypeOK
<1>1. \A u \in Threads : u # t => /\ pc[u] \notin ManagePcs /\ pc'[u] = pc[u] /\ db'[u] = db[u]
  BY Bystanders
<1>2. \A u \in Threads : u # t => pc'[u] \notin {"emplace", "delErase"}
  BY <1>1 DEF ManagePcs, CreatePcs, DeletePcs
<1>3. up' = up
  BY DEF Delete, DeleteExists, DelNames, DelRefs, DelFind, DelDrop, DelErase
<1>4. pc[t] # "emplace"
  BY DEF Delete, DeleteExists, DelNames, DelRefs, DelFind, DelDrop, DelErase
<1>5. up => \A n \in Names : rocks[n] = None \/ mapCF[n] \in {rocks[n], Null}
  BY <1>0, <1>4, ReachedBut
<1>6. CASE DelErase(t)
  <2>1. /\ rocks[db[t]] = None /\ db[t] \in Names
        /\ mapCF' = [mapCF EXCEPT ![db[t]] = None] /\ UNCHANGED rocks /\ pc'[t] = "idle"
    BY <1>0, <1>6 DEF DelErase, Reachable, Return, Goto
  <2> QED
    BY <1>0, <1>2, <1>3, <1>5, <2>1 DEF Reachable
<1>7. CASE DelDrop(t)
  <2>1. CASE Return(t) /\ UNCHANGED rocks
    BY <1>0, <1>2, <1>3, <1>5, <1>7, <2>1 DEF DelDrop, Reachable, Return, Goto
  <2>2. CASE rocks' = [rocks EXCEPT ![db[t]] = None] /\ UNCHANGED db
    <3>1. UNCHANGED mapCF /\ db[t] \in Names
      BY <1>0, <1>7 DEF DelDrop
    <3> QED
      BY <1>0, <1>2, <1>3, <1>5, <2>2, <3>1 DEF Reachable
  <2> QED
    BY <1>7, <2>1, <2>2 DEF DelDrop
<1>8. CASE ~DelErase(t) /\ ~DelDrop(t)
  <2>1. UNCHANGED <<mapCF, rocks>>
    BY <1>8 DEF Delete, DeleteExists, DelNames, DelRefs, DelFind, Return, SetCF
  <2>2. pc'[t] # "delErase"
    BY <1>0, <1>8 DEF Delete, DeleteExists, DelNames, DelRefs, DelFind, Return, SetCF, Goto
  <2> QED
    BY <1>0, <1>2, <1>3, <1>5, <2>1, <2>2 DEF Reachable
<1> QED
  BY <1>6, <1>7, <1>8

LEMMA CreateReachable ==
  ASSUME OneAtATime, TypeOK, MapInv, ServedByAdmins, Reachable, NEW t \in Threads, Create(t)
  PROVE  Reachable'
<1>0. /\ pc \in [Threads -> Pcs] /\ mapCF \in [Names -> Handle] /\ rocks \in [Names -> MaybeCF]
      /\ cf \in [Threads -> Handle]
      /\ pc[t] # "idle" => db[t] \in Names
      /\ t \in Admins
  BY ManagePlaces DEF TypeOK, RequestTypeOK, ArgumentsOK, ManagerTypeOK, RocksTypeOK
<1>1. \A u \in Threads : u # t => pc[u] \notin ManagePcs /\ pc'[u] = pc[u]
  BY Bystanders
<1>2. \A u \in Threads : u # t => /\ pc[u] \notin {"emplace", "delErase"}
                                  /\ pc'[u] \notin {"emplace", "delErase"}
  BY <1>1 DEF ManagePcs, CreatePcs, DeletePcs
<1>3. up' = up /\ (pc[t] = "emplace" => up)
  BY DEF Create, PostExists, CreateExists, CreateCF, Emplace, LoadLookup, LoadCopy, LoadPut,
         MapInv, StepsOK, DownOK
<1>4. pc'[t] # "delErase"
  BY <1>0 DEF Create, PostExists, CreateExists, CreateCF, Emplace, LoadLookup, LoadCopy, LoadPut,
         Created, RollBack, Return, Goto
<1>5. up => \A n \in Names : (pc[t] = "emplace" /\ db[t] = n)
                             \/ rocks[n] = None \/ mapCF[n] \in {rocks[n], Null}
  BY <1>0, ReachedBut
<1>6. CASE CreateCF(t)
  <2>1. pc[t] = "createCF" /\ db[t] \in Names /\ UNCHANGED mapCF
    BY <1>0, <1>6 DEF CreateCF
  <2>2. CASE Return(t) /\ UNCHANGED rocks
    BY <1>2, <1>3, <1>4, <1>5, <2>1, <2>2 DEF Reachable
  <2>3. CASE /\ rocks' = [rocks EXCEPT ![db[t]] = nextCF]
             /\ cf' = [cf EXCEPT ![t] = nextCF]
             /\ Goto(t, "emplace") /\ UNCHANGED db
    <3>1. pc'[t] = "emplace" /\ db'[t] = db[t] /\ cf'[t] = rocks'[db[t]]
      BY <1>0, <2>1, <2>3 DEF Goto
    <3>2. \A n \in Names : n # db[t] => rocks'[n] = rocks[n] /\ mapCF'[n] = mapCF[n]
      BY <1>0, <2>1, <2>3
    <3>3. \A n \in Names : up' /\ rocks'[n] # None /\ mapCF'[n] \notin {rocks'[n], Null} =>
             pc'[t] = "emplace" /\ db'[t] = n /\ cf'[t] = rocks'[n]
      BY <1>3, <1>5, <2>1, <3>1, <3>2
    <3> QED
      BY <1>2, <1>4, <3>3 DEF Reachable
  <2> QED
    BY <1>6, <2>2, <2>3 DEF CreateCF
<1>7. CASE Emplace(t)
  <2>1. /\ pc[t] = "emplace" /\ db[t] \in Names /\ UNCHANGED rocks /\ up
        /\ rocks[db[t]] = cf[t]
        /\ mapCF' = IF mapCF[db[t]] = None
                    THEN [mapCF EXCEPT ![db[t]] = cf[t]] ELSE mapCF
    BY <1>0, <1>3, <1>7 DEF Emplace, MapInv, StepsOK, EmplacesNew
  <2>2. mapCF[db[t]] \in CF => mapCF[db[t]] = rocks[db[t]]
    BY <1>2, <2>1 DEF MapInv, DroppedOnlyMidDelete
  <2>3. mapCF[db[t]] = None \/ mapCF[db[t]] \in {rocks[db[t]], Null}
    BY <1>0, <2>1, <2>2, CFFacts
  <2>4. \A n \in Names : rocks'[n] = None \/ mapCF'[n] \in {rocks'[n], Null}
    BY <1>0, <1>5, <2>1, <2>3
  <2> QED
    BY <1>2, <1>4, <2>4 DEF Reachable
<1>8. CASE ~CreateCF(t) /\ ~Emplace(t)
  <2>1. UNCHANGED rocks /\ pc[t] # "emplace"
    BY <1>8 DEF Create, PostExists, CreateExists, LoadLookup, LoadCopy, LoadPut
  <2>2. \A n \in Names : mapCF'[n] = mapCF[n] \/ (mapCF[n] = None /\ mapCF'[n] = Null)
    <3>1. CASE LoadCopy(t)
      <4>1. db[t] \in Names /\ mapCF' = [mapCF EXCEPT ![db[t]] = Indexed(db[t])]
        BY <1>0, <3>1 DEF LoadCopy, Subscript
      <4> QED
        BY <4>1, SubscriptMap
    <3>2. CASE ~LoadCopy(t)
      BY <1>8, <3>2 DEF Create, PostExists, CreateExists, LoadLookup, LoadPut
    <3> QED
      BY <3>1, <3>2
  <2>3. up => \A n \in Names : rocks'[n] = None \/ mapCF'[n] \in {rocks'[n], Null}
    BY <1>5, <2>1, <2>2
  <2> QED
    BY <1>2, <1>3, <1>4, <2>3 DEF Reachable
<1> QED
  BY <1>6, <1>7, <1>8

(* The place of t and the one entry that matters to it.                    *)
LEMMA OwnFromOne ==
  ASSUME OneAtATime, TypeOK, ServedByAdmins, NEW t \in Threads, Delete(t) \/ Create(t),
         file'[t] =>
           /\ mapCF'[db'[t]] \in {None, Null, made'[t]}
           /\ pc'[t] \in {"createExists", "createCF"} => made'[t] = None
           /\ pc'[t] = "emplace" => cf'[t] = made'[t]
           /\ pc'[t] = "delDrop" => cf'[t] \in {made'[t], Null}
  PROVE  OwnEntry'
<1>1. \A u \in Threads : u # t => ~file'[u]
  BY Bystanders
<1> QED
  BY <1>1 DEF OwnEntry

(* A rollback finds in the map what the request made, or nothing to drop.  *)
LEMMA DeleteOwn ==
  ASSUME OneAtATime, TypeOK, ServedByAdmins, OwnEntry, NEW t \in Threads, Delete(t)
  PROVE  OwnEntry'
<1> USE DEF Return, SetCF, Goto
<1>0. /\ pc \in [Threads -> Pcs] /\ db \in [Threads -> Names \union {NoName}]
      /\ cf \in [Threads -> Handle] /\ file \in [Threads -> BOOLEAN]
      /\ mapCF \in [Names -> Handle]
      /\ pc[t] # "idle" => db[t] \in Names
      /\ file[t] => /\ pc[t] # "idle"
                    /\ mapCF[db[t]] \in {None, Null, made[t]}
  BY DEF TypeOK, RequestTypeOK, ArgumentsOK, ManagerTypeOK, OwnEntry, ServedByAdmins,
         ManagePcs, CreatePcs, DeletePcs
<1>1. SUFFICES ASSUME file'[t]
               PROVE  /\ mapCF'[db'[t]] \in {None, Null, made'[t]}
                      /\ pc'[t] \in {"createExists", "createCF"} => made'[t] = None
                      /\ pc'[t] = "emplace" => cf'[t] = made'[t]
                      /\ pc'[t] = "delDrop" => cf'[t] \in {made'[t], Null}
  BY OwnFromOne
<1>2. ASSUME NEW d \in Names, DeleteExists(t, d) PROVE FALSE
  BY <1>0, <1>1, <1>2 DEF DeleteExists
<1>3. ~DelErase(t)
  BY <1>0, <1>1 DEF DelErase
<1>4. CASE DelNames(t)
  BY <1>0, <1>1, <1>4 DEF DelNames
<1>5. CASE DelRefs(t)
  BY <1>0, <1>1, <1>5 DEF DelRefs
<1>6. CASE DelFind(t)
  BY <1>0, <1>1, <1>6 DEF DelFind
<1>7. CASE DelDrop(t)
  BY <1>0, <1>1, <1>7 DEF DelDrop
<1> QED
  BY <1>2, <1>3, <1>4, <1>5, <1>6, <1>7 DEF Delete

LEMMA CreateOwn ==
  ASSUME OneAtATime, TypeOK, ServedByAdmins, OwnEntry, NEW t \in Threads, Create(t)
  PROVE  OwnEntry'
<1> USE DEF Return, SetCF, Goto
<1>0. /\ pc \in [Threads -> Pcs] /\ db \in [Threads -> Names \union {NoName}]
      /\ cf \in [Threads -> Handle] /\ file \in [Threads -> BOOLEAN]
      /\ made \in [Threads -> MaybeCF]
      /\ mapCF \in [Names -> Handle]
      /\ pc[t] # "idle" => db[t] \in Names
      /\ file[t] => /\ pc[t] # "idle"
                    /\ mapCF[db[t]] \in {None, Null, made[t]}
                    /\ pc[t] \in {"createExists", "createCF"} => made[t] = None
                    /\ pc[t] = "emplace" => cf[t] = made[t]
  BY DEF TypeOK, RequestTypeOK, ArgumentsOK, ManagerTypeOK, OwnEntry, ServedByAdmins,
         ManagePcs, CreatePcs, DeletePcs
<1> DEFINE Goal == file'[t] =>
             /\ mapCF'[db'[t]] \in {None, Null, made'[t]}
             /\ pc'[t] \in {"createExists", "createCF"} => made'[t] = None
             /\ pc'[t] = "emplace" => cf'[t] = made'[t]
             /\ pc'[t] = "delDrop" => cf'[t] \in {made'[t], Null}
<1>1. SUFFICES Goal
  BY OwnFromOne
<1>2. ASSUME NEW d \in Names, NEW withFile \in BOOLEAN, NEW keys \in SUBSET Keys,
             PostExists(t, d, withFile, keys)
      PROVE  Goal
  <2>1. mapCF'[db'[t]] = None /\ pc'[t] = "createExists" /\ made' = made
    BY <1>0, <1>2 DEF PostExists
  <2>2. made[t] = None
    BY <1>2 DEF PostExists, ServedByAdmins, ManagePcs, CreatePcs, DeletePcs
  <2> QED
    BY <2>1, <2>2
<1>3. CASE CreateExists(t)
  BY <1>0, <1>3 DEF CreateExists, Created
<1>4. CASE CreateCF(t)
  BY <1>0, <1>4 DEF CreateCF
<1>5. CASE Emplace(t)
  BY <1>0, <1>5 DEF Emplace, Created
<1>6. CASE LoadLookup(t)
  BY <1>0, <1>6 DEF LoadLookup, RollBack
<1>7. CASE LoadCopy(t)
  <2>1. db[t] \in Names /\ mapCF' = [mapCF EXCEPT ![db[t]] = Indexed(db[t])]
    BY <1>0, <1>7 DEF LoadCopy, Subscript
  <2>2. mapCF'[db[t]] = mapCF[db[t]] \/ mapCF'[db[t]] = Null
    BY <2>1, SubscriptMap
  <2>3. UNCHANGED <<db, file, made>> /\ pc'[t] \in {"delNames", "loadPut"}
    BY <1>0, <1>7 DEF LoadCopy, Subscript, RollBack
  <2> QED
    BY <1>0, <1>7, <2>2, <2>3 DEF LoadCopy
<1>8. CASE LoadPut(t)
  BY <1>0, <1>8 DEF LoadPut, RollBack
<1> QED
  BY <1>2, <1>3, <1>4, <1>5, <1>6, <1>7, <1>8 DEF Create

-----------------------------------------------------------------------------
(* A request that uses a database, a start, a stop and a crash. *)

LEMMA UseAlone ==
  ASSUME TypeOK, AloneInv, NEW t \in Threads, Use(t)
  PROVE  AloneInv'
<1> USE DEF AloneInv
<1>0. /\ pc[t] \notin ManagePcs /\ pc'[t] \notin ManagePcs /\ "idle" \notin ManagePcs
      /\ ~file[t] /\ ~file'[t] /\ made'[t] = None
  BY UseKeeps DEF ManagePcs, CreatePcs, DeletePcs, UsePcs, ServedByAdmins
<1>1. \A u \in Threads : u # t =>
         /\ pc'[u] = pc[u] /\ db'[u] = db[u] /\ cf'[u] = cf[u]
         /\ file'[u] = file[u] /\ made'[u] = made[u]
  BY OthersKept
<1>2. /\ UNCHANGED <<up, rocks>>
      /\ \A n \in Names : mapCF'[n] = mapCF[n] \/ (mapCF[n] = None /\ mapCF'[n] = Null)
  BY UseKeeps
<1>3. pc[t] \notin {"emplace", "delErase"} /\ pc'[t] \notin {"emplace", "delErase"}
  BY <1>0 DEF ManagePcs, CreatePcs, DeletePcs
<1>4. ServedByAdmins'
  BY <1>0, <1>1 DEF ServedByAdmins
<1>5. Reachable'
  <2>1. ASSUME up', NEW n \in Names, rocks'[n] # None, mapCF'[n] \notin {rocks'[n], Null}
        PROVE  \E u \in Threads : pc'[u] = "emplace" /\ db'[u] = n /\ cf'[u] = rocks'[n]
    <3>1. \E u \in Threads : pc[u] = "emplace" /\ db[u] = n /\ cf[u] = rocks[n]
      BY <1>2, <2>1 DEF Reachable
    <3> QED
      BY <1>1, <1>2, <1>3, <3>1
  <2>2. \A u \in Threads : pc'[u] = "delErase" => rocks'[db'[u]] = None
    BY <1>1, <1>2, <1>3 DEF Reachable
  <2> QED
    BY <2>1, <2>2 DEF Reachable
<1>6. OwnEntry'
  <2> SUFFICES ASSUME NEW u \in Threads, file'[u]
               PROVE  /\ mapCF'[db'[u]] \in {None, Null, made'[u]}
                      /\ pc'[u] \in {"createExists", "createCF"} => made'[u] = None
                      /\ pc'[u] = "emplace" => cf'[u] = made'[u]
                      /\ pc'[u] = "delDrop" => cf'[u] \in {made'[u], Null}
    BY DEF OwnEntry
  <2>1. u # t /\ file[u]
    BY <1>0, <1>1
  <2>2. db[u] \in Names
    BY <1>0, <2>1 DEF ServedByAdmins, TypeOK, ArgumentsOK
  <2> QED
    BY <1>1, <1>2, <2>1, <2>2 DEF OwnEntry
<1> QED
  BY <1>4, <1>5, <1>6

LEMMA ManagerAlone ==
  ASSUME TypeOK, MapInv, AloneInv, Initialize \/ Finalize \/ Crash
  PROVE  AloneInv'
<1> USE DEF AloneInv
<1>0. "idle" \notin ManagePcs /\ {"open", "close"} \intersect ManagePcs = {}
  BY DEF ManagePcs, CreatePcs, DeletePcs
<1>1. CASE Initialize
  <2>1. /\ UNCHANGED <<pc, db, cf, file, made, rocks>> /\ mapCF' = rocks
        /\ \A t \in Threads : pc[t] \in {"idle", "open", "close"}
    BY <1>1 DEF Initialize, MapInv, StepsOK, DownOK
  <2>2. \A t \in Threads : pc[t] \notin ManagePcs
    BY <1>0, <2>1
  <2>3. \A t \in Threads : ~file[t] /\ pc[t] # "delErase"
    BY <2>1, <2>2 DEF ServedByAdmins
  <2> QED
    BY <2>1, <2>2, <2>3 DEF ServedByAdmins, Reachable, OwnEntry
<1>2. CASE Finalize
  <2>1. /\ UNCHANGED <<pc, db, file, made, rocks>> /\ up' = FALSE
        /\ \A t \in Threads : pc[t] \in {"idle", "open", "close"}
    BY <1>2 DEF Finalize
  <2>2. \A t \in Threads : pc[t] \notin ManagePcs
    BY <1>0, <2>1
  <2>3. \A t \in Threads : ~file[t] /\ pc[t] # "delErase"
    BY <2>1, <2>2 DEF ServedByAdmins
  <2> QED
    BY <2>1, <2>2, <2>3 DEF ServedByAdmins, Reachable, OwnEntry
<1>3. CASE Crash
  BY <1>0, <1>3 DEF Crash, ServedByAdmins, Reachable, OwnEntry
<1> QED
  BY <1>1, <1>2, <1>3

LEMMA AloneStep ==
  ASSUME OneAtATime, TypeOK, MapInv, AloneInv, [Next]_vars
  PROVE  AloneInv'
<1> USE DEF AloneInv
<1>1. ASSUME NEW t \in Threads, Delete(t) \/ Create(t) PROVE AloneInv'
  <2>1. ServedByAdmins'
    <3>1. \A u \in Threads : u # t =>
             pc'[u] = pc[u] /\ file'[u] = file[u] /\ made'[u] = made[u]
      BY <1>1, OthersKept
    <3>2. /\ t \in Admins
          /\ file'[t] \/ made'[t] # None => pc'[t] \in ManagePcs
      BY <1>1, ManagePlaces
    <3> QED
      BY <3>1, <3>2 DEF ServedByAdmins
  <2>2. Reachable'
    BY <1>1, DeleteReachable, CreateReachable
  <2>3. OwnEntry'
    BY <1>1, DeleteOwn, CreateOwn
  <2> QED
    BY <2>1, <2>2, <2>3
<1>2. CASE UNCHANGED vars
  BY <1>2 DEF vars, ServedByAdmins, Reachable, OwnEntry
<1> QED
  BY <1>1, <1>2, UseAlone, ManagerAlone DEF Next

LEMMA AloneInvariant ==
  ASSUME OneAtATime
  PROVE  Spec => [](TypeOK /\ MapInv /\ AloneInv)
<1>1. Init => TypeOK /\ MapInv /\ AloneInv
  <2>1. Init => TypeOK /\ MapInv
    BY TypeInit DEF Init, MapInv, NumbersOK, StepsOK, DownOK, ErasesDropped, DropsMapped,
                    EmplacesNew, AloneOnName, DroppedOnlyMidDelete, None
  <2>2. Init => AloneInv
    BY DEF Init, AloneInv, ServedByAdmins, Reachable, OwnEntry, ManagePcs, CreatePcs, DeletePcs
  <2> QED
    BY <2>1, <2>2
<1>2. TypeOK /\ MapInv /\ AloneInv /\ [Next]_vars => (TypeOK /\ MapInv /\ AloneInv)'
  BY TypeStep, NumbersStep, MapStep, AloneStep DEF MapInv
<1> QED
  BY <1>1, <1>2, PTL DEF Spec

(* With create and delete requests served one at a time, every column      *)
(* family of RocksDB can be reached through the map, whatever the requests *)
(* that use databases do meanwhile, and after every restart; only the one  *)
(* that is about to be emplaced, or whose name operator[] has put an empty *)
(* handle under, cannot.                                                   *)
THEOREM NoColumnFamilyLost ==
  ASSUME OneAtATime
  PROVE  Spec => []NoOrphan
<1>1. Spec => [](TypeOK /\ MapInv /\ AloneInv)
  BY AloneInvariant
<1>2. AloneInv => NoOrphan
  BY DEF AloneInv, Reachable, NoOrphan
<1> QED
  BY <1>1, <1>2, PTL

(* The rollback of a create request, one at a time, drops nothing that the *)
(* request did not create.                                                 *)
THEOREM RollbackIsOwn ==
  ASSUME OneAtATime
  PROVE  Spec => []RollbackDropsOwn
<1>1. Spec => [](TypeOK /\ MapInv /\ AloneInv)
  BY AloneInvariant
<1>2. AloneInv => RollbackDropsOwn
  BY DEF AloneInv, OwnEntry, RollbackDropsOwn
<1> QED
  BY <1>1, <1>2, PTL

(* Where a create request with entries left to store can give up.          *)
GivesUpClean ==
  \A t \in Threads :
    /\ file[t] /\ todo[t] # {}
    /\ pc'[t] = "idle" /\ pc[t] # "delDrop" /\ up'
    => rocks'[db[t]] = None \/ InUse(db[t]) \/ mapCF[db[t]] = Null

LEMMA GiveUpStep ==
  ASSUME OneAtATime, TypeOK, MapInv, AloneInv, [Next]_vars
  PROVE  GivesUpClean
<1> SUFFICES ASSUME NEW t \in Threads, file[t], todo[t] # {},
                    pc'[t] = "idle", pc[t] # "delDrop", up'
             PROVE  rocks'[db[t]] = None \/ InUse(db[t]) \/ mapCF[db[t]] = Null
  BY DEF GivesUpClean
<1>0. /\ pc[t] \in ManagePcs /\ t \in Admins /\ pc[t] # "idle" /\ db[t] \in Names
      /\ pc[t] \notin {"idle"} \union UsePcs
      /\ pc \in [Threads -> Pcs]
  BY DEF AloneInv, ServedByAdmins, TypeOK, RequestTypeOK, ArgumentsOK, ManagePcs, CreatePcs,
         DeletePcs, UsePcs
<1>1. ~Initialize /\ ~Finalize /\ ~Crash /\ ~UNCHANGED vars
  BY <1>0 DEF Initialize, Finalize, Crash, vars
<1>2. PICK u \in Threads : Use(u) \/ Delete(u) \/ Create(u)
  BY <1>1 DEF Next
<1>3. u = t
  BY <1>0, <1>2, OthersKept
<1>4. ~Use(t)
  BY <1>0, UseKeeps
<1>5. up
  BY <1>0 DEF MapInv, StepsOK, DownOK, UsePcs
<1>6. pc[t] # "emplace" => rocks[db[t]] = None \/ mapCF[db[t]] \in {rocks[db[t]], Null}
  BY <1>0, <1>5, ReachedBut DEF AloneInv
<1>7. CASE Delete(t)
  <2>1. ASSUME NEW d \in Names, DeleteExists(t, d) PROVE FALSE
    BY <1>0, <2>1 DEF DeleteExists
  <2>2. CASE DelNames(t)
    BY <1>0, <2>2 DEF DelNames, Goto
  <2>3. CASE DelRefs(t)
    BY <1>0, <2>3 DEF DelRefs, Goto
  <2>4. CASE DelFind(t)
    <3>1. mapCF[db[t]] = None /\ rocks' = rocks
      BY <1>0, <2>4 DEF DelFind, Goto
    <3>2. pc[t] # "emplace" /\ None # Null
      BY <2>4, CFFacts DEF DelFind
    <3> QED
      BY <1>6, <3>1, <3>2
  <2>5. CASE DelErase(t)
    BY <2>5 DEF DelErase, AloneInv, Reachable
  <2> QED
    BY <1>7, <2>1, <2>2, <2>3, <2>4, <2>5 DEF Delete, DelDrop
<1>8. CASE Create(t)
  <2>1. ASSUME NEW d \in Names, NEW withFile \in BOOLEAN, NEW keys \in SUBSET Keys,
               PostExists(t, d, withFile, keys)
        PROVE  FALSE
    BY <1>0, <2>1 DEF PostExists
  <2>2. CASE CreateCF(t)
    <3>1. pc[t] = "createCF" /\ rocks' = rocks
      BY <1>0, <2>2 DEF CreateCF, Goto
    <3>2. mapCF[db[t]] \in {None, Null}
      BY <3>1 DEF AloneInv, OwnEntry
    <3> QED
      BY <1>6, <3>1, <3>2
  <2>3. CASE CreateExists(t) \/ Emplace(t) \/ LoadLookup(t) \/ LoadCopy(t)
    BY <1>0, <2>3 DEF CreateExists, Emplace, LoadLookup, LoadCopy, Created, RollBack, Goto
  <2>4. CASE LoadPut(t)
    BY <1>0, <2>4 DEF LoadPut, RollBack, Goto
  <2> QED
    BY <1>8, <2>1, <2>2, <2>3, <2>4 DEF Create
<1> QED
  BY <1>2, <1>3, <1>4, <1>7, <1>8

(* A create request, one at a time, that gives up on its file leaves no    *)
(* database of that name in RocksDB, unless a handler was opened on it, or *)
(* the map has an empty handle for it, or RocksDB refuses to drop it.      *)
THEOREM FailedPostIsUndone ==
  ASSUME OneAtATime
  PROVE  Spec => FailedPostLeavesNothing
<1>1. Spec => [](TypeOK /\ MapInv /\ AloneInv)
  BY AloneInvariant
<1>2. TypeOK /\ MapInv /\ AloneInv /\ [Next]_vars => [GivesUpClean]_vars
  BY GiveUpStep
<1>3. Spec => [][GivesUpClean]_vars
  BY <1>1, <1>2, PTL DEF Spec
<1> QED
  BY <1>3 DEF FailedPostLeavesNothing, GivesUpClean
=============================================================================
