---------------------------- MODULE StoreProofs -----------------------------
(***************************************************************************)
(* Proofs about Store, for any documents, namespaces and threads.          *)
(***************************************************************************)
EXTENDS Store, TLAPS

(* The parts of TypeOK that the proofs handle on their own. *)
FsType == fs \in [Namespaces -> [Names -> Files \union {Absent, Dir}]]

ArgsType ==
  /\ pc \in [Threads -> {"idle", "create", "upsert", "update", "delete", "deleteCol"}]
  /\ name \in [Threads -> Names \union {NoName}]
  /\ ns \in [Threads -> Namespaces \union {NoNS}]
  /\ doc \in [Threads -> Docs \union {NoDoc}]
  /\ \A t \in Threads :
       pc[t] # "idle" => /\ name[t] \in Names /\ ns[t] \in Namespaces
                         /\ pc[t] \in {"create", "upsert", "update"} => doc[t] \in Docs

CacheType == cache \in [Names -> Namespaces \union {NoNS}]

(* The type invariant, in those parts. *)
LEMMA TypeParts == TypeOK <=> FsType /\ CacheType /\ ArgsType /\ Tree
  BY DEF TypeOK, FsType, CacheType, ArgsType

(* What the proofs use of the contents of paths. *)
LEMMA PathFacts ==
  /\ Absent # Dir /\ ~IsFile(Absent) /\ ~IsFile(Dir)
  /\ IsFile(Empty) /\ IsFile(Torn) /\ \A d \in Docs : IsFile(d)
  /\ NoNS \notin Namespaces
  BY ValuesAssumption DEF ValuesAssumption, IsFile, Files

(* What the proofs use of parents. *)
LEMMA ParentFacts ==
  ASSUME NEW n \in Names
  PROVE  /\ Parents[n] \subseteq Names /\ n \notin Parents[n]
         /\ \A p \in Parents[n] : Parents[p] \subseteq Parents[n]
         /\ \A m : m \in Below(n) <=> m \in Names /\ n \in Parents[m]
  BY ParentsAssumption DEF ParentsAssumption, Below

-----------------------------------------------------------------------------
(* What the calls of the file system do to the tree and to the files in it. *)

(* SetPaths sets the paths it names. *)
LEMMA SetPathsEffect ==
  ASSUME FsType, NEW s \in Namespaces, NEW S \in SUBSET Names,
         NEW x \in Files \union {Absent, Dir}, SetPaths(s, S, x)
  PROVE  /\ FsType'
         /\ \A n \in S : fs'[s][n] = x
         /\ \A r \in Namespaces, n \in Names : r # s \/ n \notin S => fs'[r][n] = fs[r][n]
<1>1. fs' = [fs EXCEPT ![s] = [n \in Names |-> IF n \in S THEN x ELSE fs[s][n]]]
  BY DEF SetPaths
<1>2. [n \in Names |-> IF n \in S THEN x ELSE fs[s][n]] \in
        [Names -> Files \union {Absent, Dir}]
  BY DEF FsType
<1> QED
  BY <1>1, <1>2 DEF FsType

(* Writing a file changes its content. *)
LEMMA WriteEffect ==
  ASSUME FsType, Tree, NEW s \in Namespaces, NEW n \in Names, NEW x \in Files,
         IsFile(fs[s][n]), SetPaths(s, {n}, x)
  PROVE  /\ FsType' /\ Tree'
         /\ \A r \in Namespaces, m \in Names : IsFile(fs'[r][m]) <=> IsFile(fs[r][m])
<1>1. /\ FsType'
      /\ \A r \in Namespaces, m \in Names :
           fs'[r][m] = IF r = s /\ m \in {n} THEN x ELSE fs[r][m]
  <2>1. {n} \in SUBSET Names /\ x \in Files \union {Absent, Dir}
    OBVIOUS
  <2>2. /\ FsType'
        /\ \A m \in {n} : fs'[s][m] = x
        /\ \A r \in Namespaces, m \in Names :
             r # s \/ m \notin {n} => fs'[r][m] = fs[r][m]
    BY <2>1, SetPathsEffect
  <2> QED
    BY <2>2
<1>2. IsFile(x) /\ x # Absent /\ fs[s][n] # Absent /\ fs[s][n] # Dir
  BY PathFacts DEF IsFile
<1>3. Tree'
  <2> SUFFICES ASSUME NEW r \in Namespaces, NEW m \in Names, NEW p \in Parents[m],
                      fs'[r][m] # Absent
               PROVE  fs'[r][p] = Dir
    BY DEF Tree
  <2>1. p \in Names
    BY ParentFacts
  <2>2. fs[r][m] # Absent
    BY <1>1, <1>2
  <2>3. fs[r][p] = Dir
    BY <2>2 DEF Tree
  <2> QED
    BY <1>1, <1>2, <2>1, <2>3
<1> QED
  BY <1>1, <1>2, <1>3 DEF IsFile

(* Opening a new file makes its directories and the file, and no other. *)
LEMMA OpenNewEffect ==
  ASSUME FsType, Tree, NEW s \in Namespaces, NEW n \in Names, OpenNew(s, n)
  PROVE  /\ FsType' /\ Tree'
         /\ \A r \in Namespaces, m \in Names :
              IsFile(fs'[r][m]) <=> IsFile(fs[r][m]) \/ (r = s /\ m = n)
<1> DEFINE new == [m \in Names |-> IF m = n THEN Empty
                                   ELSE IF m \in Parents[n] THEN Dir ELSE fs[s][m]]
<1>1. fs' = [fs EXCEPT ![s] = new]
  BY DEF OpenNew
<1>2. new \in [Names -> Files \union {Absent, Dir}]
  BY DEF FsType, Files
<1>3. /\ \A r \in Namespaces : r # s => fs'[r] = fs[r]
      /\ \A m \in Names : fs'[s][m] = IF m = n THEN Empty
                                      ELSE IF m \in Parents[n] THEN Dir ELSE fs[s][m]
  BY <1>1 DEF FsType
<1>4. FsType'
  <2> HIDE DEF new
  <2> QED
    BY <1>1, <1>2 DEF FsType
<1>5. /\ fs[s][n] = Absent
      /\ \A p \in Parents[n] : fs[s][p] \in {Absent, Dir}
  BY DEF OpenNew, CanCreate
<1> HIDE DEF new
<1>6. Tree'
  <2> SUFFICES ASSUME NEW r \in Namespaces, NEW m \in Names, NEW p \in Parents[m],
                      fs'[r][m] # Absent
               PROVE  fs'[r][p] = Dir
    BY DEF Tree
  <2>1. p \in Names
    BY ParentFacts
  <2>2. CASE r # s
    BY <1>3, <2>2 DEF Tree
  <2>3. CASE r = s /\ m \in Parents[n] \union {n}
    <3>1. p \in Parents[n] /\ p # n
      BY <2>3, ParentFacts
    <3> QED
      BY <1>3, <2>1, <2>3, <3>1
  <2>4. CASE r = s /\ m \notin Parents[n] \union {n}
    <3>1. fs[s][m] # Absent
      BY <1>3, <2>4
    <3>2. fs[s][p] = Dir
      BY <2>4, <3>1 DEF Tree
    <3>3. p # n
      BY <1>5, <3>2, PathFacts
    <3> QED
      BY <1>3, <2>1, <2>4, <3>2, <3>3
  <2> QED
    BY <2>2, <2>3, <2>4
<1>7. \A r \in Namespaces, m \in Names :
        IsFile(fs'[r][m]) <=> IsFile(fs[r][m]) \/ (r = s /\ m = n)
  BY <1>3, <1>5, PathFacts
<1> QED
  BY <1>4, <1>6, <1>7

(* Directories that are made, and no file in them, change no file. *)
LEMMA MkdirEffect ==
  ASSUME FsType, Tree, NEW s \in Namespaces, NEW n \in Names, MkdirFails(s, n)
  PROVE  /\ FsType' /\ Tree'
         /\ \A r \in Namespaces, m \in Names : IsFile(fs'[r][m]) <=> IsFile(fs[r][m])
<1>1. PICK q \in Parents[n] \union {n} : SetPaths(s, Parents[q], Dir)
  BY DEF MkdirFails
<1>2. q \in Names /\ Parents[q] \subseteq Parents[n] /\ Parents[q] \in SUBSET Names
  BY ParentFacts
<1>3. /\ FsType'
      /\ \A r \in Namespaces, m \in Names :
           fs'[r][m] = IF r = s /\ m \in Parents[q] THEN Dir ELSE fs[r][m]
  <2>1. Dir \in Files \union {Absent, Dir}
    OBVIOUS
  <2>2. PICK S \in SUBSET Names : S = Parents[q]
    BY <1>2
  <2>3. SetPaths(s, S, Dir)
    BY <1>1, <2>2
  <2>4. /\ FsType'
        /\ \A m \in S : fs'[s][m] = Dir
        /\ \A r \in Namespaces, m \in Names : r # s \/ m \notin S => fs'[r][m] = fs[r][m]
    BY <2>1, <2>3, SetPathsEffect
  <2> QED
    BY <2>2, <2>4
<1>4. \A p \in Parents[q] : fs[s][p] \in {Absent, Dir}
  BY <1>2 DEF MkdirFails, CanCreate
<1>5. Tree'
  <2> SUFFICES ASSUME NEW r \in Namespaces, NEW m \in Names, NEW p \in Parents[m],
                      fs'[r][m] # Absent
               PROVE  fs'[r][p] = Dir
    BY DEF Tree
  <2>1. p \in Names
    BY ParentFacts
  <2>2. CASE r = s /\ m \in Parents[q]
    <3>1. p \in Parents[q]
      BY <1>2, <2>2, ParentFacts
    <3> QED
      BY <1>3, <2>1, <2>2, <3>1
  <2>3. CASE ~(r = s /\ m \in Parents[q])
    <3>1. fs[r][p] = Dir
      BY <1>3, <2>3 DEF Tree
    <3> QED
      BY <1>3, <2>1, <3>1
  <2> QED
    BY <2>2, <2>3
<1>6. \A r \in Namespaces, m \in Names : IsFile(fs'[r][m]) <=> IsFile(fs[r][m])
  BY <1>3, <1>4, PathFacts DEF IsFile
<1> QED
  BY <1>3, <1>5, <1>6

(* A path with nothing below it is removed. *)
LEMMA RemoveEffect ==
  ASSUME FsType, Tree, NEW s \in Namespaces, NEW n \in Names,
         \A m \in Below(n) : fs[s][m] = Absent, SetPaths(s, {n}, Absent)
  PROVE  /\ FsType' /\ Tree'
         /\ \A r \in Namespaces, m \in Names :
              /\ fs'[r][m] = IF r = s /\ m = n THEN Absent ELSE fs[r][m]
              /\ IsFile(fs'[r][m]) <=> IsFile(fs[r][m]) /\ ~(r = s /\ m = n)
<1>1. /\ FsType'
      /\ \A r \in Namespaces, m \in Names :
           fs'[r][m] = IF r = s /\ m \in {n} THEN Absent ELSE fs[r][m]
  <2>1. {n} \in SUBSET Names /\ Absent \in Files \union {Absent, Dir}
    OBVIOUS
  <2>2. /\ FsType'
        /\ \A m \in {n} : fs'[s][m] = Absent
        /\ \A r \in Namespaces, m \in Names :
             r # s \/ m \notin {n} => fs'[r][m] = fs[r][m]
    BY <2>1, SetPathsEffect
  <2> QED
    BY <2>2
<1>2. Tree'
  <2> SUFFICES ASSUME NEW r \in Namespaces, NEW m \in Names, NEW p \in Parents[m],
                      fs'[r][m] # Absent
               PROVE  fs'[r][p] = Dir
    BY DEF Tree
  <2>1. p \in Names /\ (p = n => m \in Below(n))
    BY ParentFacts
  <2>2. fs[r][m] # Absent /\ fs[r][p] = Dir
    BY <1>1 DEF Tree
  <2> QED
    BY <1>1, <2>1, <2>2
<1> QED
  BY <1>1, <1>2, PathFacts DEF IsFile

(* Of the parents of n, an empty one has only empty ones around what is    *)
(* left below it.                                                          *)
LEMMA EmptyParentsFacts ==
  ASSUME NEW s \in Namespaces, NEW n \in Names, NEW p \in EmptyParents(s, n)
  PROVE  /\ p \in Parents[n]
         /\ \A m \in Below(p) : fs[s][m] # Absent =>
              m \in EmptyParents(s, n) /\ Parents[p] \subseteq Parents[m]
<1>1. p \in Parents[n] /\ \A m \in Below(p) \ Parents[n] : fs[s][m] = Absent
  BY DEF EmptyParents
<1>2. ASSUME NEW m \in Below(p), fs[s][m] # Absent
      PROVE  m \in EmptyParents(s, n) /\ Parents[p] \subseteq Parents[m]
  <2>1. m \in Names /\ m \in Parents[n] /\ p \in Parents[m]
    BY <1>1, <1>2, ParentFacts DEF Below
  <2>2. Below(m) \subseteq Below(p)
    BY <2>1, ParentFacts DEF Below
  <2> QED
    BY <1>1, <2>1, <2>2, ParentFacts DEF EmptyParents
<1> QED
  BY <1>1, <1>2

(* Directories that are removed, or not, leave a tree; and when no parent  *)
(* is a file, the same files.                                              *)
LEMMA DirsEffect ==
  ASSUME FsType, Tree, NEW s \in Namespaces, NEW n \in Names,
         RemoveDirs(s, n) \/ RmdirFails(s, n)
  PROVE  /\ FsType' /\ Tree'
         /\ (\A p \in Parents[n] : ~IsFile(fs[s][p])) =>
              \A r \in Namespaces, m \in Names : IsFile(fs'[r][m]) <=> IsFile(fs[r][m])
<1> DEFINE E == EmptyParents(s, n)
<1>1. PICK S \in SUBSET E :
        /\ SetPaths(s, S, Absent)
        /\ S = E \/ \E q \in E : S = {p \in E : q \in Parents[p]}
  <2>1. CASE SetPaths(s, E, Absent)
    BY <2>1
  <2>2. CASE \E q \in E : SetPaths(s, {p \in E : q \in Parents[p]}, Absent)
    BY <2>2
  <2> QED
    BY <2>1, <2>2 DEF RemoveDirs, RmdirFails
<1>2. E \subseteq Parents[n] /\ S \in SUBSET Names
  BY <1>1, ParentFacts DEF EmptyParents
<1>3. /\ FsType'
      /\ \A r \in Namespaces, m \in Names :
           fs'[r][m] = IF r = s /\ m \in S THEN Absent ELSE fs[r][m]
  <2>1. Absent \in Files \union {Absent, Dir}
    OBVIOUS
  <2>2. /\ FsType'
        /\ \A m \in S : fs'[s][m] = Absent
        /\ \A r \in Namespaces, m \in Names :
             r # s \/ m \notin S => fs'[r][m] = fs[r][m]
    BY <1>1, <1>2, <2>1, SetPathsEffect
  <2> QED
    BY <2>2
<1>4. ASSUME NEW p \in S, NEW m \in Below(p), fs[s][m] # Absent PROVE m \in S
  <2>1. p \in E
    BY <1>1
  <2>2. m \in E /\ Parents[p] \subseteq Parents[m]
    BY <1>4, <2>1, EmptyParentsFacts
  <2> QED
    BY <1>1, <2>2
<1>5. Tree'
  <2> SUFFICES ASSUME NEW r \in Namespaces, NEW m \in Names, NEW p \in Parents[m],
                      fs'[r][m] # Absent
               PROVE  fs'[r][p] = Dir
    BY DEF Tree
  <2>1. p \in Names /\ m \in Below(p)
    BY ParentFacts
  <2>2. fs[r][m] # Absent /\ ~(r = s /\ m \in S)
    BY <1>3
  <2>3. fs[r][p] = Dir
    BY <2>2 DEF Tree
  <2>4. ~(r = s /\ p \in S)
    BY <1>4, <2>1, <2>2
  <2> QED
    BY <1>3, <2>1, <2>3, <2>4
<1>6. ASSUME \A p \in Parents[n] : ~IsFile(fs[s][p]),
             NEW r \in Namespaces, NEW m \in Names
      PROVE  IsFile(fs'[r][m]) <=> IsFile(fs[r][m])
  <2>1. r = s /\ m \in S => ~IsFile(fs[r][m])
    BY <1>1, <1>2, <1>6
  <2> QED
    BY <1>3, <2>1, PathFacts DEF IsFile
<1> QED
  BY <1>3, <1>5, <1>6

-----------------------------------------------------------------------------
(* Types, and what the lock gives a thread. *)

(* A thread under the exclusive lock is alone. *)
Alone ==
  \A t, u \in Threads : Exclusive(t) /\ u # t => ~Exclusive(u) /\ ~Shared(u)

(* A file that somebody is writing is there. *)
WritesOK ==
  \A t \in Threads :
    pc[t] \in {"create", "upsert", "update"} => IsFile(fs[ns[t]][name[t]])

LockInv == FsType /\ CacheType /\ ArgsType /\ Tree /\ Alone /\ WritesOK

(* Only t is in a call, while it holds the lock or when it takes it. *)
LEMMA OthersIdle ==
  ASSUME ArgsType, Alone, NEW t \in Threads, Exclusive(t) \/ LockExclusive(t),
         NEW u \in Threads \ {t}
  PROVE  pc[u] = "idle"
  BY DEF ArgsType, Alone, Exclusive, Shared, LockExclusive, LockShared

(* A call that begins has its arguments. *)
LEMMA BeginType ==
  ASSUME ArgsType, NEW t \in Threads, NEW n \in Names, NEW s \in Namespaces,
         NEW d \in Docs \union {NoDoc},
         NEW label \in {"create", "upsert", "update", "delete", "deleteCol"},
         label \in {"create", "upsert", "update"} => d \in Docs,
         Begin(t, label, n, s, d)
  PROVE  /\ ArgsType'
         /\ pc'[t] = label /\ name'[t] = n /\ ns'[t] = s
         /\ \A u \in Threads \ {t} :
              pc'[u] = pc[u] /\ name'[u] = name[u] /\ ns'[u] = ns[u]
<1>1. /\ pc'[t] = label /\ name'[t] = n /\ ns'[t] = s /\ doc'[t] = d
      /\ \A u \in Threads \ {t} :
           pc'[u] = pc[u] /\ name'[u] = name[u] /\ ns'[u] = ns[u] /\ doc'[u] = doc[u]
  BY DEF ArgsType, Begin
<1>2. /\ pc' \in [Threads -> {"idle", "create", "upsert", "update", "delete", "deleteCol"}]
      /\ name' \in [Threads -> Names \union {NoName}]
      /\ ns' \in [Threads -> Namespaces \union {NoNS}]
      /\ doc' \in [Threads -> Docs \union {NoDoc}]
  BY DEF ArgsType, Begin
<1> QED
  BY <1>1, <1>2 DEF ArgsType

(* A call that returns has none, and leaves its thread idle. *)
LEMMA ReturnType ==
  ASSUME ArgsType, NEW t \in Threads, Return(t)
  PROVE  /\ ArgsType' /\ pc'[t] = "idle"
         /\ \A u \in Threads \ {t} :
              pc'[u] = pc[u] /\ name'[u] = name[u] /\ ns'[u] = ns[u]
<1>1. /\ pc'[t] = "idle"
      /\ \A u \in Threads \ {t} :
           pc'[u] = pc[u] /\ name'[u] = name[u] /\ ns'[u] = ns[u] /\ doc'[u] = doc[u]
  BY DEF ArgsType, Return, Begin
<1>2. /\ pc' \in [Threads -> {"idle", "create", "upsert", "update", "delete", "deleteCol"}]
      /\ name' \in [Threads -> Names \union {NoName}]
      /\ ns' \in [Threads -> Namespaces \union {NoNS}]
      /\ doc' \in [Threads -> Docs \union {NoDoc}]
  BY DEF ArgsType, Return, Begin
<1> QED
  BY <1>1, <1>2 DEF ArgsType

(* A call under the exclusive lock: nobody else has to be looked at. *)
LEMMA ExclusiveStep ==
  ASSUME LockInv, NEW t \in Threads, Exclusive(t) \/ LockExclusive(t),
         FsType', CacheType', ArgsType', Tree',
         \A u \in Threads \ {t} : pc'[u] = pc[u],
         pc'[t] \in {"create", "upsert"} => IsFile(fs'[ns'[t]][name'[t]]),
         pc'[t] # "update"
  PROVE  LockInv'
<1>1. \A u \in Threads \ {t} : pc'[u] = "idle"
  BY OthersIdle DEF LockInv
<1>2. Alone'
  BY <1>1 DEF Alone, Exclusive, Shared
<1>3. WritesOK'
  BY <1>1 DEF WritesOK
<1> QED
  BY <1>2, <1>3 DEF LockInv

(* What the calls of the cache store in it. *)
LEMMA CacheEffect ==
  ASSUME CacheType
  PROVE  /\ \A n \in Names, s \in Namespaces : CacheAdd(n, s) => CacheType'
         /\ \A n \in Names : CacheDel(n) => CacheType'
         /\ \A c, s : CacheDelCol(c, s) => CacheType'
  BY DEF CacheType, CacheAdd, CacheDel, CacheDelCol

(* mutex_ keeps a call that has it exclusively alone. *)
LEMMA LockStep == LockInv /\ [Next]_vars => LockInv'
<1> SUFFICES ASSUME LockInv, [Next]_vars PROVE LockInv'
  OBVIOUS
<1> USE DEF LockInv
<1>a. ASSUME NEW t \in Threads, pc[t] # "idle" PROVE name[t] \in Names /\ ns[t] \in Namespaces
  BY <1>a DEF ArgsType
<1>b. ASSUME NEW t \in Threads, NEW x, WriteFile(ns[t], name[t], x),
             pc[t] \in {"create", "upsert", "update"}, doc[t] = x
      PROVE  /\ FsType' /\ Tree'
             /\ \A r \in Namespaces, m \in Names : IsFile(fs'[r][m]) <=> IsFile(fs[r][m])
  <2>1. doc[t] \in Docs /\ IsFile(fs[ns[t]][name[t]])
    BY <1>b DEF ArgsType, WritesOK
  <2>2. PICK y \in Files : SetPaths(ns[t], {name[t]}, y)
    BY <1>b, <2>1 DEF WriteFile, Written, Files
  <2> QED
    BY <1>a, <1>b, <2>1, <2>2, WriteEffect
<1>c. ASSUME NEW t \in Threads, NEW n \in Names, NEW s \in Namespaces,
             MkdirFails(s, n), UNCHANGED <<cache, pc, args>>, LockExclusive(t)
      PROVE  LockInv'
  <2>1. FsType' /\ Tree'
    BY <1>c, MkdirEffect
  <2>2. CacheType' /\ ArgsType'
    BY <1>c DEF CacheType, ArgsType, args
  <2> QED
    BY <1>c, <2>1, <2>2, ExclusiveStep DEF args, LockExclusive, LockShared
<1>d. ASSUME NEW t \in Threads, NEW n \in Names, NEW s \in Namespaces, NEW d \in Docs,
             NEW label \in {"create", "upsert"}, UNCHANGED cache, LockExclusive(t),
             OpenNew(s, n), Begin(t, label, n, s, d)
      PROVE  LockInv'
  <2>1. FsType' /\ Tree' /\ IsFile(fs'[s][n])
    BY <1>d, OpenNewEffect
  <2>2. /\ ArgsType' /\ pc'[t] = label /\ name'[t] = n /\ ns'[t] = s
        /\ \A u \in Threads \ {t} : pc'[u] = pc[u]
    BY <1>d, BeginType
  <2> QED
    BY <1>d, <2>1, <2>2, ExclusiveStep DEF CacheType
<1>1. CASE Restart
  <2>1. /\ FsType' /\ CacheType' /\ Tree'
        /\ \A t \in Threads : pc'[t] = "idle"
    BY <1>1 DEF Restart, FsType, CacheType, Tree
  <2>2. ArgsType'
    BY <1>1 DEF Restart, ArgsType
  <2> QED
    BY <2>1, <2>2 DEF Alone, WritesOK, Exclusive, Shared
<1>2. ASSUME NEW t \in Threads, NEW n \in Names, NEW s \in Namespaces, NEW d \in Docs,
             CreateDoc(t, n, s, d)
      PROVE  LockInv'
  BY <1>2, <1>c, <1>d DEF CreateDoc
<1>3. ASSUME NEW t \in Threads, NEW n \in Names, NEW s \in Namespaces, NEW d \in Docs,
             UpsertDoc(t, n, s, d)
      PROVE  LockInv'
  <2>1. CASE IsFile(fs[s][n]) /\ SetPaths(s, {n}, Empty) /\ Begin(t, "upsert", n, s, d)
    <3>1. FsType' /\ Tree' /\ IsFile(fs'[s][n])
      BY <2>1, WriteEffect DEF Files
    <3>2. /\ ArgsType' /\ pc'[t] = "upsert" /\ name'[t] = n /\ ns'[t] = s
          /\ \A u \in Threads \ {t} : pc'[u] = pc[u]
      BY <2>1, BeginType
    <3> QED
      BY <1>3, <3>1, <3>2, ExclusiveStep DEF UpsertDoc, CacheType
  <2> QED
    BY <1>3, <2>1, <1>c, <1>d DEF UpsertDoc
<1>4. ASSUME NEW t \in Threads, NEW n \in Names, NEW d \in Docs, UpdateDoc(t, n, d)
      PROVE  LockInv'
  <2>1. /\ cache[n] \in Namespaces /\ IsFile(fs[cache[n]][n])
        /\ SetPaths(cache[n], {n}, Empty) /\ Begin(t, "update", n, cache[n], d)
        /\ UNCHANGED cache /\ LockShared(t)
    BY <1>4 DEF UpdateDoc, CacheType
  <2>2. /\ FsType' /\ Tree'
        /\ \A r \in Namespaces, m \in Names : IsFile(fs'[r][m]) <=> IsFile(fs[r][m])
    BY <2>1, WriteEffect DEF Files
  <2>3. /\ ArgsType' /\ pc'[t] = "update" /\ name'[t] = n /\ ns'[t] = cache[n]
        /\ \A u \in Threads \ {t} :
             pc'[u] = pc[u] /\ name'[u] = name[u] /\ ns'[u] = ns[u]
    BY <2>1, BeginType
  <2>4. Alone'
    BY <2>1, <2>3 DEF Alone, Exclusive, Shared, LockShared
  <2>5. WritesOK'
    BY <1>a, <2>1, <2>2, <2>3 DEF WritesOK
  <2> QED
    BY <2>1, <2>2, <2>3, <2>4, <2>5 DEF CacheType
<1>5. ASSUME NEW t \in Threads, NEW n \in Names, DeleteDoc(t, n) PROVE LockInv'
  <2>1. /\ cache[n] \in Namespaces /\ IsFile(fs[cache[n]][n]) /\ LockExclusive(t)
        /\ Begin(t, "delete", n, cache[n], NoDoc) /\ UNCHANGED cache
    BY <1>5 DEF DeleteDoc, CacheType
  <2>2. FsType' /\ Tree'
    <3>1. \A m \in Below(n) : fs[cache[n]][m] = Absent
      BY <2>1, PathFacts, ParentFacts DEF Tree, Below
    <3>2. CASE SetPaths(cache[n], {n}, Absent)
      BY <2>1, <3>1, <3>2, RemoveEffect
    <3>3. CASE UNCHANGED fs
      BY <3>3 DEF FsType, Tree
    <3> QED
      BY <1>5, <3>2, <3>3 DEF DeleteDoc
  <2>3. /\ ArgsType' /\ pc'[t] = "delete" /\ \A u \in Threads \ {t} : pc'[u] = pc[u]
    BY <2>1, BeginType
  <2> QED
    BY <2>1, <2>2, <2>3, ExclusiveStep DEF CacheType
<1>6. ASSUME NEW t \in Threads, NEW c \in Names, NEW s \in Namespaces, DeleteCol(t, c, s)
      PROVE  LockInv'
  <2>1. /\ ArgsType' /\ pc'[t] = "deleteCol" /\ \A u \in Threads \ {t} : pc'[u] = pc[u]
    BY <1>6, BeginType DEF DeleteCol
  <2> QED
    BY <1>6, <2>1, ExclusiveStep DEF DeleteCol, FsType, CacheType, Tree
<1>7. ASSUME NEW t \in Threads, FinishWrite(t) PROVE LockInv'
  <2>1. /\ FsType' /\ Tree' /\ name[t] \in Names /\ ns[t] \in Namespaces
    BY <1>7, <1>a, <1>b DEF FinishWrite
  <2>2. CacheType'
    BY <1>7, <2>1, CacheEffect DEF FinishWrite
  <2> QED
    BY <1>7, <2>1, <2>2, ReturnType, ExclusiveStep DEF FinishWrite, Exclusive
<1>8. ASSUME NEW t \in Threads, FinishUpdate(t) PROVE LockInv'
  <2>1. /\ FsType' /\ Tree' /\ UNCHANGED cache
        /\ \A r \in Namespaces, m \in Names : IsFile(fs'[r][m]) <=> IsFile(fs[r][m])
    BY <1>8, <1>b DEF FinishUpdate
  <2>2. /\ ArgsType' /\ pc'[t] = "idle"
        /\ \A u \in Threads \ {t} :
             pc'[u] = pc[u] /\ name'[u] = name[u] /\ ns'[u] = ns[u]
    BY <1>8, ReturnType DEF FinishUpdate
  <2>3. Alone'
    BY <2>2 DEF Alone, Exclusive, Shared
  <2>4. WritesOK'
    BY <1>a, <2>1, <2>2 DEF WritesOK
  <2> QED
    BY <2>1, <2>2, <2>3, <2>4 DEF CacheType
<1>9. ASSUME NEW t \in Threads, FinishDelete(t) PROVE LockInv'
  <2>1. name[t] \in Names /\ ns[t] \in Namespaces /\ Exclusive(t)
    BY <1>9, <1>a DEF FinishDelete, Exclusive
  <2>2. FsType' /\ Tree'
    BY <1>9, <2>1, DirsEffect DEF FinishDelete
  <2>3. CacheType'
    BY <1>9, <2>1, CacheEffect DEF FinishDelete, CacheType
  <2> QED
    BY <1>9, <2>1, <2>2, <2>3, ReturnType, ExclusiveStep DEF FinishDelete
<1>10. ASSUME NEW t \in Threads, NEW n \in Names, RemoveEntry(t, n) PROVE LockInv'
  <2>1. ns[t] \in Namespaces /\ Exclusive(t) /\ pc'[t] = "deleteCol"
    BY <1>10, <1>a DEF RemoveEntry, Exclusive
  <2>2. FsType' /\ Tree'
    BY <1>10, <2>1, RemoveEffect DEF RemoveEntry
  <2> QED
    BY <1>10, <2>1, <2>2, ExclusiveStep DEF RemoveEntry, CacheType, ArgsType, args
<1>11. ASSUME NEW t \in Threads, FinishDeleteCol(t) PROVE LockInv'
  <2>1. name[t] \in Names /\ ns[t] \in Namespaces /\ Exclusive(t)
    BY <1>11, <1>a DEF FinishDeleteCol, Exclusive
  <2>2. FsType' /\ Tree'
    BY <1>11, <2>1, DirsEffect DEF FinishDeleteCol
  <2>3. CacheType'
    BY <1>11, CacheEffect DEF FinishDeleteCol, CacheType
  <2> QED
    BY <1>11, <2>1, <2>2, <2>3, ReturnType, ExclusiveStep DEF FinishDeleteCol
<1>12. CASE UNCHANGED vars
  BY <1>12 DEF vars, args, FsType, CacheType, ArgsType, Tree, Alone, WritesOK, Exclusive, Shared
<1> QED
  BY <1>1, <1>2, <1>3, <1>4, <1>5, <1>6, <1>7, <1>8, <1>9, <1>10, <1>11, <1>12
     DEF Next, Call, Finish

(* Before the first call. *)
LEMMA StoreInit == Init => LockInv
<1> SUFFICES ASSUME Init PROVE LockInv
  OBVIOUS
<1>1. FsType /\ CacheType /\ Tree
  BY DEF Init, FsType, CacheType, Tree
<1>2. ArgsType /\ Alone /\ WritesOK
  BY DEF Init, ArgsType, Alone, WritesOK, Exclusive, Shared
<1> QED
  BY <1>1, <1>2 DEF LockInv

(* Every path and variable keeps its type, a document exists only inside   *)
(* directories, and a call that writes has something to write, whatever    *)
(* call fails and wherever the process dies.                               *)
THEOREM StoreTypeCorrect == Spec => []TypeOK
<1>1. Init => LockInv
  BY StoreInit
<1>2. LockInv /\ [Next]_vars => LockInv'
  BY LockStep
<1>3. LockInv => TypeOK
  BY TypeParts DEF LockInv
<1> QED
  BY <1>1, <1>2, <1>3, PTL DEF Spec

-----------------------------------------------------------------------------
(* The cache and the disk, as long as files and directories can be removed *)
(* that are to be removed.  Directories and contents that cannot be        *)
(* written, and crashes, are no obstacle.                                  *)

RemovalsSucceed == {"remove", "rmdir"} \intersect Faults = {}

Owns(s, n) == IsFile(fs[s][n])

Agree(n) == \A s \in Namespaces : cache[n] = s <=> Owns(s, n)

(* The documents whose existence the call of t is changing. *)
ChangedBy(t, n) ==
  \/ pc[t] \in {"create", "upsert", "delete"} /\ n = name[t]
  \/ pc[t] = "deleteCol" /\ n \in Below(name[t])

(* What a call knows of them: one that writes writes the only file of the  *)
(* name, one that deletes has deleted it, and one that deletes a           *)
(* collection leaves the cache alone until it has deleted all of it; what  *)
(* is around it are directories.                                           *)
CallOK(t) ==
  /\ pc[t] \in {"create", "upsert"} => \A s \in Namespaces : Owns(s, name[t]) => s = ns[t]
  /\ pc[t] = "delete" => \A s \in Namespaces : ~Owns(s, name[t])
  /\ pc[t] = "deleteCol" =>
       \A n \in Below(name[t]), s \in Namespaces :
         /\ Owns(s, n) => cache[n] = s
         /\ cache[n] = s /\ s # ns[t] => Owns(s, n)
  /\ pc[t] \in {"delete", "deleteCol"} =>
       \A p \in Parents[name[t]] \union {name[t]} : ~Owns(ns[t], p)

CacheInv == LockInv /\ CacheMatchesDisk /\ \A t \in Threads : CallOK(t)

(* The property in these words. *)
LEMMA MatchesIsAgree ==
  CacheMatchesDisk <=>
    \A n \in Names : (\A t \in Threads : ~ChangedBy(t, n)) => Agree(n)
  BY DEF CacheMatchesDisk, Changing, ChangedBy, Agree, Owns

(* A document is in one namespace at most, at every moment. *)
LEMMA OneOwner ==
  ASSUME CacheInv, NEW n \in Names, NEW r \in Namespaces, NEW s \in Namespaces,
         Owns(r, n), Owns(s, n)
  PROVE  r = s
<1>1. CASE \A t \in Threads : ~ChangedBy(t, n)
  BY <1>1, MatchesIsAgree DEF CacheInv, Agree
<1>2. ASSUME NEW t \in Threads, ChangedBy(t, n) PROVE r = s
  BY <1>2 DEF CacheInv, CallOK, ChangedBy
<1> QED
  BY <1>1, <1>2

(* Who takes the exclusive lock finds cache and disk in agreement. *)
LEMMA LockFindsAgreement ==
  ASSUME CacheInv, NEW t \in Threads, LockExclusive(t), NEW n \in Names
  PROVE  Agree(n)
<1>1. \A u \in Threads : ~Exclusive(u)
  BY DEF LockExclusive, LockShared
<1>2. \A u \in Threads : ~ChangedBy(u, n)
  BY <1>1 DEF Exclusive, ChangedBy
<1> QED
  BY <1>2, MatchesIsAgree DEF CacheInv

(* Under the exclusive lock a step has to account for its own call only. *)
LEMMA ExclusiveCacheStep ==
  ASSUME LockInv, LockInv', NEW t \in Threads, Exclusive(t) \/ LockExclusive(t),
         \A u \in Threads \ {t} : pc'[u] = pc[u],
         CallOK(t)',
         \A n \in Names : ~ChangedBy(t, n)' => Agree(n)'
  PROVE  CacheInv'
<1>1. \A u \in Threads \ {t} : pc'[u] = "idle"
  BY OthersIdle DEF LockInv
<1>2. \A u \in Threads : CallOK(u)'
  BY <1>1 DEF CallOK
<1>3. \A n \in Names : (\A u \in Threads : ~ChangedBy(u, n)') => Agree(n)'
  OBVIOUS
<1>4. CacheMatchesDisk'
  BY <1>3 DEF CacheMatchesDisk, Changing, ChangedBy, Agree, Owns
<1> QED
  BY <1>2, <1>4 DEF CacheInv

(* Nor does a step that moves no file and changes neither the cache nor    *)
(* who is in a call that changes the existence of documents.               *)
LEMMA SameCacheStep ==
  ASSUME CacheInv, LockInv', UNCHANGED cache,
         \A r \in Namespaces, m \in Names : Owns(r, m)' <=> Owns(r, m),
         \A t \in Threads : \/ pc'[t] = pc[t] /\ name'[t] = name[t] /\ ns'[t] = ns[t]
                            \/ ~Exclusive(t) /\ ~Exclusive(t)'
  PROVE  CacheInv'
<1>1. \A t \in Threads, n \in Names : ChangedBy(t, n)' <=> ChangedBy(t, n)
  BY DEF ChangedBy, Exclusive
<1>2. \A n \in Names : Agree(n)' <=> Agree(n)
  BY DEF Agree
<1>3. CacheMatchesDisk'
  <2>1. \A n \in Names : (\A t \in Threads : ~ChangedBy(t, n)') => Agree(n)'
    BY <1>1, <1>2, MatchesIsAgree DEF CacheInv
  <2> QED
    BY <2>1 DEF CacheMatchesDisk, Changing, ChangedBy, Agree, Owns
<1>4. ASSUME NEW t \in Threads PROVE CallOK(t)'
  <2>1. CASE ~Exclusive(t)'
    BY <2>1 DEF CallOK, Exclusive
  <2>2. CASE Exclusive(t)
    <3>1. /\ pc'[t] = pc[t] /\ name'[t] = name[t] /\ ns'[t] = ns[t]
          /\ name[t] \in Names /\ ns[t] \in Namespaces
      BY <2>2 DEF CacheInv, LockInv, ArgsType, Exclusive
    <3>2. CallOK(t) /\ Below(name[t]) \subseteq Names /\ Parents[name[t]] \subseteq Names
      BY <3>1, ParentFacts DEF CacheInv, Below
    <3> QED
      BY <3>1, <3>2 DEF CallOK
  <2> QED
    BY <2>1, <2>2 DEF Exclusive
<1> QED
  BY <1>3, <1>4 DEF CacheInv

(* Opening a new file, for create or upsert. *)
LEMMA OpenCacheStep ==
  ASSUME CacheInv, LockInv', NEW t \in Threads, NEW n \in Names, NEW s \in Namespaces,
         NEW d \in Docs, NEW label \in {"create", "upsert"}, LockExclusive(t),
         OpenNew(s, n), cache[n] \in {NoNS, s}, Begin(t, label, n, s, d), UNCHANGED cache
  PROVE  CacheInv'
<1>1. \A r \in Namespaces, m \in Names : Owns(r, m)' <=> Owns(r, m) \/ (r = s /\ m = n)
  BY OpenNewEffect DEF CacheInv, LockInv, Owns
<1>2. /\ pc'[t] = label /\ name'[t] = n /\ ns'[t] = s
      /\ \A u \in Threads \ {t} : pc'[u] = pc[u]
  BY BeginType DEF CacheInv, LockInv
<1>3. \A m \in Names : Agree(m)
  BY LockFindsAgreement
<1>4. CallOK(t)'
  BY <1>1, <1>2, <1>3, PathFacts DEF CallOK, Agree
<1>5. ASSUME NEW m \in Names, ~ChangedBy(t, m)' PROVE Agree(m)'
  <2>1. m # n
    BY <1>2, <1>5 DEF ChangedBy
  <2> QED
    BY <1>1, <1>3, <2>1 DEF Agree
<1> QED
  BY <1>2, <1>4, <1>5, ExclusiveCacheStep DEF CacheInv

(* Truncating the file of a document that an upsert found. *)
LEMMA TruncateCacheStep ==
  ASSUME CacheInv, LockInv', NEW t \in Threads, NEW n \in Names, NEW s \in Namespaces,
         NEW d \in Docs, LockExclusive(t), MayUpsert(n, s), Owns(s, n),
         SetPaths(s, {n}, Empty), Begin(t, "upsert", n, s, d), UNCHANGED cache
  PROVE  CacheInv'
<1>1. \A r \in Namespaces, m \in Names : Owns(r, m)' <=> Owns(r, m)
  BY WriteEffect DEF CacheInv, LockInv, Owns, Files
<1>2. /\ pc'[t] = "upsert" /\ name'[t] = n /\ ns'[t] = s
      /\ \A u \in Threads \ {t} : pc'[u] = pc[u]
  BY BeginType DEF CacheInv, LockInv
<1>3. \A m \in Names : Agree(m)
  BY LockFindsAgreement
<1>4. CallOK(t)'
  BY <1>1, <1>2, <1>3 DEF CallOK, Agree
<1>5. \A m \in Names : Agree(m)'
  BY <1>1, <1>3 DEF Agree
<1> QED
  BY <1>2, <1>4, <1>5, ExclusiveCacheStep DEF CacheInv

(* The name of what create or upsert has written goes to the cache. *)
LEMMA FinishWriteCacheStep ==
  ASSUME CacheInv, LockInv', NEW t \in Threads, FinishWrite(t)
  PROVE  CacheInv'
<1>1. /\ name[t] \in Names /\ ns[t] \in Namespaces /\ doc[t] \in Docs
      /\ Exclusive(t) /\ Owns(ns[t], name[t])
  BY DEF FinishWrite, CacheInv, LockInv, ArgsType, WritesOK, Exclusive, Owns
<1>2. PICK y \in Files : SetPaths(ns[t], {name[t]}, y)
  BY <1>1 DEF FinishWrite, WriteFile, Written, Files
<1>3. \A r \in Namespaces, m \in Names : Owns(r, m)' <=> Owns(r, m)
  BY <1>1, <1>2, WriteEffect DEF CacheInv, LockInv, Owns
<1>4. pc'[t] = "idle" /\ \A u \in Threads \ {t} : pc'[u] = pc[u]
  BY ReturnType DEF FinishWrite, CacheInv, LockInv
<1>5. \A m \in Names : cache'[m] = IF m = name[t] THEN ns[t] ELSE cache[m]
  BY DEF FinishWrite, CacheAdd, CacheInv, LockInv, CacheType
<1>6. ASSUME NEW m \in Names PROVE Agree(m)'
  <2>1. CASE m = name[t]
    BY <1>1, <1>3, <1>5, <2>1 DEF Agree, CacheInv, CallOK, FinishWrite
  <2>2. CASE m # name[t]
    <3>1. \A u \in Threads : ~ChangedBy(u, m)
      BY <1>1, <2>2, OthersIdle DEF ChangedBy, CacheInv, LockInv, FinishWrite
    <3>2. Agree(m)
      BY <3>1, MatchesIsAgree DEF CacheInv
    <3> QED
      BY <1>3, <1>5, <2>2, <3>2 DEF Agree
  <2> QED
    BY <2>1, <2>2
<1>7. CallOK(t)'
  BY <1>4 DEF CallOK
<1> QED
  BY <1>1, <1>4, <1>6, <1>7, ExclusiveCacheStep DEF CacheInv

(* The file of a document is removed. *)
LEMMA DeleteCacheStep ==
  ASSUME RemovalsSucceed, CacheInv, LockInv', NEW t \in Threads, NEW n \in Names,
         DeleteDoc(t, n)
  PROVE  CacheInv'
<1>1. /\ cache[n] \in Namespaces /\ Owns(cache[n], n) /\ LockExclusive(t)
      /\ SetPaths(cache[n], {n}, Absent)
      /\ Begin(t, "delete", n, cache[n], NoDoc) /\ UNCHANGED cache
  BY DEF DeleteDoc, CacheInv, LockInv, CacheType, RemovalsSucceed, Owns
<1>2. \A p \in Parents[n] : fs[cache[n]][p] = Dir
  BY <1>1, PathFacts DEF CacheInv, LockInv, Tree, Owns
<1>3. \A m \in Below(n) : fs[cache[n]][m] = Absent
  BY <1>1, PathFacts, ParentFacts DEF CacheInv, LockInv, Tree, Owns
<1>4. \A r \in Namespaces, m \in Names :
        Owns(r, m)' <=> Owns(r, m) /\ ~(r = cache[n] /\ m = n)
  BY <1>1, <1>3, RemoveEffect DEF CacheInv, LockInv, Owns
<1>5. /\ pc'[t] = "delete" /\ name'[t] = n /\ ns'[t] = cache[n]
      /\ \A u \in Threads \ {t} : pc'[u] = pc[u]
  BY <1>1, BeginType DEF CacheInv, LockInv
<1>6. \A m \in Names : Agree(m)
  BY <1>1, LockFindsAgreement
<1>7. CallOK(t)'
  <2>1. \A s \in Namespaces : ~Owns(s, n)'
    BY <1>4, <1>6 DEF Agree
  <2>2. \A p \in Parents[n] : ~Owns(cache[n], p)'
    BY <1>1, <1>2, <1>4, ParentFacts, PathFacts DEF Owns
  <2> QED
    BY <1>1, <1>5, <2>1, <2>2 DEF CallOK, Owns
<1>8. ASSUME NEW m \in Names, ~ChangedBy(t, m)' PROVE Agree(m)'
  <2>1. m # n
    BY <1>5, <1>8 DEF ChangedBy
  <2> QED
    BY <1>1, <1>4, <1>6, <2>1 DEF Agree
<1> QED
  BY <1>1, <1>5, <1>7, <1>8, ExclusiveCacheStep DEF CacheInv

(* The directories it leaves empty go, and its name leaves the cache. *)
LEMMA FinishDeleteCacheStep ==
  ASSUME RemovalsSucceed, CacheInv, LockInv', NEW t \in Threads, FinishDelete(t)
  PROVE  CacheInv'
<1>1. /\ name[t] \in Names /\ ns[t] \in Namespaces /\ Exclusive(t) /\ pc[t] = "delete"
      /\ RemoveDirs(ns[t], name[t]) /\ CacheDel(name[t]) /\ Return(t)
  BY DEF FinishDelete, CacheInv, LockInv, ArgsType, Exclusive, RemovalsSucceed, RmdirFails
<1>2. \A p \in Parents[name[t]] : ~IsFile(fs[ns[t]][p])
  BY <1>1 DEF CacheInv, CallOK, Owns
<1>3. \A r \in Namespaces, m \in Names : Owns(r, m)' <=> Owns(r, m)
  BY <1>1, <1>2, DirsEffect DEF CacheInv, LockInv, Owns
<1>4. pc'[t] = "idle" /\ \A u \in Threads \ {t} : pc'[u] = pc[u]
  BY <1>1, ReturnType DEF CacheInv, LockInv
<1>5. \A m \in Names : cache'[m] = IF m = name[t] THEN NoNS ELSE cache[m]
  BY <1>1 DEF CacheDel, CacheAdd, CacheInv, LockInv, CacheType
<1>6. ASSUME NEW m \in Names PROVE Agree(m)'
  <2>1. CASE m = name[t]
    BY <1>1, <1>3, <1>5, <2>1, PathFacts DEF Agree, CacheInv, CallOK
  <2>2. CASE m # name[t]
    <3>1. \A u \in Threads : ~ChangedBy(u, m)
      BY <1>1, <2>2, OthersIdle DEF ChangedBy, CacheInv, LockInv
    <3>2. Agree(m)
      BY <3>1, MatchesIsAgree DEF CacheInv
    <3> QED
      BY <1>3, <1>5, <2>2, <3>2 DEF Agree
  <2> QED
    BY <2>1, <2>2
<1>7. CallOK(t)'
  BY <1>4 DEF CallOK
<1> QED
  BY <1>1, <1>4, <1>6, <1>7, ExclusiveCacheStep DEF CacheInv

(* A collection is about to be deleted: cache and disk agree still. *)
LEMMA DeleteColCacheStep ==
  ASSUME CacheInv, LockInv', NEW t \in Threads, NEW c \in Names, NEW s \in Namespaces,
         DeleteCol(t, c, s)
  PROVE  CacheInv'
<1>1. /\ LockExclusive(t) /\ fs[s][c] = Dir /\ UNCHANGED <<fs, cache>>
      /\ Begin(t, "deleteCol", c, s, NoDoc)
  BY DEF DeleteCol
<1>2. \A p \in Parents[c] : fs[s][p] = Dir
  BY <1>1, PathFacts DEF CacheInv, LockInv, Tree
<1>3. /\ pc'[t] = "deleteCol" /\ name'[t] = c /\ ns'[t] = s
      /\ \A u \in Threads \ {t} : pc'[u] = pc[u]
  BY <1>1, BeginType DEF CacheInv, LockInv
<1>4. \A m \in Names : Agree(m)
  BY <1>1, LockFindsAgreement
<1>5. CallOK(t)'
  <2>1. \A m \in Below(c), r \in Namespaces : cache[m] = r <=> Owns(r, m)
    BY <1>4, ParentFacts DEF Agree
  <2>2. \A p \in Parents[c] \union {c} : ~Owns(s, p)
    BY <1>1, <1>2, PathFacts DEF Owns
  <2> QED
    BY <1>1, <1>3, <2>1, <2>2 DEF CallOK, Owns
<1>6. \A m \in Names : Agree(m)'
  BY <1>1, <1>4 DEF Agree, Owns
<1> QED
  BY <1>1, <1>3, <1>5, <1>6, ExclusiveCacheStep DEF CacheInv

(* One entry after another of the collection goes, and the cache stays. *)
LEMMA RemoveEntryCacheStep ==
  ASSUME CacheInv, LockInv', NEW t \in Threads, NEW n \in Names, RemoveEntry(t, n)
  PROVE  CacheInv'
<1>1. /\ name[t] \in Names /\ ns[t] \in Namespaces /\ Exclusive(t) /\ pc[t] = "deleteCol"
      /\ n \in Below(name[t]) \union {name[t]}
      /\ SetPaths(ns[t], {n}, Absent) /\ UNCHANGED <<cache, pc, name, ns>>
      /\ \A m \in Below(n) : fs[ns[t]][m] = Absent
  BY DEF RemoveEntry, CacheInv, LockInv, ArgsType, Exclusive, args
<1>2. \A r \in Namespaces, m \in Names : Owns(r, m)' <=> Owns(r, m) /\ ~(r = ns[t] /\ m = n)
  BY <1>1, RemoveEffect DEF CacheInv, LockInv, Owns
<1>3. Below(name[t]) \subseteq Names /\ Parents[name[t]] \subseteq Names
  BY <1>1, ParentFacts DEF Below
<1>4. CallOK(t)'
  <2>1. CallOK(t)
    BY DEF CacheInv
  <2> QED
    BY <1>1, <1>2, <1>3, <2>1 DEF CallOK
<1>5. ASSUME NEW m \in Names, ~ChangedBy(t, m)' PROVE Agree(m)'
  <2>1. ~ChangedBy(t, m) /\ m \notin Below(name[t])
    BY <1>1, <1>5 DEF ChangedBy
  <2>2. Agree(m)
    <3>1. \A u \in Threads : ~ChangedBy(u, m)
      BY <1>1, <2>1, OthersIdle DEF ChangedBy, CacheInv, LockInv
    <3> QED
      BY <3>1, MatchesIsAgree DEF CacheInv
  <2>3. m = n => ~Owns(ns[t], m)
    BY <1>1, <2>1 DEF CacheInv, CallOK
  <2> QED
    BY <1>1, <1>2, <2>2, <2>3 DEF Agree
<1> QED
  BY <1>1, <1>4, <1>5, ExclusiveCacheStep DEF CacheInv

(* The collection is gone and so are its documents in the cache. *)
LEMMA FinishDeleteColCacheStep ==
  ASSUME RemovalsSucceed, CacheInv, LockInv', NEW t \in Threads, FinishDeleteCol(t)
  PROVE  CacheInv'
<1>1. /\ name[t] \in Names /\ ns[t] \in Namespaces /\ Exclusive(t) /\ pc[t] = "deleteCol"
      /\ fs[ns[t]][name[t]] = Absent
      /\ RemoveDirs(ns[t], name[t]) /\ CacheDelCol(name[t], ns[t]) /\ Return(t)
  BY DEF FinishDeleteCol, CacheInv, LockInv, ArgsType, Exclusive, RemovalsSucceed, RmdirFails
<1>2. \A p \in Parents[name[t]] : ~IsFile(fs[ns[t]][p])
  BY <1>1 DEF CacheInv, CallOK, Owns
<1>3. \A r \in Namespaces, m \in Names : Owns(r, m)' <=> Owns(r, m)
  BY <1>1, <1>2, DirsEffect DEF CacheInv, LockInv, Owns
<1>4. pc'[t] = "idle" /\ \A u \in Threads \ {t} : pc'[u] = pc[u]
  BY <1>1, ReturnType DEF CacheInv, LockInv
<1>5. \A m \in Names : cache'[m] = IF m \in Below(name[t]) /\ cache[m] = ns[t]
                                   THEN NoNS ELSE cache[m]
  BY <1>1 DEF CacheDelCol, CacheInv, LockInv, CacheType
<1>6. ASSUME NEW m \in Names PROVE Agree(m)'
  <2>1. CASE m \in Below(name[t])
    <3>1. ~Owns(ns[t], m)
      BY <1>1, <2>1, ParentFacts, PathFacts DEF CacheInv, LockInv, Tree, Owns
    <3>2. \A s \in Namespaces : /\ Owns(s, m) => cache[m] = s
                                /\ cache[m] = s /\ s # ns[t] => Owns(s, m)
      BY <1>1, <2>1 DEF CacheInv, CallOK
    <3> QED
      BY <1>1, <1>3, <1>5, <2>1, <3>1, <3>2, PathFacts DEF Agree
  <2>2. CASE m \notin Below(name[t])
    <3>1. \A u \in Threads : ~ChangedBy(u, m)
      BY <1>1, <2>2, OthersIdle DEF ChangedBy, CacheInv, LockInv
    <3>2. Agree(m)
      BY <3>1, MatchesIsAgree DEF CacheInv
    <3> QED
      BY <1>3, <1>5, <2>2, <3>2 DEF Agree
  <2> QED
    BY <2>1, <2>2
<1>7. CallOK(t)'
  BY <1>4 DEF CallOK
<1> QED
  BY <1>1, <1>4, <1>6, <1>7, ExclusiveCacheStep DEF CacheInv

(* updateDoc writes a file that is there. *)
LEMMA UpdateCacheStep ==
  ASSUME CacheInv, LockInv', NEW t \in Threads,
         (\E n \in Names, d \in Docs : UpdateDoc(t, n, d)) \/ FinishUpdate(t)
  PROVE  CacheInv'
<1>1. ASSUME NEW n \in Names, NEW d \in Docs, UpdateDoc(t, n, d) PROVE CacheInv'
  <2>1. /\ cache[n] \in Namespaces /\ Owns(cache[n], n) /\ pc[t] = "idle"
        /\ SetPaths(cache[n], {n}, Empty) /\ Begin(t, "update", n, cache[n], d)
        /\ UNCHANGED cache
    BY <1>1 DEF UpdateDoc, CacheInv, LockInv, CacheType, Owns, LockShared
  <2>2. \A r \in Namespaces, m \in Names : Owns(r, m)' <=> Owns(r, m)
    BY <2>1, WriteEffect DEF CacheInv, LockInv, Owns, Files
  <2>3. /\ pc'[t] = "update"
        /\ \A u \in Threads \ {t} : pc'[u] = pc[u] /\ name'[u] = name[u] /\ ns'[u] = ns[u]
    BY <2>1, BeginType DEF CacheInv, LockInv
  <2> QED
    BY <2>1, <2>2, <2>3, SameCacheStep DEF Exclusive
<1>2. CASE FinishUpdate(t)
  <2>1. /\ pc[t] = "update" /\ name[t] \in Names /\ ns[t] \in Namespaces /\ doc[t] \in Docs
        /\ Owns(ns[t], name[t]) /\ UNCHANGED cache
    BY <1>2 DEF FinishUpdate, CacheInv, LockInv, ArgsType, WritesOK, Owns
  <2>2. PICK y \in Files : SetPaths(ns[t], {name[t]}, y)
    BY <1>2, <2>1 DEF FinishUpdate, WriteFile, Written, Files
  <2>3. \A r \in Namespaces, m \in Names : Owns(r, m)' <=> Owns(r, m)
    BY <2>1, <2>2, WriteEffect DEF CacheInv, LockInv, Owns
  <2>4. /\ pc'[t] = "idle"
        /\ \A u \in Threads \ {t} : pc'[u] = pc[u] /\ name'[u] = name[u] /\ ns'[u] = ns[u]
    BY <1>2, ReturnType DEF FinishUpdate, CacheInv, LockInv
  <2> QED
    BY <2>1, <2>3, <2>4, SameCacheStep DEF Exclusive
<1> QED
  BY <1>1, <1>2

(* The constructor finds every document, in the one namespace it is in. *)
LEMMA RestartCacheStep ==
  ASSUME CacheInv, LockInv', Restart
  PROVE  /\ CacheInv'
         /\ \A n \in Names : ~Changing(n) => cache'[n] = cache[n]
<1>1. /\ UNCHANGED fs /\ \A t \in Threads : pc'[t] = "idle"
      /\ \A n \in Names :
           LET found == {s \in Namespaces : IsFile(fs[s][n])}
           IN  IF found = {} THEN cache'[n] = NoNS ELSE cache'[n] \in found
  BY DEF Restart
<1>2. ASSUME NEW n \in Names PROVE Agree(n)'
  <2>1. \A r, s \in Namespaces : Owns(r, n) /\ Owns(s, n) => r = s
    BY OneOwner
  <2> QED
    BY <1>1, <2>1, PathFacts DEF Agree, Owns
<1>3. CacheMatchesDisk'
  BY <1>2 DEF CacheMatchesDisk, Agree, Owns
<1>4. \A t \in Threads : CallOK(t)'
  BY <1>1 DEF CallOK
<1>5. ASSUME NEW n \in Names, ~Changing(n) PROVE cache'[n] = cache[n]
  <2>1. \A s \in Namespaces : cache[n] = s <=> cache'[n] = s
    <3>1. \A s \in Namespaces : cache[n] = s <=> IsFile(fs[s][n])
      BY <1>5 DEF CacheInv, CacheMatchesDisk
    <3> QED
      BY <1>1, <1>2, <3>1 DEF Agree, Owns
  <2>2. cache[n] \in Namespaces \union {NoNS} /\ cache'[n] \in Namespaces \union {NoNS}
    BY DEF CacheInv, LockInv, CacheType
  <2> QED
    BY <2>1, <2>2
<1> QED
  BY <1>3, <1>4, <1>5 DEF CacheInv

(* Every step keeps cache and disk in agreement. *)
LEMMA CacheStep == RemovalsSucceed /\ CacheInv /\ [Next]_vars => CacheInv'
<1> SUFFICES ASSUME RemovalsSucceed, CacheInv, [Next]_vars PROVE CacheInv'
  OBVIOUS
<1>0. LockInv /\ LockInv'
  BY LockStep DEF CacheInv
<1>1. ASSUME NEW t \in Threads, NEW n \in Names, NEW s \in Namespaces,
             MkdirFails(s, n), UNCHANGED <<cache, pc, args>>
      PROVE  CacheInv'
  <2>1. \A r \in Namespaces, m \in Names : Owns(r, m)' <=> Owns(r, m)
    BY <1>0, <1>1, MkdirEffect DEF LockInv, Owns
  <2> QED
    BY <1>0, <1>1, <2>1, SameCacheStep DEF args
<1>2. ASSUME NEW t \in Threads, NEW n \in Names, NEW s \in Namespaces, NEW d \in Docs,
             CreateDoc(t, n, s, d) \/ UpsertDoc(t, n, s, d)
      PROVE  CacheInv'
  <2>1. CASE OpenNew(s, n) /\ \E label \in {"create", "upsert"} : Begin(t, label, n, s, d)
    BY <1>0, <1>2, <2>1, OpenCacheStep DEF CreateDoc, UpsertDoc, MayUpsert
  <2>2. CASE IsFile(fs[s][n]) /\ SetPaths(s, {n}, Empty) /\ UpsertDoc(t, n, s, d)
    <3>1. Begin(t, "upsert", n, s, d)
      BY <2>2, PathFacts DEF UpsertDoc, OpenNew, CanCreate, MkdirFails
    <3> QED
      BY <1>0, <2>2, <3>1, TruncateCacheStep DEF UpsertDoc, Owns
  <2>3. CASE MkdirFails(s, n) /\ UNCHANGED <<pc, args>>
    BY <1>1, <1>2, <2>3 DEF CreateDoc, UpsertDoc
  <2> QED
    BY <1>2, <2>1, <2>2, <2>3 DEF CreateDoc, UpsertDoc
<1>3. ASSUME NEW t \in Threads, NEW n \in Names, Call(t, n) PROVE CacheInv'
  BY <1>0, <1>2, <1>3, UpdateCacheStep, DeleteCacheStep, DeleteColCacheStep DEF Call
<1>4. ASSUME NEW t \in Threads, Finish(t) PROVE CacheInv'
  BY <1>0, <1>4, FinishWriteCacheStep, UpdateCacheStep, FinishDeleteCacheStep,
     FinishDeleteColCacheStep, RemoveEntryCacheStep DEF Finish
<1>5. CASE Restart
  BY <1>0, <1>5, RestartCacheStep
<1>6. CASE UNCHANGED vars
  BY <1>0, <1>6, SameCacheStep DEF vars, args, Owns
<1> QED
  BY <1>3, <1>4, <1>5, <1>6 DEF Next

(* And so it holds in every behaviour. *)
LEMMA CacheInvariant ==
  ASSUME RemovalsSucceed
  PROVE  Spec => []CacheInv
<1>1. Init => CacheInv
  <2> SUFFICES ASSUME Init PROVE CacheInv
    OBVIOUS
  <2>1. LockInv
    BY StoreInit
  <2>2. CacheMatchesDisk
    BY PathFacts DEF Init, CacheMatchesDisk
  <2>3. \A t \in Threads : CallOK(t)
    BY DEF Init, CallOK
  <2> QED
    BY <2>1, <2>2, <2>3 DEF CacheInv
<1>2. CacheInv /\ [Next]_vars => CacheInv'
  BY CacheStep
<1> QED
  BY <1>1, <1>2, PTL DEF Spec

(* nameToNs_ and the files say the same of every document that no call is  *)
(* changing, whatever cannot be written and wherever the process dies: the *)
(* driver is called before the cache is changed, under one lock.           *)
THEOREM CacheIsExact ==
  ASSUME RemovalsSucceed
  PROVE  Spec => []CacheMatchesDisk
<1>1. CacheInv => CacheMatchesDisk
  BY DEF CacheInv
<1>2. Spec => []CacheInv
  BY CacheInvariant
<1> QED
  BY <1>1, <1>2, PTL

(* The constructor finds after a crash what the cache held before, but for *)
(* the documents of the interrupted call.                                  *)
THEOREM RestartsForgetNothing ==
  ASSUME RemovalsSucceed
  PROVE  Spec => RestartForgetsNothing
<1>1. CacheInv /\ CacheInv' /\ [Next]_vars
        => [Restart => \A n \in Names : ~Changing(n) => cache'[n] = cache[n]]_vars
  BY RestartCacheStep DEF CacheInv
<1>2. Spec => []CacheInv
  BY CacheInvariant
<1> QED
  BY <1>1, <1>2, PTL DEF Spec, RestartForgetsNothing

-----------------------------------------------------------------------------
(* The files on the disk implement the abstract directory of documents.    *)

OwnersOf(n) == {s \in Namespaces : IsFile(fs[s][n])}

(* A step that moves no file is none of the directory. *)
LEMMA NoMove ==
  ASSUME \A s \in Namespaces, n \in Names : Owns(s, n)' <=> Owns(s, n)
  PROVE  [n \in Names |-> OwnersOf(n)]' = [n \in Names |-> OwnersOf(n)]
<1>1. \A n \in Names : OwnersOf(n)' = OwnersOf(n)
  BY DEF OwnersOf, Owns
<1> QED
  BY <1>1

(* One that makes a file of a name that has none creates the document. *)
LEMMA OneMore ==
  ASSUME NEW r \in Namespaces, NEW m \in Names,
         \A s \in Namespaces, n \in Names : Owns(s, n)' <=> Owns(s, n) \/ (s = r /\ n = m),
         \A s \in Namespaces : ~Owns(s, m)
  PROVE  Directory!Create(m, r)
<1> DEFINE owners == [n \in Names |-> OwnersOf(n)]
<1>1. \A n \in Names : OwnersOf(n)' = IF n = m THEN {r} ELSE OwnersOf(n)
  BY DEF OwnersOf, Owns
<1>2. owners[m] = {}
  BY DEF OwnersOf, Owns
<1>3. owners' = [owners EXCEPT ![m] = {r}]
  BY <1>1
<1> QED
  BY <1>2, <1>3 DEF Directory!Create, OwnersOf

(* One that removes the only file of a name deletes the document. *)
LEMMA OneLess ==
  ASSUME NEW r \in Namespaces, NEW m \in Names,
         \A s \in Namespaces, n \in Names : Owns(s, n)' <=> Owns(s, n) /\ ~(s = r /\ n = m),
         \A s \in Namespaces : Owns(s, m) <=> s = r
  PROVE  Directory!Delete(m)
<1> DEFINE owners == [n \in Names |-> OwnersOf(n)]
<1>1. \A n \in Names : OwnersOf(n)' = IF n = m THEN {} ELSE OwnersOf(n)
  BY DEF OwnersOf, Owns
<1>2. owners[m] # {}
  BY DEF OwnersOf, Owns
<1>3. owners' = [owners EXCEPT ![m] = {}]
  BY <1>1
<1> QED
  BY <1>2, <1>3 DEF Directory!Delete, OwnersOf

(* Every step is one of the directory, or none. *)
LEMMA DirectoryStep ==
  ASSUME RemovalsSucceed, CacheInv, [Next]_vars
  PROVE  [Directory!Next]_([n \in Names |-> OwnersOf(n)])
<1> DEFINE Goal == [Directory!Next]_([n \in Names |-> OwnersOf(n)])
<1>a. LockInv
  BY DEF CacheInv
<1>b. ASSUME \A s \in Namespaces, n \in Names : Owns(s, n)' <=> Owns(s, n) PROVE Goal
  BY <1>b, NoMove
<1>c. ASSUME NEW m \in Names, (\E r \in Namespaces : Directory!Create(m, r)) \/ Directory!Delete(m)
      PROVE  Goal
  BY <1>c DEF Directory!Next
<1> SUFFICES Goal
  OBVIOUS
<1> HIDE DEF Goal
<1>d. ASSUME NEW t \in Threads, FinishWrite(t) \/ FinishUpdate(t) PROVE Goal
  <2>1. /\ name[t] \in Names /\ ns[t] \in Namespaces /\ doc[t] \in Docs
        /\ IsFile(fs[ns[t]][name[t]]) /\ WriteFile(ns[t], name[t], doc[t])
    BY <1>a, <1>d DEF FinishWrite, FinishUpdate, LockInv, ArgsType, WritesOK
  <2>2. PICK y \in Files : SetPaths(ns[t], {name[t]}, y)
    BY <2>1 DEF WriteFile, Written, Files
  <2>3. \A r \in Namespaces, m \in Names : Owns(r, m)' <=> Owns(r, m)
    BY <1>a, <2>1, <2>2, WriteEffect DEF LockInv, Owns
  <2> QED
    BY <1>b, <2>3
<1>e. ASSUME NEW t \in Threads, FinishDelete(t) \/ FinishDeleteCol(t) PROVE Goal
  <2>1. /\ name[t] \in Names /\ ns[t] \in Namespaces /\ pc[t] \in {"delete", "deleteCol"}
        /\ RemoveDirs(ns[t], name[t])
    BY <1>a, <1>e DEF FinishDelete, FinishDeleteCol, LockInv, ArgsType, RemovalsSucceed, RmdirFails
  <2>2. \A p \in Parents[name[t]] : ~IsFile(fs[ns[t]][p])
    BY <2>1 DEF CacheInv, CallOK, Owns
  <2>3. \A r \in Namespaces, m \in Names : Owns(r, m)' <=> Owns(r, m)
    BY <1>a, <2>1, <2>2, DirsEffect DEF LockInv, Owns
  <2> QED
    BY <1>b, <2>3
<1>f. ASSUME NEW t \in Threads, NEW n \in Names, RemoveEntry(t, n) PROVE Goal
  <2>1. /\ ns[t] \in Namespaces /\ SetPaths(ns[t], {n}, Absent)
        /\ \A m \in Below(n) : fs[ns[t]][m] = Absent
    BY <1>a, <1>f DEF RemoveEntry, LockInv, ArgsType
  <2>2. \A r \in Namespaces, m \in Names : Owns(r, m)' <=> Owns(r, m) /\ ~(r = ns[t] /\ m = n)
    BY <1>a, <2>1, RemoveEffect DEF LockInv, Owns
  <2>3. CASE Owns(ns[t], n)
    <3>1. \A s \in Namespaces : Owns(s, n) <=> s = ns[t]
      BY <2>1, <2>3, OneOwner
    <3>2. Directory!Delete(n)
      BY <2>1, <2>2, <3>1, OneLess
    <3> QED
      BY <1>c, <3>2
  <2>4. CASE ~Owns(ns[t], n)
    BY <1>b, <2>2, <2>4
  <2> QED
    BY <2>3, <2>4
<1>g. ASSUME NEW t \in Threads, NEW n \in Names, NEW s \in Namespaces, NEW d \in Docs,
             CreateDoc(t, n, s, d) \/ UpsertDoc(t, n, s, d)
      PROVE  Goal
  <2>1. CASE OpenNew(s, n)
    <3>1. cache[n] \in {NoNS, s} /\ Agree(n) /\ ~Owns(s, n)
      BY <1>g, <2>1, LockFindsAgreement, PathFacts
         DEF CreateDoc, UpsertDoc, MayUpsert, OpenNew, CanCreate, Owns
    <3>2. \A r \in Namespaces : ~Owns(r, n)
      BY <3>1, PathFacts DEF Agree
    <3>3. \A r \in Namespaces, m \in Names : Owns(r, m)' <=> Owns(r, m) \/ (r = s /\ m = n)
      BY <1>a, <2>1, OpenNewEffect DEF LockInv, Owns
    <3>4. Directory!Create(n, s)
      BY <3>2, <3>3, OneMore
    <3> QED
      BY <1>c, <3>4
  <2>2. CASE IsFile(fs[s][n]) /\ SetPaths(s, {n}, Empty)
    <3>1. \A r \in Namespaces, m \in Names : Owns(r, m)' <=> Owns(r, m)
      BY <1>a, <2>2, WriteEffect DEF LockInv, Owns, Files
    <3> QED
      BY <1>b, <3>1
  <2>3. CASE MkdirFails(s, n)
    <3>1. \A r \in Namespaces, m \in Names : Owns(r, m)' <=> Owns(r, m)
      BY <1>a, <2>3, MkdirEffect DEF LockInv, Owns
    <3> QED
      BY <1>b, <3>1
  <2> QED
    BY <1>g, <2>1, <2>2, <2>3 DEF CreateDoc, UpsertDoc
<1>h. ASSUME NEW t \in Threads, NEW n \in Names, NEW d \in Docs, UpdateDoc(t, n, d) PROVE Goal
  <2>1. /\ cache[n] \in Namespaces /\ IsFile(fs[cache[n]][n]) /\ SetPaths(cache[n], {n}, Empty)
    BY <1>a, <1>h DEF UpdateDoc, LockInv, CacheType
  <2>2. \A r \in Namespaces, m \in Names : Owns(r, m)' <=> Owns(r, m)
    BY <1>a, <2>1, WriteEffect DEF LockInv, Owns, Files
  <2> QED
    BY <1>b, <2>2
<1>i. ASSUME NEW t \in Threads, NEW n \in Names, DeleteDoc(t, n) PROVE Goal
  <2>1. /\ cache[n] \in Namespaces /\ Owns(cache[n], n) /\ LockExclusive(t)
        /\ SetPaths(cache[n], {n}, Absent)
    BY <1>a, <1>i DEF DeleteDoc, LockInv, CacheType, RemovalsSucceed, Owns
  <2>2. \A m \in Below(n) : fs[cache[n]][m] = Absent
    BY <1>a, <2>1, PathFacts, ParentFacts DEF LockInv, Tree, Owns
  <2>3. \A r \in Namespaces, m \in Names :
          /\ fs'[r][m] = IF r = cache[n] /\ m = n THEN Absent ELSE fs[r][m]
          /\ IsFile(fs'[r][m]) <=> IsFile(fs[r][m]) /\ ~(r = cache[n] /\ m = n)
    BY <1>a, <2>1, <2>2, RemoveEffect DEF LockInv
  <2>4. \A s \in Namespaces : Owns(s, n) <=> s = cache[n]
    BY <2>1, LockFindsAgreement DEF Agree
  <2>5. PICK r \in Namespaces : r = cache[n]
    BY <2>1
  <2>6. Directory!Delete(n)
    <3>1. \A s \in Namespaces, m \in Names : Owns(s, m)' <=> Owns(s, m) /\ ~(s = r /\ m = n)
      BY <2>3, <2>5 DEF Owns
    <3>2. \A s \in Namespaces : Owns(s, n) <=> s = r
      BY <2>4, <2>5
    <3> QED
      BY <3>1, <3>2, OneLess
  <2> QED
    BY <1>c, <2>6
<1>j. ASSUME UNCHANGED fs PROVE Goal
  BY <1>b, <1>j DEF Owns
<1>1. CASE Restart
  BY <1>1, <1>j DEF Restart
<1>2. ASSUME NEW t \in Threads, Finish(t) PROVE Goal
  BY <1>2, <1>d, <1>e, <1>f DEF Finish
<1>3. ASSUME NEW t \in Threads, NEW n \in Names, Call(t, n) PROVE Goal
  BY <1>3, <1>g, <1>h, <1>i, <1>j DEF Call, DeleteCol
<1>4. CASE UNCHANGED vars
  BY <1>4, <1>j DEF vars
<1> QED
  BY <1>1, <1>2, <1>3, <1>4 DEF Next

(* The disk implements the directory: a document comes and goes in one     *)
(* step, in one namespace, and never moves to another.                     *)
THEOREM StoreImplementsDirectory ==
  ASSUME RemovalsSucceed
  PROVE  Spec => ImplementsDirectory
<1>1. Init => Directory!Init
  BY PathFacts DEF Init, Directory!Init
<1>2. CacheInv /\ [Next]_vars =>
        [Directory!Next]_([n \in Names |-> {s \in Namespaces : IsFile(fs[s][n])}])
  BY DirectoryStep DEF OwnersOf
<1>3. Spec => []CacheInv
  BY CacheInvariant
<1> QED
  BY <1>1, <1>2, <1>3, PTL DEF Spec, ImplementsDirectory, Directory!Spec

-----------------------------------------------------------------------------
(* What is in the files, whatever call fails and wherever the process dies. *)

Creating(t) == pc[t] \in {"create", "upsert"}
Writing(t)  == pc[t] \in {"create", "upsert", "update"}

(* A file that create or upsert has opened is empty until it is written. *)
NewFilesEmpty == \A t \in Threads : Creating(t) => fs[ns[t]][name[t]] = Empty

(* t opens the file of n in namespace s, or fills it. *)
Opens(t, s, n) ==
  /\ pc[t] = "idle" /\ Writing(t)' /\ name'[t] = n /\ ns'[t] = s
  /\ fs'[s][n] = Empty
  /\ pc'[t] = "create" => ~IsFile(fs[s][n])
  /\ pc'[t] = "update" => IsFile(fs[s][n])
Fills(t, s, n) ==
  /\ Writing(t) /\ name[t] = n /\ ns[t] = s
  /\ pc' = [pc EXCEPT ![t] = "idle"]
  /\ fs'[s][n] \in Written(fs[s][n], doc[t])

(* A file whose content changes is opened or filled by some call. *)
LEMMA FileChange ==
  ASSUME LockInv, [Next]_vars, NEW s \in Namespaces, NEW n \in Names,
         IsFile(fs'[s][n]), fs'[s][n] # fs[s][n]
  PROVE  \E t \in Threads : Opens(t, s, n) \/ Fills(t, s, n)
<1> DEFINE Goal == \E t \in Threads : Opens(t, s, n) \/ Fills(t, s, n)
<1> SUFFICES Goal
  OBVIOUS
<1>a. FsType /\ ArgsType
  BY DEF LockInv
<1>b. ASSUME NEW r \in Namespaces, NEW S \in SUBSET Names, NEW x \in Files \union {Absent, Dir},
             SetPaths(r, S, x)
      PROVE  IsFile(x) /\ s = r /\ n \in S /\ fs'[s][n] = x
  BY <1>a, <1>b, SetPathsEffect
<1>c. ASSUME NEW r \in Namespaces, NEW S \in SUBSET Names, SetPaths(r, S, Absent) \/ SetPaths(r, S, Dir)
      PROVE  Goal
  <2>1. Absent \in Files \union {Absent, Dir} /\ Dir \in Files \union {Absent, Dir}
    OBVIOUS
  <2> QED
    BY <1>b, <1>c, <2>1, PathFacts
<1>d. ASSUME NEW t \in Threads, NEW m \in Names, NEW r \in Namespaces, NEW d \in Docs,
             NEW label \in {"create", "upsert"}, pc[t] = "idle",
             OpenNew(r, m), Begin(t, label, m, r, d)
      PROVE  Goal
  <2>0. /\ fs[r][m] = Absent
        /\ \A k \in Namespaces : k # r => fs'[k] = fs[k]
        /\ \A k \in Names : fs'[r][k] = IF k = m THEN Empty
                                        ELSE IF k \in Parents[m] THEN Dir ELSE fs[r][k]
    BY <1>a, <1>d DEF OpenNew, CanCreate, FsType
  <2>1. /\ fs[r][m] = Absent /\ r = s /\ m = n
        /\ fs'[s][n] = Empty
    BY <2>0, PathFacts
  <2>2. Writing(t)' /\ name'[t] = n /\ ns'[t] = s
    BY <1>a, <1>d, <2>1, BeginType DEF Writing
  <2>3. ~IsFile(fs[s][n]) /\ pc'[t] # "update"
    BY <1>a, <1>d, <2>1, PathFacts, BeginType
  <2> QED
    BY <1>d, <2>1, <2>2, <2>3 DEF Opens
<1>e. ASSUME NEW t \in Threads, NEW m \in Names, NEW r \in Namespaces, NEW d \in Docs,
             NEW label \in {"upsert", "update"}, pc[t] = "idle", IsFile(fs[r][m]),
             SetPaths(r, {m}, Empty), Begin(t, label, m, r, d)
      PROVE  Goal
  <2>0. {m} \in SUBSET Names /\ Empty \in Files \union {Absent, Dir}
    BY DEF Files
  <2>1. s = r /\ n = m /\ fs'[s][n] = Empty
    BY <1>b, <1>e, <2>0
  <2>2. Writing(t)' /\ name'[t] = n /\ ns'[t] = s /\ pc'[t] # "create"
    BY <1>a, <1>e, <2>1, BeginType DEF Writing
  <2> QED
    BY <1>e, <2>1, <2>2 DEF Opens
<1>f. ASSUME NEW t \in Threads, NEW m \in Names, NEW r \in Namespaces, MkdirFails(r, m) PROVE Goal
  <2>1. PICK q \in Parents[m] \union {m} : SetPaths(r, Parents[q], Dir)
    BY <1>f DEF MkdirFails
  <2>2. Parents[q] \in SUBSET Names
    BY <2>1, ParentFacts
  <2> QED
    BY <1>c, <2>1, <2>2
<1>g. ASSUME NEW r \in Namespaces, NEW m \in Names, RemoveDirs(r, m) \/ RmdirFails(r, m) PROVE Goal
  <2>1. \E S \in SUBSET EmptyParents(r, m) : SetPaths(r, S, Absent)
    <3>1. EmptyParents(r, m) \in SUBSET EmptyParents(r, m)
          /\ \A q : {p \in EmptyParents(r, m) : q \in Parents[p]} \in SUBSET EmptyParents(r, m)
      OBVIOUS
    <3> QED
      BY <1>g, <3>1 DEF RemoveDirs, RmdirFails
  <2>2. EmptyParents(r, m) \subseteq Names
    BY ParentFacts DEF EmptyParents
  <2> QED
    BY <1>c, <2>1, <2>2
<1>h. UNCHANGED fs => Goal
  OBVIOUS
<1> HIDE DEF Goal
<1>1. ASSUME NEW t \in Threads, NEW m \in Names, Call(t, m) PROVE Goal
  <2>1. ASSUME NEW r \in Namespaces, NEW d \in Docs, CreateDoc(t, m, r, d) PROVE Goal
    BY <2>1, <1>d, <1>f DEF CreateDoc, LockExclusive, LockShared
  <2>2. ASSUME NEW r \in Namespaces, NEW d \in Docs, UpsertDoc(t, m, r, d) PROVE Goal
    BY <2>2, <1>d, <1>e, <1>f DEF UpsertDoc, LockExclusive, LockShared
  <2>3. ASSUME NEW d \in Docs, UpdateDoc(t, m, d) PROVE Goal
    <3>1. cache[m] \in Namespaces
      BY <2>3 DEF UpdateDoc, LockInv, CacheType
    <3> QED
      BY <2>3, <3>1, <1>e DEF UpdateDoc, LockShared
  <2>4. CASE DeleteDoc(t, m)
    <3>1. cache[m] \in Namespaces /\ {m} \in SUBSET Names
      BY <2>4 DEF DeleteDoc, LockInv, CacheType
    <3> QED
      BY <2>4, <3>1, <1>c, <1>h DEF DeleteDoc
  <2>5. ASSUME NEW r \in Namespaces, DeleteCol(t, m, r) PROVE Goal
    BY <2>5, <1>h DEF DeleteCol
  <2> QED
    BY <1>1, <2>1, <2>2, <2>3, <2>4, <2>5 DEF Call
<1>2. ASSUME NEW t \in Threads, Finish(t) PROVE Goal
  <2>1. pc[t] # "idle" => name[t] \in Names /\ ns[t] \in Namespaces
    BY <1>a DEF ArgsType
  <2>2. CASE FinishWrite(t) \/ FinishUpdate(t)
    <3>1. /\ Writing(t) /\ WriteFile(ns[t], name[t], doc[t]) /\ doc[t] \in Docs
          /\ pc' = [pc EXCEPT ![t] = "idle"]
      BY <1>a, <2>2 DEF FinishWrite, FinishUpdate, Writing, ArgsType, Return, Begin
    <3>2. PICK x \in Written(fs[ns[t]][name[t]], doc[t]) : SetPaths(ns[t], {name[t]}, x)
      BY <3>1 DEF WriteFile
    <3>3. x \in Files /\ ns[t] \in Namespaces /\ {name[t]} \in SUBSET Names
      BY <2>1, <3>1, <3>2 DEF Written, Files, Writing
    <3>4. s = ns[t] /\ n = name[t] /\ fs'[s][n] = x
      BY <1>b, <3>2, <3>3
    <3>5. Fills(t, s, n)
      BY <3>1, <3>2, <3>4 DEF Fills
    <3> QED
      BY <3>5 DEF Goal
  <2>3. CASE FinishDelete(t) \/ FinishDeleteCol(t)
    BY <2>1, <2>3, <1>g DEF FinishDelete, FinishDeleteCol
  <2>4. ASSUME NEW m \in Names, RemoveEntry(t, m) PROVE Goal
    <3>1. {m} \in SUBSET Names
      OBVIOUS
    <3> QED
      BY <2>1, <2>4, <3>1, <1>c DEF RemoveEntry
  <2> QED
    BY <1>2, <2>2, <2>3, <2>4 DEF Finish
<1>3. CASE Restart
  BY <1>3, <1>h DEF Restart
<1>4. CASE UNCHANGED vars
  BY <1>4, <1>h DEF vars
<1> QED
  BY <1>1, <1>2, <1>3, <1>4 DEF Next

(* While create or upsert holds the lock nothing happens but its own step  *)
(* or a crash.                                                             *)
LEMMA CreatingStep ==
  ASSUME LockInv, [Next]_vars, NEW t \in Threads, Creating(t), Creating(t)'
  PROVE  UNCHANGED vars
<1>1. Exclusive(t) /\ \A u \in Threads \ {t} : pc[u] = "idle"
  BY OthersIdle DEF LockInv, Creating, Exclusive
<1>2. ~Restart
  BY DEF Restart, Creating
<1>3. ASSUME NEW u \in Threads, NEW n \in Names PROVE ~Call(u, n)
  BY <1>1 DEF Call, CreateDoc, UpsertDoc, UpdateDoc, DeleteDoc, DeleteCol, LockExclusive, LockShared
<1>4. ASSUME NEW u \in Threads, Finish(u) PROVE FALSE
  <2>1. u = t /\ FinishWrite(t)
    BY <1>1, <1>4 DEF Finish, FinishWrite, FinishUpdate, FinishDelete, FinishDeleteCol,
       RemoveEntry, Creating
  <2>2. pc'[t] = "idle"
    BY <2>1, ReturnType DEF FinishWrite, LockInv
  <2> QED
    BY <2>2 DEF Creating
<1> QED
  BY <1>2, <1>3, <1>4 DEF Next

(* The two parts of it: every new file is empty until it is written. *)
WriteInv == LockInv /\ NewFilesEmpty

LEMMA WriteStep == WriteInv /\ [Next]_vars => WriteInv'
<1> SUFFICES ASSUME WriteInv, [Next]_vars, NEW t \in Threads, Creating(t)'
             PROVE  fs'[ns'[t]][name'[t]] = Empty
  BY LockStep DEF WriteInv, NewFilesEmpty, Creating
<1>1. CASE Creating(t)
  <2>1. UNCHANGED vars
    BY <1>1, CreatingStep DEF WriteInv
  <2> QED
    BY <1>1, <2>1 DEF WriteInv, NewFilesEmpty, vars, args
<1>2. CASE ~Creating(t)
  <2>a. ArgsType /\ FsType
    BY DEF WriteInv, LockInv
  <2>b. pc'[t] # pc[t]
    BY <1>2 DEF Creating
  <2>1. ASSUME NEW u \in Threads, NEW n \in Names, Call(u, n)
        PROVE  fs'[ns'[t]][name'[t]] = Empty
    <3>1. ASSUME NEW s \in Namespaces, NEW d \in Docs, CreateDoc(u, n, s, d) \/ UpsertDoc(u, n, s, d)
          PROVE  fs'[ns'[t]][name'[t]] = Empty
      <4>1. CASE OpenNew(s, n) /\ \E label \in {"create", "upsert"} : Begin(u, label, n, s, d)
        <5>1. u = t /\ ns'[t] = s /\ name'[t] = n
          BY <2>a, <2>b, <4>1, BeginType
        <5> QED
          BY <2>a, <4>1, <5>1 DEF OpenNew, FsType
      <4>2. CASE SetPaths(s, {n}, Empty) /\ Begin(u, "upsert", n, s, d)
        <5>1. u = t /\ ns'[t] = s /\ name'[t] = n
          BY <2>a, <2>b, <4>2, BeginType
        <5> QED
          BY <2>a, <4>2, <5>1 DEF SetPaths, FsType
      <4>3. CASE UNCHANGED pc
        BY <2>b, <4>3
      <4> QED
        BY <3>1, <4>1, <4>2, <4>3 DEF CreateDoc, UpsertDoc
    <3>2. ASSUME NEW label \in {"update", "delete", "deleteCol"},
                 NEW s \in Namespaces, NEW d \in Docs \union {NoDoc},
                 Begin(u, label, n, s, d)
          PROVE  FALSE
      BY <2>a, <2>b, <3>2 DEF Begin, ArgsType, Creating
    <3>3. \A d \in Docs : ~UpdateDoc(u, n, d)
      BY <3>2 DEF UpdateDoc, WriteInv, LockInv, CacheType
    <3>4. ~DeleteDoc(u, n)
      BY <3>2 DEF DeleteDoc, WriteInv, LockInv, CacheType
    <3>5. \A s \in Namespaces : ~DeleteCol(u, n, s)
      BY <3>2 DEF DeleteCol
    <3> QED
      BY <2>1, <3>1, <3>3, <3>4, <3>5 DEF Call
  <2>2. ASSUME NEW u \in Threads, Finish(u) PROVE FALSE
    <3>1. pc' = [pc EXCEPT ![u] = "idle"] \/ UNCHANGED pc
      BY <2>2 DEF Finish, FinishWrite, FinishUpdate, FinishDelete, FinishDeleteCol,
         RemoveEntry, Return, Begin
    <3> QED
      BY <2>a, <2>b, <3>1 DEF ArgsType, Creating
  <2>3. ~Restart /\ ~UNCHANGED vars
    BY <2>b DEF Restart, vars, Creating
  <2> QED
    BY <2>1, <2>2, <2>3 DEF Next
<1> QED
  BY <1>1, <1>2

LEMMA WriteInvariant == Spec => []WriteInv
<1>1. Init => WriteInv
  BY StoreInit DEF WriteInv, NewFilesEmpty, Init, Creating
<1> QED
  BY <1>1, WriteStep, PTL DEF Spec

(* No call writes over a document but updateDoc and upsertDoc of it, also  *)
(* when the cache says of a file that is there that it is not.             *)
THEOREM NothingElseOverwrites == Spec => OnlyUpdatesOverwrite
<1> DEFINE Overwritten(s, n) ==
      Whole(fs[s][n]) /\ IsFile(fs'[s][n]) /\ fs'[s][n] # fs[s][n]
<1>1. ASSUME WriteInv, [Next]_vars, NEW s \in Namespaces, NEW n \in Names, Overwritten(s, n)
      PROVE  \E t \in Threads :
               \/ pc'[t] \in {"update", "upsert"} /\ name'[t] = n
               \/ pc[t] = "update" /\ name[t] = n
  <2>1. PICK t \in Threads : Opens(t, s, n) \/ Fills(t, s, n)
    BY <1>1, FileChange DEF WriteInv
  <2>2. ~Whole(Empty)
    BY ValuesAssumption DEF ValuesAssumption, Whole
  <2>3. Fills(t, s, n) => pc[t] = "update"
    BY <1>1, <2>2 DEF Fills, Writing, Creating, WriteInv, NewFilesEmpty
  <2>4. Opens(t, s, n) => pc'[t] \in {"update", "upsert"}
    BY <1>1 DEF Opens, Writing, Whole, IsFile, Files
  <2> QED
    BY <2>1, <2>3, <2>4 DEF Opens, Fills
<1>2. WriteInv /\ [Next]_vars =>
        [\A s \in Namespaces, n \in Names :
           Overwritten(s, n) =>
             \E t \in Threads :
               \/ pc'[t] \in {"update", "upsert"} /\ name'[t] = n
               \/ pc[t] = "update" /\ name[t] = n]_vars
  BY <1>1
<1> QED
  BY <1>2, WriteInvariant, PTL DEF Spec, OnlyUpdatesOverwrite

-----------------------------------------------------------------------------
(* Whole documents: as long as writes succeed, the process does not die,   *)
(* and no two threads update.                                              *)

NoTornWrites ==
  /\ {"crash", "write"} \intersect Faults = {}
  /\ \A t, u \in Updaters : t = u

(* Who writes finds the file empty that it opened, and every other file    *)
(* holds a document.                                                       *)
ReadInv ==
  /\ WriteInv
  /\ \A t \in Threads : pc[t] = "update" => t \in Updaters /\ fs[ns[t]][name[t]] = Empty
  /\ \A s \in Namespaces, n \in Names :
       IsFile(fs[s][n]) => \/ Whole(fs[s][n])
                           \/ \E t \in Threads : Writing(t) /\ name[t] = n /\ ns[t] = s

(* A call that writes is alone until it has written its document. *)
LEMMA WritingStep ==
  ASSUME NoTornWrites, ReadInv, [Next]_vars, NEW t \in Threads, Writing(t)
  PROVE  \/ UNCHANGED vars
         \/ /\ pc' = [pc EXCEPT ![t] = "idle"]
            /\ Whole(fs'[ns[t]][name[t]])
<1>a. LockInv
  BY DEF ReadInv, WriteInv
<1>1. \A u \in Threads \ {t} : pc[u] = "idle"
  <2>1. CASE Creating(t)
    BY <1>a, <2>1, OthersIdle DEF LockInv, Creating, Exclusive
  <2>2. ASSUME pc[t] = "update", NEW u \in Threads \ {t} PROVE pc[u] = "idle"
    BY <1>a, <2>2 DEF LockInv, Alone, Exclusive, Shared, ArgsType, ReadInv, NoTornWrites
  <2> QED
    BY <2>1, <2>2 DEF Writing, Creating
<1>2. ~Restart
  BY DEF Restart, NoTornWrites
<1>3. ASSUME NEW u \in Threads, NEW n \in Names PROVE ~Call(u, n)
  <2>1. ~LockExclusive(u)
    BY DEF LockExclusive, LockShared, Exclusive, Shared, Writing
  <2>2. \A d \in Docs : ~UpdateDoc(u, n, d)
    BY DEF UpdateDoc, LockShared, Exclusive, Writing, ReadInv, NoTornWrites
  <2> QED
    BY <2>1, <2>2 DEF Call, CreateDoc, UpsertDoc, DeleteDoc, DeleteCol
<1>4. ASSUME NEW u \in Threads, Finish(u)
      PROVE  pc' = [pc EXCEPT ![t] = "idle"] /\ Whole(fs'[ns[t]][name[t]])
  <2>1. u = t /\ (FinishWrite(t) \/ FinishUpdate(t))
    BY <1>1, <1>4 DEF Finish, FinishWrite, FinishUpdate, FinishDelete, FinishDeleteCol,
       RemoveEntry, Writing
  <2>2. pc' = [pc EXCEPT ![t] = "idle"] /\ WriteFile(ns[t], name[t], doc[t])
    BY <2>1 DEF FinishWrite, FinishUpdate, Return, Begin
  <2>3. /\ name[t] \in Names /\ ns[t] \in Namespaces /\ doc[t] \in Docs
    BY <1>a DEF LockInv, ArgsType, Writing
  <2>4. fs[ns[t]][name[t]] = Empty
    BY DEF ReadInv, WriteInv, NewFilesEmpty, Writing, Creating
  <2>5. SetPaths(ns[t], {name[t]}, doc[t])
    <3>1. "write" \notin Faults
      BY DEF NoTornWrites
    <3>2. \A x \in Written(fs[ns[t]][name[t]], doc[t]) : x = doc[t]
      BY <2>4, <3>1 DEF Written
    <3> QED
      BY <2>2, <3>2 DEF WriteFile
  <2>6. fs'[ns[t]][name[t]] = doc[t]
    BY <1>a, <2>3, <2>5 DEF SetPaths, LockInv, FsType
  <2> QED
    BY <2>2, <2>3, <2>6 DEF Whole
<1> QED
  BY <1>2, <1>3, <1>4 DEF Next

LEMMA ReadStep ==
  ASSUME NoTornWrites, ReadInv, [Next]_vars
  PROVE  ReadInv'
<1>a. LockInv /\ WriteInv' /\ LockInv'
  BY WriteStep DEF ReadInv, WriteInv
<1>1. ASSUME NEW t \in Threads, pc'[t] = "update"
      PROVE  t \in Updaters /\ fs'[ns'[t]][name'[t]] = Empty
  <2>1. CASE Writing(t)
    <3>1. UNCHANGED vars
      <4>1. pc'[t] # "idle"
        BY <1>1
      <4>2. pc' # [pc EXCEPT ![t] = "idle"]
        BY <1>a, <4>1 DEF LockInv, ArgsType
      <4> QED
        BY <2>1, <4>2, WritingStep
    <3> QED
      BY <1>1, <2>1, <3>1 DEF ReadInv, vars, args
  <2>2. CASE ~Writing(t)
    <3>1. PICK n \in Names, d \in Docs : UpdateDoc(t, n, d)
      <4>a. pc'[t] # pc[t]
        BY <1>1, <2>2 DEF Writing
      <4>b. ASSUME NEW u \in Threads, NEW label \in {"idle", "create", "upsert", "delete", "deleteCol"},
                   NEW n, NEW s, NEW d, Begin(u, label, n, s, d)
            PROVE  FALSE
        BY <1>1, <1>a, <4>a, <4>b DEF Begin, LockInv, ArgsType
      <4>c. ~UNCHANGED pc
        BY <4>a
      <4>d. \A u \in Threads : ~Return(u)
        BY <4>b DEF Return
      <4>1. \A u \in Threads : ~Finish(u)
        BY <4>c, <4>d DEF Finish, FinishWrite, FinishUpdate, FinishDelete, FinishDeleteCol, RemoveEntry
      <4>2. ASSUME NEW u \in Threads, NEW n \in Names, Call(u, n)
            PROVE  u = t /\ \E d \in Docs : UpdateDoc(t, n, d)
        <5>1. PICK d \in Docs : UpdateDoc(u, n, d)
          BY <4>2, <4>b, <4>c DEF Call, CreateDoc, UpsertDoc, DeleteDoc, DeleteCol
        <5>2. u = t
          BY <1>a, <4>a, <5>1 DEF UpdateDoc, Begin, LockInv, ArgsType
        <5> QED
          BY <5>1, <5>2
      <4>3. ~Restart /\ ~UNCHANGED vars
        BY <4>c DEF Restart, NoTornWrites, vars
      <4> QED
        BY <4>1, <4>2, <4>3 DEF Next
    <3>2. cache[n] \in Namespaces /\ SetPaths(cache[n], {n}, Empty) /\ t \in Updaters
      BY <1>a, <3>1 DEF UpdateDoc, LockInv, CacheType
    <3>3. ns'[t] = cache[n] /\ name'[t] = n
      BY <1>a, <3>1 DEF UpdateDoc, Begin, LockInv, ArgsType
    <3> QED
      BY <1>a, <3>2, <3>3 DEF SetPaths, LockInv, FsType
  <2> QED
    BY <2>1, <2>2
<1>2. ASSUME NEW s \in Namespaces, NEW n \in Names, IsFile(fs'[s][n]), ~Whole(fs'[s][n])
      PROVE  \E t \in Threads : Writing(t)' /\ name'[t] = n /\ ns'[t] = s
  <2>1. CASE fs'[s][n] = fs[s][n]
    <3>1. PICK t \in Threads : Writing(t) /\ name[t] = n /\ ns[t] = s
      BY <1>2, <2>1 DEF ReadInv
    <3>2. UNCHANGED vars
      BY <1>2, <3>1, WritingStep
    <3> QED
      BY <3>1, <3>2 DEF vars, args, Writing
  <2>2. CASE fs'[s][n] # fs[s][n]
    <3>1. PICK t \in Threads : Opens(t, s, n) \/ Fills(t, s, n)
      BY <1>a, <1>2, <2>2, FileChange
    <3>2. ~Fills(t, s, n)
      BY <1>2, <2>2, WritingStep DEF Fills, vars
    <3> QED
      BY <3>1, <3>2 DEF Opens
  <2> QED
    BY <2>1, <2>2
<1> QED
  BY <1>a, <1>1, <1>2 DEF ReadInv

LEMMA ReadInvariant ==
  ASSUME NoTornWrites
  PROVE  Spec => []ReadInv
<1>1. Init => ReadInv
  BY StoreInit, PathFacts DEF ReadInv, WriteInv, NewFilesEmpty, Init, Creating
<1>2. ReadInv /\ [Next]_vars => ReadInv'
  BY ReadStep
<1> QED
  BY <1>1, <1>2, PTL DEF Spec

(* A document that nobody writes is whole, also when directories cannot be *)
(* made and removals stop halfway.                                         *)
THEOREM DocumentsAreWhole ==
  ASSUME NoTornWrites
  PROVE  Spec => []ReadableAtRest
<1>1. ReadInv => ReadableAtRest
  BY DEF ReadInv, ReadableAtRest, Writing, Changing, Shared
<1>2. Spec => []ReadInv
  BY ReadInvariant
<1> QED
  BY <1>1, <1>2, PTL
=============================================================================
