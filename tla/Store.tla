------------------------------- MODULE Store --------------------------------
(***************************************************************************)
(* The document store: class Store with its cache of document names, over  *)
(* the FileDriver that keeps every document in a file.                     *)
(*                                                                         *)
(* Operations that change the set of documents hold mutex_ exclusively for *)
(* all their steps; updateDoc holds it shared, so updates overlap with one *)
(* another.  A step ends wherever a crash would leave a different disk or  *)
(* another updater would find a different file.  Reads change nothing and  *)
(* have no action.                                                         *)
(***************************************************************************)
EXTENDS FiniteSets, Naturals

CONSTANTS
  Threads,      (* threads that call the store                             *)
  Updaters,     (* those that call updateDoc                               *)
  Names,        (* names of documents and collections, without namespace   *)
  Parents,      (* the names that are strict prefixes of a name            *)
  Namespaces,   (* namespace identifiers                                   *)
  Docs,         (* contents of documents                                   *)
  Absent, Dir,  (* what may be at a path beside a file: nothing, directory *)
  Empty, Torn,  (* contents of a file that is no document: none, garbage   *)
  NoNS, NoName, NoDoc,
  Faults        (* what may happen: "crash", and the calls that may fail,  *)
                (* "mkdir", "write", "remove" and "rmdir"                  *)

ASSUME ThreadsAssumption == Updaters \subseteq Threads
ASSUME ParentsAssumption ==
  /\ Parents \in [Names -> SUBSET Names]
  /\ \A n \in Names : n \notin Parents[n]
  /\ \A n \in Names : \A p \in Parents[n] : Parents[p] \subseteq Parents[n]

(* What a file may hold. *)
Files     == Docs \union {Empty, Torn}
IsFile(x) == x \in Files
Whole(x)  == x \in Docs

ASSUME ValuesAssumption ==
  /\ Absent # Dir /\ Absent \notin Files /\ Dir \notin Files
  /\ Empty # Torn /\ Empty \notin Docs /\ Torn \notin Docs
  /\ NoNS \notin Namespaces /\ NoName \notin Names /\ NoDoc \notin Docs

VARIABLES
  fs,           (* the path of a name in a namespace: a file, or no file   *)
  cache,        (* nameToNs_ (nsToNames_ is its inverse)                   *)
  pc,           (* where each thread is in its call                        *)
  name, ns, doc (* arguments of the call                                   *)

args == <<name, ns, doc>>
vars == <<fs, cache, pc, args>>

(* Under the exclusive lock, and under the shared one. *)
Exclusive(t) == pc[t] \in {"create", "upsert", "delete", "deleteCol"}
Shared(t)    == pc[t] = "update"

Below(c) == {n \in Names : c \in Parents[n]}

Init ==
  /\ fs = [s \in Namespaces |-> [n \in Names |-> Absent]]
  /\ cache = [n \in Names |-> NoNS]
  /\ pc = [t \in Threads |-> "idle"]
  /\ name = [t \in Threads |-> NoName]
  /\ ns = [t \in Threads |-> NoNS]
  /\ doc = [t \in Threads |-> NoDoc]

-----------------------------------------------------------------------------
(* Calls.  One that fails before it has changed anything has no step. *)

LockShared(t) == pc[t] = "idle" /\ \A u \in Threads : ~Exclusive(u)

LockExclusive_Shared(t) == LockShared(t)    \* mutant: std::shared_lock
LockExclusive(t) == LockShared(t) /\ \A u \in Threads : ~Shared(u)

Begin(t, label, n, s, d) ==
  /\ pc' = [pc EXCEPT ![t] = label]
  /\ name' = [name EXCEPT ![t] = n]
  /\ ns' = [ns EXCEPT ![t] = s]
  /\ doc' = [doc EXCEPT ![t] = d]

Return(t) == Begin(t, "idle", NoName, NoNS, NoDoc)

(* fs' where the paths of the names of S in namespace s become x. *)
SetPaths(s, S, x) ==
  fs' = [fs EXCEPT ![s] = [n \in Names |-> IF n \in S THEN x ELSE fs[s][n]]]

(* DBDocNames::add, del and delCol. *)
CacheAdd(n, s) == cache' = [cache EXCEPT ![n] = s]

CacheDel_Nothing(n) == UNCHANGED cache      \* mutant: the call forgotten
CacheDel(n) == CacheAdd(n, NoNS)

CacheDelCol_Everywhere(c, s) ==             \* mutant: the namespace ignored
  cache' = [n \in Names |-> IF n \in Below(c) THEN NoNS ELSE cache[n]]
CacheDelCol(c, s) ==
  cache' = [n \in Names |->
              IF n \in Below(c) /\ cache[n] = s THEN NoNS ELSE cache[n]]

-----------------------------------------------------------------------------
(* FileDriver::createDoc *)

(* Nothing is at the path, and create_directories will find no file there. *)
CanCreate_OverFile(s, n) ==                 \* mutant: exists(path) dropped
  /\ fs[s][n] # Dir
  /\ \A p \in Parents[n] : fs[s][p] \in {Absent, Dir}
CanCreate(s, n) ==
  /\ fs[s][n] = Absent
  /\ \A p \in Parents[n] : fs[s][p] \in {Absent, Dir}

(* The directories, then std::ofstream creates the file. *)
OpenNew(s, n) ==
  /\ CanCreate(s, n)
  /\ fs' = [fs EXCEPT ![s] = [m \in Names |->
                                IF m = n THEN Empty
                                ELSE IF m \in Parents[n] THEN Dir ELSE fs[s][m]]]

(* A directory cannot be made, or the file cannot be opened: the           *)
(* directories made before stay.                                           *)
MkdirFails(s, n) ==
  /\ "mkdir" \in Faults
  /\ CanCreate(s, n)
  /\ \E q \in Parents[n] \union {n} : SetPaths(s, Parents[q], Dir)

(* file << content.toStr() to a file that is x: nobody looks at the state  *)
(* of the stream.  A file that another updater has written since this one  *)
(* truncated it keeps the rest of the longer content.                      *)
Written(x, d) ==
  {d} \union (IF x # Empty THEN {Torn} ELSE {})
      \union (IF "write" \in Faults THEN {Empty, Torn} ELSE {})

WriteFile(s, n, d) ==
  \E x \in Written(fs[s][n], d) : SetPaths(s, {n}, x)

-----------------------------------------------------------------------------
(* Store::createDoc and upsertDoc *)

CreateDoc(t, n, s, d) ==
  /\ LockExclusive(t)
  /\ cache[n] = NoNS
  /\ \/ OpenNew(s, n) /\ Begin(t, "create", n, s, d)
     \/ MkdirFails(s, n) /\ UNCHANGED <<pc, args>>
  /\ UNCHANGED cache

(* The document may not be in another namespace. *)
MayUpsert_Anywhere(n, s) == TRUE            \* mutant: the check dropped
MayUpsert(n, s) == cache[n] \in {NoNS, s}

(* The driver updates a file that exists, and creates one otherwise. *)
UpsertDoc(t, n, s, d) ==
  /\ LockExclusive(t)
  /\ MayUpsert(n, s)
  /\ \/ /\ IsFile(fs[s][n])
        /\ SetPaths(s, {n}, Empty)
        /\ Begin(t, "upsert", n, s, d)
     \/ OpenNew(s, n) /\ Begin(t, "upsert", n, s, d)
     \/ MkdirFails(s, n) /\ UNCHANGED <<pc, args>>
  /\ UNCHANGED cache

(* The content is written, and the name goes to the cache. *)
FinishWrite(t) ==
  /\ pc[t] \in {"create", "upsert"}
  /\ WriteFile(ns[t], name[t], doc[t])
  /\ CacheAdd(name[t], ns[t])
  /\ Return(t)

-----------------------------------------------------------------------------
(* Store::updateDoc *)

(* std::ofstream truncates the file ... *)
UpdateDoc_Creates(t, n, d) ==               \* mutant: exists(path) dropped
  /\ t \in Updaters
  /\ LockShared(t)
  /\ cache[n] # NoNS
  /\ \A p \in Parents[n] : fs[cache[n]][p] = Dir
  /\ SetPaths(cache[n], {n}, Empty)
  /\ Begin(t, "update", n, cache[n], d)
  /\ UNCHANGED cache
UpdateDoc(t, n, d) ==
  /\ t \in Updaters
  /\ LockShared(t)
  /\ cache[n] # NoNS
  /\ IsFile(fs[cache[n]][n])
  /\ SetPaths(cache[n], {n}, Empty)
  /\ Begin(t, "update", n, cache[n], d)
  /\ UNCHANGED cache

(* ... and the content is written. *)
FinishUpdate(t) ==
  /\ pc[t] = "update"
  /\ WriteFile(ns[t], name[t], doc[t])
  /\ Return(t)
  /\ UNCHANGED cache

-----------------------------------------------------------------------------
(* removeEmptyParentDirs: the parents of n with nothing left in them, from *)
(* the innermost on, in namespace s.                                       *)
EmptyParents_NotEmpty(s, n) == Parents[n]   \* mutant: is_empty dropped
EmptyParents(s, n) ==
  {p \in Parents[n] : \A m \in Below(p) \ Parents[n] : fs[s][m] = Absent}

(* All of them go, or one cannot be removed and neither are those around   *)
(* it; the last that may fail is the directory of the namespace itself.    *)
RemoveDirs(s, n) == SetPaths(s, EmptyParents(s, n), Absent)

RmdirFails(s, n) ==
  LET E == EmptyParents(s, n)
  IN  /\ "rmdir" \in Faults
      /\ \/ \E q \in E : SetPaths(s, {p \in E : q \in Parents[p]}, Absent)
         \/ (\A m \in Names \ E : fs[s][m] = Absent) /\ SetPaths(s, E, Absent)

-----------------------------------------------------------------------------
(* Store::deleteDoc *)

(* remove_all: when it fails it returns -1, which the driver takes for a   *)
(* number of files removed.                                                *)
DeleteDoc(t, n) ==
  /\ LockExclusive(t)
  /\ cache[n] # NoNS
  /\ IsFile(fs[cache[n]][n])
  /\ \/ SetPaths(cache[n], {n}, Absent)
     \/ "remove" \in Faults /\ UNCHANGED fs
  /\ Begin(t, "delete", n, cache[n], NoDoc)
  /\ UNCHANGED cache

(* When a directory cannot be removed deleteDoc fails, after the fact. *)
FinishDelete(t) ==
  /\ pc[t] = "delete"
  /\ \/ /\ RemoveDirs(ns[t], name[t])
        /\ CacheDel(name[t])
     \/ /\ RmdirFails(ns[t], name[t])
        /\ UNCHANGED cache
  /\ Return(t)

-----------------------------------------------------------------------------
(* Store::deleteCol *)

DeleteCol(t, c, s) ==
  /\ LockExclusive(t)
  /\ \E n \in Below(c) : cache[n] = s
  /\ fs[s][c] = Dir
  /\ Begin(t, "deleteCol", c, s, NoDoc)
  /\ UNCHANGED <<fs, cache>>

(* remove_all removes one entry after another, directories last. *)
RemoveEntry(t, n) ==
  /\ pc[t] = "deleteCol"
  /\ n \in Below(name[t]) \union {name[t]}
  /\ fs[ns[t]][n] # Absent
  /\ \A m \in Below(n) : fs[ns[t]][m] = Absent
  /\ SetPaths(ns[t], {n}, Absent)
  /\ UNCHANGED <<cache, pc, args>>

(* The collection is gone, or remove_all has failed, which passes for a    *)
(* success.                                                                *)
FinishDeleteCol(t) ==
  /\ pc[t] = "deleteCol"
  /\ fs[ns[t]][name[t]] = Absent \/ "remove" \in Faults
  /\ \/ /\ RemoveDirs(ns[t], name[t])
        /\ CacheDelCol(name[t], ns[t])
     \/ /\ fs[ns[t]][name[t]] = Absent
        /\ RmdirFails(ns[t], name[t])
        /\ UNCHANGED cache
  /\ Return(t)

-----------------------------------------------------------------------------
(* The process dies and starts again: the constructor walks the namespaces *)
(* in the order the directory lists them, and keeps the first document of  *)
(* every name.                                                             *)
Restart ==
  /\ "crash" \in Faults
  /\ \E rank \in [Namespaces -> 1..Cardinality(Namespaces)] :
       /\ \A r, s \in Namespaces : rank[r] = rank[s] => r = s
       /\ cache' \in [Names -> Namespaces \union {NoNS}]
       /\ \A n \in Names :
            LET found == {s \in Namespaces : IsFile(fs[s][n])}
            IN  IF found = {} THEN cache'[n] = NoNS
                ELSE /\ cache'[n] \in found
                     /\ \A s \in found : rank[cache'[n]] <= rank[s]
  /\ pc' = [t \in Threads |-> "idle"]
  /\ name' = [t \in Threads |-> NoName]
  /\ ns' = [t \in Threads |-> NoNS]
  /\ doc' = [t \in Threads |-> NoDoc]
  /\ UNCHANGED fs

-----------------------------------------------------------------------------
Call(t, n) ==
  \/ \E s \in Namespaces, d \in Docs : CreateDoc(t, n, s, d) \/ UpsertDoc(t, n, s, d)
  \/ \E d \in Docs : UpdateDoc(t, n, d)
  \/ DeleteDoc(t, n)
  \/ \E s \in Namespaces : DeleteCol(t, n, s)

Finish(t) ==
  \/ FinishWrite(t) \/ FinishUpdate(t) \/ FinishDelete(t) \/ FinishDeleteCol(t)
  \/ \E n \in Names : RemoveEntry(t, n)

Next == Restart \/ \E t \in Threads : Finish(t) \/ \E n \in Names : Call(t, n)

Spec == Init /\ [][Next]_vars

-----------------------------------------------------------------------------
(* Properties *)

(* The types, and a path exists only inside directories. *)
Tree ==
  \A s \in Namespaces, n \in Names : \A p \in Parents[n] :
    fs[s][n] # Absent => fs[s][p] = Dir

TypeOK ==
  /\ fs \in [Namespaces -> [Names -> Files \union {Absent, Dir}]]
  /\ cache \in [Names -> Namespaces \union {NoNS}]
  /\ pc \in [Threads -> {"idle", "create", "upsert", "update", "delete", "deleteCol"}]
  /\ name \in [Threads -> Names \union {NoName}]
  /\ ns \in [Threads -> Namespaces \union {NoNS}]
  /\ doc \in [Threads -> Docs \union {NoDoc}]
  /\ \A t \in Threads :
       pc[t] # "idle" => /\ name[t] \in Names /\ ns[t] \in Namespaces
                         /\ pc[t] \in {"create", "upsert", "update"} => doc[t] \in Docs
  /\ Tree

(* A call under the exclusive lock is changing the existence of n. *)
Changing(n) ==
  \E t \in Threads :
    \/ pc[t] \in {"create", "upsert", "delete"} /\ n = name[t]
    \/ pc[t] = "deleteCol" /\ n \in Below(name[t])

(* The cache says what the disk says about every document no call is       *)
(* changing, through crashes, restarts and directories that cannot be made *)
(* (but not through files and directories that cannot be removed).         *)
CacheMatchesDisk ==
  \A n \in Names : ~Changing(n) =>
    \A s \in Namespaces : cache[n] = s <=> IsFile(fs[s][n])

(* A restart loses no document and finds none that was not there: only the *)
(* documents of the interrupted call may have come or gone.                *)
RestartForgetsNothing ==
  [][Restart => \A n \in Names : ~Changing(n) => cache'[n] = cache[n]]_vars

(* Existence is atomic: the disk implements the abstract directory. *)
Directory == INSTANCE DocDirectory WITH
  owners <- [n \in Names |-> {s \in Namespaces : IsFile(fs[s][n])}]
ImplementsDirectory == Directory!Spec

(* Every file holds a whole document, unless a call is writing it or a     *)
(* write failed: the lock that updateDoc only shares keeps every other     *)
(* call away from it, but not a second update of the same document, which  *)
(* the property leaves out.                                                *)
ReadableAtRest ==
  \A s \in Namespaces, n \in Names :
    /\ IsFile(fs[s][n])
    /\ ~Changing(n)
    /\ \A t \in Threads : Shared(t) => name[t] # n
    => Whole(fs[s][n])

(* No failure of the file system, and no cache that no longer matches the  *)
(* disk because of one, makes a call write over a document that it was not *)
(* asked to update.                                                        *)
OnlyUpdatesOverwrite ==
  [][\A s \in Namespaces, n \in Names :
       Whole(fs[s][n]) /\ IsFile(fs'[s][n]) /\ fs'[s][n] # fs[s][n] =>
         \E t \in Threads :
           \/ pc'[t] \in {"update", "upsert"} /\ name'[t] = n
           \/ pc[t] = "update" /\ name[t] = n]_vars
=============================================================================
