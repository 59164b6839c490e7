-------------------------------- MODULE Kvdb --------------------------------
(***************************************************************************)
(* The key-value database manager: KVDBManager, its KVDBHandlerCollection  *)
(* and the KVDBHandler objects, driven by the worker threads of the API    *)
(* server (api/kvdb/src/handlers.cpp).                                     *)
(*                                                                         *)
(* A step is one access to shared state: one look-up or update of          *)
(* mapCFHandles_, one critical section of the collection's mutex, or one   *)
(* RocksDB call.  What a thread reads in one step may be stale in its next *)
(* one: nothing but the collection is protected by a lock.                 *)
(***************************************************************************)
EXTENDS Integers, FiniteSets

CONSTANTS
  Threads,    (* worker threads of the API server                          *)
  Admins,     (* those that may serve create and delete requests           *)
  Names,      (* database names, which are RocksDB column family names     *)
  NoName,     (* the name of no database                                   *)
  Scopes,     (* scope names under which handlers are registered           *)
  NoScope,    (* the scope of a thread that has no handler                 *)
  Keys,       (* keys of the databases                                     *)
  MaxCF       (* bound on the column families created in one behaviour     *)

ASSUME ThreadsAssumption == IsFiniteSet(Threads) /\ Admins \subseteq Threads
ASSUME NamesAssumption   == NoName \notin Names /\ NoScope \notin Scopes
ASSUME MaxCFAssumption   == MaxCF \in Nat

None == 0
CF   == 1..MaxCF      (* one number for every column family ever created *)
MaybeCF == CF \union {None}

(* An empty shared_ptr in the map, where operator[] did not find the name. *)
Null == -1
Handle == MaybeCF \union {Null}

VARIABLES
  up,         (* isInitialized_                                            *)
  mapCF,      (* mapCFHandles_: the column family the manager holds        *)
  instances,  (* domain of mapInstances_                                   *)
  cnt,        (* the counters of every KVDBHandlerInstance, by scope       *)
  rocks,      (* RocksDB: the live column family of every name             *)
  data,       (* RocksDB: the keys of every column family                  *)
  nextCF,     (* the next column family number                             *)
  pc,         (* where every thread is in its request                      *)
  db, scope,  (* arguments of the request                                  *)
  cf,         (* its cfHandle: a strong reference at StrongPcs, otherwise  *)
              (* the weak reference weakCFHandle_ of its handler           *)
  file,       (* createDB was given the path of a JSON file                *)
  todo,       (* keys of the file not stored yet                           *)
  made,       (* the column family this request created                    *)
  blockers    (* history: threads that had a handler of the same database  *)
              (* when deleteDB began, and have had it ever since           *)

manager == <<up, mapCF>>
collection == <<instances, cnt>>
rocksdb == <<rocks, data, nextCF>>
locals == <<db, scope, cf, file, todo, made, blockers>>
vars == <<manager, collection, rocksdb, pc, locals>>

UsePcs    == {"get", "getCopy", "addShared", "addUnique", "open", "op", "close"}
CreatePcs == {"createExists", "createCF", "emplace", "load", "loadCopy", "loadPut"}
DeletePcs == {"delNames", "delRefs", "delFind", "delDrop", "delErase"}
Pcs       == {"idle"} \union UsePcs \union CreatePcs \union DeletePcs
StrongPcs == {"addShared", "addUnique", "op", "loadPut", "delDrop", "delErase"}
RocksPcs  == {"op", "emplace", "loadPut", "delErase"}

(* Threads whose handler is registered with the collection. *)
Registered(t) == pc[t] \in {"open", "op", "close"}

(* Some shared_ptr to the handle of column family c exists. *)
Alive(c) ==
  /\ c \in CF
  /\ \/ \E n \in Names : mapCF[n] = c
     \/ \E t \in Threads : pc[t] \in StrongPcs /\ cf[t] = c

(* getKVDBHandlersCount(d) is not zero. *)
InUse_EveryScope(d) ==                      \* mutant: one idle scope is enough
  d \in instances /\ \A s \in Scopes : cnt[d][s] > 0
InUse(d) == d \in instances /\ \E s \in Scopes : cnt[d][s] > 0

Init ==
  /\ up = FALSE
  /\ mapCF = [n \in Names |-> None]
  /\ instances = {}
  /\ cnt = [n \in Names |-> [s \in Scopes |-> 0]]
  /\ rocks = [n \in Names |-> None]
  /\ data = [c \in CF |-> {}]
  /\ nextCF = 1
  /\ pc = [t \in Threads |-> "idle"]
  /\ db = [t \in Threads |-> NoName]
  /\ scope = [t \in Threads |-> NoScope]
  /\ cf = [t \in Threads |-> None]
  /\ file = [t \in Threads |-> FALSE]
  /\ todo = [t \in Threads |-> {}]
  /\ made = [t \in Threads |-> None]
  /\ blockers = [t \in Threads |-> {}]

-----------------------------------------------------------------------------
(* Control flow.  A request that returns loses its locals. *)

Goto(t, label) == pc' = [pc EXCEPT ![t] = label]

Return(t) ==
  /\ Goto(t, "idle")
  /\ db' = [db EXCEPT ![t] = NoName]
  /\ scope' = [scope EXCEPT ![t] = NoScope]
  /\ cf' = [cf EXCEPT ![t] = None]
  /\ file' = [file EXCEPT ![t] = FALSE]
  /\ todo' = [todo EXCEPT ![t] = {}]
  /\ made' = [made EXCEPT ![t] = None]
  /\ blockers' = [u \in Threads |-> IF u = t THEN {} ELSE blockers[u] \ {t}]

SetCF(t, c) ==
  /\ cf' = [cf EXCEPT ![t] = c]
  /\ UNCHANGED <<db, scope, file, todo, made, blockers>>

(* cfHandle = mapCFHandles_[name], which puts an empty handle where there  *)
(* is none.                                                                *)
Indexed(d) == IF mapCF[d] = None THEN Null ELSE mapCF[d]

Subscript(t) ==
  /\ mapCF' = [mapCF EXCEPT ![db[t]] = Indexed(db[t])]
  /\ SetCF(t, Indexed(db[t]))

-----------------------------------------------------------------------------
(* Start and stop of the manager. *)

(* initialize(): every column family RocksDB lists is opened. *)
Initialize ==
  /\ ~up
  /\ up' = TRUE
  /\ mapCF' = rocks
  /\ UNCHANGED <<collection, rocksdb, pc, locals>>

(* finalize(), called once the API server has stopped: no thread is inside *)
(* the manager, but handlers may outlive the database they were opened on. *)
Finalize ==
  /\ up
  /\ \A t \in Threads : pc[t] \in {"idle", "open", "close"}
  /\ up' = FALSE
  /\ mapCF' = [n \in Names |-> None]
  /\ cf' = [t \in Threads |-> None]
  /\ UNCHANGED <<collection, rocksdb, pc, db, scope, file, todo, made, blockers>>

(* The process dies, at any point; RocksDB keeps what was written. *)
Crash ==
  /\ up
  /\ up' = FALSE
  /\ mapCF' = [n \in Names |-> None]
  /\ instances' = {}
  /\ cnt' = [n \in Names |-> [s \in Scopes |-> 0]]
  /\ pc' = [t \in Threads |-> "idle"]
  /\ db' = [t \in Threads |-> NoName]
  /\ scope' = [t \in Threads |-> NoScope]
  /\ cf' = [t \in Threads |-> None]
  /\ file' = [t \in Threads |-> FALSE]
  /\ todo' = [t \in Threads |-> {}]
  /\ made' = [t \in Threads |-> None]
  /\ blockers' = [t \in Threads |-> {}]
  /\ UNCHANGED rocksdb

-----------------------------------------------------------------------------
(* The collection of registered handlers. *)

(* RefCounter::addRef on the counter of scope s in the instance of d; an   *)
(* instance that try_emplace creates starts with no scopes.                *)
AddScope(d, s) ==
  /\ instances' = instances \union {d}
  /\ cnt' = [cnt EXCEPT ![d][s] = @ + 1]

(* RefCounter::removeRef, then the instance goes with its last scope. *)
RemoveScope(d, s) ==
  LET left == [cnt[d] EXCEPT ![s] = IF @ = 0 THEN 0 ELSE @ - 1]
  IN  IF d \in instances
      THEN /\ cnt' = [cnt EXCEPT ![d] = left]
           /\ instances' = IF \A r \in Scopes : left[r] = 0
                           THEN instances \ {d} ELSE instances
      ELSE UNCHANGED collection

-----------------------------------------------------------------------------
(* dbGet, dbPut, dbDelete, dbSearch and managerDump: existsDB,             *)
(* getKVDBHandler, one operation, and the handler dies with the request.   *)

(* existsDB; when it fails the request ends and nothing has changed. *)
UseExists(t, d, s) ==
  /\ up /\ pc[t] = "idle"
  /\ mapCF[d] # None
  /\ Goto(t, "get")
  /\ db' = [db EXCEPT ![t] = d]
  /\ scope' = [scope EXCEPT ![t] = s]
  /\ UNCHANGED <<manager, collection, rocksdb, cf, file, todo, made, blockers>>

(* getKVDBHandler counts the name ... *)
GetLookup(t) ==
  /\ pc[t] = "get"
  /\ IF mapCF[db[t]] = None
     THEN Return(t)
     ELSE Goto(t, "getCopy") /\ UNCHANGED locals
  /\ UNCHANGED <<manager, collection, rocksdb>>

(* ... and then copies the shared_ptr that it finds under it. *)
GetCopy(t) ==
  /\ pc[t] = "getCopy"
  /\ Subscript(t)
  /\ Goto(t, "addShared")
  /\ UNCHANGED <<up, collection, rocksdb>>

(* addKVDBHandler under the shared lock, when the instance is there.  The  *)
(* handler is then built, and the strong reference goes with the call.     *)
AddShared(t) ==
  /\ pc[t] = "addShared"
  /\ IF db[t] \in instances
     THEN AddScope(db[t], scope[t]) /\ Goto(t, "open")
     ELSE Goto(t, "addUnique") /\ UNCHANGED collection
  /\ UNCHANGED <<manager, rocksdb, locals>>

(* addKVDBHandler under the unique lock; another thread may have created   *)
(* the instance since the shared lock was released.                        *)
AddUnique_Replaces(t) ==                    \* mutant: insert_or_assign
  /\ pc[t] = "addUnique"
  /\ instances' = instances \union {db[t]}
  /\ cnt' = [cnt EXCEPT ![db[t]] = [s \in Scopes |-> IF s = scope[t] THEN 1 ELSE 0]]
  /\ Goto(t, "open")
  /\ UNCHANGED <<manager, rocksdb, locals>>

AddUnique(t) ==
  /\ pc[t] = "addUnique"
  /\ AddScope(db[t], scope[t])
  /\ Goto(t, "open")
  /\ UNCHANGED <<manager, rocksdb, locals>>

(* An operation of the handler locks weakDB_ and weakCFHandle_, or fails. *)
OpLock(t) ==
  /\ pc[t] = "open"
  /\ Goto(t, IF Alive(cf[t]) THEN "op" ELSE "close")
  /\ UNCHANGED <<manager, collection, rocksdb, locals>>

(* set and add.  RocksDB may fail the call; a write through the handle of  *)
(* a dropped column family fails or goes where nobody will read it.        *)
OpSet(t, k) ==
  /\ pc[t] = "op"
  /\ data' \in {data, [data EXCEPT ![cf[t]] = @ \union {k}]}
  /\ Goto(t, "close")
  /\ UNCHANGED <<manager, collection, rocks, nextCF, locals>>

OpRemove(t, k) ==
  /\ pc[t] = "op"
  /\ data' \in {data, [data EXCEPT ![cf[t]] = @ \ {k}]}
  /\ Goto(t, "close")
  /\ UNCHANGED <<manager, collection, rocks, nextCF, locals>>

(* get, contains, dump and search change nothing. *)
OpRead(t) ==
  /\ pc[t] = "op"
  /\ Goto(t, "close")
  /\ UNCHANGED <<manager, collection, rocksdb, locals>>

(* ~KVDBHandler: removeKVDBHandler under the unique lock. *)
Close(t) ==
  /\ pc[t] = "close"
  /\ RemoveScope(db[t], scope[t])
  /\ Return(t)
  /\ UNCHANGED <<manager, rocksdb>>

-----------------------------------------------------------------------------
(* managerDelete, and deleteDB, which createDB also calls to roll back. *)

DeleteExists(t, d) ==
  /\ up /\ pc[t] = "idle" /\ t \in Admins
  /\ mapCF[d] # None
  /\ Goto(t, "delNames")
  /\ db' = [db EXCEPT ![t] = d]
  /\ UNCHANGED <<manager, collection, rocksdb, scope, cf, file, todo, made, blockers>>

(* getKVDBHandlersInfo: getDBNames first ... *)
DelNames(t) ==
  /\ pc[t] = "delNames"
  /\ Goto(t, IF db[t] \in instances THEN "delRefs" ELSE "delFind")
  /\ blockers' = [blockers EXCEPT ![t] =
                    {u \in Threads : Registered(u) /\ db[u] = db[t]}]
  /\ UNCHANGED <<manager, collection, rocksdb, db, scope, cf, file, todo, made>>

(* ... then the counters of each name, under a lock taken again. *)
DelRefs(t) ==
  /\ pc[t] = "delRefs"
  /\ IF InUse(db[t])
     THEN Return(t)
     ELSE Goto(t, "delFind") /\ UNCHANGED locals
  /\ UNCHANGED <<manager, collection, rocksdb>>

DelFind(t) ==
  /\ pc[t] = "delFind"
  /\ IF mapCF[db[t]] = None
     THEN Return(t)
     ELSE Goto(t, "delDrop") /\ SetCF(t, mapCF[db[t]])
  /\ UNCHANGED <<manager, collection, rocksdb>>

(* DropColumnFamily fails on a column family already dropped, and may fail *)
(* otherwise; deleteDB then returns and leaves the map alone.  An empty    *)
(* handle is a null pointer to DropColumnFamily: only Crash is left.       *)
DelDrop_Ignored(t) ==                       \* mutant: the status not looked at
  /\ pc[t] = "delDrop" /\ cf[t] # Null
  /\ rocks' \in {rocks, [rocks EXCEPT ![db[t]] = IF @ = cf[t] THEN None ELSE @]}
  /\ Goto(t, "delErase")
  /\ UNCHANGED <<manager, collection, data, nextCF, locals>>

DelDrop(t) ==
  /\ pc[t] = "delDrop" /\ cf[t] # Null
  /\ \/ /\ rocks[db[t]] = cf[t]
        /\ rocks' = [rocks EXCEPT ![db[t]] = None]
        /\ Goto(t, "delErase")
        /\ UNCHANGED locals
     \/ /\ Return(t)
        /\ UNCHANGED rocks
  /\ UNCHANGED <<manager, collection, data, nextCF>>

(* mapCFHandles_.erase(it) *)
DelErase(t) ==
  /\ pc[t] = "delErase"
  /\ mapCF' = [mapCF EXCEPT ![db[t]] = None]
  /\ Return(t)
  /\ UNCHANGED <<up, collection, rocksdb>>

-----------------------------------------------------------------------------
(* managerPost, and both createDB.  A file that cannot be read or parsed   *)
(* ends the request before anything has changed.                           *)

PostExists_Unchecked(t, d, withFile, keys) ==  \* mutant: no existsDB
  /\ up /\ pc[t] = "idle" /\ t \in Admins
  /\ withFile \/ keys = {}
  /\ Goto(t, "createExists")
  /\ db' = [db EXCEPT ![t] = d]
  /\ file' = [file EXCEPT ![t] = withFile]
  /\ todo' = [todo EXCEPT ![t] = keys]
  /\ UNCHANGED <<manager, collection, rocksdb, scope, cf, made, blockers>>

PostExists(t, d, withFile, keys) ==
  /\ up /\ pc[t] = "idle" /\ t \in Admins
  /\ mapCF[d] = None
  /\ withFile \/ keys = {}
  /\ Goto(t, "createExists")
  /\ db' = [db EXCEPT ![t] = d]
  /\ file' = [file EXCEPT ![t] = withFile]
  /\ todo' = [todo EXCEPT ![t] = keys]
  /\ UNCHANGED <<manager, collection, rocksdb, scope, cf, made, blockers>>

(* Where createDB goes on when the database is there. *)
Created(t) == IF file[t] THEN Goto(t, "load") /\ UNCHANGED locals ELSE Return(t)

(* createDB(name): a database that exists is not an error. *)
CreateExists(t) ==
  /\ pc[t] = "createExists"
  /\ IF mapCF[db[t]] # None
     THEN Created(t)
     ELSE Goto(t, "createCF") /\ UNCHANGED locals
  /\ UNCHANGED <<manager, collection, rocksdb>>

(* createColumnFamily: RocksDB refuses a name it has, and may fail. *)
CreateCF(t) ==
  /\ pc[t] = "createCF"
  /\ \/ /\ rocks[db[t]] = None
        /\ nextCF <= MaxCF
        /\ rocks' = [rocks EXCEPT ![db[t]] = nextCF]
        /\ nextCF' = nextCF + 1
        /\ cf' = [cf EXCEPT ![t] = nextCF]
        /\ made' = [made EXCEPT ![t] = nextCF]
        /\ Goto(t, "emplace")
        /\ UNCHANGED <<db, scope, file, todo, blockers>>
     \/ /\ Return(t)
        /\ UNCHANGED <<rocks, nextCF>>
  /\ UNCHANGED <<manager, collection, data>>

(* mapCFHandles_.emplace does nothing when the name is in the map. *)
Emplace_Assigns(t) ==                       \* mutant: operator[]
  /\ pc[t] = "emplace"
  /\ mapCF' = [mapCF EXCEPT ![db[t]] = cf[t]]
  /\ Created(t)
  /\ UNCHANGED <<up, collection, rocksdb>>

Emplace(t) ==
  /\ pc[t] = "emplace"
  /\ mapCF' = IF mapCF[db[t]] = None
              THEN [mapCF EXCEPT ![db[t]] = cf[t]] ELSE mapCF
  /\ Created(t)
  /\ UNCHANGED <<up, collection, rocksdb>>

(* createDB(name, path) calls deleteDB(name) when loading fails. *)
RollBack_Forgotten(t) == Return(t)          \* mutant: the error only
RollBack(t) == Goto(t, "delNames") /\ SetCF(t, None)

(* loadDBFromJson counts the name, ... *)
LoadLookup(t) ==
  /\ pc[t] = "load"
  /\ IF mapCF[db[t]] = None
     THEN RollBack(t)
     ELSE Goto(t, "loadCopy") /\ UNCHANGED locals
  /\ UNCHANGED <<manager, collection, rocksdb>>

(* ... copies the shared_ptr, which it finds empty or not, ... *)
LoadCopy_Unchecked(t) ==                    \* mutant: if (!cfHandle) dropped
  /\ pc[t] = "loadCopy"
  /\ Subscript(t)
  /\ Goto(t, "loadPut")
  /\ UNCHANGED <<up, collection, rocksdb>>

LoadCopy(t) ==
  /\ pc[t] = "loadCopy"
  /\ IF Indexed(db[t]) = Null
     THEN /\ mapCF' = [mapCF EXCEPT ![db[t]] = Null]
          /\ RollBack(t)
     ELSE Subscript(t) /\ Goto(t, "loadPut")
  /\ UNCHANGED <<up, collection, rocksdb>>

(* ... and stores one entry after another, until one fails. *)
LoadPut(t) ==
  /\ pc[t] = "loadPut"
  /\ \/ /\ todo[t] = {}
        /\ Return(t)
        /\ UNCHANGED data
     \/ \E k \in todo[t] :
          /\ data' = [data EXCEPT ![cf[t]] = @ \union {k}]
          /\ todo' = [todo EXCEPT ![t] = @ \ {k}]
          /\ UNCHANGED <<pc, db, scope, cf, file, made, blockers>>
     \/ /\ todo[t] # {}
        /\ RollBack(t)
        /\ UNCHANGED data
  /\ UNCHANGED <<manager, collection, rocks, nextCF>>

-----------------------------------------------------------------------------
Use(t) ==
  \/ \E d \in Names, s \in Scopes : UseExists(t, d, s)
  \/ GetLookup(t) \/ GetCopy(t) \/ AddShared(t) \/ AddUnique(t)
  \/ OpLock(t) \/ OpRead(t) \/ Close(t)
  \/ \E k \in Keys : OpSet(t, k) \/ OpRemove(t, k)

Delete(t) ==
  \/ \E d \in Names : DeleteExists(t, d)
  \/ DelNames(t) \/ DelRefs(t) \/ DelFind(t) \/ DelDrop(t) \/ DelErase(t)

Create(t) ==
  \/ \E d \in Names, withFile \in BOOLEAN, keys \in SUBSET Keys :
       PostExists(t, d, withFile, keys)
  \/ CreateExists(t) \/ CreateCF(t) \/ Emplace(t)
  \/ LoadLookup(t) \/ LoadCopy(t) \/ LoadPut(t)

Next ==
  \/ Initialize \/ Finalize \/ Crash
  \/ \E t \in Threads : Use(t) \/ Delete(t) \/ Create(t)

Spec == Init /\ [][Next]_vars

-----------------------------------------------------------------------------
(* Properties *)

ManagerTypeOK ==
  /\ up \in BOOLEAN
  /\ mapCF \in [Names -> Handle]
  /\ instances \subseteq Names
  /\ cnt \in [Names -> [Scopes -> Nat]]

RocksTypeOK ==
  /\ rocks \in [Names -> MaybeCF]
  /\ data \in [CF -> SUBSET Keys]
  /\ nextCF \in 1..(MaxCF + 1)

RequestTypeOK ==
  /\ pc \in [Threads -> Pcs]
  /\ db \in [Threads -> Names \union {NoName}]
  /\ scope \in [Threads -> Scopes \union {NoScope}]
  /\ cf \in [Threads -> Handle]
  /\ file \in [Threads -> BOOLEAN]
  /\ todo \in [Threads -> SUBSET Keys]
  /\ made \in [Threads -> MaybeCF]
  /\ blockers \in [Threads -> SUBSET Threads]

(* A thread in a request has the arguments that the request needs. *)
ArgumentsOK ==
  \A t \in Threads :
    /\ pc[t] # "idle" => db[t] \in Names
    /\ pc[t] \in UsePcs => scope[t] \in Scopes
    /\ pc[t] \in StrongPcs => cf[t] # None
    /\ pc[t] \in RocksPcs => cf[t] \in CF

TypeOK == ManagerTypeOK /\ RocksTypeOK /\ RequestTypeOK /\ ArgumentsOK

Holders(d, s) == {t \in Threads : Registered(t) /\ db[t] = d /\ scope[t] = s}

(* The counters are exact: whatever the interleaving of the two phases of  *)
(* addKVDBHandler with removeKVDBHandler, the count of a scope on a        *)
(* database is the number of its handlers, and an instance lives exactly   *)
(* as long as one of its counters is not zero.                             *)
RefCountExact ==
  /\ \A d \in Names, s \in Scopes : cnt[d][s] = Cardinality(Holders(d, s))
  /\ \A d \in Names : d \in instances <=> \E s \in Scopes : cnt[d][s] # 0

(* A handler that was open when deleteDB began to count, and still is,     *)
(* keeps it from dropping the database, although the names and the counts  *)
(* are read under two locks and the column family is dropped under none.   *)
HandlerBlocksDelete ==
  \A t \in Threads :
    pc[t] \in {"delFind", "delDrop", "delErase"} => blockers[t] = {}

(* The map names a column family that is gone only while one deleteDB is   *)
(* between DropColumnFamily and erase; and the iterator that deleteDB      *)
(* erases is still the entry it found, not one put there meanwhile.        *)
DroppedOnlyMidDelete ==
  /\ \A n \in Names :
       mapCF[n] \in CF /\ rocks[n] # mapCF[n] =>
         \E t \in Threads : pc[t] = "delErase" /\ db[t] = n
  /\ \A t \in Threads : pc[t] = "delErase" => mapCF[db[t]] = cf[t]

(* Every column family of RocksDB can be reached through the map, except   *)
(* while createColumnFamily is between RocksDB and the map, and unless a   *)
(* request that found the name just before it went has put an empty handle *)
(* there.  (It takes create and delete requests served one at a time.)     *)
NoOrphan ==
  up => \A n \in Names :
    rocks[n] # None /\ mapCF[n] \notin {rocks[n], Null} =>
      \E t \in Threads : pc[t] = "emplace" /\ cf[t] = rocks[n]

(* The rollback of a create request drops the column family that request   *)
(* created and no other, although it goes by name and createDB takes a     *)
(* database that exists for a success.  (One administrator.)               *)
RollbackDropsOwn ==
  \A t \in Threads : file[t] /\ pc[t] = "delDrop" => cf[t] \in {made[t], Null}

(* A create request whose file could not be loaded leaves no database      *)
(* behind, unless a handler of it was opened meanwhile, RocksDB refuses to *)
(* drop it, or the map has an empty handle for it.  (One administrator.)   *)
FailedPostLeavesNothing ==
  [][\A t \in Threads :
       /\ file[t] /\ todo[t] # {}
       /\ pc'[t] = "idle" /\ pc[t] # "delDrop" /\ up'
       => rocks'[db[t]] = None \/ InUse(db[t]) \/ mapCF[db[t]] = Null]_vars

(* "This is used to track how many scopes are using a given DB": a count   *)
(* that is not zero on a database the manager has means that some handler  *)
(* uses this database, not an earlier one of the same name.  (A handler    *)
(* that finalize cut off has no database at all.)                          *)
CountsUsers ==
  \A d \in Names :
    mapCF[d] \in CF /\ InUse(d) =>
      \E t \in Threads :
        Registered(t) /\ db[t] = d /\ cf[t] \in {mapCF[d], None}
=============================================================================
