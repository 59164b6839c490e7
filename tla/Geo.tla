-------------------------------- MODULE Geo ---------------------------------
(***************************************************************************)
(* The geo databases: class Manager, the DbEntry objects it shares with    *)
(* the Locators, and the internal documents by which it finds its          *)
(* databases again after a restart.                                        *)
(*                                                                         *)
(* A call of the manager holds rwMapMutex_ from its first step to its last *)
(* and only one runs at a time.  Locators know nothing of that mutex: they *)
(* meet the manager at the mutex of the entry, and keep entries alive.     *)
(***************************************************************************)
EXTENDS Naturals

CONSTANTS
  Types,        (* geo::Type                                               *)
  Paths,        (* paths of database files                                 *)
  Names,        (* the file names of the paths                             *)
  NameOf,       (* path -> filename().string()                             *)
  Contents,     (* contents that a server may offer, also used as hashes   *)
  Valid,        (* contents that MMDB_open accepts                         *)
  Junk,         (* content of a file whose writing failed half way         *)
  NoFile,       (* content of a file that is not there                     *)
  Entries,      (* identities of DbEntry objects                           *)
  Locators,     (* Locator objects, each used by one thread                *)
  Ips,          (* addresses looked up                                     *)
  MaxRetries,   (* MAX_RETRIES                                             *)
  Faults,       (* what may happen: "crash", "download" and "mismatch" (a  *)
                (* server fails, offers something else), "write", "store"  *)
  NoName, NoEntry, Gone, NoDoc, Torn, NoType, NoContent, NoIp, Closed

ASSUME NamesAssumption == NameOf \in [Paths -> Names] /\ NoName \notin Names
ASSUME ValuesAssumption ==
  /\ Valid \subseteq Contents
  /\ {Junk, NoFile, NoContent} \intersect Contents = {}
  /\ NoEntry \notin Entries
  /\ Closed \notin Paths
ASSUME RetriesAssumption == MaxRetries \in Nat \ {0}

Record == [path : Paths, hash : Contents \union {Junk}, type : Types]
Entry  == [path : Paths, type : Types, map : Paths \union {Closed}]

ASSUME ObjectsAssumption ==
  NoDoc \notin Record /\ Torn \notin Record /\ NoDoc # Torn /\ Gone \notin Entry

VARIABLES
  files,    (* the file system: the content at every path                  *)
  docs,     (* the internal documents "geo/<name>"                         *)
  dbs,      (* dbs_: name -> entry                                         *)
  dbTypes,  (* dbTypes_: type -> name                                      *)
  entries,  (* the DbEntry objects; `map' is the path that mmdb has mapped *)
  op,       (* the running call of the manager, its arguments and locals   *)
  weak,     (* weakDbEntry_ of every locator                               *)
  cached,   (* cachedIp_, and the content cachedResult_ was computed from  *)
  lpc, lip  (* where a locator is in its call, and the address it asks for *)

disk     == <<files, docs>>
maps     == <<dbs, dbTypes>>
locators == <<weak, cached, lpc, lip>>
vars     == <<disk, maps, entries, op, locators>>

Idle == [pc |-> "idle", path |-> NoName, type |-> NoType, hash |-> NoContent,
         content |-> NoContent, tries |-> 0, error |-> "none", held |-> NoEntry]
Uncached == [ip |-> NoIp, from |-> NoContent]

Init ==
  /\ files \in [Paths -> Contents \union {NoFile}]
  /\ docs = [n \in Names |-> NoDoc]
  /\ dbs = [n \in Names |-> NoEntry]
  /\ dbTypes = [t \in Types |-> NoName]
  /\ entries = [e \in Entries |-> Gone]
  /\ op = Idle
  /\ weak = [l \in Locators |-> NoEntry]
  /\ cached = [l \in Locators |-> Uncached]
  /\ lpc = [l \in Locators |-> "none"]
  /\ lip = [l \in Locators |-> NoIp]

-----------------------------------------------------------------------------
(* Entries.  An object lives while somebody has a shared_ptr to it, and    *)
(* its identity is used again only when no weak_ptr remembers it.          *)

Holds(l, e)  == lpc[l] # "none" /\ weak[l] = e
Reading(e)   == \E l \in Locators : lpc[l] = "read" /\ weak[l] = e
Managed(e)   == \E n \in Names : dbs[n] = e
Fresh        == {e \in Entries : entries[e] = Gone /\ \A l \in Locators : weak[l] # e}

(* Somebody else than locator l has a reference: use_count() > 1. *)
SharedWith(l, e) ==
  Managed(e) \/ op.held = e \/ \E m \in Locators \ {l} : Holds(m, e)

Destroy(e) == entries' = [entries EXCEPT ![e] = Gone]

-----------------------------------------------------------------------------
(* Calls of the manager.  One that fails before it has changed anything    *)
(* has no step.                                                            *)

Name == NameOf[op.path]
Start(label, p, t) == op' = [Idle EXCEPT !.pc = label, !.path = p, !.type = t]
Goto(label) == op' = [op EXCEPT !.pc = label]
Return      == op' = Idle

(* addDbUnsafe, without the document. *)
CanAdd_TypeUsed(p, t) ==                    \* mutant: first check dropped
  dbs[NameOf[p]] = NoEntry /\ files[p] \in Valid
CanAdd_Unopened(p, t) ==                    \* mutant: status ignored
  dbTypes[t] = NoName /\ dbs[NameOf[p]] = NoEntry
CanAdd(p, t) ==
  /\ dbTypes[t] = NoName
  /\ dbs[NameOf[p]] = NoEntry
  /\ files[p] \in Valid

Add(p, t) ==
  \E e \in Fresh :
    /\ dbs' = [dbs EXCEPT ![NameOf[p]] = e]
    /\ dbTypes' = [dbTypes EXCEPT ![t] = NameOf[p]]
    /\ entries' = [entries EXCEPT ![e] = [path |-> p, type |-> t, map |-> p]]

AddDb(p, t) ==
  /\ op = Idle
  /\ CanAdd(p, t)
  /\ Add(p, t)
  /\ Start("store", p, t)
  /\ UNCHANGED <<disk, locators>>

(* upsertStoreEntry: its failure is only logged, here and below. *)
Document_NewType ==                         \* mutant: the type asked for
  [path |-> op.path, hash |-> files[op.path], type |-> op.type]
Document ==
  [path |-> op.path, hash |-> files[op.path], type |-> entries[dbs[Name]].type]

StoreEntry ==
  /\ op.pc = "store"
  /\ \/ docs' = [docs EXCEPT ![Name] = Document]
     \/ "store" \in Faults /\ docs' \in {docs, [docs EXCEPT ![Name] = Torn]}
  /\ Return
  /\ UNCHANGED <<files, maps, entries, locators>>

(* removeDbUnsafe takes a reference to the entry ... *)
RemoveDb(p) ==
  /\ op = Idle
  /\ dbs[NameOf[p]] # NoEntry
  /\ op' = [Idle EXCEPT !.pc = "remove", !.path = p, !.held = dbs[NameOf[p]]]
  /\ UNCHANGED <<disk, maps, entries, locators>>

(* ... and erases it from dbs_ under the unique lock of the entry ... *)
EraseDb ==
  /\ op.pc = "remove"
  /\ ~Reading(op.held)
  /\ dbs' = [dbs EXCEPT ![Name] = NoEntry]
  /\ Goto("reset")
  /\ UNCHANGED <<disk, dbTypes, entries, locators>>

(* ... drops its reference and erases the type ... *)
EraseType ==
  dbTypes' = [t \in Types |-> IF dbTypes[t] = Name THEN NoName ELSE dbTypes[t]]

ResetEntry ==
  /\ op.pc = "reset"
  /\ op' = [op EXCEPT !.pc = "forget", !.held = NoEntry]
  /\ \/ (\E l \in Locators : Holds(l, op.held)) /\ UNCHANGED entries
     \/ (\A l \in Locators : ~Holds(l, op.held)) /\ Destroy(op.held)
  /\ EraseType
  /\ UNCHANGED <<disk, dbs, locators>>

(* ... and deletes the document. *)
ForgetEntry ==
  /\ op.pc = "forget"
  /\ \/ docs' = [docs EXCEPT ![Name] = NoDoc]
     \/ "store" \in Faults /\ UNCHANGED docs
  /\ Return
  /\ UNCHANGED <<files, maps, entries, locators>>

-----------------------------------------------------------------------------
(* remoteUpsertDb *)

(* The stored hash is the published one.  A torn document has no hash, and *)
(* asking for its value throws.                                            *)
UpToDate(n, h) ==
  /\ dbs[n] # NoEntry
  /\ docs[n] # NoDoc
  /\ docs[n] = Torn \/ docs[n].hash = h

RemoteUpsert(p, t, h) ==
  /\ op = Idle
  /\ dbTypes[t] \in {NoName, NameOf[p]}
  /\ ~UpToDate(NameOf[p], h)
  /\ op' = [Idle EXCEPT !.pc = "download", !.path = p, !.type = t, !.hash = h]
  /\ UNCHANGED <<disk, maps, entries, locators>>

Retry(c, x) ==
  op' = [op EXCEPT !.tries = op.tries + 1, !.content = c, !.error = x]

DownloadFails_Silently ==                   \* mutant: error not kept
  "download" \in Faults /\ Retry(op.content, op.error)
DownloadFails == "download" \in Faults /\ Retry(op.content, "failed")

(* One round of the loop.  A wrong hash leaves `error' as it was; a hash   *)
(* that cannot be computed throws.                                         *)
Download ==
  /\ op.pc = "download"
  /\ op.tries < MaxRetries
  /\ \/ DownloadFails
     \/ "download" \in Faults /\ Return
     \/ \E c \in Contents \ {op.hash} :
          "mismatch" \in Faults /\ Retry(c, op.error)
     \/ op' = [op EXCEPT !.pc = "install", !.content = op.hash, !.error = "none"]
  /\ UNCHANGED <<disk, maps, entries, locators>>

(* The loop has ended without a break. *)
EndRetries ==
  /\ op.pc = "download"
  /\ op.tries = MaxRetries
  /\ IF op.error = "failed" THEN Return ELSE Goto("install")
  /\ UNCHANGED <<disk, maps, entries, locators>>

(* writeDb writes over the file in place, and does not notice a failure of *)
(* the write itself.                                                       *)
Written(c) == {c} \union (IF "write" \in Faults THEN {Junk} ELSE {})
WriteDb(x) == files' = [files EXCEPT ![op.path] = x]

WriteFails ==
  /\ op.pc = "install"
  /\ "write" \in Faults
  /\ Return
  /\ UNCHANGED <<disk, maps, entries, locators>>

(* The name is known: under the unique lock of its entry the file is       *)
(* written and the database closed and opened again; when that fails the   *)
(* entry is unlocked first and removed afterwards.                         *)
Map(e, m) == entries' = [entries EXCEPT ![e].map = m]

Replaceable_Unlocked(e) == e # NoEntry      \* mutant: lockEntry forgotten
Replaceable(e) == e # NoEntry /\ ~Reading(e)

ReplaceDb ==
  /\ op.pc = "install"
  /\ Replaceable(dbs[Name])
  /\ \E x \in Written(op.content) :
       /\ WriteDb(x)
       /\ \/ x \in Valid /\ Map(dbs[Name], op.path) /\ Goto("store")
          \/ /\ x \notin Valid
             /\ Map(dbs[Name], Closed)
             /\ op' = [op EXCEPT !.pc = "remove", !.held = dbs[Name]]
  /\ UNCHANGED <<docs, maps, locators>>

(* The name is new: the database is added like any other. *)
InstallDb ==
  /\ op.pc = "install"
  /\ dbs[Name] = NoEntry
  /\ \E x \in Written(op.content) :
       /\ WriteDb(x)
       /\ \/ /\ x \in Valid /\ dbTypes[op.type] = NoName
             /\ Add(op.path, op.type)
             /\ Goto("store")
          \/ /\ x \notin Valid \/ dbTypes[op.type] # NoName
             /\ Return
             /\ UNCHANGED <<maps, entries>>
  /\ UNCHANGED <<docs, locators>>

-----------------------------------------------------------------------------
(* Locators *)

GetLocator(l, t) ==
  /\ op = Idle
  /\ lpc[l] = "none"
  /\ dbTypes[t] # NoName
  /\ weak' = [weak EXCEPT ![l] = dbs[dbTypes[t]]]
  /\ cached' = [cached EXCEPT ![l] = Uncached]
  /\ UNCHANGED <<disk, maps, entries, op, lpc, lip>>

(* weakDbEntry_.lock() *)
LockWeak(l, ip) ==
  /\ lpc[l] = "none"
  /\ weak[l] # NoEntry
  /\ entries[weak[l]] # Gone
  /\ lpc' = [lpc EXCEPT ![l] = "have"]
  /\ lip' = [lip EXCEPT ![l] = ip]
  /\ UNCHANGED <<disk, maps, entries, op, weak, cached>>

(* The call ends: its lock, and then its reference, are released. *)
Leave(l) ==
  /\ lpc' = [lpc EXCEPT ![l] = "none"]
  /\ lip' = [lip EXCEPT ![l] = NoIp]
  /\ \/ SharedWith(l, weak[l]) /\ UNCHANGED entries
     \/ ~SharedWith(l, weak[l]) /\ Destroy(weak[l])
  /\ UNCHANGED <<disk, maps, op, weak, cached>>

(* The content a look-up in entry e reads. *)
Served(e) == IF entries[e].map = Closed THEN NoContent ELSE files[entries[e].map]

(* Under the shared lock of the entry: the reference is looked at again,   *)
(* and lookup() finds the address in its cache or asks the database.       *)
Lookup(l) ==
  /\ lpc[l] = "have"
  /\ SharedWith(l, weak[l])
  /\ lpc' = [lpc EXCEPT ![l] = "read"]
  /\ cached' = IF cached[l].ip = lip[l] THEN cached
               ELSE [cached EXCEPT ![l] = [ip |-> lip[l], from |-> Served(weak[l])]]
  /\ UNCHANGED <<disk, maps, entries, op, weak, lip>>

(* Nobody else has the entry, or the address cannot be looked up. *)
Unavailable(l) ==
  /\ lpc[l] = "have"
  /\ ~SharedWith(l, weak[l]) \/ cached[l].ip # lip[l]
  /\ Leave(l)

(* getEData reads through the cached result, and the value is returned. *)
Answer(l) == lpc[l] = "read" /\ Leave(l)

-----------------------------------------------------------------------------
(* The process dies and starts again.  It may die in the middle of writing *)
(* a database, or its document.                                            *)
CrashedFiles ==
  {files} \union
  (IF op.pc = "install" THEN {[files EXCEPT ![op.path] = Junk]} ELSE {})
CrashedDocs ==
  {docs} \union
  (IF op.pc = "store" THEN {[docs EXCEPT ![Name] = Torn]} ELSE {})

(* Documents the store cannot read, or cannot delete. *)
Unlucky(ds) == IF "store" \in Faults THEN SUBSET {n \in Names : ds[n] # NoDoc} ELSE {{}}

Loadable(d, fs) == d \in Record /\ fs[d.path] \in Valid
Loaded(d)       == [path |-> d.path, type |-> d.type, map |-> d.path]

LoadedTypes(ds, K) ==
  [t \in Types |->
     IF \E n \in K : ds[n].type = t THEN CHOOSE n \in K : ds[n].type = t ELSE NoName]
LoadedEntries(ds, K, f) ==
  [e \in Entries |->
     IF \E n \in K : f[n] = e THEN Loaded(ds[CHOOSE n \in K : f[n] = e]) ELSE Gone]

(* The constructor adds the databases of the documents R it can read, in   *)
(* the order the store lists them: K are those it adds, one of every type. *)
(* It deletes the others of R, where it can.                               *)
Load(fs, ds, R) ==
  \E K \in SUBSET {n \in R : Loadable(ds[n], fs)} :
    /\ \A m, n \in K : ds[m].type = ds[n].type => m = n
    /\ \A n \in R : Loadable(ds[n], fs) => \E m \in K : ds[m].type = ds[n].type
    /\ \E f \in [Names -> Entries \union {NoEntry}], D \in Unlucky(ds) :
         /\ \A n \in Names : f[n] = NoEntry <=> n \notin K
         /\ \A m, n \in K : f[m] = f[n] => m = n
         /\ docs' = [n \in Names |-> IF n \in R \ (K \union D) THEN NoDoc ELSE ds[n]]
         /\ dbs' = f
         /\ dbTypes' = LoadedTypes(ds, K)
         /\ entries' = LoadedEntries(ds, K, f)
         /\ op' = Idle

(* It meets a torn document, maybe after having deleted others, and        *)
(* throws: the process does not start.                                     *)
LoadFails(fs, ds, R) ==
  /\ \E D \in SUBSET {n \in R : ds[n] \in Record /\ fs[ds[n].path] \notin Valid} :
       docs' = [n \in Names |-> IF n \in D THEN NoDoc ELSE ds[n]]
  /\ dbs' = [n \in Names |-> NoEntry]
  /\ dbTypes' = [t \in Types |-> NoName]
  /\ entries' = [e \in Entries |-> Gone]
  /\ op' = [Idle EXCEPT !.pc = "down"]

Restart ==
  /\ "crash" \in Faults
  /\ \E fs \in CrashedFiles, ds \in CrashedDocs : \E U \in Unlucky(ds) :
       LET R == Names \ U IN
       /\ files' = fs
       /\ \/ (\A n \in R : ds[n] # Torn) /\ Load(fs, ds, R)
          \/ (\E n \in R : ds[n] = Torn) /\ LoadFails(fs, ds, R)
  /\ weak' = [l \in Locators |-> NoEntry]
  /\ cached' = [l \in Locators |-> Uncached]
  /\ lpc' = [l \in Locators |-> "none"]
  /\ lip' = [l \in Locators |-> NoIp]

-----------------------------------------------------------------------------
Call(p) ==
  \/ RemoveDb(p)
  \/ \E t \in Types : AddDb(p, t) \/ \E h \in Contents : RemoteUpsert(p, t, h)

Continue ==
  \/ StoreEntry \/ EraseDb \/ ResetEntry \/ ForgetEntry
  \/ Download \/ EndRetries \/ WriteFails \/ ReplaceDb \/ InstallDb

Locate(l) ==
  \/ \E t \in Types : GetLocator(l, t)
  \/ \E ip \in Ips : LockWeak(l, ip)
  \/ Lookup(l) \/ Unavailable(l) \/ Answer(l)

Next ==
  Restart \/ Continue \/ (\E p \in Paths : Call(p)) \/ \E l \in Locators : Locate(l)

Spec == Init /\ [][Next]_vars

-----------------------------------------------------------------------------
(* Properties *)

(* The types; what the steps of a call need; and every reference that can  *)
(* be followed is to an object that exists.                                *)
Pcs == {"idle", "down", "store", "remove", "reset", "forget", "download", "install"}

Ops == [pc : Pcs, path : Paths \union {NoName}, type : Types \union {NoType},
        hash : Contents \union {NoContent}, content : Contents \union {NoContent},
        tries : 0..MaxRetries, error : {"none", "failed"}, held : Entries \union {NoEntry}]

WellTyped ==
  /\ files \in [Paths -> Contents \union {Junk, NoFile}]
  /\ docs \in [Names -> Record \union {NoDoc, Torn}]
  /\ dbs \in [Names -> Entries \union {NoEntry}]
  /\ dbTypes \in [Types -> Names \union {NoName}]
  /\ entries \in [Entries -> Entry \union {Gone}]
  /\ op \in Ops
  /\ weak \in [Locators -> Entries \union {NoEntry}]
  /\ cached \in [Locators -> [ip : Ips \union {NoIp},
                              from : Contents \union {Junk, NoFile, NoContent}]]
  /\ lpc \in [Locators -> {"none", "have", "read"}]
  /\ lip \in [Locators -> Ips \union {NoIp}]

CallTyped ==
  /\ op.pc \notin {"idle", "down"} => op.path \in Paths
  /\ op.pc \in {"remove", "reset"} <=> op.held # NoEntry
  /\ op.pc = "install" => op.content \in Contents /\ op.type \in Types
  /\ op.pc = "store" => dbs[Name] # NoEntry /\ files[op.path] \in Valid

References ==
  /\ \A n \in Names : dbs[n] # NoEntry => entries[dbs[n]] # Gone
  /\ op.held # NoEntry => entries[op.held] # Gone
  /\ \A l \in Locators : lpc[l] # "none" => weak[l] # NoEntry /\ entries[weak[l]] # Gone

TypeOK == WellTyped /\ CallTyped /\ References

(* "only one db per type": the two maps of the manager name the same       *)
(* databases, one of each type, except for the one that a removal has      *)
(* erased from dbs_ and not yet from dbTypes_; and no entry has two names. *)
MapsAgree ==
  /\ \A t \in Types :
       LET n == dbTypes[t] IN
       n # NoName => \/ dbs[n] # NoEntry /\ entries[dbs[n]].type = t
                     \/ op.pc = "reset" /\ n = Name /\ entries[op.held].type = t
  /\ \A n \in Names : dbs[n] # NoEntry => dbTypes[entries[dbs[n]].type] = n
  /\ \A m, n \in Names : dbs[m] = dbs[n] /\ dbs[m] # NoEntry => m = n

(* While a locator reads a database the manager neither removes it nor     *)
(* writes, closes or opens anything under it.                              *)
Stable(l, n, e) ==
  lpc[l] = "read" /\ lpc'[l] = "read" /\ weak[l] = e /\ dbs[n] = e =>
    dbs'[n] = e /\ entries'[e] = entries[e] /\ Served(e)' = Served(e)
StableWhileReading ==
  [][\A l \in Locators, n \in Names, e \in Entries : Stable(l, n, e)]_vars

(* A restart between two calls brings back every database the manager had, *)
(* from the same file and for the same type, and no other.                 *)
Known(n) ==
  IF dbs[n] = NoEntry THEN NoEntry
  ELSE [type |-> entries[dbs[n]].type, map |-> entries[dbs[n]].map]
RestartKeeps == [][Restart /\ op = Idle => \A n \in Names : Known(n)' = Known(n)]_vars

(* Between two calls the hash in the store is that of the database served, *)
(* so that an upsert is skipped only when it would change nothing.         *)
HashOfServed ==
  op = Idle => \A n \in Names : dbs[n] # NoEntry =>
    docs[n] \in Record /\ docs[n].hash = Served(dbs[n])

(* A call whose downloads all failed installs nothing, and neither does    *)
(* one of which a download failed and none had the published hash.         *)
FailureInstallsNothing ==
  op.pc = "install" => op.content # NoContent /\ (op.error = "failed" => op.content = op.hash)

(* "Read-Write mutex for thread safety access to the MMDB database": a     *)
(* locator that has the mutex reads an open database.                      *)
ReadsOpenDatabase ==
  \A l \in Locators : lpc[l] = "read" => entries[weak[l]].map # Closed

(* "Get the string data at the given path", for the "target ip to query":  *)
(* answers come from the database as it is when they are given.            *)
AnswersCurrent ==
  \A l \in Locators : lpc[l] = "read" => cached[l].from = Served(weak[l])
=============================================================================
