------------------------------ MODULE GeoProofs -----------------------------
(***************************************************************************)
(* Proofs about module Geo, for any types, paths, names, contents,         *)
(* entries, locators, bound on the retries and faults.                     *)
(***************************************************************************)
EXTENDS Geo, TLAPS

(* The inductive invariant.  MapsAgree needs to know what the running call *)
(* of the manager still holds ...                                          *)
HeldAgrees ==
  /\ op.pc = "remove" => op.held = dbs[Name]
  /\ op.pc = "reset" => dbs[Name] = NoEntry /\ ~Managed(op.held)

(* ... and FailureInstallsNothing what the rounds of the loop leave.       *)
RetriesAgree ==
  /\ op.pc = "download" =>
       /\ op.hash \in Contents /\ op.type \in Types
       /\ op.error = "none" /\ op.tries # 0 => op.content \in Contents

(* A file is the database of its own name, and of no other: that keeps a   *)
(* call from writing under the readers of another database.                *)
PathsAgree ==
  /\ \A n \in Names : docs[n] \in Record => NameOf[docs[n].path] = n
  /\ \A n \in Names :
       dbs[n] # NoEntry /\ entries[dbs[n]].map # Closed =>
         NameOf[entries[dbs[n]].map] = n

GeoInv ==
  /\ TypeOK /\ MapsAgree /\ FailureInstallsNothing
  /\ HeldAgrees /\ RetriesAgree /\ PathsAgree

-----------------------------------------------------------------------------
(* The initial states satisfy the invariant. *)
LEMMA InitInv == Init => GeoInv
<1> SUFFICES ASSUME Init PROVE GeoInv
  OBVIOUS
<1>1. WellTyped
  BY NamesAssumption, ValuesAssumption, RetriesAssumption DEF Init, WellTyped, Ops, Idle, Uncached, Pcs
<1>2. CallTyped /\ References
  BY DEF Init, CallTyped, References, Idle
<1>3. MapsAgree /\ FailureInstallsNothing /\ HeldAgrees /\ RetriesAgree
  BY DEF Init, MapsAgree, FailureInstallsNothing, HeldAgrees, RetriesAgree, Idle
<1>4. PathsAgree
  BY ObjectsAssumption DEF Init, PathsAgree
<1> QED
  BY <1>1, <1>2, <1>3, <1>4 DEF GeoInv, TypeOK

(* Steps of the manager that change only its own locals. *)
LEMMA RemoveDbStep ==
  ASSUME GeoInv, NEW p \in Paths, RemoveDb(p) PROVE GeoInv'
<1> USE DEF GeoInv, TypeOK
<1>0. NameOf[p] \in Names /\ dbs[NameOf[p]] \in Entries /\ op'.pc = "remove"
      /\ op'.path = p /\ op'.held = dbs[NameOf[p]]
  BY NamesAssumption DEF RemoveDb, WellTyped, Ops, Idle
<1>1. WellTyped'
  BY <1>0, ValuesAssumption, RetriesAssumption DEF RemoveDb, WellTyped, Ops, Idle, Pcs, disk, maps, locators
<1>2. CallTyped'
  BY <1>0, ValuesAssumption DEF CallTyped
<1>3. References'
  BY <1>0 DEF RemoveDb, References, maps, locators
<1>4. MapsAgree'
  BY <1>0 DEF RemoveDb, MapsAgree, maps, Idle
<1>5. FailureInstallsNothing' /\ HeldAgrees' /\ RetriesAgree'
  BY <1>0 DEF RemoveDb, FailureInstallsNothing, HeldAgrees, RetriesAgree, maps, Name
<1>6. PathsAgree'
  BY DEF RemoveDb, PathsAgree, maps, disk
<1> QED
  BY <1>1, <1>2, <1>3, <1>4, <1>5, <1>6

(* An upsert that is not up to date goes on to its downloads. *)
LEMMA RemoteUpsertStep ==
  ASSUME GeoInv, NEW p \in Paths, NEW t \in Types, NEW h \in Contents,
         RemoteUpsert(p, t, h)
  PROVE  GeoInv'
<1> USE DEF GeoInv, TypeOK
<1>0. op'.pc = "download" /\ op'.path = p /\ op'.held = NoEntry /\ op'.tries = 0
      /\ op'.hash = h /\ op'.type = t /\ op.pc = "idle"
  BY DEF RemoteUpsert, Idle
<1>1. WellTyped'
  BY ValuesAssumption, RetriesAssumption DEF RemoteUpsert, WellTyped, Ops, Idle, Pcs, disk, maps, locators
<1>2. CallTyped' /\ References'
  BY <1>0 DEF CallTyped, References, RemoteUpsert, maps, locators
<1>3. MapsAgree'
  BY <1>0 DEF RemoteUpsert, MapsAgree, maps
<1>4. FailureInstallsNothing' /\ HeldAgrees' /\ RetriesAgree'
  BY <1>0 DEF FailureInstallsNothing, HeldAgrees, RetriesAgree
<1>5. PathsAgree'
  BY DEF RemoteUpsert, PathsAgree, maps, disk
<1> QED
  BY <1>1, <1>2, <1>3, <1>4, <1>5

(* The loop of downloads: op changes and nothing else. *)
LEMMA RetryType ==
  ASSUME op \in Ops, op.tries < MaxRetries, NEW c \in Contents \union {NoContent},
         NEW x \in {"none", "failed"}, Retry(c, x)
  PROVE  /\ op' \in Ops /\ op'.tries # 0 /\ op'.content = c /\ op'.error = x
         /\ op'.pc = op.pc /\ op'.path = op.path /\ op'.type = op.type
         /\ op'.hash = op.hash /\ op'.held = op.held
<1>1. op.tries \in Nat /\ op.tries + 1 \in 0..MaxRetries /\ op.tries + 1 # 0
  BY RetriesAssumption DEF Ops
<1>2. op' = [op EXCEPT !.tries = op.tries + 1, !.content = c, !.error = x]
  BY DEF Retry
<1>3. op' \in Ops
  BY <1>1, <1>2 DEF Ops
<1> QED
  BY <1>1, <1>2, <1>3 DEF Ops

(* A round that fails, one with another hash, the one that ends the loop,  *)
(* and the end of the retries: only content that was there is installed.   *)
LEMMA DownloadStep ==
  ASSUME GeoInv, Download \/ EndRetries \/ WriteFails PROVE GeoInv'
<1> USE DEF GeoInv, TypeOK
<1>0. UNCHANGED <<disk, maps, entries, locators>> /\ op \in Ops
      /\ op.pc \in {"download", "install"} /\ op.held = NoEntry /\ op.path \in Paths
  BY DEF Download, EndRetries, WriteFails, CallTyped, WellTyped
<1> DEFINE Outcome ==
      /\ op' \in Ops /\ op'.held = NoEntry /\ op'.pc \in {"idle", "download", "install"}
      /\ op'.pc # "idle" => op'.path = op.path /\ op'.type \in Types /\ op'.hash \in Contents
      /\ op'.pc = "install" => op'.content \in Contents /\ (op'.error = "failed" => op'.content = op'.hash)
      /\ op'.pc = "download" /\ op'.error = "none" /\ op'.tries # 0 => op'.content \in Contents
<1>1. ASSUME Return PROVE Outcome
  BY <1>1, RetriesAssumption DEF Return, Idle, Ops, Pcs
<1>2. ASSUME Download PROVE Outcome
  <2>0. op.pc = "download" /\ op.tries < MaxRetries /\ op.hash \in Contents
        /\ op.type \in Types /\ op.content \in Contents \union {NoContent}
        /\ op.error \in {"none", "failed"}
    BY <1>0, <1>2 DEF Download, RetriesAgree, Ops
  <2>1. CASE DownloadFails
    <3>1. Retry(op.content, "failed")
      BY <2>1 DEF DownloadFails
    <3> QED
      BY <1>0, <2>0, <3>1, RetryType
  <2>2. ASSUME NEW c \in Contents, Retry(c, op.error) PROVE Outcome
    BY <1>0, <2>0, <2>2, RetryType
  <2>3. CASE op' = [op EXCEPT !.pc = "install", !.content = op.hash, !.error = "none"]
    BY <1>0, <2>0, <2>3 DEF Ops, Pcs
  <2> QED
    BY <1>1, <1>2, <2>1, <2>2, <2>3 DEF Download
<1>3. ASSUME EndRetries PROVE Outcome
  <2>0. op.pc = "download" /\ op.tries # 0 /\ op.hash \in Contents /\ op.type \in Types
    BY <1>3, RetriesAssumption DEF EndRetries, RetriesAgree
  <2>1. CASE op.error = "failed"
    BY <1>1, <1>3, <2>1 DEF EndRetries
  <2>2. CASE op.error = "none"
    <3>1. op' = [op EXCEPT !.pc = "install"]
      BY <1>3, <2>2 DEF EndRetries, Goto
    <3>2. op.content \in Contents
      BY <2>0, <2>2 DEF RetriesAgree
    <3>3. op' \in Ops /\ op'.pc = "install" /\ op'.held = op.held /\ op'.path = op.path
          /\ op'.type = op.type /\ op'.hash = op.hash /\ op'.content = op.content
          /\ op'.error = op.error
      BY <1>0, <3>1 DEF Ops, Pcs
    <3> QED
      BY <1>0, <2>0, <2>2, <3>2, <3>3
  <2> QED
    BY <1>0, <2>1, <2>2 DEF Ops
<1>4. Outcome
  BY <1>1, <1>2, <1>3 DEF WriteFails
<1>5. WellTyped'
  BY <1>0, <1>4 DEF WellTyped, disk, maps, locators
<1>6. CallTyped' /\ References'
  BY <1>0, <1>4 DEF CallTyped, References, maps, locators
<1>7. MapsAgree'
  BY <1>0, <1>4 DEF MapsAgree, maps
<1>8. FailureInstallsNothing' /\ HeldAgrees' /\ RetriesAgree'
  BY <1>4, ValuesAssumption DEF FailureInstallsNothing, HeldAgrees, RetriesAgree
<1>9. PathsAgree'
  BY <1>0 DEF PathsAgree, maps, disk
<1> QED
  BY <1>5, <1>6, <1>7, <1>8, <1>9

-----------------------------------------------------------------------------
(* A database is added under a name and a type that are both free: by      *)
(* addDb, or by an upsert, which has just written the file.                *)
LEMMA AddStep ==
  ASSUME GeoInv, NEW p \in Paths, NEW t \in Types, Add(p, t),
         dbTypes[t] = NoName, dbs[NameOf[p]] = NoEntry,
         op.pc \notin {"remove", "reset"},
         op' \in Ops, op'.pc = "store", op'.path = p, op'.held = NoEntry,
         files' \in [Paths -> Contents \union {Junk, NoFile}], files'[p] \in Valid,
         UNCHANGED <<docs, locators>>
  PROVE  GeoInv'
<1> USE DEF GeoInv, TypeOK
<1>1. PICK e \in Fresh :
        /\ dbs' = [dbs EXCEPT ![NameOf[p]] = e]
        /\ dbTypes' = [dbTypes EXCEPT ![t] = NameOf[p]]
        /\ entries' = [entries EXCEPT ![e] = [path |-> p, type |-> t, map |-> p]]
  BY DEF Add
<1> DEFINE new == [path |-> p, type |-> t, map |-> p]
<1>2. /\ e \in Entries /\ e # NoEntry /\ entries[e] = Gone
      /\ NameOf[p] \in Names /\ NameOf[p] # NoName
      /\ new \in Entry /\ new # Gone /\ new.type = t /\ new.map = p
  BY NamesAssumption, ValuesAssumption, ObjectsAssumption DEF Fresh, Entry
<1>3. /\ dbs \in [Names -> Entries \union {NoEntry}]
      /\ dbTypes \in [Types -> Names \union {NoName}]
      /\ entries \in [Entries -> Entry \union {Gone}]
  BY DEF WellTyped
<1>4. \A n \in Names : dbs[n] # e
  BY <1>2 DEF References
<1>5. /\ dbs'[NameOf[p]] = e /\ dbTypes'[t] = NameOf[p] /\ entries'[e] = new
      /\ \A n \in Names : n # NameOf[p] => dbs'[n] = dbs[n]
      /\ \A u \in Types : u # t => dbTypes'[u] = dbTypes[u]
      /\ \A f \in Entries : f # e => entries'[f] = entries[f]
  BY <1>1, <1>2, <1>3
<1>6. WellTyped'
  BY <1>1, <1>2, <1>3 DEF WellTyped, locators
<1>7. CallTyped'
  BY <1>2, <1>5 DEF CallTyped, Name
<1>8. References'
  <2>1. \A n \in Names : dbs'[n] # NoEntry => entries'[dbs'[n]] # Gone
    BY <1>2, <1>3, <1>4, <1>5 DEF References
  <2>2. \A l \in Locators : weak[l] # NoEntry => weak[l] \in Entries
    BY DEF WellTyped
  <2> QED
    BY <2>1, <2>2, <1>2, <1>5 DEF References, locators
<1>9. MapsAgree'
  <2>1. ASSUME NEW u \in Types, dbTypes'[u] # NoName
        PROVE  dbs'[dbTypes'[u]] # NoEntry /\ entries'[dbs'[dbTypes'[u]]].type = u
    <3>1. CASE u = t
      BY <1>2, <1>5, <3>1
    <3>2. CASE u # t
      <4>1. dbTypes'[u] = dbTypes[u] /\ dbTypes[u] \in Names
        BY <1>3, <1>5, <2>1, <3>2
      <4>2. dbs[dbTypes[u]] # NoEntry /\ entries[dbs[dbTypes[u]]].type = u
        BY <2>1, <4>1 DEF MapsAgree
      <4> QED
        BY <1>3, <1>4, <1>5, <4>1, <4>2
    <3> QED
      BY <3>1, <3>2
  <2>2. ASSUME NEW n \in Names, dbs'[n] # NoEntry
        PROVE  dbTypes'[entries'[dbs'[n]].type] = n
    <3>1. CASE n = NameOf[p]
      BY <1>2, <1>5, <3>1
    <3>2. CASE n # NameOf[p]
      <4>1. dbs'[n] = dbs[n] /\ dbs[n] \in Entries /\ entries'[dbs[n]] = entries[dbs[n]]
        BY <1>3, <1>4, <1>5, <2>2, <3>2
      <4>2. entries[dbs[n]].type \in Types /\ dbTypes[entries[dbs[n]].type] = n
        BY <1>3, <2>2, <4>1 DEF MapsAgree, References, Entry
      <4> QED
        BY <1>5, <4>1, <4>2, NamesAssumption
    <3> QED
      BY <3>1, <3>2
  <2>3. \A m, n \in Names : dbs'[m] = dbs'[n] /\ dbs'[m] # NoEntry => m = n
    BY <1>4, <1>5 DEF MapsAgree
  <2> QED
    BY <2>1, <2>2, <2>3 DEF MapsAgree
<1>10. FailureInstallsNothing' /\ HeldAgrees' /\ RetriesAgree'
  BY DEF FailureInstallsNothing, HeldAgrees, RetriesAgree
<1>11. PathsAgree'
  <2>1. ASSUME NEW n \in Names, dbs'[n] # NoEntry, entries'[dbs'[n]].map # Closed
        PROVE  NameOf[entries'[dbs'[n]].map] = n
    BY <1>2, <1>3, <1>4, <1>5, <2>1 DEF PathsAgree
  <2> QED
    BY <2>1 DEF PathsAgree
<1> QED
  BY <1>6, <1>7, <1>8, <1>9, <1>10, <1>11

(* addDb: the same, with nothing running. *)
LEMMA AddDbStep ==
  ASSUME GeoInv, NEW p \in Paths, NEW t \in Types, AddDb(p, t) PROVE GeoInv'
<1>1. /\ op' \in Ops /\ op'.pc = "store" /\ op'.path = p /\ op'.held = NoEntry
      /\ op.pc = "idle"
  <2>1. Idle \in Ops /\ Idle.pc = "idle" /\ Idle.held = NoEntry
    BY RetriesAssumption DEF Idle, Ops, Pcs
  <2>2. op = Idle /\ op' = [Idle EXCEPT !.pc = "store", !.path = p, !.type = t]
    BY DEF AddDb, Start
  <2> QED
    BY <2>1, <2>2 DEF Ops, Pcs
<1>2. files' = files /\ files[p] \in Valid /\ UNCHANGED <<docs, locators>>
      /\ Add(p, t) /\ dbTypes[t] = NoName /\ dbs[NameOf[p]] = NoEntry
  BY DEF AddDb, CanAdd, disk
<1>3. files' \in [Paths -> Contents \union {Junk, NoFile}]
  BY <1>2 DEF GeoInv, TypeOK, WellTyped
<1> QED
  BY <1>1, <1>2, <1>3, AddStep

(* The document is written, or not, and the call ends. *)
LEMMA StoreEntryStep ==
  ASSUME GeoInv, StoreEntry PROVE GeoInv'
<1> USE DEF GeoInv, TypeOK
<1>1. /\ op.pc = "store" /\ op' = Idle /\ UNCHANGED <<files, maps, entries, locators>>
      /\ docs' \in {docs, [docs EXCEPT ![Name] = Document], [docs EXCEPT ![Name] = Torn]}
  BY DEF StoreEntry, Return
<1>2. /\ op.path \in Paths /\ Name \in Names /\ dbs[Name] \in Entries
      /\ entries[dbs[Name]] \in Entry /\ files[op.path] \in Contents
  BY <1>1, NamesAssumption, ValuesAssumption DEF CallTyped, References, WellTyped, Name
<1>3. Document \in Record /\ Document.path = op.path
  BY <1>2 DEF Document, Record, Entry
<1>4. WellTyped'
  <2>1. op' \in Ops
    BY <1>1, RetriesAssumption DEF Idle, Ops, Pcs
  <2>2. docs' \in [Names -> Record \union {NoDoc, Torn}]
    BY <1>1, <1>2, <1>3 DEF WellTyped
  <2> QED
    BY <1>1, <2>1, <2>2 DEF WellTyped, maps, locators
<1>5. CallTyped' /\ References'
  BY <1>1 DEF CallTyped, References, Idle, maps, locators
<1>6. MapsAgree'
  BY <1>1 DEF MapsAgree, maps, Idle
<1>7. FailureInstallsNothing' /\ HeldAgrees' /\ RetriesAgree'
  BY <1>1 DEF FailureInstallsNothing, HeldAgrees, RetriesAgree, Idle
<1>8. PathsAgree'
  <2>1. \A n \in Names : docs'[n] \in Record => NameOf[docs'[n].path] = n
    BY <1>1, <1>2, <1>3, ObjectsAssumption DEF PathsAgree, WellTyped, Name
  <2> QED
    BY <1>1, <2>1 DEF PathsAgree, maps
<1> QED
  BY <1>4, <1>5, <1>6, <1>7, <1>8

(* The first step of a removal changes dbs_ ... *)
LEMMA EraseDbStep ==
  ASSUME GeoInv, EraseDb PROVE GeoInv'
<1> USE DEF GeoInv, TypeOK
<1>1. /\ op.pc = "remove" /\ op' = [op EXCEPT !.pc = "reset"]
      /\ dbs' = [dbs EXCEPT ![Name] = NoEntry]
      /\ UNCHANGED <<disk, dbTypes, entries, locators>>
  BY DEF EraseDb, Goto
<1>2. /\ op \in Ops /\ op.path \in Paths /\ Name \in Names /\ op.held = dbs[Name]
      /\ op.held # NoEntry /\ op.held \in Entries /\ entries[op.held] \in Entry
  BY <1>1, NamesAssumption DEF CallTyped, References, WellTyped, HeldAgrees, Name
<1>3. /\ op' \in Ops /\ op'.pc = "reset" /\ op'.path = op.path /\ op'.held = op.held
      /\ Name' = Name
  BY <1>1, <1>2 DEF Ops, Pcs, Name
<1>4. dbs'[Name] = NoEntry /\ \A n \in Names : n # Name => dbs'[n] = dbs[n]
  BY <1>1, <1>2 DEF WellTyped
<1>5. WellTyped'
  BY <1>1, <1>3 DEF WellTyped, disk, locators
<1>6. CallTyped' /\ References'
  BY <1>1, <1>2, <1>3, <1>4 DEF CallTyped, References, locators
<1>7. MapsAgree'
  <2>1. ASSUME NEW u \in Types, dbTypes[u] # NoName
        PROVE  \/ dbs'[dbTypes[u]] # NoEntry /\ entries[dbs'[dbTypes[u]]].type = u
               \/ dbTypes[u] = Name /\ entries[op.held].type = u
    <3>1. dbTypes[u] \in Names
      BY <2>1 DEF WellTyped
    <3>2. dbs[dbTypes[u]] # NoEntry /\ entries[dbs[dbTypes[u]]].type = u
      BY <1>1, <2>1 DEF MapsAgree
    <3> QED
      BY <1>2, <1>4, <3>1, <3>2
  <2>2. \A n \in Names : dbs'[n] # NoEntry => dbTypes[entries[dbs'[n]].type] = n
    BY <1>4 DEF MapsAgree
  <2>3. \A m, n \in Names : dbs'[m] = dbs'[n] /\ dbs'[m] # NoEntry => m = n
    BY <1>4 DEF MapsAgree
  <2> QED
    BY <1>1, <1>3, <2>1, <2>2, <2>3 DEF MapsAgree
<1>8. FailureInstallsNothing' /\ RetriesAgree'
  BY <1>3 DEF FailureInstallsNothing, RetriesAgree
<1>9. HeldAgrees'
  <2>1. ~Managed(op.held)'
    BY <1>2, <1>3, <1>4 DEF MapsAgree, Managed
  <2> QED
    BY <1>3, <1>4, <2>1 DEF HeldAgrees
<1>10. PathsAgree'
  BY <1>1, <1>4 DEF PathsAgree, disk
<1> QED
  BY <1>5, <1>6, <1>7, <1>8, <1>9, <1>10

(* ... and the second makes dbTypes_ agree with it again. *)
LEMMA ResetEntryStep ==
  ASSUME GeoInv, ResetEntry PROVE GeoInv'
<1> USE DEF GeoInv, TypeOK
<1>1. /\ op.pc = "reset" /\ op' = [op EXCEPT !.pc = "forget", !.held = NoEntry]
      /\ EraseType /\ UNCHANGED <<disk, dbs, locators>>
  BY DEF ResetEntry
<1>2. /\ op \in Ops /\ op.path \in Paths /\ Name \in Names
      /\ op.held # NoEntry /\ op.held \in Entries
      /\ dbs[Name] = NoEntry /\ ~Managed(op.held)
  BY <1>1, NamesAssumption DEF CallTyped, WellTyped, HeldAgrees, Name, Ops
<1>3. /\ op' \in Ops /\ op'.pc = "forget" /\ op'.path = op.path /\ op'.held = NoEntry
  BY <1>1, <1>2 DEF Ops, Pcs
<1>4. /\ entries' \in [Entries -> Entry \union {Gone}]
      /\ \A e \in Entries : e # op.held => entries'[e] = entries[e]
      /\ \A l \in Locators : Holds(l, op.held) => entries' = entries
  BY <1>2 DEF ResetEntry, Destroy, WellTyped
<1>5. /\ dbTypes' \in [Types -> Names \union {NoName}]
      /\ \A u \in Types : dbTypes[u] # Name => dbTypes'[u] = dbTypes[u]
      /\ \A u \in Types : dbTypes[u] = Name => dbTypes'[u] = NoName
  BY <1>1 DEF EraseType, WellTyped
<1>6. \A n \in Names : dbs[n] # NoEntry =>
        n # Name /\ dbs[n] \in Entries /\ entries'[dbs[n]] = entries[dbs[n]]
  BY <1>2, <1>4 DEF Managed, WellTyped
<1>7. WellTyped'
  BY <1>1, <1>3, <1>4, <1>5 DEF WellTyped, disk, locators
<1>8. CallTyped'
  BY <1>1, <1>2, <1>3 DEF CallTyped
<1>9. References'
  <2>1. \A l \in Locators : lpc[l] # "none" => entries'[weak[l]] # Gone
    BY <1>4 DEF References, Holds, WellTyped
  <2> QED
    BY <1>1, <1>3, <1>6, <2>1 DEF References, locators
<1>10. MapsAgree'
  <2>1. ASSUME NEW u \in Types, dbTypes'[u] # NoName
        PROVE  dbs[dbTypes'[u]] # NoEntry /\ entries'[dbs[dbTypes'[u]]].type = u
    <3>1. dbTypes'[u] = dbTypes[u] /\ dbTypes[u] \in Names /\ dbTypes[u] # Name
      BY <1>5, <2>1 DEF WellTyped
    <3> QED
      BY <1>6, <2>1, <3>1 DEF MapsAgree
  <2>2. ASSUME NEW n \in Names, dbs[n] # NoEntry
        PROVE  dbTypes'[entries'[dbs[n]].type] = n
    <3>1. /\ n # Name /\ entries'[dbs[n]] = entries[dbs[n]] /\ entries[dbs[n]] \in Entry
          /\ dbTypes[entries[dbs[n]].type] = n
      BY <1>6, <2>2 DEF MapsAgree, References, WellTyped
    <3> QED
      BY <1>5, <3>1 DEF Entry
  <2> QED
    BY <1>1, <2>1, <2>2 DEF MapsAgree
<1>11. FailureInstallsNothing' /\ RetriesAgree' /\ HeldAgrees'
  BY <1>3 DEF FailureInstallsNothing, RetriesAgree, HeldAgrees
<1>12. PathsAgree'
  BY <1>1, <1>6 DEF PathsAgree, disk
<1> QED
  BY <1>7, <1>8, <1>9, <1>10, <1>11, <1>12

(* The document is deleted, or not, and the call ends. *)
LEMMA ForgetEntryStep ==
  ASSUME GeoInv, ForgetEntry PROVE GeoInv'
<1> USE DEF GeoInv, TypeOK
<1>1. /\ op.pc = "forget" /\ op' = Idle /\ UNCHANGED <<files, maps, entries, locators>>
      /\ docs' \in {docs, [docs EXCEPT ![Name] = NoDoc]}
  BY DEF ForgetEntry, Return
<1>2. WellTyped'
  <2>1. op' \in Ops
    BY <1>1, RetriesAssumption DEF Idle, Ops, Pcs
  <2>2. docs' \in [Names -> Record \union {NoDoc, Torn}]
    BY <1>1 DEF WellTyped
  <2> QED
    BY <1>1, <2>1, <2>2 DEF WellTyped, maps, locators
<1>3. CallTyped' /\ References'
  BY <1>1 DEF CallTyped, References, Idle, maps, locators
<1>4. MapsAgree'
  BY <1>1 DEF MapsAgree, maps, Idle
<1>5. FailureInstallsNothing' /\ HeldAgrees' /\ RetriesAgree'
  BY <1>1 DEF FailureInstallsNothing, HeldAgrees, RetriesAgree, Idle
<1>6. PathsAgree'
  <2>1. \A n \in Names : docs'[n] \in Record => NameOf[docs'[n].path] = n
    BY <1>1, ObjectsAssumption DEF PathsAgree, WellTyped
  <2> QED
    BY <1>1, <2>1 DEF PathsAgree, maps
<1> QED
  BY <1>2, <1>3, <1>4, <1>5, <1>6

-----------------------------------------------------------------------------
(* An upsert has its content: what was written is opened or not. *)
LEMMA WrittenType ==
  ASSUME NEW c \in Contents, NEW x \in Written(c)
  PROVE  x \in Contents \union {Junk, NoFile}
BY DEF Written

(* The database of a known name is written over and opened again, or its   *)
(* entry is closed and will be removed.                                    *)
LEMMA ReplaceDbStep ==
  ASSUME GeoInv, ReplaceDb PROVE GeoInv'
<1> USE DEF GeoInv, TypeOK
<1> DEFINE e == dbs[Name]
<1>1. PICK x \in Written(op.content) :
        /\ files' = [files EXCEPT ![op.path] = x]
        /\ \/ x \in Valid /\ Map(e, op.path) /\ op' = [op EXCEPT !.pc = "store"]
           \/ /\ x \notin Valid
              /\ Map(e, Closed)
              /\ op' = [op EXCEPT !.pc = "remove", !.held = e]
  BY DEF ReplaceDb, WriteDb, Goto
<1>2. /\ op.pc = "install" /\ e # NoEntry /\ UNCHANGED <<docs, maps, locators>>
      /\ op \in Ops /\ op.path \in Paths /\ Name \in Names /\ op.content \in Contents
      /\ e \in Entries /\ entries[e] \in Entry /\ op.held = NoEntry
  BY NamesAssumption DEF ReplaceDb, Replaceable, CallTyped, References, WellTyped, Name
<1>3. PICK m \in Paths \union {Closed} :
        /\ entries' = [entries EXCEPT ![e].map = m]
        /\ m # Closed => m = op.path /\ x \in Valid
        /\ \/ m = op.path /\ x \in Valid /\ op' = [op EXCEPT !.pc = "store"]
           \/ m = Closed /\ op' = [op EXCEPT !.pc = "remove", !.held = e]
  BY <1>1, <1>2 DEF Map
<1>4. /\ entries'[e] \in Entry /\ entries'[e].map = m /\ entries'[e].type = entries[e].type
      /\ \A f \in Entries : f # e => entries'[f] = entries[f]
      /\ entries' \in [Entries -> Entry \union {Gone}]
  BY <1>2, <1>3 DEF WellTyped, Entry
<1>5. /\ op' \in Ops /\ op'.path = op.path /\ Name' = Name
      /\ \/ op'.pc = "store" /\ x \in Valid /\ op'.held = NoEntry
         \/ op'.pc = "remove" /\ op'.held = e
  BY <1>2, <1>3 DEF Ops, Pcs, Name
<1>6. /\ files' \in [Paths -> Contents \union {Junk, NoFile}]
      /\ files'[op.path] = x
  BY <1>1, <1>2, WrittenType DEF WellTyped
<1>7. WellTyped'
  BY <1>2, <1>4, <1>5, <1>6 DEF WellTyped, maps, locators
<1>8. CallTyped'
  BY <1>2, <1>5, <1>6 DEF CallTyped, maps
<1>9. References'
  <2>1. \A f \in Entries : entries[f] # Gone => entries'[f] # Gone
    BY <1>4, ObjectsAssumption
  <2> QED
    BY <1>2, <1>4, <1>5, <2>1, ObjectsAssumption DEF References, WellTyped, maps, locators
<1>10. MapsAgree'
  <2>1. \A n \in Names : dbs[n] # NoEntry => entries'[dbs[n]].type = entries[dbs[n]].type
    BY <1>4 DEF WellTyped
  <2>2. \A u \in Types : dbTypes[u] # NoName =>
          dbs[dbTypes[u]] # NoEntry /\ entries'[dbs[dbTypes[u]]].type = u
    BY <1>2, <2>1 DEF MapsAgree, WellTyped
  <2> QED
    BY <1>2, <2>1, <2>2 DEF MapsAgree, maps
<1>11. FailureInstallsNothing' /\ RetriesAgree' /\ HeldAgrees'
  BY <1>2, <1>5 DEF FailureInstallsNothing, RetriesAgree, HeldAgrees, maps
<1>12. PathsAgree'
  <2>1. \A n \in Names : dbs[n] = e => n = Name
    BY <1>2 DEF MapsAgree
  <2>2. ASSUME NEW n \in Names, dbs[n] # NoEntry, entries'[dbs[n]].map # Closed
        PROVE  NameOf[entries'[dbs[n]].map] = n
    <3>1. CASE dbs[n] = e
      <4>1. n = Name
        BY <2>1, <3>1
      <4>2. entries'[dbs[n]].map = m
        BY <1>4, <3>1
      <4>3. m # Closed
        BY <2>2, <4>2
      <4>4. m = op.path
        BY <1>3, <4>3
      <4> QED
        BY <4>1, <4>2, <4>4 DEF Name
    <3>2. CASE dbs[n] # e
      BY <1>4, <2>2, <3>2 DEF PathsAgree, WellTyped
    <3> QED
      BY <3>1, <3>2
  <2> QED
    BY <1>2, <2>2 DEF PathsAgree, maps
<1> QED
  BY <1>7, <1>8, <1>9, <1>10, <1>11, <1>12

(* The database of a new name is added, or it cannot be opened or its type *)
(* is used, and only the file has changed.                                 *)
LEMMA InstallDbStep ==
  ASSUME GeoInv, InstallDb PROVE GeoInv'
<1> USE DEF GeoInv, TypeOK
<1>1. PICK x \in Written(op.content) :
        /\ files' = [files EXCEPT ![op.path] = x]
        /\ \/ /\ x \in Valid /\ dbTypes[op.type] = NoName
              /\ Add(op.path, op.type)
              /\ op' = [op EXCEPT !.pc = "store"]
           \/ op' = Idle /\ UNCHANGED <<maps, entries>>
  BY DEF InstallDb, WriteDb, Goto, Return
<1>2. /\ op.pc = "install" /\ dbs[NameOf[op.path]] = NoEntry /\ UNCHANGED <<docs, locators>>
      /\ op \in Ops /\ op.path \in Paths /\ op.content \in Contents /\ op.type \in Types
      /\ op.held = NoEntry
  BY DEF InstallDb, CallTyped, WellTyped, Name
<1>3. files' \in [Paths -> Contents \union {Junk, NoFile}] /\ files'[op.path] = x
  BY <1>1, <1>2, WrittenType DEF WellTyped
<1>4. CASE /\ x \in Valid /\ dbTypes[op.type] = NoName /\ Add(op.path, op.type)
           /\ op' = [op EXCEPT !.pc = "store"]
  <2>1. op' \in Ops /\ op'.pc = "store" /\ op'.path = op.path /\ op'.held = NoEntry
    BY <1>2, <1>4 DEF Ops, Pcs
  <2> QED
    BY <1>2, <1>3, <1>4, <2>1, AddStep
<1>5. CASE op' = Idle /\ UNCHANGED <<maps, entries>>
  <2>1. op' \in Ops
    BY <1>5, RetriesAssumption DEF Idle, Ops, Pcs
  <2>2. WellTyped'
    BY <1>2, <1>3, <1>5, <2>1 DEF WellTyped, maps, locators
  <2>3. CallTyped' /\ References'
    BY <1>2, <1>5 DEF CallTyped, References, Idle, maps, locators
  <2>4. MapsAgree'
    BY <1>2, <1>5 DEF MapsAgree, maps, Idle
  <2>5. FailureInstallsNothing' /\ HeldAgrees' /\ RetriesAgree'
    BY <1>5 DEF FailureInstallsNothing, HeldAgrees, RetriesAgree, Idle
  <2>6. PathsAgree'
    BY <1>2, <1>5 DEF PathsAgree, maps
  <2> QED
    BY <2>2, <2>3, <2>4, <2>5, <2>6
<1> QED
  BY <1>1, <1>4, <1>5

-----------------------------------------------------------------------------
(* Locators change no database, and destroy only an entry that neither the *)
(* manager nor another locator has.                                        *)
LEMMA LeaveStep ==
  ASSUME GeoInv, NEW l \in Locators, lpc[l] # "none", Leave(l) PROVE GeoInv'
<1> USE DEF GeoInv, TypeOK
<1> DEFINE e == weak[l]
<1>1. /\ lpc' = [lpc EXCEPT ![l] = "none"] /\ lip' = [lip EXCEPT ![l] = NoIp]
      /\ UNCHANGED <<disk, maps, op, weak, cached>> /\ e \in Entries
  BY DEF Leave, References, WellTyped
<1>2. /\ entries' \in [Entries -> Entry \union {Gone}]
      /\ \A f \in Entries : f # e => entries'[f] = entries[f]
      /\ SharedWith(l, e) => entries' = entries
  BY <1>1 DEF Leave, Destroy, WellTyped
<1>3. /\ \A n \in Names : dbs[n] # NoEntry => entries'[dbs[n]] = entries[dbs[n]]
      /\ op.held # NoEntry => entries'[op.held] = entries[op.held]
      /\ \A m \in Locators : m # l /\ lpc[m] # "none" => entries'[weak[m]] = entries[weak[m]]
  BY <1>2 DEF SharedWith, Managed, Holds, WellTyped, References, Ops
<1>4. WellTyped'
  BY <1>1, <1>2 DEF WellTyped, disk, maps
<1>5. CallTyped'
  BY <1>1 DEF CallTyped, disk, maps, Name
<1>6. References'
  <2>1. \A m \in Locators : lpc'[m] # "none" => m # l /\ lpc'[m] = lpc[m]
    BY <1>1 DEF WellTyped
  <2> QED
    BY <1>1, <1>3, <2>1 DEF References, maps
<1>7. MapsAgree'
  <2>1. \A t \in Types : dbTypes[t] # NoName => dbTypes[t] \in Names
    BY DEF WellTyped
  <2>2. Name' = Name
    BY <1>1 DEF Name
  <2>3. op.pc = "reset" => op.held # NoEntry
    BY DEF CallTyped
  <2> QED
    BY <1>1, <1>3, <2>1, <2>2, <2>3 DEF MapsAgree, maps
<1>8. FailureInstallsNothing' /\ HeldAgrees' /\ RetriesAgree'
  BY <1>1 DEF FailureInstallsNothing, HeldAgrees, RetriesAgree, Managed, maps, Name
<1>9. PathsAgree'
  BY <1>1, <1>3 DEF PathsAgree, disk, maps
<1> QED
  BY <1>4, <1>5, <1>6, <1>7, <1>8, <1>9

(* Served is a content. *)
LEMMA ServedType ==
  ASSUME WellTyped, NEW e \in Entries, entries[e] # Gone
  PROVE  Served(e) \in Contents \union {Junk, NoFile, NoContent}
<1>1. entries[e].map \in Paths \union {Closed}
  BY DEF WellTyped, Entry
<1> QED
  BY <1>1 DEF Served, WellTyped

(* A step of a locator changes no map, no file and no entry that is used. *)
LEMMA LocateStep ==
  ASSUME GeoInv, NEW l \in Locators, Locate(l) PROVE GeoInv'
<1> USE DEF GeoInv, TypeOK
<1>1. CASE Unavailable(l) \/ Answer(l)
  BY <1>1, LeaveStep DEF Unavailable, Answer
<1>2. ASSUME UNCHANGED <<disk, maps, entries, op>>, WellTyped', References' PROVE GeoInv'
  <2>1. CallTyped' /\ MapsAgree'
    BY <1>2 DEF CallTyped, MapsAgree, disk, maps, Name
  <2>2. FailureInstallsNothing' /\ HeldAgrees' /\ RetriesAgree'
    BY <1>2 DEF FailureInstallsNothing, HeldAgrees, RetriesAgree, Managed, maps, Name
  <2>3. PathsAgree'
    BY <1>2 DEF PathsAgree, disk, maps
  <2> QED
    BY <1>2, <2>1, <2>2, <2>3
<1>3. ASSUME NEW t \in Types, GetLocator(l, t) PROVE GeoInv'
  <2>1. dbTypes[t] \in Names /\ dbs[dbTypes[t]] \in Entries \union {NoEntry}
    BY <1>3 DEF GetLocator, WellTyped
  <2>2. WellTyped'
    BY <1>3, <2>1 DEF GetLocator, WellTyped, Uncached, disk, maps
  <2>3. References'
    BY <1>3 DEF GetLocator, References, WellTyped, maps
  <2> QED
    BY <1>2, <1>3, <2>2, <2>3 DEF GetLocator
<1>4. ASSUME NEW ip \in Ips, LockWeak(l, ip) PROVE GeoInv'
  <2>1. WellTyped'
    BY <1>4 DEF LockWeak, WellTyped, disk, maps
  <2>2. References'
    BY <1>4 DEF LockWeak, References, WellTyped, maps
  <2> QED
    BY <1>2, <1>4, <2>1, <2>2 DEF LockWeak
<1>5. CASE Lookup(l)
  <2>1. weak[l] \in Entries /\ entries[weak[l]] # Gone /\ lip[l] \in Ips \union {NoIp}
    BY <1>5 DEF Lookup, References, WellTyped
  <2>2. Served(weak[l]) \in Contents \union {Junk, NoFile, NoContent}
    BY <2>1, ServedType
  <2>3. cached' \in [Locators -> [ip : Ips \union {NoIp},
                                  from : Contents \union {Junk, NoFile, NoContent}]]
    BY <1>5, <2>1, <2>2 DEF Lookup, WellTyped
  <2>4. WellTyped'
    BY <1>5, <2>3 DEF Lookup, WellTyped, disk, maps
  <2>5. References'
    BY <1>5 DEF Lookup, References, WellTyped, maps
  <2> QED
    BY <1>2, <1>5, <2>4, <2>5 DEF Lookup
<1> QED
  BY <1>1, <1>3, <1>4, <1>5 DEF Locate

-----------------------------------------------------------------------------
(* What a crash leaves on the disk. *)
LEMMA CrashedTypes ==
  ASSUME GeoInv, NEW fs \in CrashedFiles, NEW ds \in CrashedDocs
  PROVE  /\ fs \in [Paths -> Contents \union {Junk, NoFile}]
         /\ ds \in [Names -> Record \union {NoDoc, Torn}]
         /\ \A n \in Names : ds[n] \in Record => NameOf[ds[n].path] = n
<1> USE DEF GeoInv, TypeOK
<1>1. op.pc = "install" \/ op.pc = "store" => op.path \in Paths /\ Name \in Names
  BY NamesAssumption DEF CallTyped, Name
<1>2. fs \in [Paths -> Contents \union {Junk, NoFile}]
  BY <1>1 DEF CrashedFiles, WellTyped
<1>3. ds = docs \/ (Name \in Names /\ ds = [docs EXCEPT ![Name] = Torn])
  BY <1>1 DEF CrashedDocs
<1>4. ds \in [Names -> Record \union {NoDoc, Torn}]
  BY <1>3 DEF WellTyped
<1>5. \A n \in Names : ds[n] \in Record => NameOf[ds[n].path] = n
  BY <1>3, ObjectsAssumption DEF WellTyped, PathsAgree
<1> QED
  BY <1>2, <1>4, <1>5

(* The constructor: whatever documents it finds, of those it adds there is *)
(* one of every type, and an entry of its own for each.                    *)
LEMMA LoadStep ==
  ASSUME NEW fs, NEW ds \in [Names -> Record \union {NoDoc, Torn}], NEW R \in SUBSET Names,
         \A n \in Names : ds[n] \in Record => NameOf[ds[n].path] = n,
         Load(fs, ds, R)
  PROVE  /\ docs' \in [Names -> Record \union {NoDoc, Torn}]
         /\ dbs' \in [Names -> Entries \union {NoEntry}]
         /\ dbTypes' \in [Types -> Names \union {NoName}]
         /\ entries' \in [Entries -> Entry \union {Gone}]
         /\ \A n \in Names : dbs'[n] # NoEntry => entries'[dbs'[n]] # Gone
         /\ op' = Idle /\ MapsAgree' /\ PathsAgree'
<1>1. PICK K \in SUBSET {n \in R : Loadable(ds[n], fs)},
           f \in [Names -> Entries \union {NoEntry}], D \in Unlucky(ds) :
        /\ \A m, n \in K : ds[m].type = ds[n].type => m = n
        /\ \A n \in Names : f[n] = NoEntry <=> n \notin K
        /\ \A m, n \in K : f[m] = f[n] => m = n
        /\ docs' = [n \in Names |-> IF n \in R \ (K \union D) THEN NoDoc ELSE ds[n]]
        /\ dbs' = f
        /\ dbTypes' = LoadedTypes(ds, K)
        /\ entries' = LoadedEntries(ds, K, f)
        /\ op' = Idle
  BY DEF Load
<1>2. \A n \in K : /\ n \in Names /\ ds[n] \in Record /\ Loaded(ds[n]) \in Entry
                   /\ ds[n].type \in Types /\ ds[n].path \in Paths
                   /\ Loaded(ds[n]).type = ds[n].type /\ Loaded(ds[n]).map = ds[n].path
  BY <1>1 DEF Loadable, Loaded, Record, Entry
<1>3. ASSUME NEW t \in Types
      PROVE  /\ \A n \in K : ds[n].type = t => dbTypes'[t] = n
             /\ (\A n \in K : ds[n].type # t) => dbTypes'[t] = NoName
  BY <1>1 DEF LoadedTypes
<1>4. \A n \in K : f[n] \in Entries /\ entries'[f[n]] = Loaded(ds[n])
  <2>1. ASSUME NEW n \in K PROVE f[n] \in Entries /\ entries'[f[n]] = Loaded(ds[n])
    <3>1. f[n] \in Entries
      BY <1>1, <1>2
    <3>2. (CHOOSE m \in K : f[m] = f[n]) = n
      BY <1>1
    <3> QED
      BY <1>1, <3>1, <3>2 DEF LoadedEntries
  <2> QED
    BY <2>1
<1>5. docs' \in [Names -> Record \union {NoDoc, Torn}]
  BY <1>1
<1>6. dbTypes' \in [Types -> Names \union {NoName}]
  <2>1. ASSUME NEW t \in Types PROVE dbTypes'[t] \in Names \union {NoName}
    BY <1>2, <1>3
  <2> QED
    BY <1>1, <2>1 DEF LoadedTypes
<1>7. entries' \in [Entries -> Entry \union {Gone}]
  <2>1. ASSUME NEW e \in Entries PROVE entries'[e] \in Entry \union {Gone}
    <3>1. CASE \E n \in K : f[n] = e
      BY <1>2, <1>4, <3>1
    <3>2. CASE ~\E n \in K : f[n] = e
      BY <1>1, <3>2 DEF LoadedEntries
    <3> QED
      BY <3>1, <3>2
  <2> QED
    BY <1>1, <2>1 DEF LoadedEntries
<1>8. \A n \in Names : dbs'[n] # NoEntry =>
        n \in K /\ dbs'[n] = f[n] /\ entries'[dbs'[n]] = Loaded(ds[n])
  BY <1>1, <1>4
<1>9. MapsAgree'
  <2>1. ASSUME NEW t \in Types, dbTypes'[t] # NoName
        PROVE  dbs'[dbTypes'[t]] # NoEntry /\ entries'[dbs'[dbTypes'[t]]].type = t
    <3>1. PICK n \in K : ds[n].type = t
      BY <1>3, <2>1
    <3>2. dbTypes'[t] = n /\ dbs'[n] = f[n] /\ f[n] # NoEntry
      BY <1>1, <1>2, <1>3, <3>1
    <3> QED
      BY <1>2, <1>4, <3>1, <3>2
  <2>2. ASSUME NEW n \in Names, dbs'[n] # NoEntry
        PROVE  dbTypes'[entries'[dbs'[n]].type] = n
    BY <1>2, <1>3, <1>8, <2>2
  <2>3. \A m, n \in Names : dbs'[m] = dbs'[n] /\ dbs'[m] # NoEntry => m = n
    BY <1>1
  <2> QED
    BY <2>1, <2>2, <2>3 DEF MapsAgree
<1>10. PathsAgree'
  <2>1. \A n \in Names : docs'[n] \in Record => docs'[n] = ds[n]
    BY <1>1, ObjectsAssumption
  <2>2. \A n \in Names : dbs'[n] # NoEntry => NameOf[entries'[dbs'[n]].map] = n
    BY <1>2, <1>8
  <2> QED
    BY <2>1, <2>2 DEF PathsAgree
<1> QED
  BY <1>1, <1>5, <1>6, <1>7, <1>8, <1>9, <1>10, <1>2, ObjectsAssumption

(* A constructor that throws leaves nothing. *)
LEMMA LoadFailsStep ==
  ASSUME NEW fs, NEW ds \in [Names -> Record \union {NoDoc, Torn}], NEW R \in SUBSET Names,
         \A n \in Names : ds[n] \in Record => NameOf[ds[n].path] = n,
         LoadFails(fs, ds, R)
  PROVE  /\ docs' \in [Names -> Record \union {NoDoc, Torn}]
         /\ dbs' \in [Names -> Entries \union {NoEntry}]
         /\ dbTypes' \in [Types -> Names \union {NoName}]
         /\ entries' \in [Entries -> Entry \union {Gone}]
         /\ \A n \in Names : dbs'[n] # NoEntry => entries'[dbs'[n]] # Gone
         /\ op' = [Idle EXCEPT !.pc = "down"] /\ MapsAgree' /\ PathsAgree'
<1>1. /\ docs' \in [Names -> Record \union {NoDoc, Torn}]
      /\ \A n \in Names : docs'[n] \in Record => docs'[n] = ds[n]
  BY ObjectsAssumption DEF LoadFails
<1>2. MapsAgree' /\ PathsAgree'
  BY <1>1 DEF LoadFails, MapsAgree, PathsAgree
<1> QED
  BY <1>1, <1>2 DEF LoadFails

(* Both of them establish the invariant again after a crash. *)
LEMMA RestartStep ==
  ASSUME GeoInv, Restart PROVE GeoInv'
<1>1. PICK fs \in CrashedFiles, ds \in CrashedDocs :
        \E U \in Unlucky(ds) :
          files' = fs /\ (Load(fs, ds, Names \ U) \/ LoadFails(fs, ds, Names \ U))
  BY DEF Restart
<1>u. PICK U \in Unlucky(ds) :
        files' = fs /\ (Load(fs, ds, Names \ U) \/ LoadFails(fs, ds, Names \ U))
  BY <1>1
<1>2. /\ fs \in [Paths -> Contents \union {Junk, NoFile}]
      /\ ds \in [Names -> Record \union {NoDoc, Torn}]
      /\ \A n \in Names : ds[n] \in Record => NameOf[ds[n].path] = n
      /\ Names \ U \in SUBSET Names
  BY CrashedTypes
<1>3. /\ docs' \in [Names -> Record \union {NoDoc, Torn}]
      /\ dbs' \in [Names -> Entries \union {NoEntry}]
      /\ dbTypes' \in [Types -> Names \union {NoName}]
      /\ entries' \in [Entries -> Entry \union {Gone}]
      /\ \A n \in Names : dbs'[n] # NoEntry => entries'[dbs'[n]] # Gone
      /\ op' = Idle \/ op' = [Idle EXCEPT !.pc = "down"]
      /\ MapsAgree' /\ PathsAgree'
  BY <1>u, <1>2, LoadStep, LoadFailsStep
<1>4. op' \in Ops /\ op'.pc \in {"idle", "down"} /\ op'.held = NoEntry
  BY <1>3, RetriesAssumption DEF Idle, Ops, Pcs
<1>5. weak' \in [Locators -> Entries \union {NoEntry}] /\ lip' \in [Locators -> Ips \union {NoIp}]
      /\ cached' \in [Locators -> [ip : Ips \union {NoIp},
                                   from : Contents \union {Junk, NoFile, NoContent}]]
      /\ lpc' \in [Locators -> {"none", "have", "read"}]
      /\ \A l \in Locators : lpc'[l] = "none"
  BY DEF Restart, Uncached
<1>6. WellTyped'
  BY <1>u, <1>2, <1>3, <1>4, <1>5 DEF WellTyped
<1>7. CallTyped' /\ References'
  BY <1>3, <1>4, <1>5 DEF CallTyped, References
<1>8. FailureInstallsNothing' /\ HeldAgrees' /\ RetriesAgree'
  BY <1>4 DEF FailureInstallsNothing, HeldAgrees, RetriesAgree
<1> QED
  BY <1>3, <1>6, <1>7, <1>8 DEF GeoInv, TypeOK

-----------------------------------------------------------------------------
(* Every step keeps the invariant. *)
LEMMA NextInv == GeoInv /\ [Next]_vars => GeoInv'
<1> SUFFICES ASSUME GeoInv, [Next]_vars PROVE GeoInv'
  OBVIOUS
<1>1. CASE Restart
  BY <1>1, RestartStep
<1>2. CASE Continue
  BY <1>2, StoreEntryStep, EraseDbStep, ResetEntryStep, ForgetEntryStep, DownloadStep,
     ReplaceDbStep, InstallDbStep DEF Continue
<1>3. CASE \E p \in Paths : Call(p)
  BY <1>3, RemoveDbStep, AddDbStep, RemoteUpsertStep DEF Call
<1>4. CASE \E l \in Locators : Locate(l)
  BY <1>4, LocateStep
<1>5. CASE UNCHANGED vars
  <2>1. UNCHANGED <<files, docs, dbs, dbTypes, entries, op, weak, cached, lpc, lip>>
    BY <1>5 DEF vars, disk, maps, locators
  <2>2. WellTyped' /\ CallTyped' /\ References'
    BY <2>1 DEF GeoInv, TypeOK, WellTyped, CallTyped, References, Name
  <2>3. MapsAgree' /\ PathsAgree'
    BY <2>1 DEF GeoInv, MapsAgree, PathsAgree, Name
  <2>4. FailureInstallsNothing' /\ HeldAgrees' /\ RetriesAgree'
    BY <2>1 DEF GeoInv, FailureInstallsNothing, HeldAgrees, RetriesAgree, Managed, Name
  <2> QED
    BY <2>2, <2>3, <2>4 DEF GeoInv, TypeOK
<1> QED
  BY <1>1, <1>2, <1>3, <1>4, <1>5 DEF Next

(* The invariant holds in every behaviour. *)
LEMMA GeoInvariant == Spec => []GeoInv
<1> QED
  BY InitInv, NextInv, PTL DEF Spec

(* Every reference that the manager or a locator can follow is to an entry *)
(* that exists, and a call has what its next step needs: through failed    *)
(* downloads, writes and store calls, crashes and restarts.                *)
THEOREM GeoTypeCorrect == Spec => []TypeOK
<1>1. GeoInv => TypeOK
  BY DEF GeoInv
<1> QED
  BY <1>1, GeoInvariant, PTL

(* dbs_ and dbTypes_ agree: one database of every type, and the type that  *)
(* getLocator looks up is always there for dbs_.at to find.                *)
THEOREM OneDatabasePerType == Spec => []MapsAgree
<1>1. GeoInv => MapsAgree
  BY DEF GeoInv
<1> QED
  BY <1>1, GeoInvariant, PTL

(* An upsert whose downloads failed installs nothing, whatever the number  *)
(* of retries.                                                             *)
THEOREM FailedDownloadsInstallNothing == Spec => []FailureInstallsNothing
<1>1. GeoInv => FailureInstallsNothing
  BY DEF GeoInv
<1> QED
  BY <1>1, GeoInvariant, PTL

-----------------------------------------------------------------------------
(* The database a locator reads does not change under it.  A call of the   *)
(* manager that writes a file meets the readers of that file at the mutex  *)
(* of its entry, because a file belongs to one name (PathsAgree).          *)
LEMMA WriteKeepsOthers ==
  ASSUME GeoInv, NEW n \in Names, NEW e \in Entries, dbs[n] = e, n # Name,
         NEW x, files' = [files EXCEPT ![op.path] = x], entries'[e] = entries[e]
  PROVE  Served(e)' = Served(e)
<1>1. entries[e] \in Entry
  BY ValuesAssumption DEF GeoInv, TypeOK, WellTyped, References
<1>2. CASE entries[e].map = Closed
  BY <1>2 DEF Served
<1>3. CASE entries[e].map # Closed
  <2>1. entries[e].map \in Paths /\ entries[e].map # op.path
    BY <1>1, <1>3, ValuesAssumption DEF Entry, GeoInv, PathsAgree, Name
  <2> QED
    BY <1>3, <2>1 DEF Served, GeoInv, TypeOK, WellTyped
<1> QED
  BY <1>2, <1>3

(* No step of anybody disturbs a reader. *)
LEMMA StableStep ==
  ASSUME GeoInv, [Next]_vars, NEW l \in Locators, NEW n \in Names, NEW e \in Entries
  PROVE  Stable(l, n, e)
<1> SUFFICES ASSUME lpc[l] = "read", lpc'[l] = "read", weak[l] = e, dbs[n] = e
             PROVE  dbs'[n] = e /\ entries'[e] = entries[e] /\ Served(e)' = Served(e)
  BY DEF Stable
<1>0. /\ e # NoEntry /\ entries[e] # Gone /\ Managed(e) /\ Reading(e)
      /\ dbs \in [Names -> Entries \union {NoEntry}]
      /\ entries \in [Entries -> Entry \union {Gone}]
  BY ValuesAssumption DEF GeoInv, TypeOK, WellTyped, References, Managed, Reading
<1>1. ASSUME UNCHANGED <<files, dbs, entries>>
      PROVE  dbs'[n] = e /\ entries'[e] = entries[e] /\ Served(e)' = Served(e)
  BY <1>1 DEF Served
<1>2. ASSUME files' = files, dbs'[n] = e, entries'[e] = entries[e]
      PROVE  Served(e)' = Served(e)
  BY <1>2 DEF Served
<1>3. CASE Restart
  BY <1>3 DEF Restart
<1>4. CASE StoreEntry \/ ForgetEntry \/ Download \/ EndRetries \/ WriteFails
  BY <1>1, <1>4 DEF StoreEntry, ForgetEntry, Download, EndRetries, WriteFails, disk, maps
<1>5. CASE EraseDb
  <2>1. n # Name
    BY <1>0, <1>5 DEF EraseDb, GeoInv, HeldAgrees
  <2>2. dbs'[n] = e /\ entries'[e] = entries[e] /\ files' = files
    BY <1>0, <1>5, <2>1 DEF EraseDb, disk
  <2> QED
    BY <1>2, <2>2
<1>6. CASE ResetEntry
  <2>1. e # op.held
    BY <1>0, <1>6 DEF ResetEntry, GeoInv, HeldAgrees
  <2>2. dbs'[n] = e /\ entries'[e] = entries[e] /\ files' = files
    BY <1>0, <1>6, <2>1 DEF ResetEntry, Destroy, disk
  <2> QED
    BY <1>2, <2>2
<1>7. CASE ReplaceDb
  <2>1. PICK x \in Written(op.content), m \in Paths \union {Closed} :
          files' = [files EXCEPT ![op.path] = x]
          /\ entries' = [entries EXCEPT ![dbs[Name]].map = m]
    BY <1>7 DEF ReplaceDb, WriteDb, Map, GeoInv, TypeOK, CallTyped
  <2>2. dbs' = dbs /\ n # Name /\ dbs[Name] # e
    BY <1>0, <1>7 DEF ReplaceDb, Replaceable, maps
  <2>3. entries'[e] = entries[e]
    BY <1>0, <2>1, <2>2
  <2> QED
    BY <2>1, <2>2, <2>3, WriteKeepsOthers
<1>8. ASSUME NEW p \in Paths, NEW t \in Types, Add(p, t), dbs[NameOf[p]] = NoEntry
      PROVE  n # NameOf[p] /\ dbs'[n] = e /\ entries'[e] = entries[e]
  BY <1>0, <1>8 DEF Add, Fresh
<1>9. CASE InstallDb
  <2>1. op.path \in Paths /\ op.type \in Types /\ dbs[NameOf[op.path]] = NoEntry /\ n # Name
    BY <1>0, <1>9 DEF InstallDb, GeoInv, TypeOK, CallTyped, Name
  <2>2. dbs'[n] = e /\ entries'[e] = entries[e]
    BY <1>8, <1>9, <2>1 DEF InstallDb, maps
  <2>3. PICK x : files' = [files EXCEPT ![op.path] = x]
    BY <1>9 DEF InstallDb, WriteDb
  <2> QED
    BY <2>1, <2>2, <2>3, WriteKeepsOthers
<1>10. ASSUME NEW p \in Paths, Call(p)
       PROVE  dbs'[n] = e /\ entries'[e] = entries[e] /\ Served(e)' = Served(e)
  <2>1. CASE RemoveDb(p)
    BY <1>1, <2>1 DEF RemoveDb, disk, maps
  <2>2. ASSUME NEW t \in Types, NEW h \in Contents, RemoteUpsert(p, t, h)
        PROVE  dbs'[n] = e /\ entries'[e] = entries[e] /\ Served(e)' = Served(e)
    BY <1>1, <2>2 DEF RemoteUpsert, disk, maps
  <2>3. ASSUME NEW t \in Types, AddDb(p, t)
        PROVE  dbs'[n] = e /\ entries'[e] = entries[e] /\ Served(e)' = Served(e)
    BY <1>2, <1>8, <2>3 DEF AddDb, CanAdd, disk
  <2> QED
    BY <1>10, <2>1, <2>2, <2>3 DEF Call
<1>11. ASSUME NEW m \in Locators, Locate(m)
       PROVE  dbs'[n] = e /\ entries'[e] = entries[e] /\ Served(e)' = Served(e)
  <2>1. ASSUME Leave(m)
        PROVE  dbs'[n] = e /\ entries'[e] = entries[e] /\ Served(e)' = Served(e)
    <3>1. dbs' = dbs /\ files' = files
      BY <2>1 DEF Leave, disk, maps
    <3>2. weak[m] = e => SharedWith(m, weak[m])
      BY <1>0 DEF SharedWith
    <3>3. entries'[e] = entries[e]
      BY <1>0, <2>1, <3>2 DEF Leave, Destroy
    <3> QED
      BY <1>2, <3>1, <3>3
  <2>2. CASE Unavailable(m) \/ Answer(m)
    BY <2>1, <2>2 DEF Unavailable, Answer
  <2>3. CASE \/ \E t \in Types : GetLocator(m, t)
             \/ \E ip \in Ips : LockWeak(m, ip)
             \/ Lookup(m)
    BY <1>1, <2>3 DEF GetLocator, LockWeak, Lookup, disk, maps
  <2> QED
    BY <1>11, <2>2, <2>3 DEF Locate
<1>12. CASE UNCHANGED vars
  BY <1>1, <1>12 DEF vars, disk, maps
<1> QED
  BY <1>3, <1>4, <1>5, <1>6, <1>7, <1>9, <1>10, <1>11, <1>12 DEF Next, Continue

(* A database is neither removed, closed, opened again nor written over    *)
(* while a locator is in the middle of reading it, for any number of       *)
(* locators and of databases.                                              *)
THEOREM ReadersSeeNoChange == Spec => StableWhileReading
<1>1. GeoInv /\ [Next]_vars =>
        [\A l \in Locators, n \in Names, e \in Entries : Stable(l, n, e)]_vars
  BY StableStep
<1> QED
  BY <1>1, GeoInvariant, PTL DEF Spec, StableWhileReading

-----------------------------------------------------------------------------
(* While the store does not fail and the process does not crash, the hash  *)
(* in the store is that of the database served, but for the one database   *)
(* that the running call has changed and not yet stored or removed.        *)
Hash(n) == docs[n] \in Record /\ docs[n].hash = Served(dbs[n])

CallAgrees ==
  /\ op.pc = "store" => entries[dbs[Name]].map = op.path
  /\ op.pc = "forget" => dbs[Name] = NoEntry

HashInv ==
  /\ \A n \in Names :
       dbs[n] # NoEntry /\ ~(op.pc \in {"store", "remove"} /\ n = Name) => Hash(n)
  /\ CallAgrees

(* A step that leaves a database, its file and its document alone. *)
LEMMA KeepsHash ==
  ASSUME NEW n \in Names, NEW e \in Entries, dbs[n] = e, dbs'[n] = e, docs'[n] = docs[n],
         Served(e)' = Served(e), Hash(n)
  PROVE  Hash(n)'
<1>1. docs'[n] \in Record /\ docs'[n].hash = Served(e)'
  BY DEF Hash
<1> QED
  BY <1>1 DEF Hash, Served

(* What the running call, and what the locators, do to the database of one *)
(* name.                                                                   *)
LEMMA HashStep ==
  ASSUME GeoInv, HashInv, [Next]_vars, "crash" \notin Faults, "store" \notin Faults,
         NEW n \in Names, dbs'[n] # NoEntry, ~(op'.pc \in {"store", "remove"} /\ n = Name')
  PROVE  Hash(n)'
<1>0. /\ dbs \in [Names -> Entries \union {NoEntry}]
      /\ entries \in [Entries -> Entry \union {Gone}]
      /\ docs \in [Names -> Record \union {NoDoc, Torn}]
      /\ files \in [Paths -> Contents \union {Junk, NoFile}]
  BY DEF GeoInv, TypeOK, WellTyped
<1>1. ASSUME UNCHANGED <<files, docs, dbs, entries>>, op.pc \notin {"store", "remove"} \/ n # Name
      PROVE  Hash(n)'
  <2>1. Hash(n)
    BY <1>1 DEF HashInv
  <2> QED
    BY <1>1, <2>1 DEF Hash, Served
<1>2. ASSUME NEW e \in Entries, dbs[n] = e, dbs'[n] = e, files' = files, docs'[n] = docs[n],
             entries'[e] = entries[e], op.pc \notin {"store", "remove"} \/ n # Name
      PROVE  Hash(n)'
  <2>1. Hash(n) /\ Served(e)' = Served(e)
    BY <1>2, ValuesAssumption DEF HashInv, Served
  <2> QED
    BY <1>2, <2>1, KeepsHash
<1>3. CASE StoreEntry
  <2>1. docs' = [docs EXCEPT ![Name] = Document] /\ UNCHANGED <<files, dbs, entries>>
        /\ op.pc = "store"
    BY <1>3 DEF StoreEntry, maps
  <2>2. CASE n = Name
    <3>1. docs'[n] = Document
      BY <1>0, <2>1, <2>2
    <3>2. /\ op.path \in Paths /\ dbs[Name] \in Entries /\ entries[dbs[Name]] \in Entry
          /\ files[op.path] \in Contents /\ op.path # Closed
      BY <1>0, <2>1, <2>2, ValuesAssumption DEF GeoInv, TypeOK, CallTyped, References
    <3>3. Document \in Record /\ Document.hash = files[op.path]
      BY <3>2 DEF Document, Record, Entry
    <3>4. Served(dbs[n])' = files[op.path]
      BY <2>1, <2>2, <3>2 DEF Served, HashInv, CallAgrees
    <3> QED
      BY <3>1, <3>3, <3>4 DEF Hash
  <2>3. CASE n # Name
    BY <1>0, <1>2, <2>1, <2>3
  <2> QED
    BY <2>2, <2>3
<1>4. CASE Download \/ EndRetries \/ WriteFails
  BY <1>1, <1>4 DEF Download, EndRetries, WriteFails, disk, maps
<1>5. CASE EraseDb
  <2>1. n # Name /\ dbs'[n] = dbs[n]
    BY <1>0, <1>5 DEF EraseDb
  <2> QED
    BY <1>0, <1>2, <1>5, <2>1 DEF EraseDb, disk
<1>6. CASE ResetEntry
  <2>1. dbs[n] # op.held
    BY <1>0, <1>6 DEF ResetEntry, GeoInv, HeldAgrees, Managed
  <2>2. dbs'[n] = dbs[n] /\ entries'[dbs[n]] = entries[dbs[n]] /\ op.pc = "reset"
        /\ UNCHANGED disk
    BY <1>0, <1>6, <2>1 DEF ResetEntry, Destroy
  <2> QED
    BY <1>0, <1>2, <2>2 DEF disk
<1>7. CASE ForgetEntry
  <2>1. n # Name /\ docs'[n] = docs[n]
    BY <1>0, <1>7 DEF ForgetEntry, HashInv, CallAgrees, maps
  <2> QED
    BY <1>0, <1>2, <1>7, <2>1 DEF ForgetEntry, maps
<1>8. ASSUME NEW e \in Entries, dbs[n] = e, dbs'[n] = e, docs' = docs, op.pc = "install",
             n # Name, NEW x, files' = [files EXCEPT ![op.path] = x], entries'[e] = entries[e]
      PROVE  Hash(n)'
  <2>1. Served(e)' = Served(e)
    BY <1>8, WriteKeepsOthers
  <2>2. Hash(n)
    BY <1>8, ValuesAssumption DEF HashInv
  <2> QED
    BY <1>8, <2>1, <2>2, KeepsHash
<1>9. CASE ReplaceDb
  <2>1. PICK x \in Written(op.content), m \in Paths \union {Closed} :
          files' = [files EXCEPT ![op.path] = x]
          /\ entries' = [entries EXCEPT ![dbs[Name]].map = m]
    BY <1>9 DEF ReplaceDb, WriteDb, Map, GeoInv, TypeOK, CallTyped
  <2>2. /\ dbs' = dbs /\ docs' = docs /\ op.pc = "install" /\ op \in Ops
        /\ op.path \in Paths /\ Name \in Names
    BY <1>9, NamesAssumption DEF ReplaceDb, maps, GeoInv, TypeOK, CallTyped, WellTyped, Name
  <2>3. op'.pc \in {"store", "remove"} /\ op'.path = op.path
    BY <1>9, <2>2 DEF ReplaceDb, Goto, Ops
  <2>4. n # Name /\ dbs[Name] # NoEntry /\ dbs[Name] # dbs[n]
    BY <1>9, <2>2, <2>3 DEF ReplaceDb, Replaceable, Name, GeoInv, MapsAgree
  <2>5. entries'[dbs[n]] = entries[dbs[n]]
    BY <1>0, <2>1, <2>2, <2>4
  <2> QED
    BY <1>0, <1>8, <2>1, <2>2, <2>4, <2>5
<1>10. ASSUME NEW p \in Paths, NEW t \in Types, Add(p, t), n # NameOf[p]
       PROVE  dbs'[n] = dbs[n] /\ entries'[dbs[n]] = entries[dbs[n]]
  BY <1>0, <1>10 DEF Add, Fresh, GeoInv, TypeOK, References
<1>11. CASE InstallDb
  <2>1. /\ op.path \in Paths /\ op.type \in Types /\ dbs[Name] = NoEntry /\ op \in Ops
        /\ docs' = docs /\ op.pc = "install"
    BY <1>11 DEF InstallDb, GeoInv, TypeOK, CallTyped, WellTyped
  <2>2. PICK x : files' = [files EXCEPT ![op.path] = x]
    BY <1>11 DEF InstallDb, WriteDb
  <2>3. CASE UNCHANGED <<maps, entries>>
    <3>1. n # Name /\ dbs'[n] = dbs[n] /\ entries'[dbs[n]] = entries[dbs[n]]
      BY <2>1, <2>3 DEF maps
    <3> QED
      BY <1>0, <1>8, <2>1, <2>2, <3>1
  <2>4. CASE Add(op.path, op.type) /\ Goto("store")
    <3>1. op'.pc = "store" /\ Name' = Name
      BY <2>1, <2>4 DEF Goto, Ops, Name
    <3>2. n # Name /\ dbs'[n] = dbs[n] /\ entries'[dbs[n]] = entries[dbs[n]]
      BY <1>10, <2>1, <2>4, <3>1 DEF Name
    <3> QED
      BY <1>0, <1>8, <2>1, <2>2, <3>2
  <2> QED
    BY <1>11, <2>3, <2>4 DEF InstallDb
<1>12. ASSUME NEW p \in Paths, Call(p) PROVE Hash(n)'
  <2>0. op.pc = "idle"
    <3>1. op = Idle
      BY <1>12 DEF Call, RemoveDb, AddDb, RemoteUpsert
    <3> QED
      BY <3>1 DEF Idle
  <2>1. CASE RemoveDb(p)
    BY <1>1, <2>0, <2>1 DEF RemoveDb, disk, maps
  <2>2. ASSUME NEW t \in Types, NEW h \in Contents, RemoteUpsert(p, t, h) PROVE Hash(n)'
    BY <1>1, <2>0, <2>2 DEF RemoteUpsert, disk, maps
  <2>3. ASSUME NEW t \in Types, AddDb(p, t) PROVE Hash(n)'
    <3>1. op'.pc = "store" /\ op'.path = p /\ Add(p, t) /\ UNCHANGED disk
      BY <2>3 DEF AddDb, Start, Idle
    <3>2. n # NameOf[p]
      BY <3>1 DEF Name
    <3> QED
      BY <1>0, <1>2, <1>10, <2>0, <3>1, <3>2 DEF disk
  <2> QED
    BY <1>12, <2>1, <2>2, <2>3 DEF Call
<1>13. ASSUME NEW l \in Locators, Locate(l) PROVE Hash(n)'
  <2>1. UNCHANGED <<disk, maps, op>>
    BY <1>13 DEF Locate, GetLocator, LockWeak, Lookup, Unavailable, Answer, Leave
  <2>2. op.pc \notin {"store", "remove"} \/ n # Name
    BY <2>1 DEF Name
  <2>3. entries'[dbs[n]] = entries[dbs[n]]
    <3>0. dbs[n] # NoEntry
      BY <2>1 DEF maps
    <3>1. weak[l] = dbs[n] => SharedWith(l, weak[l])
      BY DEF SharedWith, Managed
    <3>2. ASSUME Leave(l) PROVE entries'[dbs[n]] = entries[dbs[n]]
      BY <1>0, <3>0, <3>1, <3>2 DEF Leave, Destroy
    <3> QED
      BY <1>13, <3>2 DEF Locate, GetLocator, LockWeak, Lookup, Unavailable, Answer
  <2> QED
    BY <1>0, <1>2, <2>1, <2>2, <2>3 DEF disk, maps
<1>14. CASE UNCHANGED vars
  <2>1. UNCHANGED <<files, docs, dbs, entries, op>>
    BY <1>14 DEF vars, disk, maps
  <2> QED
    BY <1>1, <2>1 DEF Name
<1>15. ~Restart
  BY DEF Restart
<1> QED
  BY <1>3, <1>4, <1>5, <1>6, <1>7, <1>9, <1>11, <1>12, <1>13, <1>14, <1>15 DEF Next, Continue

(* The running call and its database, which only that call can disturb. *)
LEMMA CallAgreesStep ==
  ASSUME GeoInv, GeoInv', CallAgrees, [Next]_vars
  PROVE  CallAgrees'
<1> DEFINE Goal == /\ op'.pc = "store" => entries'[dbs'[Name']].map = op'.path
                   /\ op'.pc = "forget" => dbs'[Name'] = NoEntry
<1>g. SUFFICES Goal
  BY DEF CallAgrees
<1>0. /\ op \in Ops
      /\ dbs \in [Names -> Entries \union {NoEntry}]
      /\ entries \in [Entries -> Entry \union {Gone}]
  BY DEF GeoInv, TypeOK, WellTyped
<1>1. CASE StoreEntry \/ ForgetEntry
  BY <1>1 DEF StoreEntry, ForgetEntry, Return, Idle
<1>2. CASE Download \/ EndRetries \/ WriteFails
  <2>1. Idle.pc = "idle"
    BY DEF Idle
  <2>2. ASSUME Download PROVE op'.pc \in {"idle", "download", "install"}
    BY <1>0, <2>1, <2>2 DEF Download, Return, Retry, DownloadFails, Ops
  <2>3. ASSUME EndRetries \/ WriteFails PROVE op'.pc \in {"idle", "download", "install"}
    BY <1>0, <2>1, <2>3 DEF EndRetries, WriteFails, Return, Goto, Ops
  <2> QED
    BY <1>2, <2>2, <2>3
<1>3. CASE EraseDb
  BY <1>0, <1>3 DEF EraseDb, Goto, Ops
<1>4. CASE ResetEntry
  <2>1. op'.pc = "forget" /\ op'.path = op.path /\ dbs' = dbs /\ dbs[Name] = NoEntry
    BY <1>0, <1>4 DEF ResetEntry, Ops, GeoInv, HeldAgrees
  <2> QED
    BY <2>1 DEF Name
<1>5. ASSUME NEW p \in Paths, NEW t \in Types, Add(p, t), op'.path = p, op'.pc = "store"
      PROVE  Goal
  <2>1. PICK e \in Entries :
          /\ dbs' = [dbs EXCEPT ![NameOf[p]] = e]
          /\ entries' = [entries EXCEPT ![e] = [path |-> p, type |-> t, map |-> p]]
    BY <1>5 DEF Add, Fresh
  <2>2. dbs'[Name'] = e /\ entries'[e].map = p
    BY <1>0, <1>5, <2>1, NamesAssumption DEF Name
  <2> QED
    BY <1>5, <2>2
<1>6. CASE ReplaceDb
  <2>1. /\ dbs' = dbs /\ Name \in Names /\ dbs[Name] \in Entries /\ entries[dbs[Name]] \in Entry
    BY <1>0, <1>6, NamesAssumption DEF ReplaceDb, Replaceable, maps, GeoInv, TypeOK, CallTyped, References, Name
  <2>2. CASE op'.pc = "store"
    <3>1. op'.path = op.path /\ Map(dbs[Name], op.path)
      BY <1>0, <1>6, <2>2 DEF ReplaceDb, Goto, Ops
    <3>2. entries'[dbs[Name]].map = op.path
      BY <1>0, <2>1, <3>1 DEF Map, Entry
    <3> QED
      BY <2>1, <2>2, <3>1, <3>2 DEF Name
  <2>3. op'.pc \in {"store", "remove"}
    BY <1>0, <1>6 DEF ReplaceDb, Goto, Ops
  <2> QED
    BY <2>2, <2>3
<1>7. CASE InstallDb
  <2>1. op.path \in Paths /\ op.type \in Types
    BY <1>7 DEF InstallDb, GeoInv, TypeOK, CallTyped
  <2>2. CASE Return
    BY <2>2 DEF Return, Idle
  <2>3. CASE Add(op.path, op.type) /\ Goto("store")
    <3>1. op'.path = op.path /\ op'.pc = "store"
      BY <1>0, <2>3 DEF Goto, Ops
    <3> QED
      BY <1>5, <2>1, <2>3, <3>1
  <2> QED
    BY <1>7, <2>2, <2>3 DEF InstallDb
<1>8. ASSUME NEW p \in Paths, Call(p) PROVE Goal
  <2>1. CASE RemoveDb(p) \/ \E t \in Types, h \in Contents : RemoteUpsert(p, t, h)
    BY <2>1 DEF RemoveDb, RemoteUpsert, Idle
  <2>2. ASSUME NEW t \in Types, AddDb(p, t) PROVE Goal
    <3>1. op'.path = p /\ op'.pc = "store" /\ Add(p, t)
      BY <2>2 DEF AddDb, Start, Idle
    <3> QED
      BY <1>5, <3>1
  <2> QED
    BY <1>8, <2>1, <2>2 DEF Call
<1>9. ASSUME UNCHANGED <<dbs, op>>, \A n \in Names : dbs[n] # NoEntry => entries'[dbs[n]] = entries[dbs[n]]
      PROVE  Goal
  <2>1. op.pc = "store" => Name \in Names /\ dbs[Name] # NoEntry
    BY NamesAssumption DEF GeoInv, TypeOK, CallTyped, Name
  <2> QED
    BY <1>9, <2>1 DEF CallAgrees, Name
<1>10. ASSUME NEW l \in Locators, Locate(l) PROVE Goal
  <2>1. UNCHANGED <<dbs, op>>
    BY <1>10 DEF Locate, GetLocator, LockWeak, Lookup, Unavailable, Answer, Leave, maps
  <2>2. ASSUME NEW n \in Names, dbs[n] # NoEntry PROVE entries'[dbs[n]] = entries[dbs[n]]
    <3>1. weak[l] = dbs[n] => SharedWith(l, weak[l])
      BY DEF SharedWith, Managed
    <3>2. ASSUME Leave(l) PROVE entries'[dbs[n]] = entries[dbs[n]]
      BY <1>0, <2>2, <3>1, <3>2 DEF Leave, Destroy
    <3> QED
      BY <1>10, <2>2, <3>2 DEF Locate, GetLocator, LockWeak, Lookup, Unavailable, Answer
  <2> QED
    BY <1>9, <2>1, <2>2
<1>11. CASE UNCHANGED vars
  BY <1>9, <1>11 DEF vars, maps
<1>12. CASE Restart
  BY <1>12 DEF Restart, Load, LoadFails, Idle
<1> QED
  BY <1>1, <1>2, <1>3, <1>4, <1>6, <1>7, <1>8, <1>10, <1>11, <1>12 DEF Next, Continue

(* Between two calls the stored hash is that of the database served, so    *)
(* that an upsert is skipped only when it would change nothing: for any    *)
(* downloads and failed writes of databases, as long as the store does not *)
(* fail and the process does not die in the middle of a call.              *)
THEOREM StoredHashIsOfServed ==
  ASSUME "crash" \notin Faults, "store" \notin Faults
  PROVE  Spec => []HashOfServed
<1>1. Init => HashInv
  BY DEF Init, HashInv, CallAgrees, Idle
<1>2. GeoInv /\ GeoInv' /\ HashInv /\ [Next]_vars => HashInv'
  BY HashStep, CallAgreesStep DEF HashInv
<1>3. HashInv => HashOfServed
  BY DEF HashInv, HashOfServed, Hash, Idle
<1> QED
  BY <1>1, <1>2, <1>3, GeoInvariant, PTL DEF Spec

-----------------------------------------------------------------------------
(* While the store does not fail, the manager and the documents agree, but *)
(* for the one database that the running call has changed and not yet      *)
(* stored or forgotten; a crash leaves documents that the next start reads *)
(* again, or one that is torn, and then no process starts.                 *)
Matched(n) ==
  IF dbs[n] = NoEntry THEN docs[n] = NoDoc
  ELSE /\ docs[n] \in Record /\ files[docs[n].path] \in Valid
       /\ docs[n].path = entries[dbs[n]].map /\ docs[n].type = entries[dbs[n]].type

Unfinished == {"store", "remove", "reset", "forget"}

KeptInv ==
  op.pc # "down" =>
    \A n \in Names : Matched(n) \/ (op.pc \in Unfinished /\ n = Name)

(* A step that leaves a database, its file and its document alone. *)
LEMMA KeepsMatched ==
  ASSUME NEW n \in Names, Matched(n), dbs'[n] = dbs[n], docs'[n] = docs[n],
         docs[n] \in Record => files'[docs[n].path] = files[docs[n].path],
         dbs[n] # NoEntry => entries'[dbs[n]] = entries[dbs[n]]
  PROVE  Matched(n)'
<1>1. CASE dbs[n] = NoEntry
  BY <1>1 DEF Matched
<1>2. CASE dbs[n] # NoEntry
  <2>1. /\ docs[n] \in Record /\ files[docs[n].path] \in Valid
        /\ docs[n].path = entries[dbs[n]].map /\ docs[n].type = entries[dbs[n]].type
    BY <1>2 DEF Matched
  <2>2. /\ docs'[n] \in Record /\ files'[docs'[n].path] \in Valid
        /\ docs'[n].path = entries'[dbs'[n]].map /\ docs'[n].type = entries'[dbs'[n]].type
    BY <1>2, <2>1
  <2> QED
    BY <1>2, <2>2 DEF Matched
<1> QED
  BY <1>1, <1>2

(* What the constructor makes of the documents when it can read them all.  *)
LEMMA LoadPicks ==
  ASSUME "store" \notin Faults, NEW fs, NEW ds, NEW R \in SUBSET Names,
         R = Names, Load(fs, ds, R)
  PROVE  /\ op' = Idle
         /\ \E K \in SUBSET {n \in Names : Loadable(ds[n], fs)} :
              /\ \A n \in Names : n \notin K => dbs'[n] = NoEntry /\ docs'[n] = NoDoc
              /\ \A n \in K : /\ dbs'[n] # NoEntry /\ docs'[n] = ds[n]
                              /\ entries'[dbs'[n]] = Loaded(ds[n])
              /\ \A n \in Names : Loadable(ds[n], fs) => \E m \in K : ds[m].type = ds[n].type
<1>1. PICK K \in SUBSET {n \in R : Loadable(ds[n], fs)},
           f \in [Names -> Entries \union {NoEntry}], D \in Unlucky(ds) :
        /\ \A n \in R : Loadable(ds[n], fs) => \E m \in K : ds[m].type = ds[n].type
        /\ \A n \in Names : f[n] = NoEntry <=> n \notin K
        /\ \A m, n \in K : f[m] = f[n] => m = n
        /\ docs' = [n \in Names |-> IF n \in R \ (K \union D) THEN NoDoc ELSE ds[n]]
        /\ dbs' = f
        /\ entries' = LoadedEntries(ds, K, f)
        /\ op' = Idle
  BY DEF Load
<1>2. D = {}
  BY <1>1 DEF Unlucky
<1>3. ASSUME NEW n \in K PROVE entries'[f[n]] = Loaded(ds[n])
  <2>1. f[n] \in Entries
    BY <1>1
  <2>2. (CHOOSE m \in K : f[m] = f[n]) = n
    BY <1>1
  <2> QED
    BY <1>1, <2>1, <2>2 DEF LoadedEntries
<1> QED
  BY <1>1, <1>2, <1>3

LEMMA RestartMatched ==
  ASSUME GeoInv, "store" \notin Faults, Restart
  PROVE  KeptInv'
<1>1. PICK fs \in CrashedFiles, ds \in CrashedDocs :
        \E U \in Unlucky(ds) :
          files' = fs /\ (Load(fs, ds, Names \ U) \/ LoadFails(fs, ds, Names \ U))
  BY DEF Restart
<1>2. PICK U \in Unlucky(ds) :
        files' = fs /\ (Load(fs, ds, Names \ U) \/ LoadFails(fs, ds, Names \ U))
  BY <1>1
<1>3. U = {}
  BY DEF Unlucky
<1>4. CASE LoadFails(fs, ds, Names \ U)
  BY <1>4 DEF LoadFails, Idle, KeptInv
<1>5. CASE Load(fs, ds, Names \ U)
  <2>1. PICK K \in SUBSET {n \in Names : Loadable(ds[n], fs)} :
          /\ \A n \in Names : n \notin K => dbs'[n] = NoEntry /\ docs'[n] = NoDoc
          /\ \A n \in K : /\ dbs'[n] # NoEntry /\ docs'[n] = ds[n]
                          /\ entries'[dbs'[n]] = Loaded(ds[n])
    <3>1. Names \ U = Names
      BY <1>3
    <3>2. Load(fs, ds, Names) /\ Names \in SUBSET Names
      BY <1>5, <3>1
    <3> QED
      BY <3>2, LoadPicks
  <2>2. ASSUME NEW n \in Names PROVE Matched(n)'
    <3>1. CASE n \in K
      <4>1. ds[n] \in Record /\ fs[ds[n].path] \in Valid
        BY <3>1 DEF Loadable
      <4>2. entries'[dbs'[n]].map = ds[n].path /\ entries'[dbs'[n]].type = ds[n].type
        <5>1. Loaded(ds[n]).map = ds[n].path /\ Loaded(ds[n]).type = ds[n].type
          BY DEF Loaded
        <5>2. entries'[dbs'[n]] = Loaded(ds[n])
          BY <2>1, <3>1
        <5> QED
          BY <5>1, <5>2
      <4> QED
        BY <1>2, <2>1, <3>1, <4>1, <4>2 DEF Matched
    <3>2. CASE n \notin K
      BY <2>1, <3>2 DEF Matched
    <3> QED
      BY <3>1, <3>2
  <2> QED
    BY <2>2 DEF KeptInv
<1> QED
  BY <1>2, <1>4, <1>5

(* What the running call, and the locators, do to the database of a name.  *)
LEMMA KeptStep ==
  ASSUME GeoInv, GeoInv', CallAgrees, KeptInv, [Next]_vars, ~Restart, "store" \notin Faults,
         op'.pc # "down", NEW n \in Names, ~(op'.pc \in Unfinished /\ n = Name')
  PROVE  Matched(n)'
<1>0. /\ dbs \in [Names -> Entries \union {NoEntry}]
      /\ entries \in [Entries -> Entry \union {Gone}]
      /\ docs \in [Names -> Record \union {NoDoc, Torn}]
      /\ files \in [Paths -> Contents \union {Junk, NoFile}]
      /\ op \in Ops
  BY DEF GeoInv, TypeOK, WellTyped
<1>1. ASSUME op.pc # "down", op.pc \notin Unfinished \/ n # Name,
             dbs'[n] = dbs[n], docs'[n] = docs[n],
             docs[n] \in Record => files'[docs[n].path] = files[docs[n].path],
             dbs[n] # NoEntry => entries'[dbs[n]] = entries[dbs[n]]
      PROVE  Matched(n)'
  <2>1. Matched(n)
    BY <1>1 DEF KeptInv
  <2> QED
    BY <1>1, <2>1, KeepsMatched
<1>2. CASE StoreEntry
  <2>1. docs' = [docs EXCEPT ![Name] = Document] /\ UNCHANGED <<files, dbs, entries>>
        /\ op.pc = "store"
    BY <1>2 DEF StoreEntry, maps
  <2>2. CASE n = Name
    <3>1. docs'[n] = Document
      BY <1>0, <2>1, <2>2
    <3>2. /\ op.path \in Paths /\ dbs[Name] \in Entries /\ dbs[Name] # NoEntry
          /\ entries[dbs[Name]] \in Entry
          /\ files[op.path] \in Contents /\ files[op.path] \in Valid
      BY <1>0, <2>1, <2>2, ValuesAssumption DEF GeoInv, TypeOK, CallTyped, References
    <3>3. /\ Document \in Record /\ Document.path = op.path
          /\ Document.type = entries[dbs[Name]].type
      BY <3>2 DEF Document, Record, Entry
    <3>4. entries[dbs[Name]].map = op.path
      BY <2>1 DEF CallAgrees
    <3> QED
      BY <2>1, <2>2, <3>1, <3>2, <3>3, <3>4 DEF Matched
  <2>3. CASE n # Name
    BY <1>0, <1>1, <2>1, <2>3
  <2> QED
    BY <2>2, <2>3
<1>3. CASE Download \/ EndRetries \/ WriteFails
  BY <1>1, <1>3 DEF Download, EndRetries, WriteFails, disk, maps, Unfinished
<1>4. CASE EraseDb
  <2>1. n # Name /\ dbs'[n] = dbs[n]
    BY <1>0, <1>4 DEF EraseDb, Goto, Name, Unfinished, Ops
  <2> QED
    BY <1>0, <1>1, <1>4, <2>1 DEF EraseDb, disk
<1>5. CASE ResetEntry
  <2>1. dbs[n] # NoEntry => dbs[n] # op.held
    BY <1>0, <1>5 DEF ResetEntry, GeoInv, HeldAgrees, Managed
  <2>2. /\ dbs'[n] = dbs[n] /\ op.pc = "reset" /\ UNCHANGED disk
        /\ dbs[n] # NoEntry => entries'[dbs[n]] = entries[dbs[n]]
    BY <1>0, <1>5, <2>1 DEF ResetEntry, Destroy
  <2>3. n # Name
    BY <1>0, <1>5 DEF ResetEntry, Name, Unfinished, Ops
  <2> QED
    BY <1>0, <1>1, <2>2, <2>3 DEF disk
<1>6. CASE ForgetEntry
  <2>1. docs' = [docs EXCEPT ![Name] = NoDoc] /\ UNCHANGED <<files, dbs, entries>>
        /\ op.pc = "forget" /\ dbs[Name] = NoEntry
    BY <1>6 DEF ForgetEntry, CallAgrees, maps
  <2>2. CASE n = Name
    BY <1>0, <2>1, <2>2 DEF Matched
  <2>3. CASE n # Name
    BY <1>0, <1>1, <2>1, <2>3
  <2> QED
    BY <2>2, <2>3
<1>7. ASSUME dbs'[n] = dbs[n], docs' = docs, op.pc = "install",
             n # Name, NEW x, files' = [files EXCEPT ![op.path] = x],
             dbs[n] # NoEntry => entries'[dbs[n]] = entries[dbs[n]]
      PROVE  Matched(n)'
  <2>1. docs[n] \in Record => docs[n].path \in Paths /\ docs[n].path # op.path
    BY <1>7 DEF GeoInv, PathsAgree, Record, Name
  <2>2. docs[n] \in Record => files'[docs[n].path] = files[docs[n].path]
    BY <1>0, <1>7, <2>1
  <2> QED
    BY <1>1, <1>7, <2>2
<1>8. CASE ReplaceDb
  <2>1. PICK x \in Written(op.content), m \in Paths \union {Closed} :
          files' = [files EXCEPT ![op.path] = x]
          /\ entries' = [entries EXCEPT ![dbs[Name]].map = m]
    BY <1>8 DEF ReplaceDb, WriteDb, Map, GeoInv, TypeOK, CallTyped
  <2>2. /\ dbs' = dbs /\ docs' = docs /\ op.pc = "install"
        /\ op.path \in Paths /\ Name \in Names
    BY <1>8, NamesAssumption DEF ReplaceDb, maps, GeoInv, TypeOK, CallTyped, WellTyped, Name
  <2>3. op'.pc \in {"store", "remove"} /\ op'.path = op.path
    BY <1>0, <1>8, <2>2 DEF ReplaceDb, Goto, Ops
  <2>4. n # Name /\ dbs[Name] # NoEntry /\ dbs[Name] # dbs[n]
    BY <1>8, <2>2, <2>3 DEF ReplaceDb, Replaceable, Name, Unfinished, GeoInv, MapsAgree
  <2>5. dbs[n] # NoEntry => entries'[dbs[n]] = entries[dbs[n]]
    BY <1>0, <2>1, <2>2, <2>4
  <2> QED
    BY <1>7, <2>1, <2>2, <2>4, <2>5
<1>9. ASSUME NEW p \in Paths, NEW t \in Types, Add(p, t), n # NameOf[p]
      PROVE  dbs'[n] = dbs[n] /\ (dbs[n] # NoEntry => entries'[dbs[n]] = entries[dbs[n]])
  BY <1>0, <1>9 DEF Add, Fresh, GeoInv, TypeOK, References
<1>10. CASE InstallDb
  <2>1. /\ op.path \in Paths /\ op.type \in Types /\ dbs[Name] = NoEntry /\ Name \in Names
        /\ docs' = docs /\ op.pc = "install"
    BY <1>10, NamesAssumption DEF InstallDb, GeoInv, TypeOK, CallTyped, WellTyped, Name
  <2>2. PICK x : files' = [files EXCEPT ![op.path] = x]
    BY <1>10 DEF InstallDb, WriteDb
  <2>3. CASE UNCHANGED <<maps, entries>>
    <3>1. CASE n = Name
      <4>1. Matched(n)
        BY <2>1 DEF KeptInv, Unfinished
      <4> QED
        BY <2>1, <2>3, <3>1, <4>1 DEF Matched, maps
    <3>2. CASE n # Name
      BY <1>7, <2>1, <2>2, <2>3, <3>2 DEF maps
    <3> QED
      BY <3>1, <3>2
  <2>4. CASE Add(op.path, op.type) /\ Goto("store")
    <3>1. op'.pc = "store" /\ Name' = Name
      BY <1>0, <2>4 DEF Goto, Ops, Name
    <3>2. n # Name /\ dbs'[n] = dbs[n] /\ (dbs[n] # NoEntry => entries'[dbs[n]] = entries[dbs[n]])
      BY <1>9, <2>1, <2>4, <3>1 DEF Name, Unfinished
    <3> QED
      BY <1>7, <2>1, <2>2, <3>2
  <2> QED
    BY <1>10, <2>3, <2>4 DEF InstallDb
<1>11. ASSUME NEW p \in Paths, Call(p) PROVE Matched(n)'
  <2>0. op.pc = "idle" /\ op.pc \notin Unfinished
    <3>1. op = Idle
      BY <1>11 DEF Call, RemoveDb, AddDb, RemoteUpsert
    <3> QED
      BY <3>1 DEF Idle, Unfinished
  <2>1. CASE RemoveDb(p)
    BY <1>1, <2>0, <2>1 DEF RemoveDb, disk, maps
  <2>2. ASSUME NEW t \in Types, NEW h \in Contents, RemoteUpsert(p, t, h) PROVE Matched(n)'
    BY <1>1, <2>0, <2>2 DEF RemoteUpsert, disk, maps
  <2>3. ASSUME NEW t \in Types, AddDb(p, t) PROVE Matched(n)'
    <3>1. op'.pc = "store" /\ op'.path = p /\ Add(p, t) /\ UNCHANGED disk
      BY <2>3 DEF AddDb, Start, Idle
    <3>2. n # NameOf[p]
      BY <3>1 DEF Name, Unfinished
    <3> QED
      BY <1>1, <1>9, <2>0, <3>1, <3>2 DEF disk
  <2> QED
    BY <1>11, <2>1, <2>2, <2>3 DEF Call
<1>12. ASSUME NEW l \in Locators, Locate(l) PROVE Matched(n)'
  <2>1. UNCHANGED <<disk, maps, op>>
    BY <1>12 DEF Locate, GetLocator, LockWeak, Lookup, Unavailable, Answer, Leave
  <2>2. op.pc # "down" /\ (op.pc \notin Unfinished \/ n # Name)
    BY <2>1 DEF Name
  <2>3. dbs[n] # NoEntry => entries'[dbs[n]] = entries[dbs[n]]
    <3> SUFFICES ASSUME dbs[n] # NoEntry PROVE entries'[dbs[n]] = entries[dbs[n]]
      OBVIOUS
    <3>1. weak[l] = dbs[n] => SharedWith(l, weak[l])
      BY DEF SharedWith, Managed
    <3>2. ASSUME Leave(l) PROVE entries'[dbs[n]] = entries[dbs[n]]
      BY <1>0, <3>1, <3>2 DEF Leave, Destroy
    <3> QED
      BY <1>12, <3>2 DEF Locate, GetLocator, LockWeak, Lookup, Unavailable, Answer
  <2> QED
    BY <1>1, <2>1, <2>2, <2>3 DEF disk, maps
<1>13. CASE UNCHANGED vars
  <2>1. UNCHANGED <<files, docs, dbs, entries, op>>
    BY <1>13 DEF vars, disk, maps
  <2> QED
    BY <1>1, <2>1 DEF Name
<1> QED
  BY <1>2, <1>3, <1>4, <1>5, <1>6, <1>8, <1>10, <1>11, <1>12, <1>13 DEF Next, Continue

(* A start after a stop between two calls finds every document it needs.   *)
LEMMA RestartKnows ==
  ASSUME GeoInv, KeptInv, "store" \notin Faults, Restart, op = Idle, NEW n \in Names
  PROVE  Known(n)' = Known(n)
<1>0. op.pc = "idle" /\ op.pc \notin Unfinished /\ op.pc # "down"
  BY DEF Idle, Unfinished
<1>1. \A m \in Names : Matched(m)
  BY <1>0 DEF KeptInv
<1>2. \A m \in Names : docs[m] # Torn
  BY <1>1, ObjectsAssumption DEF Matched
<1>3. CrashedFiles = {files} /\ CrashedDocs = {docs} /\ Unlucky(docs) = {{}}
  BY <1>0 DEF CrashedFiles, CrashedDocs, Unlucky
<1>4. files' = files /\ Load(files, docs, Names)
  <2>1. PICK fs \in CrashedFiles, ds \in CrashedDocs :
          \E U \in Unlucky(ds) :
            /\ files' = fs
            /\ Load(fs, ds, Names \ U) \/ (\E m \in Names \ U : ds[m] = Torn)
    BY DEF Restart
  <2>2. fs = files /\ ds = docs /\ Unlucky(ds) = {{}}
    BY <1>3
  <2>3. files' = files /\ Load(files, docs, Names \ {})
    BY <1>2, <2>1, <2>2
  <2>4. Names \ {} = Names
    OBVIOUS
  <2> QED
    BY <2>3, <2>4
<1>5. PICK K \in SUBSET {m \in Names : Loadable(docs[m], files)} :
        /\ \A m \in Names : m \notin K => dbs'[m] = NoEntry
        /\ \A m \in K : dbs'[m] # NoEntry /\ entries'[dbs'[m]] = Loaded(docs[m])
        /\ \A m \in Names : Loadable(docs[m], files) =>
             \E j \in K : docs[j].type = docs[m].type
  BY <1>4, LoadPicks
<1>6. CASE dbs[n] = NoEntry
  <2>1. ~Loadable(docs[n], files)
    BY <1>1, <1>6, ObjectsAssumption DEF Matched, Loadable
  <2> QED
    BY <1>5, <1>6, <2>1 DEF Known
<1>7. CASE dbs[n] # NoEntry
  <2>1. /\ docs[n] \in Record /\ files[docs[n].path] \in Valid
        /\ docs[n].path = entries[dbs[n]].map /\ docs[n].type = entries[dbs[n]].type
    BY <1>1, <1>7 DEF Matched
  <2>2. PICK j \in K : docs[j].type = docs[n].type
    BY <1>5, <2>1 DEF Loadable
  <2>3. dbs[j] # NoEntry
    BY <1>1, ObjectsAssumption DEF Matched, Loadable
  <2>4. docs[j].type = entries[dbs[j]].type
    BY <1>1, <2>3 DEF Matched
  <2>5. j = n
    <3>1. dbTypes[entries[dbs[j]].type] = j /\ dbTypes[entries[dbs[n]].type] = n
      BY <1>7, <2>3 DEF GeoInv, MapsAgree
    <3>2. entries[dbs[j]].type = entries[dbs[n]].type
      BY <2>1, <2>2, <2>4
    <3> QED
      BY <3>1, <3>2
  <2>6. dbs'[n] # NoEntry /\ entries'[dbs'[n]] = Loaded(docs[n])
    BY <1>5, <2>5
  <2> QED
    BY <1>7, <2>1, <2>6 DEF Known, Loaded
<1> QED
  BY <1>6, <1>7

(* A restart between two calls brings back every database the manager had, *)
(* from the same file and for the same type, and no other, whatever calls, *)
(* failed downloads, failed writes and crashes came before, as long as the *)
(* store does not fail.                                                    *)
THEOREM RestartsBringBack ==
  ASSUME "store" \notin Faults
  PROVE  Spec => RestartKeeps
<1>1. Init => KeptInv /\ CallAgrees
  BY DEF Init, KeptInv, Matched, CallAgrees, Idle
<1>2. GeoInv /\ GeoInv' /\ KeptInv /\ CallAgrees /\ [Next]_vars => KeptInv' /\ CallAgrees'
  BY KeptStep, RestartMatched, CallAgreesStep DEF KeptInv
<1>3. GeoInv /\ KeptInv /\ [Next]_vars =>
        [Restart /\ op = Idle => \A n \in Names : Known(n)' = Known(n)]_vars
  BY RestartKnows
<1> QED
  BY <1>1, <1>2, <1>3, GeoInvariant, PTL DEF Spec, RestartKeeps
=============================================================================
