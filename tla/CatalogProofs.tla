--------------------------- MODULE CatalogProofs ----------------------------
(***************************************************************************)
(* Proofs about Catalog, for any documents, namespaces, threads and        *)
(* validator.  The catalog implements the store, so that what StoreProofs  *)
(* shows holds for it; the rest is about its requests of several steps.    *)
(***************************************************************************)
EXTENDS Catalog, StoreProofs

RequestType ==
  /\ req \in [Threads -> Requests \union {NoReq}]
  /\ overtaken \subseteq Threads
  /\ posted \in [Names -> Namespaces \union {NoNS}]

(* A request that writes has a validated content, but the POST of a        *)
(* schema; one that is in no call of the store has made its look-up.       *)
ContentOK(t) ==
  ~Free(t) =>
    /\ req[t].kind = "put" => req[t].content \in Validator[req[t].space]
    /\ req[t].kind = "post" /\ Validation(req[t].item) =>
         req[t].content \in Validator[req[t].space]
    /\ pc[t] = "idle" => req[t].kind \in {"put", "delete", "get"}

(* The call of the store a thread is in is that of its request. *)
CallServes(t) ==
  pc[t] # "idle" =>
    /\ ~Free(t) /\ name[t] = req[t].item
    /\ pc[t] = CASE req[t].kind = "post"   -> "create"
                 [] req[t].kind = "put"    -> "update"
                 [] OTHER                  -> req[t].kind
    /\ pc[t] \in {"create", "deleteCol"} => ns[t] = req[t].space
    /\ pc[t] \in {"create", "update"} => doc[t] = req[t].content
    /\ pc[t] = "update" => ns[t] = req[t].space \/ t \in overtaken

(* What a look-up has found is so until another request deletes it. *)
LookedUp(t) ==
  ~Free(t) /\ pc[t] = "idle" /\ t \notin overtaken => cache[req[t].item] = req[t].space

(* Every request that has looked up the document n is overtaken. *)
Surpassed(n) ==
  \A t \in Threads :
    ~Free(t) /\ pc[t] = "idle" /\ req[t].item = n => t \in overtaken

(* What t is creating nobody has posted, and who has looked up what t is   *)
(* deleting is overtaken.                                                  *)
Going(t) ==
  /\ pc[t] = "create" => cache[name[t]] = NoNS
  /\ pc[t] = "delete" => posted[name[t]] = NoNS /\ Surpassed(name[t])
  /\ pc[t] = "deleteCol" =>
       \A n \in Below(name[t]) : /\ posted[n] # ns[t]
                                 /\ cache[n] = ns[t] => Surpassed(n)

(* Files are documents, and only documents are posted. *)
LeavesOnly == \A s \in Namespaces, n \in Names : IsFile(fs[s][n]) => Below(n) = {}
ItemsPosted == \A n \in Names : posted[n] # NoNS => IsItem(n)

CatalogInv ==
  /\ LockInv /\ RequestType /\ LeavesOnly /\ ItemsPosted /\ PostedStays
  /\ \A t \in Threads : ContentOK(t) /\ CallServes(t) /\ LookedUp(t) /\ Going(t)

-----------------------------------------------------------------------------
(* Requests *)

LEMMA RequestFacts ==
  ASSUME RequestType, NEW t \in Threads, ~Free(t)
  PROVE  /\ req[t].item \in Names /\ req[t].space \in Namespaces
         /\ req[t].content \in Docs \union {NoDoc}
         /\ req[t].kind \in {"post", "put", "delete", "get", "deleteCol"}
         /\ IsItem(req[t].item) <=> req[t].kind # "deleteCol"
<1>1. req[t] \in Requests
  BY DEF RequestType, Free
<1> QED
  BY <1>1 DEF Requests, Items

LEMMA ServeFacts ==
  ASSUME RequestType, NEW t \in Threads, NEW n \in Names, NEW s \in Namespaces,
         NEW d \in Docs \union {NoDoc}, NEW k \in {"post", "put", "delete", "get", "deleteCol"},
         k # "deleteCol" => IsItem(n), k = "deleteCol" => ~IsItem(n) /\ d = NoDoc,
         Serve(t, k, n, s, d)
  PROVE  /\ req' \in [Threads -> Requests \union {NoReq}]
         /\ req'[t] = [kind |-> k, item |-> n, space |-> s, content |-> d]
         /\ req'[t] # NoReq
         /\ \A u \in Threads \ {t} : req'[u] = req[u]
<1>1. [kind |-> k, item |-> n, space |-> s, content |-> d] \in Requests
  BY DEF Requests, Items
<1> QED
  BY <1>1, NoReqAssumption DEF NoReqAssumption, RequestType, Serve

LEMMA RespondFacts ==
  ASSUME RequestType, NEW t \in Threads, Respond(t)
  PROVE  /\ req' \in [Threads -> Requests \union {NoReq}]
         /\ req'[t] = NoReq
         /\ \A u \in Threads \ {t} : req'[u] = req[u]
  BY DEF RequestType, Respond

(* The look-up of a document, and a request that ends without having       *)
(* called the store or before it has.                                      *)
LEMMA LookUpStep ==
  ASSUME CatalogInv, LockInv', NEW t \in Threads, NEW k \in {"put", "delete", "get"},
         NEW n \in Names, NEW s \in Namespaces, NEW d \in Docs \union {NoDoc},
         k = "put" => d \in Validator[s], LookUp(t, k, n, s, d)
  PROVE  CatalogInv'
<1>1. /\ req' \in [Threads -> Requests \union {NoReq}]
      /\ req'[t] = [kind |-> k, item |-> n, space |-> s, content |-> d]
      /\ req'[t] # NoReq /\ \A u \in Threads \ {t} : req'[u] = req[u]
  <2>1. IsItem(n) /\ k # "deleteCol" /\ k \in {"post", "put", "delete", "get", "deleteCol"}
        /\ RequestType /\ Serve(t, k, n, s, d)
    BY DEF LookUp, CatalogInv
  <2> QED
    BY <2>1, ServeFacts DEF Serve
<1>2. /\ UNCHANGED <<fs, cache, pc, name, ns, doc, posted>>
      /\ pc[t] = "idle" /\ cache[n] = s /\ overtaken' = overtaken \ {t}
      /\ \A u \in Threads : ~Exclusive(u)
  BY DEF LookUp, vars, args, LockShared, InNamespace
<1>3. RequestType' /\ LeavesOnly' /\ ItemsPosted' /\ PostedStays'
  BY <1>1, <1>2 DEF CatalogInv, RequestType, LeavesOnly, ItemsPosted, PostedStays
<1>4. ASSUME NEW u \in Threads PROVE (ContentOK(u) /\ CallServes(u) /\ LookedUp(u) /\ Going(u))'
  <2>1. Going(u)'
    BY <1>2 DEF Going, Exclusive
  <2>2. CASE u = t
    BY <1>1, <1>2, <2>1, <2>2 DEF Free, ContentOK, CallServes, LookedUp
  <2>3. CASE u # t
    <3>1. req'[u] = req[u] /\ (Free(u)' <=> Free(u))
      BY <1>1, <2>3 DEF Free
    <3> QED
      BY <1>2, <2>1, <2>3, <3>1 DEF CatalogInv, ContentOK, CallServes, LookedUp
  <2> QED
    BY <2>2, <2>3
<1> QED
  BY <1>3, <1>4 DEF CatalogInv

LEMMA AnswerStep ==
  ASSUME CatalogInv, LockInv', NEW t \in Threads, pc[t] = "idle", Respond(t),
         UNCHANGED <<vars, history>>
  PROVE  CatalogInv'
<1>1. /\ req' \in [Threads -> Requests \union {NoReq}]
      /\ req'[t] = NoReq /\ \A u \in Threads \ {t} : req'[u] = req[u]
  BY RespondFacts DEF CatalogInv
<1>2. UNCHANGED <<fs, cache, pc, name, ns, doc, posted, overtaken>>
  BY DEF vars, args, history
<1>3. RequestType' /\ LeavesOnly' /\ ItemsPosted' /\ PostedStays'
  BY <1>1, <1>2 DEF CatalogInv, RequestType, LeavesOnly, ItemsPosted, PostedStays
<1>4. ASSUME NEW n, Surpassed(n)
      PROVE  \A u \in Threads : ~Free(u)' /\ pc'[u] = "idle" /\ req'[u].item = n => u \in overtaken'
  BY <1>1, <1>2, <1>4 DEF Surpassed, Free
<1>5. ASSUME NEW u \in Threads PROVE (ContentOK(u) /\ CallServes(u) /\ LookedUp(u) /\ Going(u))'
  <2>0. ContentOK(u) /\ CallServes(u) /\ LookedUp(u) /\ Going(u)
    BY DEF CatalogInv
  <2>1. Going(u)'
    BY <1>2, <1>4, <2>0 DEF Going, Surpassed
  <2>2. CASE u = t
    BY <1>1, <1>2, <2>1, <2>2 DEF Free, ContentOK, CallServes, LookedUp
  <2>3. CASE u # t
    <3>1. req'[u] = req[u] /\ (Free(u)' <=> Free(u))
      BY <1>1, <2>3 DEF Free
    <3> QED
      BY <1>2, <2>0, <2>1, <2>3, <3>1 DEF ContentOK, CallServes, LookedUp
  <2> QED
    BY <2>2, <2>3
<1> QED
  BY <1>3, <1>5 DEF CatalogInv

-----------------------------------------------------------------------------
(* The calls of the store *)

(* Under the exclusive lock a step has to account for its own request and  *)
(* for the look-ups of the others.                                         *)
LEMMA ExclusiveRequest ==
  ASSUME CatalogInv, LockInv', RequestType', LeavesOnly', ItemsPosted', PostedStays',
         NEW t \in Threads, Exclusive(t) \/ LockExclusive(t),
         \A u \in Threads \ {t} : pc'[u] = pc[u] /\ req'[u] = req[u],
         \A u \in Threads \ {t} : LookedUp(u) => LookedUp(u)',
         ContentOK(t)', CallServes(t)', LookedUp(t)', Going(t)'
  PROVE  CatalogInv'
<1>1. \A u \in Threads \ {t} : pc'[u] = "idle"
  BY OthersIdle DEF CatalogInv, LockInv
<1>2. ASSUME NEW u \in Threads \ {t}
      PROVE  (ContentOK(u) /\ CallServes(u) /\ LookedUp(u) /\ Going(u))'
  <2>1. CallServes(u)' /\ Going(u)'
    BY <1>1 DEF CallServes, Going
  <2>2. ContentOK(u)'
    <3>1. pc[u] = "idle"
      BY <1>1
    <3> QED
      BY <3>1 DEF CatalogInv, ContentOK, Free
  <2> QED
    BY <2>1, <2>2 DEF CatalogInv
<1> QED
  BY <1>2 DEF CatalogInv

(* No file is where the directory of a collection goes, so that removing   *)
(* empty directories removes no file.                                      *)
LEMMA DirectoriesAreNoFiles ==
  ASSUME CatalogInv, NEW s \in Namespaces, NEW n \in Names,
         RemoveDirs(s, n) \/ RmdirFails(s, n)
  PROVE  \A r \in Namespaces, m \in Names : IsFile(fs'[r][m]) <=> IsFile(fs[r][m])
<1>1. \A p \in Parents[n] : ~IsFile(fs[s][p])
  BY ParentFacts DEF CatalogInv, LeavesOnly
<1> QED
  BY <1>1, DirsEffect DEF CatalogInv, LockInv

(* When no file comes or goes and no history is written. *)
LEMMA SameFiles ==
  ASSUME CatalogInv, UNCHANGED <<cache, posted>>,
         \A r \in Namespaces, m \in Names : IsFile(fs'[r][m]) <=> IsFile(fs[r][m])
  PROVE  LeavesOnly' /\ ItemsPosted' /\ PostedStays'
<1>1. LeavesOnly' /\ ItemsPosted'
  BY DEF CatalogInv, LeavesOnly, ItemsPosted
<1>2. PostedStays'
  BY PathFacts DEF CatalogInv, PostedStays, RequestType
<1> QED
  BY <1>1, <1>2

LEMMA PostStep ==
  ASSUME CatalogInv, LockInv', NEW t \in Threads, NEW n \in Names, NEW s \in Namespaces,
         NEW d \in Docs, Post(t, n, s, d)
  PROVE  CatalogInv'
<1>1. /\ LockExclusive(t) /\ pc[t] = "idle" /\ cache[n] = NoNS /\ IsItem(n)
      /\ Validation(n) => d \in Validator[s]
      /\ UNCHANGED <<cache, overtaken, posted>> /\ req[t] = NoReq
      /\ LockInv
  BY DEF Post, CreateDoc, LockExclusive, LockShared, history, Free, Valid, CatalogInv
<1>2. CASE OpenNew(s, n) /\ Begin(t, "create", n, s, d)
  <2>1. \A r \in Namespaces, m \in Names :
          IsFile(fs'[r][m]) <=> IsFile(fs[r][m]) \/ (r = s /\ m = n)
    BY <1>1, <1>2, OpenNewEffect DEF LockInv
  <2>2. /\ pc'[t] = "create" /\ name'[t] = n /\ ns'[t] = s /\ doc'[t] = d
        /\ \A u \in Threads \ {t} : pc'[u] = pc[u]
    BY <1>1, <1>2 DEF LockInv, ArgsType, Begin
  <2>3. Serve(t, "post", n, s, d)
    BY <2>2 DEF Post
  <2>4. /\ req' \in [Threads -> Requests \union {NoReq}]
        /\ req'[t] = [kind |-> "post", item |-> n, space |-> s, content |-> d]
        /\ req'[t] # NoReq
        /\ \A u \in Threads \ {t} : req'[u] = req[u]
    BY <1>1, <2>3, ServeFacts DEF CatalogInv, Serve
  <2>5. Below(n) = {}
    BY <1>1, PartsAssumption DEF PartsAssumption, IsItem, Below
  <2>6. RequestType' /\ LeavesOnly' /\ ItemsPosted' /\ PostedStays'
    BY <1>1, <2>1, <2>4, <2>5, PathFacts DEF CatalogInv, RequestType, LeavesOnly, ItemsPosted, PostedStays
  <2>7. (ContentOK(t) /\ CallServes(t) /\ LookedUp(t) /\ Going(t))'
    BY <1>1, <2>2, <2>4 DEF ContentOK, CallServes, LookedUp, Going, Free
  <2>8. \A u \in Threads \ {t} : LookedUp(u) => LookedUp(u)'
    BY <1>1, <2>2, <2>4 DEF LookedUp, Free
  <2> QED
    BY <1>1, <2>2, <2>4, <2>6, <2>7, <2>8, ExclusiveRequest
<1>3. CASE MkdirFails(s, n) /\ UNCHANGED <<pc, args>>
  <2>1. \A r \in Namespaces, m \in Names : IsFile(fs'[r][m]) <=> IsFile(fs[r][m])
    BY <1>1, <1>3, MkdirEffect DEF LockInv
  <2>2. UNCHANGED <<pc, name, ns, doc, req>>
    BY <1>1, <1>3 DEF Post, args
  <2>3. LeavesOnly' /\ ItemsPosted' /\ PostedStays'
    BY <1>1, <2>1, SameFiles
  <2> QED
    BY <1>1, <2>2, <2>3
       DEF CatalogInv, RequestType, ContentOK, CallServes, LookedUp, Going, Free, Surpassed
<1> QED
  BY <1>2, <1>3 DEF Post, CreateDoc

LEMMA EndPostStep ==
  ASSUME CatalogInv, LockInv', NEW t \in Threads, EndPost(t)
  PROVE  CatalogInv'
<1>1. /\ pc[t] = "create" /\ name[t] = req[t].item /\ ns[t] = req[t].space
      /\ req[t] # NoReq /\ Exclusive(t) /\ LockInv
      /\ name[t] \in Names /\ ns[t] \in Namespaces /\ doc[t] \in Docs /\ IsItem(name[t])
      /\ IsFile(fs[ns[t]][name[t]]) /\ cache[name[t]] = NoNS
  <2>1. pc[t] = "create"
    BY DEF EndPost, Serving, CatalogInv, CallServes, FinishWrite
  <2>2. /\ name[t] = req[t].item /\ ns[t] = req[t].space /\ ~Free(t)
        /\ cache[name[t]] = NoNS
    BY <2>1 DEF CatalogInv, CallServes, Going
  <2>3. IsItem(req[t].item)
    BY <2>2, RequestFacts DEF CatalogInv, EndPost, Serving
  <2> QED
    BY <2>1, <2>2, <2>3 DEF CatalogInv, LockInv, ArgsType, WritesOK, Free, Exclusive
<1>2. PICK y \in Files : SetPaths(ns[t], {name[t]}, y)
  BY <1>1 DEF EndPost, FinishWrite, WriteFile, Written, Files
<1>3. \A r \in Namespaces, m \in Names : IsFile(fs'[r][m]) <=> IsFile(fs[r][m])
  BY <1>1, <1>2, WriteEffect DEF LockInv
<1>4. /\ pc'[t] = "idle" /\ \A u \in Threads \ {t} : pc'[u] = pc[u]
  BY <1>1, ReturnType DEF EndPost, FinishWrite, LockInv
<1>5. /\ \A m \in Names : cache'[m] = IF m = name[t] THEN ns[t] ELSE cache[m]
      /\ \A m \in Names : posted'[m] = IF m = name[t] THEN ns[t] ELSE posted[m]
      /\ posted' \in [Names -> Namespaces \union {NoNS}]
      /\ overtaken' = overtaken
  BY <1>1 DEF EndPost, FinishWrite, CacheAdd, LockInv, CacheType, CatalogInv, RequestType
<1>6. /\ req' \in [Threads -> Requests \union {NoReq}]
      /\ req'[t] = NoReq /\ \A u \in Threads \ {t} : req'[u] = req[u]
  BY RespondFacts DEF EndPost, CatalogInv
<1>7. RequestType' /\ LeavesOnly' /\ ItemsPosted' /\ PostedStays'
  <2>1. RequestType' /\ LeavesOnly' /\ ItemsPosted'
    BY <1>1, <1>3, <1>5, <1>6 DEF CatalogInv, RequestType, LeavesOnly, ItemsPosted
  <2>2. PostedStays'
    BY <1>1, <1>3, <1>5 DEF CatalogInv, PostedStays, RequestType
  <2> QED
    BY <2>1, <2>2
<1>8. (ContentOK(t) /\ CallServes(t) /\ LookedUp(t) /\ Going(t))'
  BY <1>4, <1>6 DEF ContentOK, CallServes, LookedUp, Going, Free
<1>9. ASSUME NEW u \in Threads \ {t}, LookedUp(u) PROVE LookedUp(u)'
  <2>1. ~Free(u) => req[u].item \in Names /\ req[u].space \in Namespaces
    BY RequestFacts DEF CatalogInv
  <2>2. ~Free(u) /\ pc[u] = "idle" /\ u \notin overtaken => req[u].item # name[t]
    BY <1>1, <1>9, <2>1, PathFacts DEF LookedUp
  <2> QED
    BY <1>4, <1>5, <1>6, <1>9, <2>1, <2>2 DEF LookedUp, Free
<1> QED
  BY <1>1, <1>4, <1>6, <1>7, <1>8, <1>9, ExclusiveRequest

(* updateDoc shares the lock: whoever else is in the store updates too. *)
LEMMA PutStep ==
  ASSUME CatalogInv, LockInv', NEW t \in Threads, Put(t)
  PROVE  CatalogInv'
<1>1. /\ ~Free(t) /\ req[t].kind = "put" /\ pc[t] = "idle"
      /\ UNCHANGED <<req, overtaken, posted, cache>>
      /\ \A u \in Threads : ~Exclusive(u)
  BY DEF Put, Serving, history, UpdateDoc, LockShared
<1>2. req[t].item \in Names /\ req[t].space \in Namespaces /\ req[t].content \in Docs
  <2>1. req[t].item \in Names /\ req[t].space \in Namespaces
    BY <1>1, RequestFacts DEF CatalogInv
  <2>2. req[t].content \in Validator[req[t].space]
    BY <1>1 DEF CatalogInv, ContentOK
  <2> QED
    BY <2>1, <2>2, ValidatorAssumption DEF ValidatorAssumption
<1> DEFINE n == req[t].item
           s == cache[n]
<1>3. /\ s \in Namespaces /\ IsFile(fs[s][n]) /\ SetPaths(s, {n}, Empty)
      /\ Begin(t, "update", n, s, req[t].content)
  BY <1>2 DEF Put, UpdateDoc, CatalogInv, LockInv, CacheType
<1>4. \A r \in Namespaces, m \in Names : IsFile(fs'[r][m]) <=> IsFile(fs[r][m])
  BY <1>2, <1>3, WriteEffect DEF Files, CatalogInv, LockInv
<1>5. LeavesOnly' /\ ItemsPosted' /\ PostedStays' /\ RequestType'
  BY <1>1, <1>4, SameFiles DEF CatalogInv, RequestType
<1>6. /\ pc'[t] = "update" /\ name'[t] = n /\ ns'[t] = s /\ doc'[t] = req[t].content
      /\ \A u \in Threads \ {t} :
           pc'[u] = pc[u] /\ name'[u] = name[u] /\ ns'[u] = ns[u] /\ doc'[u] = doc[u]
  BY <1>3 DEF Begin, CatalogInv, LockInv, ArgsType
<1>7. s = req[t].space \/ t \in overtaken
  BY <1>1 DEF CatalogInv, LookedUp
<1>8. ASSUME NEW u \in Threads PROVE (ContentOK(u) /\ CallServes(u) /\ LookedUp(u) /\ Going(u))'
  <2>1. ContentOK(u) /\ CallServes(u) /\ LookedUp(u)
    BY DEF CatalogInv
  <2>2. Going(u)'
    BY <1>1, <1>6 DEF Going, Exclusive
  <2>3. CASE u = t
    BY <1>1, <1>6, <1>7, <2>1, <2>2, <2>3 DEF ContentOK, CallServes, LookedUp, Free
  <2>4. CASE u # t
    BY <1>1, <1>6, <2>1, <2>2, <2>4 DEF ContentOK, CallServes, LookedUp, Free
  <2> QED
    BY <2>3, <2>4
<1> QED
  BY <1>5, <1>8 DEF CatalogInv

LEMMA EndPutStep ==
  ASSUME CatalogInv, LockInv', NEW t \in Threads, EndPut(t)
  PROVE  CatalogInv'
<1>1. /\ pc[t] = "update" /\ UNCHANGED <<overtaken, posted, cache>>
      /\ \A u \in Threads : ~Exclusive(u)
  BY DEF EndPut, FinishUpdate, history, CatalogInv, LockInv, Alone, Shared, Exclusive
<1>2. /\ name[t] \in Names /\ ns[t] \in Namespaces /\ doc[t] \in Docs
      /\ IsFile(fs[ns[t]][name[t]])
  BY <1>1 DEF CatalogInv, LockInv, ArgsType, WritesOK
<1>3. PICK y \in Files : SetPaths(ns[t], {name[t]}, y)
  BY <1>2 DEF EndPut, FinishUpdate, WriteFile, Written, Files
<1>4. \A r \in Namespaces, m \in Names : IsFile(fs'[r][m]) <=> IsFile(fs[r][m])
  BY <1>2, <1>3, WriteEffect DEF CatalogInv, LockInv
<1>5. /\ req' \in [Threads -> Requests \union {NoReq}]
      /\ req'[t] = NoReq /\ \A u \in Threads \ {t} : req'[u] = req[u]
  BY RespondFacts DEF EndPut, CatalogInv
<1>6. LeavesOnly' /\ ItemsPosted' /\ PostedStays' /\ RequestType'
  BY <1>1, <1>4, <1>5, SameFiles DEF CatalogInv, RequestType
<1>7. /\ pc'[t] = "idle"
      /\ \A u \in Threads \ {t} :
           pc'[u] = pc[u] /\ name'[u] = name[u] /\ ns'[u] = ns[u] /\ doc'[u] = doc[u]
  BY DEF EndPut, FinishUpdate, Return, Begin, CatalogInv, LockInv, ArgsType
<1>8. ASSUME NEW u \in Threads PROVE (ContentOK(u) /\ CallServes(u) /\ LookedUp(u) /\ Going(u))'
  <2>1. ContentOK(u) /\ CallServes(u) /\ LookedUp(u)
    BY DEF CatalogInv
  <2>2. Going(u)'
    BY <1>1, <1>7 DEF Going, Exclusive
  <2>3. CASE u = t
    BY <1>5, <1>7, <2>2, <2>3 DEF ContentOK, CallServes, LookedUp, Free
  <2>4. CASE u # t
    BY <1>1, <1>5, <1>7, <2>1, <2>2, <2>4 DEF ContentOK, CallServes, LookedUp, Free
  <2> QED
    BY <2>3, <2>4
<1> QED
  BY <1>6, <1>8 DEF CatalogInv

(* DELETE: the store's lock covers what the file system does, and who has  *)
(* looked the document up by then is overtaken.                            *)
LEMMA DeleteStep ==
  ASSUME CatalogInv, LockInv', NEW t \in Threads, Delete(t)
  PROVE  CatalogInv'
<1> DEFINE n == req[t].item
           s == cache[n]
<1>1. /\ ~Free(t) /\ req[t].kind = "delete" /\ pc[t] = "idle"
      /\ UNCHANGED <<req, cache>> /\ LockExclusive(t) /\ s # NoNS /\ IsFile(fs[s][n])
      /\ Begin(t, "delete", n, s, NoDoc) /\ LockInv
  BY DEF Delete, Serving, DeleteDoc, CatalogInv
<1>2. n \in Names /\ s \in Namespaces
  BY <1>1, RequestFacts DEF CatalogInv, LockInv, CacheType
<1>3. /\ overtaken' = overtaken \union (Waiting({n}) \ {t})
      /\ \A m \in Names : posted'[m] = IF m \in {n} /\ posted[m] = s THEN NoNS ELSE posted[m]
      /\ posted' \in [Names -> Namespaces \union {NoNS}]
  BY DEF Delete, Overtake, CatalogInv, RequestType
<1>4. posted'[n] = NoNS
  BY <1>2, <1>3 DEF CatalogInv, PostedStays
<1>5. \A r \in Namespaces, m \in Names :
        /\ IsFile(fs'[r][m]) => IsFile(fs[r][m])
        /\ m # n => (IsFile(fs'[r][m]) <=> IsFile(fs[r][m]))
  <2>1. \A m \in Below(n) : fs[s][m] = Absent
    BY <1>1, <1>2, PathFacts, ParentFacts DEF LockInv, Tree, Below
  <2>2. CASE SetPaths(s, {n}, Absent)
    BY <1>1, <1>2, <2>1, <2>2, RemoveEffect DEF LockInv
  <2>3. CASE UNCHANGED fs
    BY <2>3
  <2> QED
    BY <2>2, <2>3 DEF Delete, DeleteDoc
<1>6. RequestType' /\ LeavesOnly' /\ ItemsPosted' /\ PostedStays'
  <2>1. \A m \in Names : posted'[m] # NoNS => m # n /\ posted'[m] = posted[m] /\ posted[m] \in Namespaces
    BY <1>3, <1>4
  <2>2. RequestType'
    BY <1>1, <1>3 DEF CatalogInv, RequestType, Waiting
  <2>3. LeavesOnly' /\ ItemsPosted'
    BY <1>5, <2>1 DEF CatalogInv, LeavesOnly, ItemsPosted
  <2>4. PostedStays'
    BY <1>1, <1>5, <2>1 DEF CatalogInv, PostedStays
  <2> QED
    BY <2>2, <2>3, <2>4
<1>7. /\ pc'[t] = "delete" /\ name'[t] = n /\ \A u \in Threads \ {t} : pc'[u] = pc[u]
  BY <1>1 DEF Begin, LockInv, ArgsType
<1>8. Going(t)'
  <2>1. ASSUME NEW u \in Threads, ~Free(u), pc'[u] = "idle", req[u].item = n
        PROVE  u \in overtaken'
    <3>1. u # t /\ pc[u] = "idle"
      BY <1>7, <2>1
    <3>2. req[u].kind \in {"put", "delete", "get"}
      BY <2>1, <3>1 DEF CatalogInv, ContentOK
    <3> QED
      BY <1>3, <2>1, <3>1, <3>2 DEF Waiting
  <2> QED
    BY <1>1, <1>4, <1>7, <2>1 DEF Going, Surpassed, Free
<1>9. (ContentOK(t) /\ CallServes(t) /\ LookedUp(t))'
  BY <1>1, <1>7 DEF ContentOK, CallServes, LookedUp, Free
<1>10. \A u \in Threads \ {t} : LookedUp(u) => LookedUp(u)'
  BY <1>1, <1>3, <1>7 DEF LookedUp, Free
<1> QED
  BY <1>1, <1>6, <1>7, <1>8, <1>9, <1>10, ExclusiveRequest

(* Who deletes the only document of a name leaves it to nobody. *)
LEMMA EndDeleteStep ==
  ASSUME CatalogInv, LockInv', NEW t \in Threads, EndDelete(t)
  PROVE  CatalogInv'
<1>1. /\ pc[t] = "delete" /\ Exclusive(t) /\ LockInv /\ UNCHANGED <<overtaken, posted>>
      /\ name[t] \in Names /\ ns[t] \in Namespaces
      /\ posted[name[t]] = NoNS /\ Surpassed(name[t])
  BY DEF EndDelete, FinishDelete, history, Exclusive, CatalogInv, LockInv, ArgsType, Going
<1>2. \A r \in Namespaces, m \in Names : IsFile(fs'[r][m]) <=> IsFile(fs[r][m])
  BY <1>1, DirectoriesAreNoFiles DEF EndDelete, FinishDelete
<1>3. \A m \in Names : m # name[t] => cache'[m] = cache[m]
  BY <1>1 DEF EndDelete, FinishDelete, CacheDel, CacheAdd, LockInv, CacheType
<1>4. /\ req' \in [Threads -> Requests \union {NoReq}]
      /\ req'[t] = NoReq /\ \A u \in Threads \ {t} : req'[u] = req[u]
  BY RespondFacts DEF EndDelete, CatalogInv
<1>5. /\ pc'[t] = "idle" /\ \A u \in Threads \ {t} : pc'[u] = pc[u]
  BY ReturnType DEF EndDelete, FinishDelete, CatalogInv, LockInv
<1>6. RequestType' /\ LeavesOnly' /\ ItemsPosted' /\ PostedStays'
  <2>1. RequestType' /\ LeavesOnly' /\ ItemsPosted'
    BY <1>1, <1>2, <1>4 DEF CatalogInv, RequestType, LeavesOnly, ItemsPosted
  <2>2. PostedStays'
    BY <1>1, <1>2, <1>3 DEF CatalogInv, PostedStays, RequestType
  <2> QED
    BY <2>1, <2>2
<1>7. (ContentOK(t) /\ CallServes(t) /\ LookedUp(t) /\ Going(t))'
  BY <1>4, <1>5 DEF ContentOK, CallServes, LookedUp, Going, Free
<1>8. ASSUME NEW u \in Threads \ {t}, LookedUp(u) PROVE LookedUp(u)'
  <2>1. ~Free(u) => req[u].item \in Names
    BY RequestFacts DEF CatalogInv
  <2>2. ~Free(u) /\ pc[u] = "idle" /\ u \notin overtaken => req[u].item # name[t]
    BY <1>1 DEF Surpassed
  <2> QED
    BY <1>1, <1>3, <1>4, <1>5, <1>8, <2>1, <2>2 DEF LookedUp, Free
<1> QED
  BY <1>1, <1>4, <1>5, <1>6, <1>7, <1>8, ExclusiveRequest

LEMMA DeleteCollectionStep ==
  ASSUME CatalogInv, LockInv', NEW t \in Threads, NEW c \in Names, NEW s \in Namespaces,
         DeleteCollection(t, c, s)
  PROVE  CatalogInv'
<1> DEFINE S == {n \in Below(c) : cache[n] = s}
<1>1. /\ LockExclusive(t) /\ pc[t] = "idle" /\ ~IsItem(c) /\ LockInv
      /\ UNCHANGED <<fs, cache>> /\ Begin(t, "deleteCol", c, s, NoDoc)
  BY DEF DeleteCollection, DeleteCol, LockExclusive, LockShared, CatalogInv
<1>2. /\ overtaken' = overtaken \union (Waiting(S) \ {t})
      /\ \A m \in Names : posted'[m] = IF m \in S /\ posted[m] = s THEN NoNS ELSE posted[m]
      /\ posted' \in [Names -> Namespaces \union {NoNS}]
  BY DEF DeleteCollection, Overtake, CatalogInv, RequestType
<1>3. /\ req' \in [Threads -> Requests \union {NoReq}]
      /\ req'[t] = [kind |-> "deleteCol", item |-> c, space |-> s, content |-> NoDoc]
      /\ req'[t] # NoReq /\ \A u \in Threads \ {t} : req'[u] = req[u]
  <2>1. RequestType /\ Serve(t, "deleteCol", c, s, NoDoc)
    BY DEF DeleteCollection, CatalogInv
  <2> QED
    BY <1>1, <2>1, ServeFacts DEF Serve
<1>4. RequestType' /\ LeavesOnly' /\ ItemsPosted' /\ PostedStays'
  BY <1>1, <1>2, <1>3 DEF CatalogInv, RequestType, Waiting, LeavesOnly, ItemsPosted, PostedStays
<1>5. /\ pc'[t] = "deleteCol" /\ name'[t] = c /\ ns'[t] = s
      /\ \A u \in Threads \ {t} : pc'[u] = pc[u]
  BY <1>1 DEF Begin, LockInv, ArgsType
<1>6. Going(t)'
  <2>1. ASSUME NEW n \in Below(c) PROVE posted'[n] # s
    BY <1>2, <2>1, ParentFacts, PathFacts DEF CatalogInv, PostedStays, Below
  <2>2. ASSUME NEW n \in Below(c), cache[n] = s,
               NEW u \in Threads, req'[u] # NoReq, pc'[u] = "idle", req'[u].item = n
        PROVE  u \in overtaken'
    <3>1. u # t /\ pc[u] = "idle" /\ req'[u] = req[u] /\ ~Free(u)
      BY <1>3, <1>5, <2>2 DEF Free
    <3>2. req[u].kind \in {"put", "delete", "get"}
      BY <3>1 DEF CatalogInv, ContentOK
    <3>3. u \in Waiting(S)
      BY <2>2, <3>1, <3>2 DEF Waiting
    <3> QED
      BY <1>2, <3>1, <3>3
  <2> QED
    BY <1>1, <1>5, <2>1, <2>2 DEF Going, Surpassed, Free
<1>7. (ContentOK(t) /\ CallServes(t) /\ LookedUp(t))'
  BY <1>3, <1>5 DEF ContentOK, CallServes, LookedUp, Free
<1>8. \A u \in Threads \ {t} : LookedUp(u) => LookedUp(u)'
  BY <1>1, <1>2, <1>3, <1>5 DEF LookedUp, Free
<1> QED
  BY <1>1, <1>3, <1>4, <1>5, <1>6, <1>7, <1>8, ExclusiveRequest

(* A posted document is neither below a collection that is being deleted   *)
(* in its namespace nor that collection.                                   *)
LEMMA EndDeleteCollectionStep ==
  ASSUME CatalogInv, LockInv', NEW t \in Threads, EndDeleteCollection(t)
  PROVE  CatalogInv'
<1> DEFINE c == name[t]
           s == ns[t]
<1>1. /\ pc[t] = "deleteCol" /\ Exclusive(t) /\ LockInv /\ UNCHANGED <<overtaken, posted>>
      /\ c \in Names /\ s \in Namespaces
      /\ \A n \in Below(c) : posted[n] # s /\ (cache[n] = s => Surpassed(n))
  <2>1. pc[t] = "deleteCol"
    BY DEF EndDeleteCollection, RemoveEntry, FinishDeleteCol
  <2> QED
    BY <2>1 DEF EndDeleteCollection, history, Exclusive, CatalogInv, LockInv, ArgsType, Going
<1>2. ~IsItem(c)
  BY <1>1, RequestFacts DEF EndDeleteCollection, Serving, CatalogInv, CallServes
<1>3. ASSUME NEW n \in Names, RemoveEntry(t, n), UNCHANGED req PROVE CatalogInv'
  <2>1. /\ n \in Below(c) \union {c} /\ \A m \in Below(n) : fs[s][m] = Absent
        /\ SetPaths(s, {n}, Absent) /\ UNCHANGED <<cache, pc, name, ns, doc>>
    BY <1>3 DEF RemoveEntry, args
  <2>2. \A r \in Namespaces, m \in Names : IsFile(fs'[r][m]) <=> IsFile(fs[r][m]) /\ ~(r = s /\ m = n)
    BY <1>1, <2>1, RemoveEffect DEF LockInv
  <2>3. posted[n] # s
    BY <1>1, <1>2, <2>1, PathFacts DEF CatalogInv, ItemsPosted
  <2>4. RequestType' /\ LeavesOnly' /\ ItemsPosted' /\ PostedStays'
    <3>1. RequestType' /\ LeavesOnly' /\ ItemsPosted'
      BY <1>1, <1>3, <2>2 DEF CatalogInv, RequestType, LeavesOnly, ItemsPosted
    <3>2. PostedStays'
      BY <1>1, <2>1, <2>2, <2>3 DEF CatalogInv, PostedStays, RequestType
    <3> QED
      BY <3>1, <3>2
  <2> QED
    BY <1>1, <1>3, <2>1, <2>4
       DEF CatalogInv, ContentOK, CallServes, LookedUp, Going, Surpassed, Free
<1>4. ASSUME FinishDeleteCol(t), Respond(t) PROVE CatalogInv'
  <2>1. \A r \in Namespaces, m \in Names : IsFile(fs'[r][m]) <=> IsFile(fs[r][m])
    BY <1>1, <1>4, DirectoriesAreNoFiles DEF FinishDeleteCol
  <2>2. \A m \in Names : cache'[m] = cache[m] \/ (m \in Below(c) /\ cache[m] = s)
    BY <1>1, <1>4 DEF FinishDeleteCol, CacheDelCol
  <2>3. /\ req' \in [Threads -> Requests \union {NoReq}]
        /\ req'[t] = NoReq /\ \A u \in Threads \ {t} : req'[u] = req[u]
    BY <1>4, RespondFacts DEF CatalogInv
  <2>4. /\ pc'[t] = "idle" /\ \A u \in Threads \ {t} : pc'[u] = pc[u]
    BY <1>1, <1>4, ReturnType DEF FinishDeleteCol, LockInv
  <2>5. RequestType' /\ LeavesOnly' /\ ItemsPosted' /\ PostedStays'
    <3>1. RequestType' /\ LeavesOnly' /\ ItemsPosted'
      BY <1>1, <2>1, <2>3 DEF CatalogInv, RequestType, LeavesOnly, ItemsPosted
    <3>2. PostedStays'
      BY <1>1, <2>1, <2>2 DEF CatalogInv, PostedStays, RequestType
    <3> QED
      BY <3>1, <3>2
  <2>6. (ContentOK(t) /\ CallServes(t) /\ LookedUp(t) /\ Going(t))'
    BY <2>3, <2>4 DEF ContentOK, CallServes, LookedUp, Going, Free
  <2>7. ASSUME NEW u \in Threads \ {t}, LookedUp(u) PROVE LookedUp(u)'
    <3>1. ~Free(u) => req[u].item \in Names
      BY RequestFacts DEF CatalogInv
    <3>2. ~Free(u) /\ pc[u] = "idle" /\ u \notin overtaken =>
            ~(req[u].item \in Below(c) /\ cache[req[u].item] = s)
      BY <1>1 DEF Surpassed
    <3> QED
      BY <1>1, <2>2, <2>3, <2>4, <2>7, <3>1, <3>2 DEF LookedUp, Free
  <2> QED
    BY <1>1, <2>3, <2>4, <2>5, <2>6, <2>7, ExclusiveRequest
<1> QED
  BY <1>3, <1>4 DEF EndDeleteCollection

-----------------------------------------------------------------------------
(* The catalog implements the store: every step of a request is a step of  *)
(* the store or changes nothing in it.                                     *)

LEMMA PutContent ==
  ASSUME CatalogInv, NEW t \in Threads, Serving(t, "put")
  PROVE  req[t].item \in Names /\ (pc[t] = "idle" => req[t].content \in Docs)
<1>1. ~Free(t) /\ req[t].kind = "put"
  BY DEF Serving
<1>2. req[t].item \in Names /\ req[t].space \in Namespaces
  BY <1>1, RequestFacts DEF CatalogInv
<1>3. req[t].content \in Validator[req[t].space]
  BY <1>1 DEF CatalogInv, ContentOK
<1> QED
  BY <1>2, <1>3, ValidatorAssumption DEF ValidatorAssumption

LEMMA StoreStep == CatalogInv /\ [CatalogNext]_cvars => [Next]_vars
<1> SUFFICES ASSUME CatalogInv, [CatalogNext]_cvars PROVE [Next]_vars
  OBVIOUS
<1>1. ASSUME NEW t \in Threads, ResourcePost(t) PROVE [Next]_vars
  <2>1. CASE EndPost(t)
    BY <2>1 DEF EndPost, Finish, Next
  <2>2. ASSUME NEW n \in Names, NEW s \in Namespaces, NEW d \in Docs, Post(t, n, s, d)
        PROVE  Next
    BY <2>2 DEF Post, Call, Next
  <2> QED
    BY <1>1, <2>1, <2>2 DEF ResourcePost
<1>2. ASSUME NEW t \in Threads, ResourcePut(t) PROVE [Next]_vars
  <2>1. CASE Put(t)
    <3>1. req[t].item \in Names /\ req[t].content \in Docs
      BY <2>1, PutContent DEF Put
    <3> QED
      BY <2>1, <3>1 DEF Put, Call, Next
  <2>2. CASE EndPut(t)
    BY <2>2 DEF EndPut, Finish, Next
  <2>3. CASE LosePut(t) \/ \E n \in Names, s \in Namespaces, d \in Docs : CheckPut(t, n, s, d)
    BY <2>3 DEF LosePut, CheckPut, LookUp
  <2> QED
    BY <1>2, <2>1, <2>2, <2>3 DEF ResourcePut
<1>3. ASSUME NEW t \in Threads, ResourceDelete(t) PROVE [Next]_vars
  <2>1. CASE Delete(t)
    <3>1. req[t].item \in Names
      BY <2>1, RequestFacts DEF Delete, Serving, CatalogInv
    <3> QED
      BY <2>1, <3>1 DEF Delete, Call, Next
  <2>2. CASE EndDelete(t) \/ EndDeleteCollection(t)
    BY <2>2 DEF EndDelete, EndDeleteCollection, Finish, Next
  <2>3. ASSUME NEW n \in Names, NEW s \in Namespaces, DeleteCollection(t, n, s) PROVE Next
    BY <2>3 DEF DeleteCollection, Call, Next
  <2>4. CASE RefuseDelete(t) \/ \E n \in Names, s \in Namespaces : CheckDelete(t, n, s)
    BY <2>4 DEF RefuseDelete, CheckDelete, LookUp
  <2> QED
    BY <1>3, <2>1, <2>2, <2>3, <2>4 DEF ResourceDelete
<1>4. ASSUME NEW t \in Threads, ResourceGet(t) \/ ReadOnly(t) PROVE UNCHANGED vars
  BY <1>4 DEF ResourceGet, Get, CheckGet, LookUp, ReadOnly, cvars
<1>5. CASE UNCHANGED cvars
  BY <1>5 DEF cvars
<1> QED
  BY <1>1, <1>2, <1>3, <1>4, <1>5 DEF CatalogNext

LEMMA CatalogStep == CatalogInv /\ [CatalogNext]_cvars => CatalogInv'
<1> SUFFICES ASSUME CatalogInv, [CatalogNext]_cvars PROVE CatalogInv'
  OBVIOUS
<1>0. LockInv'
  BY StoreStep, LockStep DEF CatalogInv
<1>a. NoDoc \in Docs \union {NoDoc} /\ \A d \in Docs : d \in Docs \union {NoDoc}
  OBVIOUS
<1>b. ASSUME NEW t \in Threads, pc[t] = "idle", Respond(t), UNCHANGED <<vars, history>>
      PROVE  CatalogInv'
  BY <1>0, <1>b, AnswerStep
<1>1. ASSUME NEW t \in Threads, ResourcePost(t) PROVE CatalogInv'
  BY <1>0, <1>1, PostStep, EndPostStep DEF ResourcePost
<1>2. ASSUME NEW t \in Threads, ResourcePut(t) PROVE CatalogInv'
  <2>1. CASE Put(t) \/ EndPut(t)
    BY <1>0, <2>1, PutStep, EndPutStep
  <2>2. CASE LosePut(t)
    BY <1>b, <2>2 DEF LosePut
  <2>3. ASSUME NEW n \in Names, NEW s \in Namespaces, NEW d \in Docs, CheckPut(t, n, s, d)
        PROVE  CatalogInv'
    <3>1. d \in Validator[s] /\ LookUp(t, "put", n, s, d)
      BY <2>3 DEF CheckPut, Valid
    <3> QED
      BY <1>0, <1>a, <3>1, LookUpStep
  <2> QED
    BY <1>2, <2>1, <2>2, <2>3 DEF ResourcePut
<1>3. ASSUME NEW t \in Threads, ResourceDelete(t) PROVE CatalogInv'
  <2>1. CASE Delete(t) \/ EndDelete(t) \/ EndDeleteCollection(t)
    BY <1>0, <2>1, DeleteStep, EndDeleteStep, EndDeleteCollectionStep
  <2>2. CASE RefuseDelete(t)
    BY <1>b, <2>2 DEF RefuseDelete
  <2>3. ASSUME NEW n \in Names, NEW s \in Namespaces, CheckDelete(t, n, s) PROVE CatalogInv'
    BY <1>0, <1>a, <2>3, LookUpStep DEF CheckDelete
  <2>4. ASSUME NEW n \in Names, NEW s \in Namespaces, DeleteCollection(t, n, s)
        PROVE  CatalogInv'
    BY <1>0, <2>4, DeleteCollectionStep
  <2> QED
    BY <1>3, <2>1, <2>2, <2>3, <2>4 DEF ResourceDelete
<1>4. ASSUME NEW t \in Threads, ResourceGet(t) PROVE CatalogInv'
  <2>1. CASE Get(t)
    <3>1. pc[t] = "idle"
      BY <2>1 DEF Get, LockShared
    <3> QED
      BY <1>b, <2>1, <3>1 DEF Get
  <2>2. ASSUME NEW n \in Names, NEW s \in Namespaces, CheckGet(t, n, s) PROVE CatalogInv'
    BY <1>0, <1>a, <2>2, LookUpStep DEF CheckGet
  <2> QED
    BY <1>4, <2>1, <2>2 DEF ResourceGet
<1>5. ASSUME UNCHANGED cvars PROVE CatalogInv'
  <2>1. UNCHANGED <<fs, cache, pc, name, ns, doc, req, overtaken, posted>>
    BY <1>5 DEF cvars, vars, args, history
  <2>2. UNCHANGED <<RequestType, LeavesOnly, ItemsPosted, PostedStays>>
    BY <2>1 DEF RequestType, LeavesOnly, ItemsPosted, PostedStays
  <2>3. ASSUME NEW t \in Threads
        PROVE  UNCHANGED <<ContentOK(t), CallServes(t), LookedUp(t), Going(t)>>
    BY <2>1 DEF ContentOK, CallServes, LookedUp, Going, Surpassed, Free
  <2> QED
    BY <1>0, <2>2, <2>3 DEF CatalogInv
<1> QED
  BY <1>1, <1>2, <1>3, <1>4, <1>5 DEF CatalogNext, ReadOnly

LEMMA CatalogStarts == CatalogInit => CatalogInv
<1> SUFFICES ASSUME CatalogInit PROVE CatalogInv
  OBVIOUS
<1>1. LockInv
  BY StoreInit DEF CatalogInit
<1>2. RequestType /\ LeavesOnly /\ ItemsPosted /\ PostedStays
  BY PathFacts DEF CatalogInit, Init, RequestType, LeavesOnly, ItemsPosted, PostedStays
<1>3. \A t \in Threads : ContentOK(t) /\ CallServes(t) /\ LookedUp(t) /\ Going(t)
  BY DEF CatalogInit, Init, ContentOK, CallServes, LookedUp, Going, Free
<1> QED
  BY <1>1, <1>2, <1>3 DEF CatalogInv

LEMMA CatalogInvariant == CatalogSpec => []CatalogInv
  BY CatalogStarts, CatalogStep, PTL DEF CatalogSpec

(* The requests use the store as it may be used: what StoreProofs shows of *)
(* it is so for the catalog.                                               *)
THEOREM CatalogImplementsStore == CatalogSpec => Spec
<1>1. CatalogInit => Init
  BY DEF CatalogInit
<1> QED
  BY <1>1, StoreStep, CatalogInvariant, PTL DEF CatalogSpec, Spec

(* The type invariant; a thread is in the call of its request, and no      *)
(* document lies where the directory of a collection goes.                 *)
THEOREM CatalogTypeCorrect == CatalogSpec => []CatalogTypeOK
<1>1. CatalogInv => CatalogTypeOK
  BY TypeParts DEF CatalogInv, LockInv, RequestType, CallServes, LeavesOnly, CatalogTypeOK
<1> QED
  BY <1>1, CatalogInvariant, PTL

(* A posted document stays until a DELETE acts on it, whatever fails.      *)
THEOREM PostsStay == CatalogSpec => []PostedStays
<1>1. CatalogInv => PostedStays
  BY DEF CatalogInv
<1> QED
  BY <1>1, CatalogInvariant, PTL

-----------------------------------------------------------------------------
(* What the steps of the requests do *)

(* The kind of a request whose call writes. *)
LEMMA WriterFacts ==
  ASSUME RequestType, NEW t \in Threads, CallServes(t), Writing(t)
  PROVE  /\ ~Free(t) /\ name[t] = req[t].item /\ doc[t] = req[t].content
         /\ \/ /\ pc[t] = "create" /\ req[t].kind = "post" /\ ns[t] = req[t].space
            \/ /\ pc[t] = "update" /\ req[t].kind = "put"
               /\ ns[t] = req[t].space \/ t \in overtaken
<1>1. ~Free(t) /\ name[t] = req[t].item /\ pc[t] # "idle"
  BY DEF CallServes, Writing
<1>2. req[t].kind \in {"post", "put", "delete", "get", "deleteCol"}
  BY <1>1, RequestFacts
<1> QED
  BY <1>1, <1>2 DEF CallServes, Writing

(* Only a POST creates a document, and the one it was asked to create.     *)
THEOREM NothingElseCreates == CatalogSpec => OnlyPostsCreate
<1> DEFINE Created(s, n) == ~IsFile(fs[s][n]) /\ IsFile(fs'[s][n])
           Posting(s, n) == \E t \in Threads : /\ req'[t] # NoReq
                                               /\ req'[t].kind = "post" /\ req'[t].item = n
                                               /\ req'[t].space = s
<1>1. ASSUME CatalogInv, CatalogInv', [CatalogNext]_cvars,
             NEW s \in Namespaces, NEW n \in Names, Created(s, n)
      PROVE  Posting(s, n)
  <2>1. PICK t \in Threads : Opens(t, s, n) \/ Fills(t, s, n)
    BY <1>1, StoreStep, FileChange DEF CatalogInv
  <2>2. Opens(t, s, n)
    BY <1>1, <2>1 DEF Fills, Writing, CatalogInv, LockInv, WritesOK
  <2>3. pc'[t] # "update" /\ Writing(t)' /\ name'[t] = n /\ ns'[t] = s
    BY <1>1, <2>2 DEF Opens
  <2>4. RequestType' /\ CallServes(t)'
    BY <1>1 DEF CatalogInv
  <2>5. /\ req'[t] # NoReq /\ name'[t] = req'[t].item
        /\ req'[t].kind \in {"post", "put", "delete", "get", "deleteCol"}
    <3>1. req'[t] # NoReq /\ name'[t] = req'[t].item
      BY <2>3, <2>4 DEF CallServes, Writing, Free
    <3>2. req'[t] \in Requests
      BY <2>4, <3>1 DEF RequestType
    <3> QED
      BY <3>1, <3>2 DEF Requests
  <2>6. req'[t].kind = "post" /\ ns'[t] = req'[t].space
    BY <2>3, <2>4, <2>5 DEF CallServes, Writing
  <2> QED
    BY <2>3, <2>5, <2>6
<1>2. CatalogInv /\ CatalogInv' /\ [CatalogNext]_cvars =>
        [\A s \in Namespaces, n \in Names : Created(s, n) => Posting(s, n)]_cvars
  BY <1>1
<1> QED
  BY <1>2, CatalogInvariant, PTL DEF CatalogSpec, OnlyPostsCreate

(* What is stored of a type that is validated was validated for where it   *)
(* is stored, unless a DELETE overtook the PUT that stores it.             *)
THEOREM StoresOnlyValid == CatalogSpec => ValidWhereStored
<1> DEFINE Stored(s, n) == Whole(fs'[s][n]) /\ fs'[s][n] # fs[s][n] /\ Validation(n)
           Excused(s, n) == \/ fs'[s][n] \in Validator[s]
                            \/ \E t \in overtaken : Serving(t, "put") /\ req[t].item = n
<1>1. ASSUME CatalogInv, [CatalogNext]_cvars,
             NEW s \in Namespaces, NEW n \in Names, Stored(s, n)
      PROVE  Excused(s, n)
  <2>0. fs'[s][n] # Empty /\ fs'[s][n] # Torn /\ IsFile(fs'[s][n])
    BY <1>1, ValuesAssumption DEF ValuesAssumption, Whole, IsFile, Files
  <2>1. PICK t \in Threads : Opens(t, s, n) \/ Fills(t, s, n)
    BY <1>1, <2>0, StoreStep, FileChange DEF CatalogInv
  <2>2. /\ Writing(t) /\ name[t] = n /\ ns[t] = s
        /\ fs'[s][n] = doc[t]
    BY <2>0, <2>1 DEF Opens, Fills, Written
  <2>3. /\ ~Free(t) /\ name[t] = req[t].item /\ doc[t] = req[t].content
        /\ req[t].kind \in {"post", "put"}
        /\ ns[t] = req[t].space \/ (t \in overtaken /\ req[t].kind = "put")
    BY <1>1, <2>2, WriterFacts DEF CatalogInv
  <2>4. doc[t] \in Validator[req[t].space]
    BY <1>1, <2>2, <2>3 DEF CatalogInv, ContentOK
  <2> QED
    BY <2>2, <2>3, <2>4 DEF Serving
<1>2. CatalogInv /\ [CatalogNext]_cvars =>
        [\A s \in Namespaces, n \in Names : Stored(s, n) => Excused(s, n)]_cvars
  BY <1>1
<1> QED
  BY <1>2, CatalogInvariant, PTL DEF CatalogSpec, ValidWhereStored

(* A PUT or a DELETE acts in the namespace that it has checked, unless a   *)
(* DELETE overtook it.                                                     *)
THEOREM ActsAsLookedUp == CatalogSpec => ActsWhereAsked
<1> DEFINE Acts(t) == pc[t] = "idle" /\ pc'[t] \in {"update", "delete"}
           Asked(t) == ns'[t] = req[t].space \/ t \in overtaken
<1>1. ASSUME CatalogInv, [CatalogNext]_cvars, NEW t \in Threads, Acts(t) PROVE Asked(t)
  <2>a. ASSUME NEW u \in Threads, NEW label, NEW n, NEW s, NEW d, Begin(u, label, n, s, d)
        PROVE  u = t /\ label \in {"update", "delete"} /\ ns'[t] = s
    BY <1>1, <2>a DEF Begin, CatalogInv, LockInv, ArgsType
  <2>b. ASSUME NEW u \in Threads PROVE ~Return(u)
    <3>1. "idle" \notin {"update", "delete"}
      OBVIOUS
    <3> QED
      BY <2>a, <3>1 DEF Return
  <2>c. pc' # pc
    BY <1>1
  <2>1. PICK u \in Threads : Put(u) \/ Delete(u)
    <3>1. ASSUME NEW u \in Threads, ResourcePost(u) PROVE FALSE
      <4>1. "create" \notin {"update", "delete"}
        OBVIOUS
      <4> QED
        BY <3>1, <4>1, <2>a, <2>b, <2>c DEF ResourcePost, EndPost, FinishWrite, Post, CreateDoc
    <3>2. ASSUME NEW u \in Threads, ResourcePut(u) PROVE Put(u)
      BY <3>2, <2>b, <2>c DEF ResourcePut, EndPut, FinishUpdate, LosePut, CheckPut, LookUp, vars
    <3>3. ASSUME NEW u \in Threads, ResourceDelete(u) PROVE Delete(u)
      <4>1. "deleteCol" \notin {"update", "delete"}
        OBVIOUS
      <4> QED
        BY <3>3, <4>1, <2>a, <2>b, <2>c
           DEF ResourceDelete, EndDelete, FinishDelete, RefuseDelete, EndDeleteCollection,
               RemoveEntry, FinishDeleteCol, CheckDelete, DeleteCollection, DeleteCol, LookUp, vars
    <3>4. ASSUME NEW u \in Threads, ResourceGet(u) \/ ReadOnly(u) PROVE FALSE
      BY <3>4, <2>c DEF ResourceGet, Get, CheckGet, LookUp, ReadOnly, cvars, vars
    <3> QED
      BY <1>1, <2>c, <3>1, <3>2, <3>3, <3>4 DEF CatalogNext, cvars, vars
  <2>2. u = t /\ ns'[t] = cache[req[t].item] /\ ~Free(t)
    BY <2>1, <2>a DEF Put, Delete, UpdateDoc, DeleteDoc, Serving
  <2> QED
    BY <1>1, <2>2 DEF CatalogInv, LookedUp
<1>2. CatalogInv /\ [CatalogNext]_cvars => [\A t \in Threads : Acts(t) => Asked(t)]_cvars
  BY <1>1
<1> QED
  BY <1>2, CatalogInvariant, PTL DEF CatalogSpec, ActsWhereAsked

(* As long as writes succeed and no two threads update, a GET finds a      *)
(* whole document, or a PUT of it is under way.                            *)
THEOREM GetFindsWhole ==
  ASSUME NoTornWrites
  PROVE  CatalogSpec => GetReadsWhole
<1> DEFINE Reads(t) == Serving(t, "get") /\ req'[t] = NoReq /\ Found(req[t].item)
           Readable(t) ==
             \/ Whole(fs[cache[req[t].item]][req[t].item])
             \/ \E u \in Threads : pc[u] = "update" /\ name[u] = req[t].item
<1>1. ASSUME ReadInv, CatalogInv, [CatalogNext]_cvars, NEW t \in Threads, Reads(t)
      PROVE  Readable(t)
  <2>1. req[t] # NoReq /\ req[t].kind = "get"
    BY <1>1 DEF Serving, Free
  <2>a. ASSUME NEW u \in Threads, Respond(u) PROVE u = t
    BY <1>1, <2>1, <2>a DEF Respond, CatalogInv, RequestType
  <2>b. ASSUME NEW u \in Threads, NEW k, NEW n, NEW s, NEW d, Serve(u, k, n, s, d)
        PROVE  u = t
    BY <1>1, <2>1, <2>b DEF Serve, CatalogInv, RequestType
  <2>c. req' # req
    BY <1>1, <2>1
  <2>2. LockShared(t)
    <3>1. ASSUME NEW u \in Threads, ResourcePost(u) PROVE FALSE
      BY <3>1, <2>1, <2>a, <2>b, <2>c DEF ResourcePost, EndPost, Post, Serving, Free
    <3>2. ASSUME NEW u \in Threads, ResourcePut(u) PROVE FALSE
      BY <3>2, <2>1, <2>a, <2>b, <2>c
         DEF ResourcePut, Put, EndPut, LosePut, CheckPut, LookUp, Serving, Free
    <3>3. ASSUME NEW u \in Threads, ResourceDelete(u) PROVE FALSE
      BY <3>3, <2>1, <2>a, <2>b, <2>c
         DEF ResourceDelete, Delete, EndDelete, RefuseDelete, EndDeleteCollection,
             CheckDelete, DeleteCollection, LookUp, Serving, Free
    <3>4. ASSUME NEW u \in Threads, ResourceGet(u) PROVE LockShared(t)
      BY <3>4, <2>1, <2>a, <2>b DEF ResourceGet, Get, CheckGet, LookUp, Free
    <3>5. ASSUME NEW u \in Threads, ReadOnly(u) PROVE FALSE
      BY <3>5, <2>c DEF ReadOnly, cvars
    <3> QED
      BY <1>1, <2>c, <3>1, <3>2, <3>3, <3>4, <3>5 DEF CatalogNext, cvars
  <2>3. /\ req[t].item \in Names /\ cache[req[t].item] \in Namespaces
        /\ IsFile(fs[cache[req[t].item]][req[t].item])
    <3>1. req[t].item \in Names
      BY <1>1, <2>1, RequestFacts DEF CatalogInv, Free
    <3> QED
      BY <1>1, <3>1 DEF Found, CatalogInv, LockInv, CacheType
  <2> QED
    BY <1>1, <2>2, <2>3 DEF ReadInv, Writing, LockShared, Exclusive
<1>2. ReadInv /\ CatalogInv /\ [CatalogNext]_cvars =>
        [\A t \in Threads : Reads(t) => Readable(t)]_cvars
  BY <1>1
<1>3. Spec => []ReadInv
  BY ReadInvariant
<1> QED
  BY <1>2, <1>3, CatalogImplementsStore, CatalogInvariant, PTL DEF CatalogSpec, GetReadsWhole
=============================================================================
