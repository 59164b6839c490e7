------------------------------ MODULE Catalog -------------------------------
(***************************************************************************)
(* The catalog of assets over the document store: class Catalog and the    *)
(* handlers of its routes, on the worker threads of the HTTP server.       *)
(*                                                                         *)
(* The catalog keeps no state.  PUT, DELETE and GET of a document look up  *)
(* its namespace under one acquisition of the store's lock and then call   *)
(* the store by name under another; whatever other requests do in between  *)
(* is what this module is about.  A crash takes the requests with it: what *)
(* it does to the documents is in module Store.                            *)
(***************************************************************************)
EXTENDS Store

CONSTANTS
  Validator,    (* the contents the validator accepts in each namespace    *)
  Schemas,      (* the names of type schema, which are not validated       *)
  NoReq         (* no request                                              *)

ASSUME ValidatorAssumption == Validator \in [Namespaces -> SUBSET Docs]
ASSUME PartsAssumption ==     (* no name has more than three parts *)
  \A n \in Names : Cardinality(Parents[n]) = 2 => \A m \in Names : n \notin Parents[m]

VARIABLES
  req,          (* the request each thread serves                          *)
  overtaken,    (* history: threads whose document another request has     *)
                (* deleted since they looked up its namespace              *)
  posted        (* history: the namespace a POST has put a document in,    *)
                (* until a DELETE of it acts                               *)

history == <<overtaken, posted>>
cvars   == <<vars, req, history>>

(* A name of three parts is a document, one of one or two a collection. *)
IsItem_OrSeries(n) == Cardinality(Parents[n]) \in {1, 2}   \* mutant: == 1 only is a collection
IsItem(n) == Cardinality(Parents[n]) = 2
Items     == {n \in Names : IsItem(n)}

Requests ==
  [kind : {"post", "put", "delete", "get"}, item : Items,
   space : Namespaces, content : Docs \union {NoDoc}]
    \union [kind : {"deleteCol"}, item : Names \ Items, space : Namespaces, content : {NoDoc}]

ASSUME NoReqAssumption == NoReq \notin Requests

CatalogInit ==
  /\ Init
  /\ req = [t \in Threads |-> NoReq]
  /\ overtaken = {}
  /\ posted = [n \in Names |-> NoNS]

Free(t)         == req[t] = NoReq
Serving(t, k)   == ~Free(t) /\ req[t].kind = k
Serve(t, k, n, s, d) ==
  req' = [req EXCEPT ![t] = [kind |-> k, item |-> n, space |-> s, content |-> d]]
Respond(t)      == req' = [req EXCEPT ![t] = NoReq]

(* Catalog::validate, with what the external validator makes of a content. *)
Valid_Anything(s, d) == TRUE                \* mutant: the call forgotten
Valid(s, d) == d \in Validator[s]

(* Resource::validation_: every type of document has it but schemas. *)
Validation(n) == n \notin Schemas

(* Catalog::checkResourceInNamespace *)
InNamespace_Anywhere(n, s) == cache[n] # NoNS   \* mutant: only existence
InNamespace(n, s) == cache[n] = s

(* The threads that have looked up the namespace of a document of S and    *)
(* have yet to act on it.                                                  *)
Waiting(S) ==
  {t \in Threads : /\ ~Free(t)
                   /\ req[t].kind \in {"put", "delete", "get"}
                   /\ req[t].item \in S
                   /\ pc[t] = "idle"}

(* The documents of S in namespace s are being deleted by t. *)
Overtake(t, S, s) ==
  /\ overtaken' = overtaken \union (Waiting(S) \ {t})
  /\ posted' = [n \in Names |-> IF n \in S /\ posted[n] = s THEN NoNS ELSE posted[n]]

-----------------------------------------------------------------------------
(* POST: Catalog::postResource *)

Post(t, n, s, d) ==
  /\ Free(t) /\ IsItem(n)
  /\ Validation(n) => Valid(s, d)
  /\ CreateDoc(t, n, s, d)
  /\ IF pc'[t] = "create" THEN Serve(t, "post", n, s, d) ELSE UNCHANGED req
  /\ UNCHANGED history

EndPost(t) ==
  /\ Serving(t, "post")
  /\ FinishWrite(t)
  /\ Respond(t)
  /\ posted' = [posted EXCEPT ![req[t].item] = req[t].space]
  /\ UNCHANGED overtaken

-----------------------------------------------------------------------------
(* The look-up that PUT, DELETE and GET of a document begin with. *)
LookUp(t, k, n, s, d) ==
  /\ Free(t) /\ IsItem(n)
  /\ LockShared(t)
  /\ InNamespace(n, s)
  /\ Serve(t, k, n, s, d)
  /\ overtaken' = overtaken \ {t}
  /\ UNCHANGED <<vars, posted>>

(* PUT: Catalog::putResource, which refuses a schema, then                 *)
(* store::utils::update                                                    *)

CheckPut(t, n, s, d) ==
  /\ t \in Updaters
  /\ Validation(n) /\ Valid(s, d)
  /\ LookUp(t, "put", n, s, d)

Put(t) ==
  /\ Serving(t, "put") /\ pc[t] = "idle"
  /\ UpdateDoc(t, req[t].item, req[t].content)
  /\ UNCHANGED <<req, history>>

EndPut(t) ==
  /\ Serving(t, "put")
  /\ FinishUpdate(t)
  /\ Respond(t)
  /\ UNCHANGED history

(* What readDoc, updateDoc and deleteDoc need. *)
Found(n) == cache[n] # NoNS /\ IsFile(fs[cache[n]][n])

(* The document is gone: updateDoc fails, store::utils::update drops the   *)
(* error, and the answer is OK.                                            *)
LosePut(t) ==
  /\ Serving(t, "put") /\ pc[t] = "idle"
  /\ LockShared(t)
  /\ ~Found(req[t].item)
  /\ Respond(t)
  /\ UNCHANGED <<vars, history>>

-----------------------------------------------------------------------------
(* DELETE: Catalog::deleteResource *)

CheckDelete(t, n, s) == LookUp(t, "delete", n, s, NoDoc)

Delete(t) ==
  /\ Serving(t, "delete") /\ pc[t] = "idle"
  /\ DeleteDoc(t, req[t].item)
  /\ Overtake(t, {req[t].item}, cache[req[t].item])
  /\ UNCHANGED req

EndDelete(t) ==
  /\ Serving(t, "delete")
  /\ FinishDelete(t)
  /\ Respond(t)
  /\ UNCHANGED history

RefuseDelete(t) ==
  /\ Serving(t, "delete") /\ pc[t] = "idle"
  /\ LockExclusive(t)
  /\ ~Found(req[t].item)
  /\ Respond(t)
  /\ UNCHANGED <<vars, history>>

DeleteCollection(t, c, s) ==
  /\ Free(t) /\ ~IsItem(c)
  /\ DeleteCol(t, c, s)
  /\ Serve(t, "deleteCol", c, s, NoDoc)
  /\ Overtake(t, {n \in Below(c) : cache[n] = s}, s)

EndDeleteCollection(t) ==
  /\ Serving(t, "deleteCol")
  /\ \/ \E n \in Names : RemoveEntry(t, n) /\ UNCHANGED req
     \/ FinishDeleteCol(t) /\ Respond(t)
  /\ UNCHANGED history

-----------------------------------------------------------------------------
(* GET: Catalog::getResource of a document *)

CheckGet(t, n, s) == LookUp(t, "get", n, s, NoDoc)

Get(t) ==
  /\ Serving(t, "get")
  /\ LockShared(t)
  /\ Respond(t)
  /\ UNCHANGED <<vars, history>>

-----------------------------------------------------------------------------
(* The routes that answer from the cache or from the validator, and        *)
(* requests that are refused at once, change nothing.                      *)
ReadOnly(t) == Free(t) /\ LockShared(t) /\ UNCHANGED cvars

(* The routes *)

ResourcePost(t) ==
  EndPost(t) \/ \E n \in Names, s \in Namespaces, d \in Docs : Post(t, n, s, d)

ResourcePut(t) ==
  \/ Put(t) \/ EndPut(t) \/ LosePut(t)
  \/ \E n \in Names, s \in Namespaces, d \in Docs : CheckPut(t, n, s, d)

ResourceDelete(t) ==
  \/ Delete(t) \/ EndDelete(t) \/ RefuseDelete(t) \/ EndDeleteCollection(t)
  \/ \E n \in Names, s \in Namespaces : CheckDelete(t, n, s) \/ DeleteCollection(t, n, s)

ResourceGet(t) ==
  Get(t) \/ \E n \in Names, s \in Namespaces : CheckGet(t, n, s)

CatalogNext ==
  \E t \in Threads :
    ResourcePost(t) \/ ResourcePut(t) \/ ResourceDelete(t) \/ ResourceGet(t) \/ ReadOnly(t)

CatalogSpec == CatalogInit /\ [][CatalogNext]_cvars

-----------------------------------------------------------------------------
(* Properties *)

(* The types; a thread in a call of the store is in the request that made  *)
(* it; and a document is never where the directory of a collection goes,   *)
(* so that no POST can bar another one for good.                           *)
CatalogTypeOK ==
  /\ TypeOK
  /\ req \in [Threads -> Requests \union {NoReq}]
  /\ overtaken \subseteq Threads
  /\ posted \in [Names -> Namespaces \union {NoNS}]
  /\ \A t \in Threads :
       pc[t] # "idle" =>
         /\ ~Free(t) /\ name[t] = req[t].item
         /\ pc[t] = CASE req[t].kind = "post"   -> "create"
                      [] req[t].kind = "put"    -> "update"
                      [] OTHER                  -> req[t].kind
  /\ \A s \in Namespaces, n \in Names : IsFile(fs[s][n]) => Below(n) = {}

(* A document that a POST has answered OK for stays where it was put, for  *)
(* the cache and on the disk, until a DELETE of it, or of a collection of  *)
(* its own namespace around it, acts: no other request removes or moves    *)
(* it, and no failure to remove other files and directories does.          *)
PostedStays ==
  \A n \in Names : posted[n] # NoNS => /\ cache[n] = posted[n]
                                       /\ IsFile(fs[posted[n]][n])

(* PUT and DELETE act in the namespace they were asked to act in, unless   *)
(* another request has deleted the document since the look-up: then they   *)
(* act on whatever document has the name now.                              *)
ActsWhereAsked ==
  [][\A t \in Threads :
       pc[t] = "idle" /\ pc'[t] \in {"update", "delete"} =>
         ns'[t] = req[t].space \/ t \in overtaken]_cvars

(* What is stored under a name of any type but schema was validated for    *)
(* the namespace it is stored in, with the same exception.                 *)
ValidWhereStored ==
  [][\A s \in Namespaces, n \in Names :
       Whole(fs'[s][n]) /\ fs'[s][n] # fs[s][n] /\ Validation(n) =>
         \/ fs'[s][n] \in Validator[s]
         \/ \E t \in overtaken : Serving(t, "put") /\ req[t].item = n]_cvars

(* Only a POST brings a document into being: a PUT whose document has gone *)
(* since the look-up does not bring it back.                               *)
OnlyPostsCreate ==
  [][\A s \in Namespaces, n \in Names :
       ~IsFile(fs[s][n]) /\ IsFile(fs'[s][n]) =>
         \E t \in Threads : /\ req'[t] # NoReq
                            /\ req'[t].kind = "post" /\ req'[t].item = n
                            /\ req'[t].space = s]_cvars

(* A GET that finds a file finds a whole document in it, or a PUT of the   *)
(* same document is under way: it is read by the same shared lock, and     *)
(* what getJson makes of half a document is dereferenced unchecked.        *)
GetReadsWhole ==
  [][\A t \in Threads :
       Serving(t, "get") /\ req'[t] = NoReq /\ Found(req[t].item) =>
         \/ Whole(fs[cache[req[t].item]][req[t].item])
         \/ \E u \in Threads : pc[u] = "update" /\ name[u] = req[t].item]_cvars
=============================================================================
