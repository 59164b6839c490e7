------------------------------- MODULE Paging -------------------------------
(***************************************************************************)
(* Reading a database page by page: the requests manager/dump and          *)
(* db/search, and KVDBHandler::pageContent behind them.                    *)
(*                                                                         *)
(* Every page is cut out of a snapshot of the database (a RocksDB          *)
(* iterator), so it is one step; but other clients put and remove keys     *)
(* between two pages.  The client reads on from any page until it gets one *)
(* that is not full, as nothing in the API says how many there are.        *)
(*                                                                         *)
(* Keys are natural numbers, in the order of the iterator.  Fields of a    *)
(* request are int32_t, the loop counts in unsigned int.                   *)
(***************************************************************************)
EXTENDS Integers, FiniteSets

CONSTANTS
  Keys,        (* the keys a database may have                             *)
  Prefixed,    (* those that start with the prefix searched for            *)
  Half,        (* 2^31                                                     *)
  Numbers,     (* the numbers a request may give                           *)
  MaxChanges   (* how often other clients change the database              *)

ASSUME KeysAssumption == Keys \subseteq Nat /\ Prefixed \subseteq Keys /\ IsFiniteSet(Keys)
ASSUME HalfAssumption == Half \in Nat \ {0}
ASSUME NumbersAssumption == Numbers \subseteq Int /\ \A n \in Numbers : -Half <= n /\ n < Half
ASSUME ChangesAssumption == MaxChanges \in Nat

Word      == 2 * Half
Wrap(n)   == n % Word
Endpoints == {"dump", "search"}

VARIABLES
  db,          (* the keys of the database                                 *)
  endpoint,    (* what the client reads the pages with                     *)
  records,     (* the records to a page, as the handler passes them on     *)
  first, page, (* the page it began with, and the next one, passed on      *)
  open,        (* whether the client goes on                               *)
  seen,        (* the keys it has got                                      *)
  twice,       (* those that it got more than once                         *)
  start,       (* history: the keys there were at the beginning            *)
  changes,     (* how often the database was changed                       *)
  put, removed (* history: whether a key was put, or removed, since        *)

walk  == <<endpoint, records, first, page, open, seen, twice, start>>
noted == <<changes, put, removed>>
vars  == <<db, walk, noted>>

-----------------------------------------------------------------------------
(* KVDBHandler *)

Matching(ep) == IF ep = "search" THEN Prefixed ELSE Keys

(* How far i has come when the iterator is at k: only matches count. *)
Rank_All(ep, k) == Cardinality({j \in db : j < k})   \* mutant: ++i out of the if
Rank(ep, k) == Cardinality({j \in db \intersect Matching(ep) : j < k})

From_FromZero(p, r) == Wrap(p * r)          \* mutant: page * records
From(p, r) == Wrap((p - 1) * r)

To_OneMore(p, r) == Wrap(From(p, r) + r + 1) \* mutant: i <= toRecords
To(p, r) == Wrap(From(p, r) + r)

PageContent(ep, p, r) ==
  {k \in db \intersect Matching(ep) : From(p, r) <= Rank(ep, k) /\ Rank(ep, k) < To(p, r)}

-----------------------------------------------------------------------------
(* The requests *)

(* managerDump refuses what is not positive, dbSearch makes it zero. *)
Refused(ep, n) == ep = "dump" /\ n <= 0

Passed_AsIs(n) == Wrap(n)                   \* mutant: uint32_t page = page_t
Passed(n) == IF n < 0 THEN 0 ELSE n

Init ==
  /\ db \in SUBSET Keys
  /\ endpoint = "none" /\ records = 0 /\ first = 0 /\ page = 0
  /\ open = FALSE /\ seen = {} /\ twice = {} /\ start = {}
  /\ changes = 0 /\ put = FALSE /\ removed = FALSE

(* The client's first request; a refused one is answered with an error. *)
Begin(ep, p, r) ==
  /\ endpoint = "none"
  /\ ~Refused(ep, p) /\ ~Refused(ep, r)
  /\ endpoint' = ep
  /\ first' = Passed(p) /\ page' = Passed(p)
  /\ records' = Passed(r)
  /\ open' = TRUE
  /\ start' = db \intersect Matching(ep)
  /\ put' = FALSE /\ removed' = FALSE
  /\ UNCHANGED <<db, seen, twice, changes>>

(* The answer to this request or the next; no page has a number that is    *)
(* larger than an int32_t.                                                 *)
ReadPage ==
  /\ open
  /\ LET got == PageContent(endpoint, page, records) IN
     /\ seen' = seen \union got
     /\ twice' = twice \union (seen \intersect got)
     /\ open' = (got # {} /\ Cardinality(got) >= records /\ page + 1 < Half)
  /\ page' = page + 1
  /\ UNCHANGED <<db, endpoint, records, first, start, noted>>

(* KVDBHandler::set and remove, of other requests *)
Put(k) ==
  /\ changes < MaxChanges /\ k \notin db
  /\ db' = db \union {k}
  /\ changes' = changes + 1
  /\ put' = TRUE
  /\ UNCHANGED <<walk, removed>>

Remove(k) ==
  /\ changes < MaxChanges /\ k \in db
  /\ db' = db \ {k}
  /\ changes' = changes + 1
  /\ removed' = TRUE
  /\ UNCHANGED <<walk, put>>

Next ==
  \/ \E ep \in Endpoints, p, r \in Numbers : Begin(ep, p, r)
  \/ ReadPage
  \/ \E k \in Keys : Put(k) \/ Remove(k)

Spec == Init /\ [][Next]_vars

-----------------------------------------------------------------------------
(* Properties *)

(* The types; numbers that are passed on are not negative, and a client    *)
(* has got only keys that it asked for.                                    *)
PagingTypeOK ==
  /\ db \subseteq Keys
  /\ endpoint \in Endpoints \union {"none"}
  /\ records \in 0..(Half - 1)
  /\ first \in 0..(Half - 1) /\ page \in 0..Half
  /\ open \in BOOLEAN /\ put \in BOOLEAN /\ removed \in BOOLEAN
  /\ seen \subseteq Matching(endpoint) /\ twice \subseteq seen /\ start \subseteq Keys
  /\ changes \in 0..MaxChanges

(* Whether the end of the last page read exceeds 32 bits. *)
Wrapped == (page - 1) * records >= Word

(* A key that was there when the client began with the first page is in    *)
(* one of its pages, also when others put keys in between, which moves it  *)
(* to a later page.  (Removing a key before it moves it to a page that the *)
(* client may have read already.)                                          *)
NothingLost ==
  endpoint # "none" /\ ~open /\ first = 1 /\ records > 0 /\ ~removed /\ ~Wrapped
    => start \subseteq seen

(* No key is in two of the client's pages, also when others remove keys in *)
(* between.                                                                *)
NoneTwice == ~put /\ ~Wrapped => twice = {}

(* Whatever page is asked for, the answer is what lies between the full    *)
(* pages before it and those after it, and nothing when the page or the    *)
(* size is 0.  Beyond 32 bits it is not so: a page past the end may be     *)
(* answered with the first.                                                *)
Slice(p, r) ==
  LET matching == db \intersect Matching(endpoint)
      Before(k) == Cardinality({j \in matching : j < k})
  IN  {k \in matching : (p - 1) * r <= Before(k) /\ Before(k) < p * r}
PagesAreSlices ==
  [][page' = page + 1 /\ page * records < Word =>
       seen' = seen \union (IF page = 0 THEN {} ELSE Slice(page, records))]_<<page, seen>>
=============================================================================
