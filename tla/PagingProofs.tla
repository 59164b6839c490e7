---------------------------- MODULE PagingProofs ----------------------------
(***************************************************************************)
(* Proofs about module Paging, for any keys, prefix, width of the          *)
(* integers, numbers in a request and changes by other clients.            *)
(***************************************************************************)
EXTENDS Paging, FiniteSetTheorems, TLAPS

(* The inductive invariant: the keys a client has got, and that are still  *)
(* there, lie before the page it reads next, as long as nobody puts a key  *)
(* before them.                                                            *)
SeenBefore ==
  ~put /\ ~Wrapped =>
    /\ twice = {}
    /\ \A k \in seen \intersect db : Rank(endpoint, k) < (page - 1) * records

PagingInv ==
  /\ PagingTypeOK
  /\ endpoint = "none" => seen = {} /\ twice = {} /\ ~open /\ page = 0
  /\ open => page < Half
  /\ SeenBefore

-----------------------------------------------------------------------------
(* Arithmetic of unsigned int *)

LEMMA WordType == Word \in Nat \ {0} /\ Half < Word
BY HalfAssumption DEF Word

(* What fits is left as it is. *)
LEMMA WrapFits == ASSUME NEW n \in Nat, n < Word PROVE Wrap(n) = n
BY WordType, HalfAssumption DEF Wrap

LEMMA WrapNegative == ASSUME NEW r \in Nat, r < Word, r # 0 PROVE Wrap(-r) = Word - r
<1>1. Word \in Int /\ Word > 0
  BY WordType
<1> QED
  BY <1>1 DEF Wrap

LEMMA WrapWord == Wrap(Word) = 0
<1>1. Word \in Int /\ Word > 0
  BY WordType
<1> QED
  BY <1>1 DEF Wrap

(* The page that ends within 32 bits begins where the one before it ends;  *)
(* page 0 ends where it begins.                                            *)
LEMMA PageBounds ==
  ASSUME NEW p \in Nat \ {0}, NEW r \in Nat, p * r < Word
  PROVE  From(p, r) = (p - 1) * r /\ To(p, r) = p * r /\ (p - 1) * r + r = p * r
<1> DEFINE before == (p - 1) * r
<1>1. before \in Nat /\ before + r = p * r /\ p * r \in Nat
  OBVIOUS
<1>2. before < Word
  BY <1>1, WordType
<1>3. From(p, r) = before
  BY <1>1, <1>2, WrapFits DEF From
<1>4. To(p, r) = p * r
  BY <1>1, <1>3, WrapFits DEF To
<1> QED
  BY <1>1, <1>3, <1>4

LEMMA PageZero == ASSUME NEW r \in Nat, r < Word PROVE To(0, r) = 0
<1>1. CASE r = 0
  BY <1>1, WordType, WrapFits DEF From, To
<1>2. CASE r # 0
  <2>1. From(0, r) = Word - r
    BY <1>2, WrapNegative DEF From
  <2>2. (Word - r) + r = Word
    BY WordType
  <2> QED
    BY <2>1, <2>2, WrapWord DEF To
<1> QED
  BY <1>1, <1>2

-----------------------------------------------------------------------------
(* Ranks *)

LEMMA RankType ==
  ASSUME PagingTypeOK, NEW k PROVE Rank(endpoint, k) \in Nat
<1>1. IsFiniteSet(db)
  BY KeysAssumption, FS_Subset DEF PagingTypeOK
<1>2. IsFiniteSet({j \in db \intersect Matching(endpoint) : j < k})
  BY <1>1, FS_Subset
<1> QED
  BY <1>2, FS_CardinalityType DEF Rank

(* Removing keys never moves another key to a later page. *)
LEMMA RankShrinks ==
  ASSUME PagingTypeOK, db' \subseteq db, endpoint' = endpoint, NEW k
  PROVE  Rank(endpoint, k)' <= Rank(endpoint, k) /\ Rank(endpoint, k)' \in Nat
<1> DEFINE old == {j \in db \intersect Matching(endpoint) : j < k}
           new == {j \in db' \intersect Matching(endpoint) : j < k}
<1>1. IsFiniteSet(old) /\ new \subseteq old
  <2>1. IsFiniteSet(db)
    BY KeysAssumption, FS_Subset DEF PagingTypeOK
  <2> QED
    BY <2>1, FS_Subset
<1>2. Cardinality(new) <= Cardinality(old) /\ Cardinality(new) \in Nat
  BY <1>1, FS_Subset, FS_CardinalityType
<1>3. Rank(endpoint, k) = Cardinality(old)
  BY DEF Rank
<1>4. Rank(endpoint, k)' = Cardinality(new)
  BY DEF Rank, Matching
<1> QED
  BY <1>2, <1>3, <1>4

-----------------------------------------------------------------------------
LEMMA InitInv == Init => PagingInv
<1> SUFFICES ASSUME Init PROVE PagingInv
  OBVIOUS
<1>1. /\ db \subseteq Keys /\ endpoint = "none" /\ records \in 0..(Half - 1)
      /\ first \in 0..(Half - 1) /\ page \in 0..Half /\ changes \in 0..MaxChanges
      /\ seen = {} /\ twice = {} /\ start = {} /\ page = 0
  BY HalfAssumption, ChangesAssumption DEF Init
<1>2. ~open /\ open \in BOOLEAN /\ put \in BOOLEAN /\ removed \in BOOLEAN
  BY DEF Init
<1>3. PagingTypeOK
  BY <1>1, <1>2 DEF PagingTypeOK
<1> QED
  BY <1>1, <1>2, <1>3 DEF PagingInv, SeenBefore

LEMMA BeginStep ==
  ASSUME PagingInv, NEW ep \in Endpoints, NEW p \in Numbers, NEW r \in Numbers, Begin(ep, p, r)
  PROVE  PagingInv'
<1>1. Passed(p) \in 0..(Half - 1) /\ Passed(r) \in 0..(Half - 1)
  BY NumbersAssumption, HalfAssumption DEF Passed
<1>2. seen = {} /\ twice = {}
  BY DEF Begin, PagingInv
<1>3. /\ endpoint' = ep /\ first' = Passed(p) /\ page' = Passed(p) /\ records' = Passed(r)
      /\ start' = db \intersect Matching(ep) /\ UNCHANGED <<db, seen, twice, changes>>
  BY DEF Begin
<1>4. open' \in BOOLEAN /\ put' \in BOOLEAN /\ removed' \in BOOLEAN
  BY DEF Begin
<1>5. page' \in 0..Half /\ page' < Half
  BY <1>1, <1>3, HalfAssumption
<1>6. PagingTypeOK'
  BY <1>1, <1>2, <1>3, <1>4, <1>5 DEF PagingInv, PagingTypeOK
<1>7. SeenBefore'
  BY <1>2, <1>3 DEF SeenBefore
<1>8. endpoint' # "none"
  BY <1>3 DEF Endpoints
<1> QED
  BY <1>5, <1>6, <1>7, <1>8 DEF PagingInv

LEMMA ReadPageStep == ASSUME PagingInv, ReadPage PROVE PagingInv'
<1> DEFINE got == PageContent(endpoint, page, records)
<1>1. /\ seen' = seen \union got /\ twice' = twice \union (seen \intersect got)
      /\ page' = page + 1 /\ (open' => page + 1 < Half) /\ open' \in BOOLEAN
      /\ UNCHANGED <<db, endpoint, records, first, start, changes, put, removed>>
  BY DEF ReadPage, noted
<1>2. got \subseteq db /\ got \subseteq Matching(endpoint)
  BY DEF PageContent
<1>3. /\ page \in Nat /\ page < Half /\ records \in Nat /\ records < Word
      /\ endpoint # "none" /\ Half \in Nat
  BY WordType, HalfAssumption DEF PagingInv, PagingTypeOK, ReadPage
<1>4. PagingTypeOK'
  BY <1>1, <1>2, <1>3 DEF PagingInv, PagingTypeOK, Matching
<1>5. SeenBefore'
  <2> SUFFICES ASSUME ~put, page * records < Word
      PROVE  twice' = {} /\ \A k \in seen' \intersect db : Rank(endpoint, k) < page * records
    <3>1. (page' - 1) * records' = page * records /\ page * records \in Nat
      BY <1>1, <1>3
    <3> QED
      BY <1>1, <3>1, WordType DEF SeenBefore, Wrapped, Rank, Matching
  <2>1. CASE page = 0
    <3>1. \A k : Rank(endpoint, k) \in Nat
      BY RankType DEF PagingInv
    <3>2. got = {}
      BY <1>3, <2>1, <3>1, PageZero DEF PageContent
    <3>3. ~Wrapped
      BY <1>3, <2>1, WordType DEF Wrapped
    <3>4. twice = {} /\ \A k \in seen \intersect db : Rank(endpoint, k) < (page - 1) * records
      BY <3>3 DEF PagingInv, SeenBefore
    <3>5. (page - 1) * records <= page * records
      BY <1>3, <2>1
    <3> QED
      BY <1>1, <1>3, <2>1, <3>1, <3>2, <3>4, <3>5
  <2>2. CASE page # 0
    <3>1. From(page, records) = (page - 1) * records /\ To(page, records) = page * records
          /\ (page - 1) * records + records = page * records
      BY <1>3, <2>2, PageBounds
    <3>2. (page - 1) * records \in Int /\ page * records \in Int
      BY <1>3
    <3>3. ~Wrapped
      BY <1>3, <3>1, <3>2, WordType DEF Wrapped
    <3>4. twice = {} /\ \A k \in seen \intersect db : Rank(endpoint, k) < (page - 1) * records
      BY <3>3 DEF PagingInv, SeenBefore
    <3>5. \A k \in got : (page - 1) * records <= Rank(endpoint, k) /\ Rank(endpoint, k) < page * records
      BY <3>1 DEF PageContent
    <3>6. \A k : Rank(endpoint, k) \in Nat
      BY RankType DEF PagingInv
    <3>7. seen \intersect got = {}
      BY <1>2, <3>2, <3>4, <3>5, <3>6
    <3> QED
      BY <1>1, <1>3, <3>1, <3>2, <3>4, <3>5, <3>6, <3>7
  <2> QED
    BY <2>1, <2>2
<1> QED
  BY <1>1, <1>3, <1>4, <1>5 DEF PagingInv

(* Other clients; only what they remove can disturb. *)
LEMMA ChangeStep ==
  ASSUME PagingInv, NEW k \in Keys, Put(k) \/ Remove(k) PROVE PagingInv'
<1>1. UNCHANGED walk /\ changes' \in 0..MaxChanges /\ db' \subseteq Keys
  BY ChangesAssumption DEF Put, Remove, PagingInv, PagingTypeOK
<1>0. put' \in BOOLEAN /\ removed' \in BOOLEAN
  BY DEF Put, Remove, PagingInv, PagingTypeOK
<1>2. PagingTypeOK'
  BY <1>0, <1>1 DEF PagingInv, PagingTypeOK, walk, Matching
<1>3. SeenBefore'
  <2> SUFFICES ASSUME ~put', ~Wrapped'
      PROVE  twice' = {} /\ \A j \in seen' \intersect db' : Rank(endpoint, j)' < (page' - 1) * records'
    BY DEF SeenBefore
  <2>1. db' \subseteq db /\ put' = put /\ ~Wrapped
    BY <1>1 DEF Put, Remove, walk, Wrapped
  <2>2. twice = {} /\ \A j \in seen \intersect db : Rank(endpoint, j) < (page - 1) * records
    BY <2>1 DEF PagingInv, SeenBefore
  <2>3. ASSUME NEW j \in seen' \intersect db' PROVE Rank(endpoint, j)' < (page' - 1) * records'
    <3>1. Rank(endpoint, j)' <= Rank(endpoint, j) /\ Rank(endpoint, j)' \in Nat
      BY <1>1, <2>1, RankShrinks DEF PagingInv, walk
    <3>2. Rank(endpoint, j) < (page - 1) * records
      BY <1>1, <2>1, <2>2 DEF walk
    <3>3. Rank(endpoint, j) \in Nat
      BY RankType DEF PagingInv
    <3>4. (page - 1) * records \in Int
      BY DEF PagingInv, PagingTypeOK
    <3> QED
      BY <1>1, <3>1, <3>2, <3>3, <3>4 DEF walk
  <2> QED
    BY <1>1, <2>2, <2>3 DEF walk
<1> QED
  BY <1>1, <1>2, <1>3 DEF PagingInv, walk

LEMMA NextInv == PagingInv /\ [Next]_vars => PagingInv'
<1> SUFFICES ASSUME PagingInv, [Next]_vars PROVE PagingInv'
  OBVIOUS
<1>1. CASE UNCHANGED vars
  BY <1>1 DEF vars, walk, noted, PagingInv, PagingTypeOK, SeenBefore, Wrapped, Rank, Matching
<1> QED
  BY <1>1, BeginStep, ReadPageStep, ChangeStep DEF Next

LEMMA PagingInvariant == Spec => []PagingInv
BY InitInv, NextInv, PTL DEF Spec

(* The types, for any requests and changes. *)
THEOREM PagingTypeCorrect == Spec => []PagingTypeOK
<1>1. PagingInv => PagingTypeOK
  BY DEF PagingInv
<1> QED
  BY <1>1, PagingInvariant, PTL

(* A client that reads page after page gets no key twice, however many     *)
(* keys others remove in between, as long as they put none and the page    *)
(* ends within 32 bits.                                                    *)
THEOREM NoKeyTwice == Spec => []NoneTwice
<1>1. PagingInv => NoneTwice
  BY DEF PagingInv, SeenBefore, NoneTwice
<1> QED
  BY <1>1, PagingInvariant, PTL

(* The loop of pageContent returns the slice that was asked for, on every  *)
(* page that ends within 32 bits, page 0 included.                         *)
THEOREM EveryPageIsASlice == Spec => PagesAreSlices
<1> DEFINE A == page' = page + 1 /\ page * records < Word =>
                  seen' = seen \union (IF page = 0 THEN {} ELSE Slice(page, records))
<1>1. ASSUME PagingInv, [Next]_vars PROVE [A]_<<page, seen>>
  <2> SUFFICES ASSUME page' = page + 1, page * records < Word, ~UNCHANGED <<page, seen>>
      PROVE  seen' = seen \union (IF page = 0 THEN {} ELSE Slice(page, records))
    OBVIOUS
  <2>0. page \in Nat /\ records \in Nat /\ records < Word
    BY <1>1, WordType, HalfAssumption DEF PagingInv, PagingTypeOK
  <2>1. CASE ReadPage
    <3>1. seen' = seen \union PageContent(endpoint, page, records)
      BY <2>1 DEF ReadPage
    <3>2. CASE page = 0
      <4>1. \A k : Rank(endpoint, k) \in Nat
        BY <1>1, RankType DEF PagingInv
      <4>2. PageContent(endpoint, page, records) = {}
        BY <2>0, <3>2, <4>1, PageZero DEF PageContent
      <4> QED
        BY <3>1, <3>2, <4>2
    <3>3. CASE page # 0
      <4>1. From(page, records) = (page - 1) * records /\ To(page, records) = page * records
        BY <2>0, <3>3, PageBounds
      <4>2. PageContent(endpoint, page, records) = Slice(page, records)
        BY <4>1 DEF PageContent, Slice, Rank
      <4> QED
        BY <3>1, <3>3, <4>2
    <3> QED
      BY <3>2, <3>3
  <2>2. ASSUME NEW ep \in Endpoints, NEW p \in Numbers, NEW r \in Numbers, Begin(ep, p, r)
        PROVE  seen' = seen \union (IF page = 0 THEN {} ELSE Slice(page, records))
    BY <1>1, <2>2 DEF Begin, PagingInv
  <2>3. ASSUME NEW k \in Keys, Put(k) \/ Remove(k) PROVE FALSE
    BY <2>0, <2>3 DEF Put, Remove, walk
  <2>4. ~UNCHANGED vars
    BY DEF vars, walk
  <2> QED
    BY <1>1, <2>1, <2>2, <2>3, <2>4 DEF Next
<1> QED
  BY <1>1, PagingInvariant, PTL DEF Spec, PagesAreSlices

-----------------------------------------------------------------------------
(* Sets of natural numbers and the ranks of their elements. *)

(* Every set of natural numbers has a least element. *)
LEMMA LeastNat ==
  ASSUME NEW T \in SUBSET Nat, T # {}
  PROVE  \E x \in T : \A y \in T : x <= y
<1>1. \E x \in T : \A y \in T : ~(<<y, x>> \in OpToRel(<, Nat))
  BY NatLessThanWellFounded, WFMin
<1>2. PICK x \in T : \A y \in T : ~(<<y, x>> \in OpToRel(<, Nat))
  BY <1>1
<1>3. \A y \in T : ~(y < x)
  BY <1>2 DEF OpToRel
<1> QED
  BY <1>3

Below(S, k) == {j \in S : j < k}
RankIn(S, k) == Cardinality(Below(S, k))

LEMMA BelowFacts ==
  ASSUME NEW S \in SUBSET Nat, IsFiniteSet(S), NEW k
  PROVE  RankIn(S, k) \in Nat /\ IsFiniteSet(Below(S, k)) /\ k \notin Below(S, k)
<1>1. IsFiniteSet(Below(S, k))
  BY FS_Subset DEF Below
<1>2. k \notin Below(S, k)
  <2>1. k \in Nat => ~(k < k)
    OBVIOUS
  <2> QED
    BY <2>1 DEF Below
<1> QED
  BY <1>1, <1>2, FS_CardinalityType DEF RankIn

(* A key has a larger rank than a smaller key. *)
LEMMA RankGrows ==
  ASSUME NEW S \in SUBSET Nat, IsFiniteSet(S), NEW j \in S, NEW k \in Nat, j < k
  PROVE  RankIn(S, j) + 1 <= RankIn(S, k)
<1>1. Below(S, j) \union {j} \subseteq Below(S, k)
  <2>1. \A i \in S : i < j => i < k
    <3>1. \A i \in S : i \in Nat
      OBVIOUS
    <3> QED
      BY <3>1
  <2> QED
    BY <2>1 DEF Below
<1>2. /\ IsFiniteSet(Below(S, j)) /\ IsFiniteSet(Below(S, k)) /\ j \notin Below(S, j)
      /\ RankIn(S, j) \in Nat /\ RankIn(S, k) \in Nat
  BY BelowFacts
<1>3. Cardinality(Below(S, j) \union {j}) = RankIn(S, j) + 1
  BY <1>2, FS_AddElement DEF RankIn
<1>4. Cardinality(Below(S, j) \union {j}) <= RankIn(S, k)
  BY <1>1, <1>2, FS_Subset DEF RankIn
<1> QED
  BY <1>3, <1>4

(* At most m keys have a rank below m, ... *)
LEMMA FewBelow ==
  ASSUME NEW S \in SUBSET Nat, IsFiniteSet(S), NEW m \in Nat
  PROVE  Cardinality({i \in S : RankIn(S, i) < m}) <= m
<1> DEFINE A == {i \in S : RankIn(S, i) < m}
           Left(i) == m - 1 - RankIn(S, i)
           T == {Left(i) : i \in A}
<1>0. \A i \in S : RankIn(S, i) \in Nat
  BY BelowFacts
<1>1. CASE A = {}
  BY <1>1, FS_EmptySet
<1>2. CASE A # {}
  <2>1. T \in SUBSET Nat /\ T # {}
    <3>1. \A i \in A : Left(i) \in Nat
      BY <1>0
    <3> QED
      BY <1>2, <3>1
  <2>2. PICK x \in T : \A y \in T : x <= y
    <3> HIDE DEF T
    <3> QED
      BY <2>1, LeastNat
  <2>3. PICK i \in A : x = Left(i)
    BY <2>2
  <2>4. \A j \in A : RankIn(S, j) <= RankIn(S, i)
    <3>1. \A j \in A : Left(i) <= Left(j)
      BY <2>2, <2>3
    <3> QED
      BY <1>0, <3>1
  <2>5. A \subseteq Below(S, i) \union {i}
    <3>1. ASSUME NEW j \in A, i < j PROVE FALSE
      <4>1. RankIn(S, i) + 1 <= RankIn(S, j)
        BY <3>1, RankGrows
      <4> QED
        BY <1>0, <2>4, <3>1, <4>1
    <3>2. \A j \in A : j = i \/ j < i
      <4>1. \A j \in A : j \in Nat
        OBVIOUS
      <4> QED
        BY <3>1, <4>1
    <3> QED
      BY <3>2 DEF Below
  <2>6. IsFiniteSet(Below(S, i)) /\ i \notin Below(S, i)
    BY BelowFacts
  <2>7. /\ IsFiniteSet(Below(S, i) \union {i})
        /\ Cardinality(Below(S, i) \union {i}) = RankIn(S, i) + 1
    BY <2>6, FS_AddElement DEF RankIn
  <2>8. Cardinality(A) <= RankIn(S, i) + 1 /\ Cardinality(A) \in Nat
    <3>1. IsFiniteSet(A)
      BY <2>5, <2>7, FS_Subset
    <3> QED
      BY <2>5, <2>7, <3>1, FS_Subset, FS_CardinalityType
  <2> QED
    BY <1>0, <2>3, <2>8
<1> QED
  BY <1>1, <1>2

(* ... and exactly m, if any key has a rank of m or more. *)
LEMMA AllBelow ==
  ASSUME NEW S \in SUBSET Nat, IsFiniteSet(S), NEW m \in Nat,
         NEW k \in S, m <= RankIn(S, k)
  PROVE  m <= Cardinality({i \in S : RankIn(S, i) < m})
<1> DEFINE A == {i \in S : RankIn(S, i) < m}
           T == {i \in S : m <= RankIn(S, i)}
<1>0. \A i \in S : RankIn(S, i) \in Nat
  BY BelowFacts
<1>1. T \in SUBSET Nat /\ T # {}
  OBVIOUS
<1>2. PICK least \in T : \A y \in T : least <= y
  <2> HIDE DEF T
  <2> QED
    BY <1>1, LeastNat
<1>3. Below(S, least) \subseteq A
  <2> SUFFICES ASSUME NEW j \in S, j < least PROVE RankIn(S, j) < m
    BY DEF Below
  <2>1. j \notin T
    BY <1>2
  <2> QED
    BY <1>0, <2>1
<1>4. IsFiniteSet(A) /\ Cardinality(A) \in Nat
  BY FS_Subset, FS_CardinalityType
<1>5. RankIn(S, least) <= Cardinality(A)
  BY <1>3, <1>4, FS_Subset DEF RankIn
<1> QED
  BY <1>0, <1>2, <1>4, <1>5

(* A page before a key that is not on it is full. *)
LEMMA FullPage ==
  ASSUME NEW S \in SUBSET Nat, IsFiniteSet(S), NEW m \in Nat, NEW r \in Nat,
         NEW k \in S, m + r <= RankIn(S, k)
  PROVE  r <= Cardinality({i \in S : m <= RankIn(S, i) /\ RankIn(S, i) < m + r})
<1> DEFINE low == {i \in S : RankIn(S, i) < m}
           mid == {i \in S : m <= RankIn(S, i) /\ RankIn(S, i) < m + r}
           both == {i \in S : RankIn(S, i) < m + r}
<1>0. \A i \in S : RankIn(S, i) \in Nat
  BY BelowFacts
<1>1. both = low \union mid /\ low \intersect mid = {}
  <2>1. \A i \in S : RankIn(S, i) < m => RankIn(S, i) < m + r
    BY <1>0
  <2>2. \A i \in S : RankIn(S, i) < m \/ m <= RankIn(S, i)
    BY <1>0
  <2>3. \A i \in S : ~(RankIn(S, i) < m /\ m <= RankIn(S, i))
    BY <1>0
  <2> QED
    BY <2>1, <2>2, <2>3, Zenon
<1>2. IsFiniteSet(low) /\ IsFiniteSet(mid)
  BY FS_Subset
<1>3. Cardinality(low) \in Nat /\ Cardinality(mid) \in Nat
  BY <1>2, FS_CardinalityType
<1>4. Cardinality(both) = Cardinality(low) + Cardinality(mid)
  <2> HIDE DEF low, mid, both
  <2>1. Cardinality(low \union mid) =
          Cardinality(low) + Cardinality(mid) - Cardinality(low \intersect mid)
    BY <1>2, FS_Union
  <2>2. Cardinality(low \intersect mid) = 0
    BY <1>1, FS_EmptySet
  <2>3. Cardinality(low \union mid) = Cardinality(both)
    BY <1>1
  <2> QED
    BY <1>3, <2>1, <2>2, <2>3
<1>5. Cardinality(low) <= m
  BY FewBelow
<1>6. m + r <= Cardinality(both)
  BY AllBelow
<1> QED
  BY <1>3, <1>4, <1>5, <1>6

-----------------------------------------------------------------------------
(* Nothing is lost. *)

(* What a page number can count: fewer keys than a client has page numbers *)
(* for, if it asks for one record at a time.                               *)
FewKeys == Cardinality(Keys) < Half

(* The keys a client has not got yet lie on the page it reads next or      *)
(* after it, as long as nobody removes one before them; and none is left   *)
(* when it stops.                                                          *)
UnseenAfter ==
  endpoint # "none" /\ first = 1 /\ records > 0 /\ ~removed /\ ~Wrapped =>
    /\ page > 0
    /\ start \subseteq db \intersect Matching(endpoint)
    /\ \A k \in start \ seen : (page - 1) * records <= Rank(endpoint, k)
    /\ ~open => start \subseteq seen

LEMMA Matched ==
  ASSUME PagingTypeOK
  PROVE  /\ db \intersect Matching(endpoint) \in SUBSET Nat
         /\ IsFiniteSet(db \intersect Matching(endpoint))
         /\ \A k : Rank(endpoint, k) = RankIn(db \intersect Matching(endpoint), k)
<1>1. db \in SUBSET Keys /\ Keys \subseteq Nat /\ IsFiniteSet(Keys)
  BY KeysAssumption DEF PagingTypeOK
<1>2. IsFiniteSet(db \intersect Matching(endpoint))
  BY <1>1, FS_Subset
<1>3. \A k : Rank(endpoint, k) = RankIn(db \intersect Matching(endpoint), k)
  BY DEF Rank, RankIn, Below
<1> QED
  BY <1>1, <1>2, <1>3

(* No key is so far behind that no page number reaches it. *)
LEMMA RankIsSmall ==
  ASSUME FewKeys, PagingTypeOK, NEW k \in db \intersect Matching(endpoint)
  PROVE  Rank(endpoint, k) < Half - 1
<1> DEFINE S == db \intersect Matching(endpoint)
<1>1. S \in SUBSET Nat /\ IsFiniteSet(S) /\ Rank(endpoint, k) = RankIn(S, k)
  BY Matched
<1>2. S \in SUBSET Keys /\ IsFiniteSet(Keys)
  BY KeysAssumption DEF PagingTypeOK
<1> HIDE DEF S
<1>3. /\ RankIn(S, k) \in Nat /\ IsFiniteSet(Below(S, k)) /\ k \notin Below(S, k)
  BY <1>1, BelowFacts
<1>4. Cardinality(Below(S, k) \union {k}) = RankIn(S, k) + 1
  BY <1>3, FS_AddElement DEF RankIn
<1>5. Below(S, k) \union {k} \in SUBSET Keys
  BY <1>2 DEF Below, S
<1>6. Cardinality(Below(S, k) \union {k}) <= Cardinality(Keys) /\ Cardinality(Keys) \in Nat
  BY <1>2, <1>5, FS_Subset, FS_CardinalityType
<1> QED
  BY <1>1, <1>3, <1>4, <1>6, HalfAssumption DEF FewKeys

(* Putting a key never moves another to an earlier page. *)
LEMMA RankKept ==
  ASSUME PagingTypeOK, PagingTypeOK', db \subseteq db', endpoint' = endpoint, NEW k
  PROVE  Rank(endpoint, k) <= Rank(endpoint, k)' /\ Rank(endpoint, k)' \in Nat
<1> DEFINE old == {j \in db \intersect Matching(endpoint) : j < k}
           new == {j \in db' \intersect Matching(endpoint) : j < k}
<1>1. IsFiniteSet(new) /\ old \subseteq new
  <2>1. IsFiniteSet(db')
    BY KeysAssumption, FS_Subset DEF PagingTypeOK
  <2> QED
    BY <2>1, FS_Subset
<1>2. Cardinality(old) <= Cardinality(new) /\ Cardinality(new) \in Nat
  BY <1>1, FS_Subset, FS_CardinalityType
<1>3. Rank(endpoint, k) = Cardinality(old)
  BY DEF Rank
<1>4. Rank(endpoint, k)' = Cardinality(new)
  BY DEF Rank, Matching
<1> QED
  BY <1>2, <1>3, <1>4

LEMMA UnseenBegin ==
  ASSUME PagingInv, NEW ep \in Endpoints, NEW p \in Numbers, NEW r \in Numbers, Begin(ep, p, r)
  PROVE  UnseenAfter'
<1>1. /\ endpoint' = ep /\ first' = Passed(p) /\ page' = first' /\ open'
      /\ start' = db \intersect Matching(ep) /\ db' = db /\ records' = Passed(r)
  BY DEF Begin
<1>2. Passed(r) \in Nat
  BY NumbersAssumption, HalfAssumption DEF Passed
<1>3. PagingTypeOK'
  BY BeginStep DEF PagingInv
<1>4. \A k : Rank(endpoint, k)' \in Nat
  <2>1. IsFiniteSet(db')
    BY <1>3, KeysAssumption, FS_Subset DEF PagingTypeOK
  <2> TAKE k
  <2>2. IsFiniteSet({j \in db' \intersect Matching(endpoint') : j < k})
    BY <2>1, FS_Subset
  <2> QED
    BY <2>2, FS_CardinalityType DEF Rank, Matching
<1>5. first' = 1 => (page' - 1) * records' = 0
  BY <1>1, <1>2
<1> QED
  BY <1>1, <1>4, <1>5 DEF UnseenAfter, Matching

(* The page read takes the keys that have come to it; if one is left, it   *)
(* was full, and there is a page number for the next.                      *)
LEMMA UnseenRead ==
  ASSUME FewKeys, PagingInv, UnseenAfter, ReadPage PROVE UnseenAfter'
<1> DEFINE got == PageContent(endpoint, page, records)
           S == db \intersect Matching(endpoint)
<1>1. /\ seen' = seen \union got
      /\ open' = (got # {} /\ Cardinality(got) >= records /\ page + 1 < Half)
      /\ page' = page + 1
      /\ UNCHANGED <<db, endpoint, records, first, start, changes, put, removed>>
  BY DEF ReadPage, noted
<1>2. page \in Nat /\ records \in Nat /\ page < Half /\ Half \in Nat \ {0} /\ Word \in Nat
  BY WordType, HalfAssumption DEF PagingInv, PagingTypeOK, ReadPage
<1>3. SUFFICES ASSUME first = 1, records > 0, ~removed, page * records < Word
               PROVE  /\ page + 1 > 0
                      /\ start \subseteq S
                      /\ \A k \in start \ seen' : page * records <= Rank(endpoint, k)
                      /\ ~open' => start \subseteq seen'
  <2>1. (page' - 1) * records' = page * records /\ page * records \in Nat
    BY <1>1, <1>2
  <2>2. \A k : Rank(endpoint, k)' = Rank(endpoint, k)
    BY <1>1 DEF Rank, Matching
  <2> QED
    BY <1>1, <1>2, <2>1, <2>2 DEF UnseenAfter, Wrapped, Matching
<1>4. page * records \in Nat /\ (page - 1) * records \in Int
      /\ (page - 1) * records + records = page * records
  BY <1>2
<1>5. /\ page > 0 /\ start \subseteq S
      /\ \A k \in start \ seen : (page - 1) * records <= Rank(endpoint, k)
  <2>1. ~Wrapped /\ endpoint # "none"
    BY <1>2, <1>3, <1>4 DEF Wrapped, PagingInv, ReadPage
  <2> QED
    BY <1>3, <2>1 DEF UnseenAfter
<1>6. got = {k \in S : (page - 1) * records <= Rank(endpoint, k) /\ Rank(endpoint, k) < page * records}
  <2>1. From(page, records) = (page - 1) * records /\ To(page, records) = page * records
    BY <1>2, <1>3, <1>5, PageBounds
  <2> QED
    BY <2>1 DEF PageContent
<1>7. \A k : Rank(endpoint, k) \in Nat
  BY RankType DEF PagingInv
<1>8. \A k \in start \ seen' : page * records <= Rank(endpoint, k)
  <2> SUFFICES ASSUME NEW k \in start, k \notin seen, k \notin got
               PROVE  page * records <= Rank(endpoint, k)
    BY <1>1
  <2>1. (page - 1) * records <= Rank(endpoint, k) /\ k \in S
    BY <1>5
  <2>2. ~(Rank(endpoint, k) < page * records)
    BY <1>6, <2>1
  <2> QED
    BY <1>4, <1>7, <2>2
<1>9. ASSUME NEW k \in start, k \notin seen' PROVE open'
  <2> DEFINE m == (page - 1) * records
  <2>1. page * records <= Rank(endpoint, k) /\ k \in S
    BY <1>5, <1>8, <1>9
  <2>2. /\ S \in SUBSET Nat /\ IsFiniteSet(S)
        /\ \A i : Rank(endpoint, i) = RankIn(S, i)
    BY Matched DEF PagingInv
  <2>3. m \in Nat /\ m + records = page * records
    BY <1>2, <1>4, <1>5
  <2>4. got = {i \in S : m <= RankIn(S, i) /\ RankIn(S, i) < m + records}
    <3>1. got = {i \in S : m <= Rank(endpoint, i) /\ Rank(endpoint, i) < page * records}
      BY <1>6
    <3> DEFINE Here(i) == m <= Rank(endpoint, i) /\ Rank(endpoint, i) < page * records
               There(i) == m <= RankIn(S, i) /\ RankIn(S, i) < m + records
    <3>2. \A i : Here(i) <=> There(i)
      <4> HIDE DEF S, m
      <4> QED
        BY <2>2, <2>3
    <3>3. got = {i \in S : Here(i)}
      BY <3>1
    <3> HIDE DEF Here, There, S, got
    <3>4. got = {i \in S : There(i)}
      BY <3>2, <3>3
    <3> QED
      BY <3>4 DEF There
  <2>5. records <= Cardinality({i \in S : m <= RankIn(S, i) /\ RankIn(S, i) < m + records})
    <3> HIDE DEF S, m
    <3>1. m + records <= RankIn(S, k)
      BY <2>1, <2>2, <2>3
    <3> QED
      BY <1>2, <2>1, <2>2, <2>3, <3>1, FullPage
  <2>6. records <= Cardinality(got)
    BY <2>4, <2>5
  <2>7. got # {}
    <3>1. Cardinality({}) = 0
      BY FS_EmptySet
    <3> QED
      BY <1>2, <1>3, <2>6, <3>1
  <2>8. page + 1 < Half
    <3>1. Rank(endpoint, k) < Half - 1
      BY <2>1, RankIsSmall DEF PagingInv
    <3>2. page <= page * records
      BY <1>2, <1>3
    <3> QED
      BY <1>2, <1>4, <1>7, <2>1, <3>1, <3>2
  <2>9. Cardinality(got) >= records
    <3>1. IsFiniteSet(got)
      BY <2>2, <2>4, FS_Subset
    <3>2. Cardinality(got) \in Nat
      BY <3>1, FS_CardinalityType
    <3> QED
      BY <1>2, <2>6, <3>2
  <2> QED
    BY <1>1, <2>7, <2>8, <2>9
<1> QED
  BY <1>2, <1>5, <1>8, <1>9

LEMMA UnseenChange ==
  ASSUME PagingInv, UnseenAfter, NEW k \in Keys, Put(k) \/ Remove(k) PROVE UnseenAfter'
<1>1. UNCHANGED walk
  BY DEF Put, Remove
<1>2. CASE Remove(k)
  BY <1>2 DEF Remove, UnseenAfter
<1>3. CASE Put(k)
  <2>1. db \subseteq db' /\ removed' = removed
    BY <1>3 DEF Put
  <2>2. PagingTypeOK /\ PagingTypeOK'
    BY <1>3, ChangeStep DEF PagingInv
  <2>3. \A j : Rank(endpoint, j) <= Rank(endpoint, j)' /\ Rank(endpoint, j)' \in Nat
    BY <1>1, <2>1, <2>2, RankKept DEF walk
  <2>4. \A j : Rank(endpoint, j) \in Nat
    BY <2>2, RankType
  <2>5. (page - 1) * records \in Int
    BY <2>2 DEF PagingTypeOK
  <2>6. \A j : (page - 1) * records <= Rank(endpoint, j) => (page - 1) * records <= Rank(endpoint, j)'
    BY <2>3, <2>4, <2>5
  <2> SUFFICES ASSUME endpoint # "none", first = 1, records > 0, ~removed, ~Wrapped
               PROVE  /\ page > 0
                      /\ start \subseteq db' \intersect Matching(endpoint)
                      /\ \A j \in start \ seen : (page - 1) * records <= Rank(endpoint, j)'
                      /\ ~open => start \subseteq seen
    <3>1. UNCHANGED <<endpoint, records, first, page, open, seen, start, removed>>
      BY <1>1, <2>1 DEF walk
    <3>2. Wrapped' = Wrapped
      BY <3>1 DEF Wrapped
    <3> QED
      BY <3>1, <3>2 DEF UnseenAfter, Matching
  <2>7. /\ page > 0 /\ start \subseteq db \intersect Matching(endpoint)
        /\ \A j \in start \ seen : (page - 1) * records <= Rank(endpoint, j)
        /\ ~open => start \subseteq seen
    BY DEF UnseenAfter
  <2> QED
    BY <2>1, <2>6, <2>7
<1> QED
  BY <1>2, <1>3

LEMMA UnseenInvariant ==
  ASSUME FewKeys
  PROVE  Spec => []UnseenAfter
<1>1. Init => UnseenAfter
  BY DEF Init, UnseenAfter
<1>2. PagingInv /\ UnseenAfter /\ [Next]_vars => UnseenAfter'
  <2> SUFFICES ASSUME PagingInv, UnseenAfter, [Next]_vars PROVE UnseenAfter'
    OBVIOUS
  <2>1. CASE UNCHANGED vars
    BY <2>1 DEF vars, walk, noted, UnseenAfter, Wrapped, Rank, Matching
  <2> QED
    BY <2>1, UnseenBegin, UnseenRead, UnseenChange DEF Next
<1> QED
  BY <1>1, <1>2, PagingInvariant, PTL DEF Spec

(* A client that reads from the first page until one is not full has got   *)
(* every key that was there when it began, whatever keys others put in     *)
(* between, as long as nobody removes one and the pages end within 32      *)
(* bits: there are fewer keys than page numbers.                           *)
THEOREM NoKeyLost ==
  ASSUME FewKeys
  PROVE  Spec => []NothingLost
<1>1. Spec => []UnseenAfter
  BY UnseenInvariant
<1>2. UnseenAfter => NothingLost
  BY DEF UnseenAfter, NothingLost
<1> QED
  BY <1>1, <1>2, PTL
=============================================================================
