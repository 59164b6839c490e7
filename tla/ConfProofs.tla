----------------------------- MODULE ConfProofs -----------------------------
(***************************************************************************)
(* Proofs about the configuration, for any keys, variables, environments   *)
(* and files, and any width of an int.                                     *)
(***************************************************************************)
EXTENDS Conf, SequenceTheorems, WellFoundedInduction, TLAPS

(* What is kept of the units: a unit has a type and a variable. *)
UnitsOK == units \in [Keys -> {NoUnit} \union [type : Types, env : EnvNames]]

(* What a call gave: a value of a unit, from the variable if it is set. *)
GivenOK ==
  answer.outcome = "value" =>
    /\ answer.key \in Keys
    /\ units[answer.key] # NoUnit
    /\ answer.origin \in {"env", "file", "default"}

ConfInv == UnitsOK /\ GivenOK /\ ConfTypeOK /\ LoadedIsTyped /\ MostSpecificFirst

-----------------------------------------------------------------------------
(* The operators *)

(* The cast to int gives an int, and leaves an int as it is. *)
LEMMA NarrowFits ==
  ASSUME NEW n \in Int, NEW t
  PROVE  /\ Narrow(t, n) \in Int
         /\ t = "int" => -Half <= Narrow(t, n) /\ Narrow(t, n) < Half
         /\ InRange(t, n) => Narrow(t, n) = n
<1> DEFINE m == (n + Half) % (2 * Half)
<1>0. Half \in Int /\ Half > 0 /\ 2 * Half \in Int /\ 2 * Half > 0
  BY HalfAssumption
<1>1. m \in Int /\ 0 <= m /\ m < 2 * Half
  BY <1>0
<1>2. ASSUME 0 <= n + Half, n + Half < 2 * Half PROVE m = n + Half
  BY <1>0, <1>2
<1>3. CASE t = "int"
  <2>1. Narrow(t, n) = m - Half
    BY <1>3 DEF Narrow
  <2>2. InRange(t, n) => 0 <= n + Half /\ n + Half < 2 * Half
    BY <1>0, <1>3 DEF InRange
  <2> HIDE DEF m
  <2> QED BY <1>0, <1>1, <1>2, <1>3, <2>1, <2>2
<1>4. CASE t # "int"
  BY <1>4 DEF Narrow
<1> QED BY <1>3, <1>4

(* A value that is a number is nothing else, and the other way round. *)
LEMMA OneKind ==
  ASSUME NEW v, IsValue(v)
  PROVE  /\ Is(v, "number") => v.number \in Int /\ v = Number(v.number)
         /\ Is(v, "number") => ~Is(v, "text") /\ ~Is(v, "list") /\ ~Is(v, "boolean")
<1>1. CASE v \in [number : Int]
  BY <1>1 DEF Is, Number
<1>2. CASE DOMAIN v \in {{"text"}, {"list"}, {"boolean"}}
  BY <1>2 DEF Is
<1> QED BY <1>1, <1>2 DEF IsValue
(* Of the types that take a number, and of those that do not. *)
LEMMA AcceptsNumber ==
  ASSUME NEW t \in Types, NEW v, IsValue(v), Accepts(t, v)
  PROVE  Is(v, "number") <=> t \in {"int", "int64"}
<1>1. t \in {"int", "int64"} => Is(v, "number")
  BY DEF Accepts
<1>2. t \notin {"int", "int64"} => Is(v, "text") \/ Is(v, "list") \/ Is(v, "boolean")
  BY DEF Accepts, Types
<1> QED BY <1>1, <1>2, OneKind

(* What a unit is given has its type, from whatever source. *)
Typed(t, origin, v) ==
  /\ (t = "string" /\ origin = "env") \/ Accepts(t, v)
  /\ t = "int" => -Half <= v.number /\ v.number < Half

LEMMA NumberTyped ==
  ASSUME NEW n \in Int, NEW t \in {"int", "int64"}, NEW origin
  PROVE  Typed(t, origin, Number(Narrow(t, n)))
<1>1. Number(Narrow(t, n)).number = Narrow(t, n) /\ Is(Number(Narrow(t, n)), "number")
  BY DEF Number, Is
<1>2. Accepts(t, Number(Narrow(t, n)))
  BY <1>1 DEF Accepts
<1>3. t = "int" => -Half <= Narrow(t, n) /\ Narrow(t, n) < Half
  BY NarrowFits
<1> HIDE DEF Typed
<1> QED BY <1>1, <1>2, <1>3 DEF Typed

LEMMA DefaultTyped ==
  ASSUME NEW t \in Types
  PROVE  Typed(t, "default", Default(t))
<1>1. -Half <= 0 /\ 0 < Half
  BY HalfAssumption
<1>2. CASE t \in {"int", "int64"}
  BY <1>1, <1>2 DEF Typed, Default, Accepts, Is, Number
<1>3. CASE t = "string"
  BY <1>3 DEF Typed, Default, Accepts, Is, Text
<1>4. CASE t = "list"
  BY <1>4 DEF Typed, Default, Accepts, Is, List
<1>5. CASE t = "bool"
  BY <1>5 DEF Typed, Default, Accepts, Is, Boolean
<1> QED BY <1>2, <1>3, <1>4, <1>5 DEF Types

LEMMA EnvTyped ==
  ASSUME NEW t \in Types, NEW v, IsValue(v), NEW w \in EnvSays(t, v)
  PROVE  Typed(t, "env", w)
<1>1. CASE t \in {"int", "int64"}
  <2>1. Is(v, "number") /\ w = Number(Narrow(t, v.number))
    BY <1>1 DEF EnvSays
  <2>2. v.number \in Int
    BY <2>1, OneKind
  <2> QED BY <1>1, <2>1, <2>2, NumberTyped
<1>2. CASE t = "string"
  BY <1>2 DEF Typed
<1>3. CASE t = "list"
  <2>1. \E l : w = List(l)
    BY <1>3 DEF EnvSays
  <2> QED BY <1>3, <2>1 DEF Typed, Accepts, List, Is
<1>4. CASE t = "bool"
  BY <1>4 DEF EnvSays
<1> QED BY <1>1, <1>2, <1>3, <1>4 DEF Types

LEMMA FileTyped ==
  ASSUME NEW t \in Types, NEW v, IsValue(v), Accepts(t, v)
  PROVE  Typed(t, "file", IF Is(v, "number") THEN Number(Narrow(t, v.number)) ELSE v)
<1>1. CASE Is(v, "number")
  <2>1. t \in {"int", "int64"} /\ v.number \in Int
    BY <1>1, AcceptsNumber, OneKind
  <2> QED BY <1>1, <2>1, NumberTyped
<1>2. CASE ~Is(v, "number")
  BY <1>2, AcceptsNumber DEF Typed
<1> QED BY <1>1, <1>2

-----------------------------------------------------------------------------
(* Recursion and induction from the end of an interval.  (They are stated  *)
(* with sets and functions, which the provers can instantiate.)            *)

(* What holds of a number when it holds of all greater ones, holds of all. *)
LEMMA InductionDown ==
  ASSUME NEW n \in Nat, NEW S,
         \A i \in 1..n : (\A j \in 1..n : j > i => j \in S) => i \in S
  PROVE  \A i \in 1..n : i \in S
<1> SUFFICES ASSUME NEW k \in 1..n, k \notin S PROVE FALSE
  OBVIOUS
<1> DEFINE T == {d \in Nat : \E i \in 1..n : d = n - i /\ i \notin S}
<1>1. n - k \in T
  OBVIOUS
<1>2. \E x \in T : \A y \in T : ~(<<y, x>> \in OpToRel(<, Nat))
  BY <1>1, NatLessThanWellFounded, WFMin
<1>3. PICK x \in T : \A y \in T : ~(<<y, x>> \in OpToRel(<, Nat))
  BY <1>2
<1>4. \A y \in T : ~(y < x)
  BY <1>3 DEF OpToRel
<1>5. PICK i \in 1..n : x = n - i /\ i \notin S
  OBVIOUS
<1>6. ASSUME NEW j \in 1..n, j > i, j \notin S PROVE FALSE
  <2>1. n - j \in T
    BY <1>6
  <2> QED BY <1>4, <1>5, <1>6, <2>1
<1> QED BY <1>5, <1>6

(* A function may be defined by what it is above: G gives its value at i,  *)
(* from the function.                                                      *)
LooksAbove(n, V, G) ==
  /\ \A i \in 1..n : \A f \in [1..n -> V] : G[i][f] \in V
  /\ \A i \in 1..n : \A f, g \in [1..n -> V] :
       (\A j \in 1..n : j > i => f[j] = g[j]) => G[i][f] = G[i][g]

HasFunction(n, V, G) == \E f \in [1..n -> V] : \A i \in 1..n : f[i] = G[i][f]

LEMMA RecursionDown ==
  ASSUME NEW n \in Nat, NEW V, V # {}, NEW G, LooksAbove(n, V, G)
  PROVE  HasFunction(n, V, G)
<1> SUFFICES \E f \in [1..n -> V] : \A i \in 1..n : f[i] = G[i][f]
  BY DEF HasFunction
<1>0. PICK v0 \in V : TRUE
  OBVIOUS
<1> DEFINE From(k, f) == \A i \in 1..n : i >= k => f[i] = G[i][f]
           S == {k \in 1..n : \E f \in [1..n -> V] : From(k, f)}
<1>1. ASSUME NEW k \in 1..n, \A j \in 1..n : j > k => j \in S PROVE k \in S
  <2>1. \E f \in [1..n -> V] : From(k + 1, f)
    <3>1. CASE k = n
      <4>1. [i \in 1..n |-> v0] \in [1..n -> V]
        OBVIOUS
      <4>2. From(k + 1, [i \in 1..n |-> v0])
        BY <3>1
      <4> QED BY <4>1, <4>2
    <3>2. CASE k # n
      <4>1. k + 1 \in 1..n /\ k + 1 > k
        BY <3>2
      <4>2. k + 1 \in S
        BY <1>1, <4>1
      <4> QED BY <4>2
    <3> QED BY <3>1, <3>2
  <2>2. PICK f \in [1..n -> V] : From(k + 1, f)
    BY <2>1
  <2> DEFINE g == [f EXCEPT ![k] = G[k][f]]
  <2>3. g \in [1..n -> V]
    BY DEF LooksAbove
  <2>4. g[k] = G[k][f] /\ \A j \in 1..n : j > k => g[j] = f[j]
    BY <2>2
  <2> HIDE DEF g
  <2>5. ASSUME NEW i \in 1..n, i >= k PROVE G[i][g] = G[i][f]
    <3>1. \A j \in 1..n : j > i => g[j] = f[j]
      BY <2>4, <2>5
    <3> QED BY <2>3, <3>1 DEF LooksAbove
  <2>6. ASSUME NEW i \in 1..n, i >= k PROVE g[i] = G[i][g]
    <3>1. CASE i = k
      BY <2>4, <2>5, <2>6, <3>1
    <3>2. CASE i > k
      <4>1. f[i] = G[i][f]
        BY <2>2, <3>2
      <4> QED BY <2>4, <2>5, <2>6, <3>2, <4>1
    <3> QED BY <2>6, <3>1, <3>2
  <2> QED BY <2>3, <2>6
<1> HIDE DEF S
<1>2. \A i \in 1..n : i \in S
  BY <1>1, InductionDown
<1>3. CASE n = 0
  <2>1. [i \in 1..n |-> v0] \in [1..n -> V]
    OBVIOUS
  <2>2. \A i \in 1..n : FALSE
    BY <1>3
  <2> QED BY <2>1, <2>2
<1>4. CASE n # 0
  <2>1. 1 \in S
    BY <1>2, <1>4
  <2>2. PICK f \in [1..n -> V] : From(1, f)
    BY <2>1 DEF S
  <2> QED BY <2>2
<1> QED BY <1>3, <1>4
-----------------------------------------------------------------------------
(* The recursive functions of Conf, by their names here *)

Begin(c, items) == <<(<<c>> \o Head(items))>> \o Tail(items)

(* One turn of the loop of splitEscaped. *)
SplitStep(text, split, i) ==
  IF i > Len(text) THEN << <<>> >>
  ELSE LET skip  == text[i] = Escape /\ i < Len(text) /\ Special(text[i + 1])
           rest  == split[IF skip THEN i + 2 ELSE i + 1]
           first(c) == <<(<<c>> \o Head(rest))>> \o Tail(rest)
       IN  IF skip THEN first(text[i + 1])
           ELSE IF text[i] = Separator THEN << <<>> >> \o rest
           ELSE first(text[i])
SplitOf(text) == CHOOSE f : f = [i \in 1..Len(text) + 1 |-> SplitStep(text, f, i)]

EscapeOf(c) == IF c \in {Separator, Escape} THEN <<Escape, c>> ELSE <<c>>
EscapedStep(item, from, i) ==
  IF i > Len(item) THEN <<>> ELSE EscapeOf(item[i]) \o from[i + 1]
EscapedOf(item) == CHOOSE f : f = [i \in 1..Len(item) + 1 |-> EscapedStep(item, f, i)]

WrittenStep(list, from, i) ==
  Escaped(list[i]) \o (IF i = Len(list) THEN <<>> ELSE <<Separator>> \o from[i + 1])
WrittenOf(list) == CHOOSE f : f = [i \in 1..Len(list) |-> WrittenStep(list, f, i)]

LEMMA NamesOfFunctions ==
  /\ \A text : SplitEscaped(text) = SplitOf(text)[1]
  /\ \A item : Escaped(item) = EscapedOf(item)[1]
  /\ \A list : Written(list) = WrittenOf(list)[1]
<1>1. ASSUME NEW text PROVE SplitEscaped(text) = SplitOf(text)[1]
  BY DEF SplitEscaped, SplitOf, SplitStep
<1>2. ASSUME NEW item PROVE Escaped(item) = EscapedOf(item)[1]
  BY DEF Escaped, EscapedOf, EscapedStep, EscapeOf
<1>3. ASSUME NEW list PROVE Written(list) = WrittenOf(list)[1]
  BY DEF Written, WrittenOf, WrittenStep
<1> QED BY <1>1, <1>2, <1>3

LEMMA Specials == Separator \in Characters /\ Escape \in Characters /\ Separator # Escape
<1>1. Separator # Escape
  BY Zenon DEF Separator, Escape
<1> QED BY <1>1, ListsAssumption

(* Each exists: its recursion goes up, to an end. *)
Strings == Seq(Characters)

LEMMA SplitFunction ==
  ASSUME NEW text \in Strings, NEW i \in 1..Len(text) + 1
  PROVE  SplitOf(text)[i] = SplitStep(text, SplitOf(text), i)
<1> DEFINE n == Len(text) + 1
           V == Seq(Strings) \ {<<>>}
           G == [j \in 1..n |-> [f \in [1..n -> V] |-> SplitStep(text, f, j)]]
<1>1. n \in Nat /\ Len(text) \in Nat
  BY LenProperties DEF Strings
<1>2. << <<>> >> \in V
  BY EmptySeq DEF Strings
<1>3. ASSUME NEW c \in Characters, NEW items \in V
      PROVE  Begin(c, items) \in V /\ << <<>> >> \o items \in V
  <2>1. Head(items) \in Strings /\ Tail(items) \in Seq(Strings)
    BY HeadTailProperties
  <2>2. <<c>> \o Head(items) \in Strings
    BY <2>1 DEF Strings
  <2>3. <<(<<c>> \o Head(items))>> \in Seq(Strings)
    BY <2>2
  <2>4. Begin(c, items) \in Seq(Strings) /\ Len(Begin(c, items)) = 1 + Len(Tail(items))
    BY <2>1, <2>3, ConcatProperties DEF Begin
  <2>5. << <<>> >> \o items \in Seq(Strings) /\ Len(<< <<>> >> \o items) = 1 + Len(items)
    BY <1>2, ConcatProperties
  <2> QED BY <2>1, <2>4, <2>5, LenProperties, EmptySeq
<1>4. ASSUME NEW j \in 1..n, NEW f \in [1..n -> V] PROVE SplitStep(text, f, j) \in V
  <2>1. CASE j > Len(text)
    BY <1>2, <2>1 DEF SplitStep
  <2>2. CASE ~(j > Len(text))
    <3> DEFINE skip == text[j] = Escape /\ j < Len(text) /\ Special(text[j + 1])
               rest == f[IF skip THEN j + 2 ELSE j + 1]
    <3>1. j \in 1..Len(text) /\ text[j] \in Characters
      BY <1>1, <2>2, ElementOfSeq DEF Strings
    <3>2. skip => text[j + 1] \in Characters
      BY <1>1, <3>1, ElementOfSeq DEF Strings
    <3>3. rest \in V
      BY <1>1, <3>1
    <3>4. SplitStep(text, f, j) = IF skip THEN Begin(text[j + 1], rest)
                                  ELSE IF text[j] = Separator THEN << <<>> >> \o rest
                                  ELSE Begin(text[j], rest)
      BY <2>2 DEF SplitStep, Begin
    <3> HIDE DEF skip, rest, V
    <3> QED BY <1>3, <3>1, <3>2, <3>3, <3>4
  <2> QED BY <2>1, <2>2
<1>5. ASSUME NEW j \in 1..n, NEW f \in [1..n -> V], NEW g \in [1..n -> V],
             \A k \in 1..n : k > j => f[k] = g[k]
      PROVE  SplitStep(text, f, j) = SplitStep(text, g, j)
  <2>1. CASE j > Len(text)
    BY <2>1 DEF SplitStep
  <2>2. CASE ~(j > Len(text))
    <3>1. f[j + 1] = g[j + 1] /\ (j < Len(text) => f[j + 2] = g[j + 2])
      BY <1>1, <1>5, <2>2
    <3> QED BY <2>2, <3>1 DEF SplitStep
  <2> QED BY <2>1, <2>2
<1>6. \A j \in 1..n : \A f \in [1..n -> V] : G[j][f] = SplitStep(text, f, j)
  OBVIOUS
<1> HIDE DEF V, G, n
<1>7. \E f \in [1..n -> V] : \A j \in 1..n : f[j] = G[j][f]
  <2>1. \A j \in 1..n : \A f \in [1..n -> V] : G[j][f] \in V
    BY <1>4, <1>6
  <2>2. \A j \in 1..n : \A f, g \in [1..n -> V] :
          (\A k \in 1..n : k > j => f[k] = g[k]) => G[j][f] = G[j][g]
    <3> SUFFICES ASSUME NEW j \in 1..n, NEW f \in [1..n -> V], NEW g \in [1..n -> V],
                        \A k \in 1..n : k > j => f[k] = g[k]
                 PROVE  G[j][f] = G[j][g]
      OBVIOUS
    <3>1. G[j][f] = SplitStep(text, f, j) /\ G[j][g] = SplitStep(text, g, j)
      BY <1>6
    <3>2. SplitStep(text, f, j) = SplitStep(text, g, j)
      BY <1>5
    <3> QED BY <3>1, <3>2
  <2>3. LooksAbove(n, V, G)
    BY <2>1, <2>2 DEF LooksAbove
  <2>4. V # {}
    BY <1>2
  <2>5. HasFunction(n, V, G)
    BY <1>1, <2>3, <2>4, RecursionDown
  <2> QED BY <2>5 DEF HasFunction
<1>8. PICK f \in [1..n -> V] : \A j \in 1..n : f[j] = SplitStep(text, f, j)
  BY <1>6, <1>7
<1>9. f = [j \in 1..n |-> SplitStep(text, f, j)]
  BY <1>8
<1>10. SplitOf(text) = [j \in 1..n |-> SplitStep(text, SplitOf(text), j)]
  BY <1>9 DEF SplitOf, n
<1> QED BY <1>10 DEF n

LEMMA EscapedFunction ==
  ASSUME NEW item \in Strings, NEW i \in 1..Len(item) + 1
  PROVE  EscapedOf(item)[i] = EscapedStep(item, EscapedOf(item), i)
<1> DEFINE n == Len(item) + 1
           G == [j \in 1..n |-> [f \in [1..n -> Strings] |-> EscapedStep(item, f, j)]]
<1>1. n \in Nat /\ Len(item) \in Nat
  BY LenProperties DEF Strings
<1>2. <<>> \in Strings
  BY EmptySeq DEF Strings
<1>3. ASSUME NEW j \in 1..n, NEW f \in [1..n -> Strings] PROVE EscapedStep(item, f, j) \in Strings
  <2>1. CASE j > Len(item)
    BY <1>2, <2>1 DEF EscapedStep
  <2>2. CASE ~(j > Len(item))
    <3>1. item[j] \in Characters /\ Escape \in Characters
      BY <1>1, <2>2, ElementOfSeq, Specials DEF Strings
    <3>2. EscapeOf(item[j]) \in Strings /\ f[j + 1] \in Strings
      BY <1>1, <2>2, <3>1 DEF EscapeOf, Strings
    <3> QED BY <2>2, <3>2, ConcatProperties DEF EscapedStep, Strings
  <2> QED BY <2>1, <2>2
<1>4. ASSUME NEW j \in 1..n, NEW f \in [1..n -> Strings], NEW g \in [1..n -> Strings],
             \A k \in 1..n : k > j => f[k] = g[k]
      PROVE  EscapedStep(item, f, j) = EscapedStep(item, g, j)
  BY <1>1, <1>4 DEF EscapedStep
<1>5. \A j \in 1..n : \A f \in [1..n -> Strings] : G[j][f] = EscapedStep(item, f, j)
  OBVIOUS
<1> HIDE DEF G, n
<1>6. \E f \in [1..n -> Strings] : \A j \in 1..n : f[j] = G[j][f]
  <2>1. \A j \in 1..n : \A f \in [1..n -> Strings] : G[j][f] \in Strings
    BY <1>3, <1>5
  <2>2. \A j \in 1..n : \A f, g \in [1..n -> Strings] :
          (\A k \in 1..n : k > j => f[k] = g[k]) => G[j][f] = G[j][g]
    <3> SUFFICES ASSUME NEW j \in 1..n, NEW f \in [1..n -> Strings], NEW g \in [1..n -> Strings],
                        \A k \in 1..n : k > j => f[k] = g[k]
                 PROVE  G[j][f] = G[j][g]
      OBVIOUS
    <3>1. G[j][f] = EscapedStep(item, f, j) /\ G[j][g] = EscapedStep(item, g, j)
      BY <1>5
    <3>2. EscapedStep(item, f, j) = EscapedStep(item, g, j)
      BY <1>4
    <3> QED BY <3>1, <3>2
  <2>3. LooksAbove(n, Strings, G)
    BY <2>1, <2>2 DEF LooksAbove
  <2>4. Strings # {}
    BY <1>2
  <2>5. HasFunction(n, Strings, G)
    BY <1>1, <2>3, <2>4, RecursionDown
  <2> QED BY <2>5 DEF HasFunction
<1>7. PICK f \in [1..n -> Strings] : \A j \in 1..n : f[j] = EscapedStep(item, f, j)
  BY <1>5, <1>6
<1>8. f = [j \in 1..n |-> EscapedStep(item, f, j)]
  BY <1>7
<1>9. EscapedOf(item) = [j \in 1..n |-> EscapedStep(item, EscapedOf(item), j)]
  BY <1>8 DEF EscapedOf, n
<1> QED BY <1>9 DEF n

(* What is written is a text. *)
LEMMA EscapedIsText ==
  ASSUME NEW item \in Strings
  PROVE  \A i \in 1..Len(item) + 1 : EscapedOf(item)[i] \in Strings
<1> DEFINE n == Len(item) + 1
           S == {i \in 1..n : EscapedOf(item)[i] \in Strings}
<1>1. n \in Nat /\ Len(item) \in Nat
  BY LenProperties DEF Strings
<1>2. ASSUME NEW i \in 1..n, \A j \in 1..n : j > i => j \in S PROVE i \in S
  <2>1. EscapedOf(item)[i] = EscapedStep(item, EscapedOf(item), i)
    BY EscapedFunction
  <2>2. CASE i > Len(item)
    BY <2>1, <2>2, EmptySeq DEF EscapedStep, Strings
  <2>3. CASE ~(i > Len(item))
    <3>1. item[i] \in Characters /\ Escape \in Characters
      BY <1>1, <2>3, ElementOfSeq, Specials DEF Strings
    <3>2. EscapeOf(item[i]) \in Strings
      BY <3>1 DEF EscapeOf, Strings
    <3>3. EscapedOf(item)[i + 1] \in Strings
      BY <1>1, <1>2, <2>3
    <3> QED BY <2>1, <2>3, <3>2, <3>3, ConcatProperties DEF EscapedStep, Strings
  <2> QED BY <2>2, <2>3
<1> HIDE DEF S, n
<1>3. \A i \in 1..n : i \in S
  BY <1>1, <1>2, InductionDown
<1> QED BY <1>3 DEF S, n

LEMMA EscapedText ==
  ASSUME NEW item \in Strings
  PROVE  Escaped(item) \in Strings
<1>1. 1 \in 1..Len(item) + 1
  BY LenProperties DEF Strings
<1> QED BY <1>1, EscapedIsText, NamesOfFunctions

LEMMA WrittenFunction ==
  ASSUME NEW list \in Seq(Strings), NEW i \in 1..Len(list)
  PROVE  WrittenOf(list)[i] = WrittenStep(list, WrittenOf(list), i)
<1> DEFINE n == Len(list)
           G == [j \in 1..n |-> [f \in [1..n -> Strings] |-> WrittenStep(list, f, j)]]
<1>1. n \in Nat
  BY LenProperties
<1>2. <<>> \in Strings /\ <<Separator>> \in Strings
  BY Specials, EmptySeq DEF Strings
<1>3. ASSUME NEW j \in 1..n, NEW f \in [1..n -> Strings] PROVE WrittenStep(list, f, j) \in Strings
  <2>1. Escaped(list[j]) \in Strings
    BY ElementOfSeq, EscapedText
  <2>2. ASSUME j # n PROVE <<Separator>> \o f[j + 1] \in Strings
    <3>1. j + 1 \in 1..n
      BY <1>1, <2>2
    <3>2. f[j + 1] \in Strings
      BY <3>1
    <3> QED BY <1>2, <3>2, ConcatProperties DEF Strings
  <2> QED BY <1>2, <2>1, <2>2, ConcatProperties DEF WrittenStep, Strings
<1>4. ASSUME NEW j \in 1..n, NEW f \in [1..n -> Strings], NEW g \in [1..n -> Strings],
             \A k \in 1..n : k > j => f[k] = g[k]
      PROVE  WrittenStep(list, f, j) = WrittenStep(list, g, j)
  <2>1. CASE j = n
    BY <2>1 DEF WrittenStep
  <2>2. CASE j # n
    <3>1. j + 1 \in 1..n /\ j + 1 > j
      BY <1>1, <2>2
    <3>2. f[j + 1] = g[j + 1]
      BY <1>4, <3>1
    <3> QED BY <3>2 DEF WrittenStep
  <2> QED BY <2>1, <2>2
<1>5. \A j \in 1..n : \A f \in [1..n -> Strings] : G[j][f] = WrittenStep(list, f, j)
  OBVIOUS
<1> HIDE DEF G, n
<1>6. \E f \in [1..n -> Strings] : \A j \in 1..n : f[j] = G[j][f]
  <2>1. \A j \in 1..n : \A f \in [1..n -> Strings] : G[j][f] \in Strings
    BY <1>3, <1>5
  <2>2. \A j \in 1..n : \A f, g \in [1..n -> Strings] :
          (\A k \in 1..n : k > j => f[k] = g[k]) => G[j][f] = G[j][g]
    <3> SUFFICES ASSUME NEW j \in 1..n, NEW f \in [1..n -> Strings], NEW g \in [1..n -> Strings],
                        \A k \in 1..n : k > j => f[k] = g[k]
                 PROVE  G[j][f] = G[j][g]
      OBVIOUS
    <3>1. G[j][f] = WrittenStep(list, f, j) /\ G[j][g] = WrittenStep(list, g, j)
      BY <1>5
    <3>2. WrittenStep(list, f, j) = WrittenStep(list, g, j)
      BY <1>4
    <3> QED BY <3>1, <3>2
  <2>3. LooksAbove(n, Strings, G)
    BY <2>1, <2>2 DEF LooksAbove
  <2>4. Strings # {}
    BY <1>2
  <2>5. HasFunction(n, Strings, G)
    BY <1>1, <2>3, <2>4, RecursionDown
  <2> QED BY <2>5 DEF HasFunction
<1>7. PICK f \in [1..n -> Strings] : \A j \in 1..n : f[j] = WrittenStep(list, f, j)
  BY <1>5, <1>6
<1>8. f = [j \in 1..n |-> WrittenStep(list, f, j)]
  BY <1>7
<1>9. WrittenOf(list) = [j \in 1..n |-> WrittenStep(list, WrittenOf(list), j)]
  BY <1>8 DEF WrittenOf, n
<1> QED BY <1>9 DEF n
-----------------------------------------------------------------------------
(* What is written is read as it was *)

(* From i on, the text is s. *)
At(text, i, s) == i \in 1..Len(text) + 1 /\ SubSeq(text, i, Len(text)) = s

LEMMA AtFirst ==
  ASSUME NEW text \in Strings, NEW i, NEW c \in Characters, NEW s \in Strings, At(text, i, <<c>> \o s)
  PROVE  i \in 1..Len(text) /\ text[i] = c /\ At(text, i + 1, s)
<1> DEFINE n == Len(text)
           t == SubSeq(text, i, n)
<1>1. n \in Nat /\ i \in 1..n + 1 /\ t = <<c>> \o s
  BY LenProperties DEF At, Strings
<1>2. <<c>> \in Strings /\ Len(<<c>>) = 1 /\ <<c>>[1] = c /\ Len(s) \in Nat
  BY LenProperties DEF Strings
<1>3. Len(t) = 1 + Len(s) /\ t[1] = c /\ \A p \in 1..Len(s) : t[p + 1] = s[p]
  BY <1>1, <1>2, ConcatProperties DEF Strings
<1>4. /\ t \in Strings
      /\ Len(t) = IF i <= n THEN n - i + 1 ELSE 0
      /\ \A p \in 1..n - i + 1 : t[p] = text[i + p - 1]
  <2>1. \A p \in i..n : text[p] \in Characters
    BY <1>1, ElementOfSeq DEF Strings
  <2> QED BY <1>1, <2>1, SubSeqProperties DEF Strings
<1>5. i <= n /\ Len(s) = n - i
  BY <1>1, <1>2, <1>3, <1>4
<1>6. text[i] = c
  BY <1>1, <1>3, <1>4, <1>5
<1>7. SubSeq(text, i + 1, n) = s
  <2> DEFINE u == SubSeq(text, i + 1, n)
  <2>1. \A p \in i + 1..n : text[p] \in Characters
    BY <1>1, ElementOfSeq DEF Strings
  <2>2. /\ u \in Strings
        /\ Len(u) = IF i + 1 <= n THEN n - (i + 1) + 1 ELSE 0
        /\ \A p \in 1..n - (i + 1) + 1 : u[p] = text[i + 1 + p - 1]
    BY <1>1, <2>1, SubSeqProperties DEF Strings
  <2> HIDE DEF u, t, n
  <2>3. Len(u) = Len(s)
    BY <1>1, <1>5, <2>2
  <2>4. ASSUME NEW p \in 1..Len(u) PROVE u[p] = s[p]
    <3>1. u[p] = text[i + p] /\ p + 1 \in 1..n - i + 1 /\ p \in 1..Len(s)
      BY <1>1, <1>5, <2>2, <2>3
    <3>2. t[p + 1] = text[i + (p + 1) - 1]
      BY <1>4, <3>1
    <3>3. t[p + 1] = s[p]
      BY <1>3, <3>1
    <3>4. i + (p + 1) - 1 = i + p
      BY <1>1, <3>1
    <3> QED BY <3>1, <3>2, <3>3, <3>4
  <2> QED BY <2>2, <2>3, <2>4, SeqEqual DEF Strings, u
<1> QED BY <1>1, <1>5, <1>6, <1>7 DEF At

(* At the end one item ends, the last. *)
LEMMA SplitEnd ==
  ASSUME NEW text \in Strings, NEW i, At(text, i, <<>>)
  PROVE  SplitOf(text)[i] = << <<>> >>
<1>1. Len(text) \in Nat /\ i \in 1..Len(text) + 1
  BY LenProperties DEF At, Strings
<1>2. ASSUME i <= Len(text) PROVE FALSE
  <2>1. \A p \in i..Len(text) : text[p] \in Characters
    BY <1>1, ElementOfSeq DEF Strings
  <2>2. Len(SubSeq(text, i, Len(text))) = Len(text) - i + 1
    BY <1>1, <1>2, <2>1, SubSeqProperties
  <2> QED BY <1>1, <1>2, <2>2, EmptySeq DEF At
<1>3. SplitOf(text)[i] = SplitStep(text, SplitOf(text), i)
  BY <1>1, SplitFunction
<1> QED BY <1>1, <1>2, <1>3 DEF SplitStep

(* At a separator that is not escaped an item ends. *)
LEMMA SplitSeparator ==
  ASSUME NEW text \in Strings, NEW i, NEW s \in Strings, At(text, i, <<Separator>> \o s)
  PROVE  At(text, i + 1, s) /\ SplitOf(text)[i] = << <<>> >> \o SplitOf(text)[i + 1]
<1>1. i \in 1..Len(text) /\ text[i] = Separator /\ At(text, i + 1, s) /\ Len(text) \in Nat
  BY Specials, AtFirst, LenProperties DEF Strings
<1>2. SplitOf(text)[i] = SplitStep(text, SplitOf(text), i)
  BY <1>1, SplitFunction
<1> QED BY <1>1, <1>2, Specials DEF SplitStep

(* A character, escaped where it has to be, is one of the item. *)
ReadsCharacter(text, i, c, s) ==
  \E j : At(text, j, s) /\ SplitOf(text)[i] = Begin(c, SplitOf(text)[j])

LEMMA SplitCharacter ==
  ASSUME NEW text \in Strings, NEW i, NEW c \in Characters, NEW s \in Strings,
         At(text, i, EscapeOf(c) \o s)
  PROVE  ReadsCharacter(text, i, c, s)
<1>0. Len(text) \in Nat
  BY LenProperties DEF Strings
<1>1. CASE c \in {Separator, Escape}
  <2>1. <<Escape>> \in Strings /\ <<c>> \in Strings /\ <<c>> \o s \in Strings
    BY Specials, ConcatProperties DEF Strings
  <2>2. EscapeOf(c) = <<Escape>> \o <<c>>
    BY <1>1 DEF EscapeOf
  <2>3. EscapeOf(c) \o s = <<Escape>> \o (<<c>> \o s)
    BY <2>1, <2>2, ConcatAssociative DEF Strings
  <2>4. i \in 1..Len(text) /\ text[i] = Escape /\ At(text, i + 1, <<c>> \o s)
    BY <2>1, <2>3, Specials, AtFirst
  <2>5. i + 1 \in 1..Len(text) /\ text[i + 1] = c /\ At(text, (i + 1) + 1, s)
    BY <2>4, AtFirst
  <2>6. SplitOf(text)[i] = SplitStep(text, SplitOf(text), i)
    BY <1>0, <2>4, SplitFunction
  <2>7. (i + 1) + 1 = i + 2 /\ i < Len(text) /\ Special(c)
    BY <1>0, <1>1, <2>4, <2>5 DEF Special
  <2>8. SplitOf(text)[i] = Begin(c, SplitOf(text)[i + 2])
    BY <1>0, <2>4, <2>5, <2>6, <2>7 DEF SplitStep, Begin
  <2> QED BY <2>5, <2>7, <2>8 DEF ReadsCharacter
<1>2. CASE c \notin {Separator, Escape}
  <2>1. i \in 1..Len(text) /\ text[i] = c /\ At(text, i + 1, s)
    BY <1>2, AtFirst DEF EscapeOf
  <2>2. SplitOf(text)[i] = SplitStep(text, SplitOf(text), i)
    BY <1>0, <2>1, SplitFunction
  <2>3. ~(i > Len(text)) /\ text[i] # Escape /\ text[i] # Separator
    BY <1>0, <1>2, <2>1
  <2>4. SplitOf(text)[i] = Begin(c, SplitOf(text)[i + 1])
    BY <2>1, <2>2, <2>3 DEF SplitStep, Begin
  <2> QED BY <2>1, <2>4 DEF ReadsCharacter
<1> QED BY <1>1, <1>2

LEMMA ConcatStrings ==
  ASSUME NEW s \in Strings, NEW t \in Strings, NEW u \in Strings
  PROVE  (s \o t) \o u = s \o (t \o u)
  BY ConcatAssociative DEF Strings

LEMMA BeginItem ==
  ASSUME NEW c \in Characters, NEW s \in Strings, NEW items \in Seq(Strings)
  PROVE  Begin(c, <<s>> \o items) = << <<c>> \o s >> \o items
<1>1. <<s>> \in Seq(Strings) /\ <<s>> \o items \in Seq(Strings)
  BY ConcatProperties
<1>2. Head(<<s>> \o items) = s /\ Tail(<<s>> \o items) = items
  BY <1>1
<1> QED BY <1>2 DEF Begin

(* If the rest of the text is split as an empty item and some others, then *)
(* after an escaped item it is split as that item and those others.        *)
EndsWith(text, rest, items) == \A i : At(text, i, rest) => SplitOf(text)[i] = << <<>> >> \o items

LEMMA SplitItem ==
  ASSUME NEW text \in Strings, NEW item \in Strings, NEW rest \in Strings, NEW items \in Seq(Strings),
         EndsWith(text, rest, items),
         NEW i, At(text, i, Escaped(item) \o rest)
  PROVE  SplitOf(text)[i] = <<item>> \o items
<1> DEFINE n == Len(item) + 1
           From(m) == SubSeq(item, m, Len(item))
           Reads(m) == \A p : At(text, p, EscapedOf(item)[m] \o rest)
                                => SplitOf(text)[p] = <<From(m)>> \o items
           S == {m \in 1..n : Reads(m)}
<1>1. n \in Nat /\ Len(item) \in Nat
  BY LenProperties DEF Strings
<1>2. ASSUME NEW m \in 1..n, \A k \in 1..n : k > m => k \in S PROVE m \in S
  <2> SUFFICES ASSUME NEW p, At(text, p, EscapedOf(item)[m] \o rest)
               PROVE  SplitOf(text)[p] = <<From(m)>> \o items
    OBVIOUS
  <2>1. EscapedOf(item)[m] = EscapedStep(item, EscapedOf(item), m)
    BY EscapedFunction
  <2>2. CASE m > Len(item)
    <3>1. EscapedOf(item)[m] \o rest = rest
      BY <2>1, <2>2, ConcatEmptySeq DEF EscapedStep, Strings
    <3>2. From(m) = <<>>
      BY <1>1, <2>2, SubSeqEmpty
    <3> QED BY <3>1, <3>2 DEF EndsWith
  <2>3. CASE ~(m > Len(item))
    <3>1. m \in 1..Len(item) /\ m + 1 \in 1..n /\ m + 1 > m
      BY <1>1, <2>3
    <3> DEFINE e == EscapedOf(item)[m + 1]
    <3>2. item[m] \in Characters /\ e \in Strings /\ EscapeOf(item[m]) \in Strings
      <4>1. item[m] \in Characters
        BY <3>1, ElementOfSeq DEF Strings
      <4>2. EscapeOf(item[m]) \in Strings
        BY <4>1, Specials DEF EscapeOf, Strings
      <4> QED BY <3>1, <4>1, <4>2, EscapedIsText
    <3>3. EscapedOf(item)[m] = EscapeOf(item[m]) \o e
      BY <2>1, <2>3 DEF EscapedStep
    <3> HIDE DEF e
    <3>4. e \o rest \in Strings /\ At(text, p, EscapeOf(item[m]) \o (e \o rest))
      <4>1. (EscapeOf(item[m]) \o e) \o rest = EscapeOf(item[m]) \o (e \o rest)
        BY <3>2, ConcatStrings
      <4>2. e \o rest \in Strings
        BY <3>2, ConcatProperties DEF Strings
      <4> QED BY <3>3, <4>1, <4>2
    <3>5. PICK j : At(text, j, e \o rest) /\ SplitOf(text)[p] = Begin(item[m], SplitOf(text)[j])
      <4> DEFINE u == e \o rest
                 d == item[m]
      <4>1. u \in Strings /\ d \in Characters /\ At(text, p, EscapeOf(d) \o u)
        BY <3>2, <3>4
      <4> HIDE DEF S, u, d
      <4>2. ReadsCharacter(text, p, d, u)
        BY <4>1, SplitCharacter
      <4> QED BY <4>2 DEF u, d, ReadsCharacter
    <3>6. m + 1 \in S
      BY <1>2, <3>1
    <3>7. SplitOf(text)[j] = <<From(m + 1)>> \o items
      BY <3>5, <3>6 DEF e
    <3>8. From(m + 1) \in Strings
      <4>1. \A k \in m + 1..Len(item) : item[k] \in Characters
        BY <1>1, <3>1, ElementOfSeq DEF Strings
      <4> QED BY <1>1, <3>1, <4>1, SubSeqProperties DEF Strings
    <3>9. From(m) = <<item[m]>> \o From(m + 1)
      BY <1>1, <3>1, SubSeqRecursiveFirst DEF Strings
    <3> HIDE DEF From
    <3>10. Begin(item[m], <<From(m + 1)>> \o items) = << <<item[m]>> \o From(m + 1) >> \o items
      BY <3>2, <3>8, BeginItem
    <3> QED BY <3>5, <3>7, <3>9, <3>10
  <2> QED BY <2>2, <2>3
<1> HIDE DEF S, n
<1>3. \A m \in 1..n : m \in S
  BY <1>1, <1>2, InductionDown
<1>4. 1 \in 1..n
  BY <1>1 DEF n
<1>5. Reads(1)
  BY <1>3, <1>4 DEF S
<1>6. From(1) = item
  BY SubSeqFull DEF Strings
<1>7. Escaped(item) = EscapedOf(item)[1]
  BY NamesOfFunctions
<1> QED BY <1>5, <1>6, <1>7

LEMMA WrittenIsText ==
  ASSUME NEW list \in Seq(Strings)
  PROVE  \A i \in 1..Len(list) : WrittenOf(list)[i] \in Strings
<1> DEFINE n == Len(list)
           S == {i \in 1..n : WrittenOf(list)[i] \in Strings}
<1>1. n \in Nat
  BY LenProperties
<1>2. ASSUME NEW i \in 1..n, \A j \in 1..n : j > i => j \in S PROVE i \in S
  <2>1. WrittenOf(list)[i] = WrittenStep(list, WrittenOf(list), i)
    BY WrittenFunction
  <2>2. Escaped(list[i]) \in Strings /\ <<>> \in Strings /\ <<Separator>> \in Strings
    BY ElementOfSeq, EscapedText, EmptySeq, Specials DEF Strings
  <2>3. CASE i = n
    BY <2>1, <2>2, <2>3, ConcatProperties DEF WrittenStep, Strings
  <2>4. CASE i # n
    <3>1. i + 1 \in 1..n /\ i + 1 > i
      BY <1>1, <2>4
    <3>2. WrittenOf(list)[i + 1] \in Strings
      BY <1>2, <3>1
    <3>3. <<Separator>> \o WrittenOf(list)[i + 1] \in Strings
      BY <2>2, <3>2, ConcatProperties DEF Strings
    <3>4. WrittenOf(list)[i] = Escaped(list[i]) \o (<<Separator>> \o WrittenOf(list)[i + 1])
      BY <2>1, <2>4 DEF WrittenStep
    <3>5. Escaped(list[i]) \o (<<Separator>> \o WrittenOf(list)[i + 1]) \in Strings
      <4> DEFINE first == Escaped(list[i])
                 rest  == <<Separator>> \o WrittenOf(list)[i + 1]
      <4>1. first \in Strings /\ rest \in Strings
        BY <2>2, <3>3
      <4> HIDE DEF first, rest
      <4>2. first \o rest \in Strings
        BY <4>1, ConcatProperties DEF Strings
      <4> QED BY <4>2 DEF first, rest
    <3> QED BY <3>4, <3>5
  <2> QED BY <2>3, <2>4
<1> HIDE DEF S, n
<1>3. \A i \in 1..n : i \in S
  BY <1>1, <1>2, InductionDown
<1> QED BY <1>3 DEF S, n

(* splitEscaped undoes the escapes: a list of any items, of any characters *)
(* and however long, is read as it was written.                            *)
LEMMA SplitUndoesWritten ==
  ASSUME NEW list \in Seq(Strings), list # <<>>
  PROVE  SplitEscaped(Written(list)) = list
<1> DEFINE n == Len(list)
           text == Written(list)
           From(j) == SubSeq(list, j, n)
           Reads(j) == \A p : At(text, p, WrittenOf(list)[j]) => SplitOf(text)[p] = From(j)
           S == {j \in 1..n : Reads(j)}
<1>1. n \in Nat /\ 1 \in 1..n
  BY LenProperties, EmptySeq
<1>2. text = WrittenOf(list)[1]
  BY NamesOfFunctions
<1>3. text \in Strings
  BY <1>1, <1>2, WrittenIsText
<1> HIDE DEF text
<1>4. ASSUME NEW j \in 1..n, \A k \in 1..n : k > j => k \in S PROVE j \in S
  <2> SUFFICES ASSUME NEW p, At(text, p, WrittenOf(list)[j])
               PROVE  SplitOf(text)[p] = From(j)
    OBVIOUS
  <2>1. WrittenOf(list)[j] = WrittenStep(list, WrittenOf(list), j)
    BY WrittenFunction
  <2>2. list[j] \in Strings
    BY ElementOfSeq
  <2>3. CASE j = n
    <3>1. WrittenOf(list)[j] = Escaped(list[j]) \o <<>>
      BY <2>1, <2>3 DEF WrittenStep
    <3>2. EndsWith(text, <<>>, <<>>)
      BY <1>3, SplitEnd DEF EndsWith
    <3>3. <<>> \in Strings /\ <<>> \in Seq(Strings)
      BY EmptySeq DEF Strings
    <3>4. SplitOf(text)[p] = <<list[j]>> \o <<>>
      <4> DEFINE none == <<>>
      <4>1. At(text, p, Escaped(list[j]) \o none) /\ EndsWith(text, none, none)
        BY <3>1, <3>2
      <4>2. none \in Strings /\ none \in Seq(Strings)
        BY <3>3
      <4> HIDE DEF S, none
      <4>3. SplitOf(text)[p] = <<list[j]>> \o none
        BY <1>3, <2>2, <4>1, <4>2, SplitItem
      <4> QED BY <4>3 DEF none
    <3>5. From(j) = <<list[j]>> \o SubSeq(list, j + 1, n)
      BY <1>1, <2>3, SubSeqRecursiveFirst
    <3>6. SubSeq(list, j + 1, n) = <<>>
      BY <1>1, <2>3, SubSeqEmpty
    <3> QED BY <3>4, <3>5, <3>6
  <2>4. CASE j # n
    <3>1. j + 1 \in 1..n /\ j + 1 > j
      BY <1>1, <2>4
    <3> DEFINE w == WrittenOf(list)[j + 1]
    <3>2. w \in Strings
      BY <3>1, WrittenIsText
    <3>3. WrittenOf(list)[j] = Escaped(list[j]) \o (<<Separator>> \o w)
      BY <2>1, <2>4 DEF WrittenStep
    <3>4. j + 1 \in S
      BY <1>4, <3>1
    <3> HIDE DEF w
    <3>5. <<Separator>> \o w \in Strings
      BY <3>2, Specials, ConcatProperties DEF Strings
    <3>6. From(j + 1) \in Seq(Strings)
      <4>1. \A k \in j + 1..n : list[k] \in Strings
        BY <1>1, <3>1, ElementOfSeq
      <4> QED BY <1>1, <3>1, <4>1, SubSeqProperties
    <3>7. EndsWith(text, <<Separator>> \o w, From(j + 1))
      <4> SUFFICES ASSUME NEW i, At(text, i, <<Separator>> \o w)
                   PROVE  SplitOf(text)[i] = << <<>> >> \o From(j + 1)
        BY DEF EndsWith
      <4>1. At(text, i + 1, w) /\ SplitOf(text)[i] = << <<>> >> \o SplitOf(text)[i + 1]
        BY <1>3, <3>2, SplitSeparator
      <4>2. SplitOf(text)[i + 1] = From(j + 1)
        BY <3>4, <4>1 DEF w
      <4> QED BY <4>1, <4>2
    <3>8. From(j) = <<list[j]>> \o From(j + 1)
      BY <1>1, <3>1, SubSeqRecursiveFirst
    <3> HIDE DEF From
    <3>9. SplitOf(text)[p] = <<list[j]>> \o From(j + 1)
      BY <1>3, <2>2, <3>3, <3>5, <3>6, <3>7, SplitItem
    <3> QED BY <3>8, <3>9
  <2> QED BY <2>3, <2>4
<1> HIDE DEF S, n
<1>5. \A j \in 1..n : j \in S
  BY <1>1, <1>4, InductionDown
<1>6. Reads(1)
  BY <1>1, <1>5 DEF S
<1>7. At(text, 1, WrittenOf(list)[1])
  <2>1. Len(text) \in Nat /\ SubSeq(text, 1, Len(text)) = text
    BY <1>3, LenProperties, SubSeqFull DEF Strings
  <2> QED BY <1>2, <2>1 DEF At
<1>8. From(1) = list
  BY SubSeqFull DEF n
<1>9. SplitEscaped(text) = SplitOf(text)[1]
  BY NamesOfFunctions
<1> QED BY <1>6, <1>7, <1>8, <1>9 DEF text

-----------------------------------------------------------------------------
(* The calls *)

LEMMA InitConf == Init => ConfInv
  BY DEF Init, ConfInv, UnitsOK, GivenOK, ConfTypeOK, LoadedIsTyped, MostSpecificFirst, Loaded, Done

(* A call that gives no value keeps what the units, the file and the       *)
(* environment say.                                                        *)
LEMMA RefuseConf ==
  ASSUME ConfInv, Refuse
  PROVE  ConfInv'
  BY DEF Refuse, Throws, ConfInv, UnitsOK, GivenOK, ConfTypeOK, LoadedIsTyped, IsValid, MostSpecificFirst, Loaded

LEMMA AddUnitConf ==
  ASSUME ConfInv, NEW k \in Keys \union {NoName}, NEW e \in EnvNames \union {NoName}, NEW t \in Types,
         AddUnit(k, e, t)
  PROVE  ConfInv'
<1>1. CASE ~MayAdd(k, e)
  BY <1>1, RefuseConf DEF AddUnit
<1>2. CASE MayAdd(k, e)
  <2>1. /\ k \in Keys /\ e \in EnvNames /\ ~Loaded
        /\ units' = [units EXCEPT ![k] = [type |-> t, env |-> e]]
        /\ answer' = Done /\ config' = config /\ env' = env
    BY <1>2 DEF AddUnit, MayAdd
  <2>2. UnitsOK'
    BY <2>1 DEF ConfInv, UnitsOK
  <2>3. ~Loaded' /\ answer'.outcome # "value"
    BY <2>1 DEF Loaded, Done
  <2>4. ConfTypeOK'
    BY <2>1, <2>2, <2>3 DEF ConfInv, ConfTypeOK, UnitsOK
  <2> QED BY <2>2, <2>3, <2>4 DEF ConfInv, GivenOK, LoadedIsTyped, MostSpecificFirst
<1> QED BY <1>1, <1>2

LEMMA LoadConf ==
  ASSUME ConfInv, NEW file \in Files, Load(file)
  PROVE  ConfInv'
<1>1. CASE ~(~Loaded /\ IsValid(file))
  BY <1>1, RefuseConf DEF Load
<1>2. CASE ~Loaded /\ IsValid(file)
  <2>1. config' = file /\ answer' = Done /\ units' = units /\ env' = env
    BY <1>2 DEF Load
  <2>2. answer'.outcome # "value"
    BY <2>1 DEF Done
  <2>3. IsValid(file)'
    BY <1>2, <2>1 DEF IsValid
  <2>4. ConfTypeOK'
    BY <2>1, <2>2 DEF ConfInv, ConfTypeOK
  <2>5. LoadedIsTyped'
    BY <2>1, <2>3 DEF LoadedIsTyped, IsValid
  <2>6. UnitsOK'
    BY <2>1 DEF ConfInv, UnitsOK
  <2> QED BY <2>2, <2>4, <2>5, <2>6 DEF ConfInv, GivenOK, MostSpecificFirst
<1> QED BY <1>1, <1>2

(* To give a value of the type of the unit, from the most specific source, *)
(* is all that a call that gives one has to do.                            *)
LEMMA GiveConf ==
  ASSUME ConfInv, NEW k \in Keys, units[k] # NoUnit, NEW origin \in {"env", "file", "default"}, NEW v,
         Typed(units[k].type, origin, v),
         origin # "env" => env[units[k].env] = Unset,
         origin = "default" => ~Loaded \/ k \notin DOMAIN config,
         Give(k, origin, v)
  PROVE  ConfInv'
<1>1. units' = units /\ config' = config /\ env' = env
  BY DEF Give
<1>2. answer' = Crash \/ answer' = Value(k, origin, v)
  BY DEF Give
<1>3. UnitsOK' /\ LoadedIsTyped'
  BY <1>1 DEF ConfInv, UnitsOK, LoadedIsTyped, IsValid, Loaded
<1>4. CASE answer' = Crash
  <2>1. answer'.outcome # "value"
    BY <1>4 DEF Crash
  <2> QED BY <1>1, <1>3, <2>1 DEF ConfInv, GivenOK, ConfTypeOK, MostSpecificFirst, Loaded
<1>5. CASE answer' = Value(k, origin, v)
  <2>1. answer'.key = k /\ answer'.origin = origin /\ answer'.value = v
    BY <1>5 DEF Value
  <2>2. GivenOK'
    BY <1>1, <2>1 DEF GivenOK
  <2>3. ConfTypeOK'
    BY <1>1, <2>1 DEF ConfInv, ConfTypeOK, Typed, Loaded
  <2>4. MostSpecificFirst'
    BY <1>1, <2>1 DEF MostSpecificFirst, Loaded
  <2> QED BY <1>3, <2>2, <2>3, <2>4 DEF ConfInv
<1> QED BY <1>2, <1>4, <1>5

LEMMA GetConf ==
  ASSUME ConfInv, NEW k \in Keys \union {NoName}, NEW t \in Types, Get(k, t)
  PROVE  ConfInv'
<1>1. CASE k = NoName \/ units[k] = NoUnit \/ ~Casts(k, t)
  BY <1>1, RefuseConf DEF Get
<1>2. CASE ~(k = NoName \/ units[k] = NoUnit \/ ~Casts(k, t))
  <2>1. k \in Keys /\ units[k] # NoUnit /\ units[k].type = t
    BY <1>2 DEF Casts
  <2>2. units[k].env \in EnvNames
    BY <2>1 DEF ConfInv, UnitsOK
  <2>3. CASE FromFile(k)
    <3>1. Loaded /\ k \in DOMAIN config /\ Accepts(t, config[k]) /\ env[units[k].env] = Unset
      BY <2>1, <2>3 DEF FromFile, InFile
    <3>2. IsValue(config[k])
      BY <3>1, FilesAssumption DEF ConfInv, ConfTypeOK
    <3> DEFINE v == IF Is(config[k], "number") THEN Number(Narrow(t, config[k].number)) ELSE config[k]
    <3>3. Typed(t, "file", v)
      BY <3>1, <3>2, FileTyped
    <3>4. Give(k, "file", v)
      BY <1>2, <2>3 DEF Get
    <3> HIDE DEF v
    <3> QED BY <2>1, <3>1, <3>3, <3>4, GiveConf
  <2>4. CASE ~FromFile(k) /\ env[units[k].env] = Unset
    <3>1. Give(k, "default", Default(t))
      BY <1>2, <2>4 DEF Get
    <3>2. ~Loaded \/ k \notin DOMAIN config
      BY <2>1, <2>4 DEF FromFile, InFile, ConfInv, LoadedIsTyped, IsValid
    <3> QED BY <2>1, <2>4, <3>1, <3>2, DefaultTyped, GiveConf
  <2>5. CASE ~FromFile(k) /\ env[units[k].env] # Unset
    <3> DEFINE said == EnvSays(t, env[units[k].env])
    <3>1. IF said = {} THEN Refuse ELSE \E v \in said : Give(k, "env", v)
      BY <1>2, <2>5 DEF Get
    <3>2. IsValue(env[units[k].env])
      BY <2>2, <2>5, EnvironmentsAssumption DEF ConfInv, ConfTypeOK
    <3>3. \A v \in said : Typed(t, "env", v)
      BY <3>2, EnvTyped
    <3> HIDE DEF said
    <3>4. CASE Refuse
      BY <3>4, RefuseConf
    <3>5. CASE \E v \in said : Give(k, "env", v)
      <4>1. PICK v \in said : Give(k, "env", v)
        BY <3>5
      <4>2. Typed(t, "env", v)
        BY <3>3
      <4> QED BY <2>1, <4>1, <4>2, GiveConf
    <3> QED BY <3>1, <3>4, <3>5
  <2> QED BY <2>3, <2>4, <2>5
<1> QED BY <1>1, <1>2

LEMMA StutterConf ==
  ASSUME ConfInv, UNCHANGED vars
  PROVE  ConfInv'
  BY DEF vars, ConfInv, UnitsOK, GivenOK, ConfTypeOK, LoadedIsTyped, IsValid, MostSpecificFirst, Loaded

(* The inductive invariant. *)
LEMMA ConfInvHolds == Spec => []ConfInv
<1>1. Init => ConfInv
  BY InitConf
<1>2. ConfInv /\ [Next]_vars => ConfInv'
  <2> SUFFICES ASSUME ConfInv, [Next]_vars PROVE ConfInv'
    OBVIOUS
  <2>1. CASE UNCHANGED vars
    BY <2>1, StutterConf
  <2>2. ASSUME NEW k \in Keys \union {NoName}, NEW e \in EnvNames \union {NoName}, NEW t \in Types,
               AddUnit(k, e, t)
        PROVE  ConfInv'
    BY <2>2, AddUnitConf
  <2>3. ASSUME NEW file \in Files, Load(file) PROVE ConfInv'
    BY <2>3, LoadConf
  <2>4. CASE LoadFails
    BY <2>4, RefuseConf DEF LoadFails
  <2>5. ASSUME NEW k \in Keys \union {NoName}, NEW t \in Types, Get(k, t) PROVE ConfInv'
    BY <2>5, GetConf
  <2> QED BY <2>1, <2>2, <2>3, <2>4, <2>5 DEF Next
<1> QED BY <1>1, <1>2, PTL DEF Spec

-----------------------------------------------------------------------------
(* What is read *)

(* A value given to a unit says what its source says. *)
Faithful(k, origin, v) ==
  LET u == units[k] IN
  /\ origin = "file" =>
       \/ v = config[k]
       \/ Is(config[k], "number") /\ ~InRange(u.type, config[k].number)
  /\ origin = "env" /\ u.type # "list" => v = env[u.env]
  /\ origin = "env" /\ u.type = "list" =>
       \A list \in Lists : env[u.env] = Text(Written(list)) => v.list = list

LEMMA FileFaithful ==
  ASSUME NEW k, NEW t, IsValue(config[k]), units[k].type = t
  PROVE  Faithful(k, "file", IF Is(config[k], "number") THEN Number(Narrow(t, config[k].number)) ELSE config[k])
<1>1. CASE Is(config[k], "number")
  <2>1. config[k].number \in Int /\ config[k] = Number(config[k].number)
    BY <1>1, OneKind
  <2>2. InRange(t, config[k].number) => Narrow(t, config[k].number) = config[k].number
    BY <2>1, NarrowFits
  <2>3. InRange(t, config[k].number) => Number(Narrow(t, config[k].number)) = config[k]
    BY <2>1, <2>2
  <2> QED BY <1>1, <2>3 DEF Faithful
<1>2. CASE ~Is(config[k], "number")
  BY <1>2 DEF Faithful
<1> QED BY <1>1, <1>2

LEMMA EnvFaithful ==
  ASSUME NEW k, NEW t \in Types, IsValue(env[units[k].env]), units[k].type = t,
         NEW v \in EnvSays(t, env[units[k].env])
  PROVE  Faithful(k, "env", v)
<1> DEFINE text == env[units[k].env]
<1>1. CASE t \in {"int", "int64"}
  <2>1. Is(text, "number") /\ InRange(t, text.number) /\ v = Number(Narrow(t, text.number))
    BY <1>1 DEF EnvSays
  <2>2. text.number \in Int /\ text = Number(text.number)
    BY <2>1, OneKind
  <2>3. Narrow(t, text.number) = text.number
    BY <2>1, <2>2, NarrowFits
  <2>4. v = text
    BY <2>1, <2>2, <2>3
  <2> QED BY <1>1, <2>4 DEF Faithful
<1>2. CASE t = "string"
  <2>1. v = text
    BY <1>2 DEF EnvSays
  <2> QED BY <1>2, <2>1 DEF Faithful
<1>3. CASE t = "list"
  <2>1. v = List(IF Is(text, "text") THEN SplitEscaped(text.text) ELSE <<text>>)
    BY <1>3 DEF EnvSays
  <2>2. ASSUME NEW list \in Lists, text = Text(Written(list)) PROVE v.list = list
    <3>1. Is(text, "text") /\ text.text = Written(list)
      BY <2>2 DEF Text, Is
    <3>2. v = List(SplitEscaped(Written(list)))
      BY <2>1, <3>1
    <3>3. list \in Seq(Strings) /\ list # <<>>
      BY ListsAssumption DEF Strings
    <3>4. SplitEscaped(Written(list)) = list
      BY <3>3, SplitUndoesWritten
    <3>5. v = List(list)
      BY <3>2, <3>4
    <3> QED BY <3>5 DEF List
  <2>3. units[k].type = "list"
    BY <1>3
  <2> QED BY <2>2, <2>3 DEF Faithful
<1>4. CASE t = "bool"
  BY <1>4 DEF EnvSays
<1> QED BY <1>1, <1>2, <1>3, <1>4 DEF Types

LEMMA GiveReads ==
  ASSUME NEW k, NEW origin, NEW v, Faithful(k, origin, v), Give(k, origin, v)
  PROVE  ReadsAsWritten'
<1>1. units' = units /\ config' = config /\ env' = env
  BY DEF Give
<1>2. answer' = Crash \/ answer' = Value(k, origin, v)
  BY DEF Give
<1>3. CASE answer' = Crash
  <2>1. answer'.outcome # "value"
    BY <1>3 DEF Crash
  <2> QED BY <2>1 DEF ReadsAsWritten
<1>4. CASE answer' = Value(k, origin, v)
  <2>1. answer'.key = k /\ answer'.origin = origin /\ answer'.value = v
    BY <1>4 DEF Value
  <2> QED BY <1>1, <2>1 DEF ReadsAsWritten, Faithful
<1> QED BY <1>2, <1>3, <1>4

LEMMA GetReads ==
  ASSUME ConfInv, NEW k \in Keys \union {NoName}, NEW t \in Types, Get(k, t),
         answer'.outcome = "value"
  PROVE  ReadsAsWritten'
<1>1. k \in Keys /\ units[k] # NoUnit /\ units[k].type = t
  BY DEF Get, Casts, Refuse, Throws
<1>2. units[k].env \in EnvNames
  BY <1>1 DEF ConfInv, UnitsOK
<1>3. CASE FromFile(k)
  <2>1. IsValue(config[k])
    BY <1>3, FilesAssumption DEF FromFile, InFile, ConfInv, ConfTypeOK
  <2> DEFINE v == IF Is(config[k], "number") THEN Number(Narrow(t, config[k].number)) ELSE config[k]
  <2>2. Give(k, "file", v)
    BY <1>1, <1>3 DEF Get, Refuse, Throws
  <2>3. Faithful(k, "file", v)
    BY <1>1, <2>1, FileFaithful
  <2> HIDE DEF v
  <2> QED BY <2>2, <2>3, GiveReads
<1>4. CASE ~FromFile(k) /\ env[units[k].env] = Unset
  <2>1. Give(k, "default", Default(t))
    BY <1>1, <1>4 DEF Get, Refuse, Throws
  <2>2. Faithful(k, "default", Default(t))
    BY DEF Faithful
  <2> QED BY <2>1, <2>2, GiveReads
<1>5. CASE ~FromFile(k) /\ env[units[k].env] # Unset
  <2> DEFINE said == EnvSays(t, env[units[k].env])
  <2>1. \E v \in said : Give(k, "env", v)
    BY <1>1, <1>5 DEF Get, Refuse, Throws
  <2>2. IsValue(env[units[k].env])
    BY <1>2, <1>5, EnvironmentsAssumption DEF ConfInv, ConfTypeOK
  <2>3. \A v \in said : Faithful(k, "env", v)
    BY <1>1, <2>2, EnvFaithful
  <2> HIDE DEF said
  <2>4. PICK v \in said : Give(k, "env", v)
    BY <2>1
  <2> QED BY <2>3, <2>4, GiveReads
<1> QED BY <1>3, <1>4, <1>5

LEMMA ReadsStep ==
  ASSUME ConfInv, ReadsAsWritten, [Next]_vars
  PROVE  ReadsAsWritten'
<1>1. CASE UNCHANGED vars
  BY <1>1 DEF vars, ReadsAsWritten
<1>2. CASE answer'.outcome # "value"
  BY <1>2 DEF ReadsAsWritten
<1>3. CASE Next /\ answer'.outcome = "value"
  <2>1. ASSUME NEW k \in Keys \union {NoName}, NEW e \in EnvNames \union {NoName}, NEW t \in Types,
               AddUnit(k, e, t)
        PROVE  FALSE
    BY <1>3, <2>1 DEF AddUnit, Refuse, Throws, Done
  <2>2. ASSUME NEW file \in Files, Load(file) PROVE FALSE
    BY <1>3, <2>2 DEF Load, Refuse, Throws, Done
  <2>3. CASE LoadFails
    BY <1>3, <2>3 DEF LoadFails, Refuse, Throws
  <2>4. ASSUME NEW k \in Keys \union {NoName}, NEW t \in Types, Get(k, t) PROVE ReadsAsWritten'
    BY <1>3, <2>4, GetReads
  <2> QED BY <1>3, <2>1, <2>2, <2>3, <2>4 DEF Next
<1> QED BY <1>1, <1>2, <1>3

-----------------------------------------------------------------------------
(* The theorems *)

(* What get returns is of the type that was asked for, an int among those  *)
(* an int can be, whatever the file and the variables hold and in whatever *)
(* order the calls come.                                                   *)
THEOREM ConfTypeCorrect == Spec => []ConfTypeOK
  BY ConfInvHolds, PTL DEF ConfInv

(* What is loaded is valid for every unit there is and will be: addUnit    *)
(* refuses after load, and load validates.                                 *)
THEOREM LoadedStaysTyped == Spec => []LoadedIsTyped
  BY ConfInvHolds, PTL DEF ConfInv

(* A variable hides the file, and the file the default; the latter because *)
(* what the file says to a unit is always of its type.                     *)
THEOREM VariableThenFileThenDefault == Spec => []MostSpecificFirst
  BY ConfInvHolds, PTL DEF ConfInv

(* What get returns says what its source says: a list written with escapes *)
(* is read as that list, whatever its items, and a number as that number.  *)
THEOREM ReadAsItWasWritten == Spec => []ReadsAsWritten
<1>1. Init => ReadsAsWritten
  BY DEF Init, Done, ReadsAsWritten
<1>2. ConfInv /\ ReadsAsWritten /\ [Next]_vars => ReadsAsWritten'
  BY ReadsStep
<1>3. Spec => []ConfInv
  BY ConfInvHolds
<1> QED BY <1>1, <1>2, <1>3, PTL DEF Spec
=============================================================================
