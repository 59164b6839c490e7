------------------------------- MODULE MCConf -------------------------------
(* Two keys and two variables; the first variable has any value, lists of  *)
(* one or two items among them.  int has three bits.                       *)
EXTENDS Conf

CONSTANTS k1, k2, e1, e2

TwoKeys == {k1, k2}
TwoEnvNames == {e1, e2}

ThreeCharacters == {Separator, Escape, "x"}
Items == {<<>>, <<"x">>} \union {<<c>> : c \in {Separator, Escape}}
           \union {<<c, d>> : c, d \in {Separator, Escape}}
ItemLists == {<<i>> : i \in Items} \union {<<i, j>> : i, j \in Items}

(* Texts that are not what anybody writes: an escape at the end, or before *)
(* another character.                                                      *)
OddTexts == {<<Escape>>, <<Escape, "x">>, <<Separator, Escape>>}

Values ==
  {Text(Written(l)) : l \in ItemLists} \union {Text(t) : t \in OddTexts}
    \union {Number(n) : n \in {-5, -4, 3, 4}} \union {Boolean(TRUE)}

TwoVariables ==
  {[e \in TwoEnvNames |-> IF e = e1 THEN v ELSE w] : v \in Values \union {Unset}, w \in {Unset, Number(1)}}

FileValues ==
  {Number(n) : n \in {-5, 3, 4}} \union {Text(<<"x">>), Boolean(TRUE), List(<<>>), List(<< <<"x">> >>)}
SomeFiles ==
  {<<>>} \union {[k \in {k1} |-> v] : v \in FileValues} \union {[k \in TwoKeys |-> Number(3)]}
=============================================================================
