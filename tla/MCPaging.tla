------------------------------ MODULE MCPaging ------------------------------
(* Databases of up to five keys, three of which have the prefix; int32_t   *)
(* and unsigned int have five bits.                                        *)
EXTENDS Paging

FiveKeys      == 1..5
EvenAndLast   == {2, 4, 5}
SmallAndLarge == {-16, -1, 0, 1, 2, 3, 9, 15}
=============================================================================
