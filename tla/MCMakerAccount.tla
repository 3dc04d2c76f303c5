--------------------------- MODULE MCMakerAccount ---------------------------
(***************************************************************************)
(* Two markets with lopsided limits: in "a" the maker rests orders and     *)
(* sends jit instructions, in "b" it only rests orders.                    *)
(***************************************************************************)
EXTENDS MakerAccount

TwoMarkets == {"a", "b"}
JitIn      == {"a"}
Range(max, min) == [max |-> max, min |-> min, bid |-> 0, ask |-> 0,
                    type |-> "Limit"]
TwoLimits  == [a |-> Range(4, -2), b |-> Range(2, -1)]
FewSizes   == {1, 2, 5}
=============================================================================
