--------------------------- MODULE GenericIndexMC ---------------------------
(* Instances of GenericIndex for TLC.                                       *)
EXTENDS GenericIndex, TLC

NegativeToo == {-2, 0}
=============================================================================
