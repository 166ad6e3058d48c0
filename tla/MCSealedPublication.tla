------------------------- MODULE MCSealedPublication -------------------------
(***************************************************************************)
(* Instances of SealedPublication for TLC.  Inodes are only ever compared, *)
(* so handing them out in increasing order loses no behaviour up to        *)
(* renaming.                                                               *)
(***************************************************************************)
EXTENDS PublicationRefinement

CONSTANTS s1, s2, b1, b2

LowestFree(free) == {i \in free : \A j \in free : i <= j}
=============================================================================
