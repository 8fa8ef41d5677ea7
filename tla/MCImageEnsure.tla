--------------------------- MODULE MCImageEnsure ----------------------------
(* Instances of ImageEnsure for TLC.                                       *)
EXTENDS ImageEnsure
=============================================================================
