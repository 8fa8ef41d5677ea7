--------------------------- MODULE MCPublication ----------------------------
(* Instances of Publication for TLC.                                       *)
EXTENDS Publication

MCOutputs == <<"first", "second">>
=============================================================================
