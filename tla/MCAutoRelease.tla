--------------------------- MODULE MCAutoRelease ---------------------------
(***************************************************************************)
(* Instances of AutoRelease for TLC.                                       *)
(***************************************************************************)
EXTENDS AutoRelease, MCEscrow

MCOrderFee == [o \in Orders |-> 1]
=============================================================================
