-------------------------------- MODULE MCLoader --------------------------------
(***************************************************************************)
(* A heap of two units that may be mapped at one of two places, with room  *)
(* to ask for more than it has.                                            *)
(***************************************************************************)
EXTENDS Loader

MCAddresses == 1 .. 4
================================================================================
