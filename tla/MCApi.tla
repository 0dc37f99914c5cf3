--------------------------------- MODULE MCApi ---------------------------------
(***************************************************************************)
(* An instance of Api for TLC.                                             *)
(***************************************************************************)
EXTENDS Api

CONSTANTS alice, r1, r2, w1, w2
===============================================================================
