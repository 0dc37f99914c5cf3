------------------------ MODULE MCReservationProtocol ------------------------
(***************************************************************************)
(* An instance of ReservationProtocol for TLC: three operations, two of    *)
(* them of the same user.                                                  *)
(***************************************************************************)
EXTENDS ReservationProtocol, TLC

CONSTANTS alice, bob, r1, r2, r3

MCOwner == r1 :> alice @@ r2 :> alice @@ r3 :> bob

MCInitialBalance == alice :> 2 @@ bob :> 1
===============================================================================
