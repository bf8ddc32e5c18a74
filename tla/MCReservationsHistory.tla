------------------------ MODULE MCReservationsHistory ------------------------
(***************************************************************************)
(* The instances of MCReservations, watched.                               *)
(***************************************************************************)
EXTENDS MCReservations, ReservationsHistory
==============================================================================
