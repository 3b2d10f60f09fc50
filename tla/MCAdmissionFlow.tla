--------------------------- MODULE MCAdmissionFlow ---------------------------
(***************************************************************************)
(* One movie with one seat.  The configurations: one user and two          *)
(* goroutines (a handler and a sweep, two sweeps, ... at once); two users  *)
(* and one goroutine (a line, and batches of both topics).                 *)
(***************************************************************************)
EXTENDS AdmissionFlow
==============================================================================
