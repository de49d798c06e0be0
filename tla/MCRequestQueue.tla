--------------------------- MODULE MCRequestQueue ---------------------------
(***************************************************************************)
(* RequestQueue on a pool of 3 threads and a ring of 3 slots (2 usable),   *)
(* with 4 connections: the ring wraps and fills, threads are all waiting   *)
(* or all busy, a connection may wait for a thread while all are held, and *)
(* the 3 pills do not fit in the ring at once.                             *)
(***************************************************************************)
EXTENDS RequestQueue

CONSTANTS c1, c2, c3, c4   \* model values, the connections

Clients == {c1, c2, c3, c4}
=============================================================================
