-------------------------- MODULE MCGpsForwarder --------------------------
(***************************************************************************)
(* GpsForwarder for three points.                                          *)
(***************************************************************************)
EXTENDS GpsForwarder
=============================================================================
