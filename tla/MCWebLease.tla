---------------------------- MODULE MCWebLease ----------------------------
(***************************************************************************)
(* WebLease for two servers and three devices.                             *)
(***************************************************************************)
EXTENDS WebLease
=============================================================================
