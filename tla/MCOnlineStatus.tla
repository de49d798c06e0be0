--------------------------- MODULE MCOnlineStatus ---------------------------
(***************************************************************************)
(* OnlineStatus for two users, who are due one tick after a heartbeat.     *)
(***************************************************************************)
EXTENDS OnlineStatus
=============================================================================
