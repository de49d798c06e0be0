---------------------------- MODULE MCCallRelay ----------------------------
(***************************************************************************)
(* CallRelay with 3 clients, so that one can be refused while another's    *)
(* thread starts and a third come later, and 2 commands.                   *)
(***************************************************************************)
EXTENDS CallRelay

CONSTANTS c1, c2, c3   \* model values, the clients

Clients == {c1, c2, c3}
=============================================================================
