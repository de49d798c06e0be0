--------------------------- MODULE MCTicketNumbers ---------------------------
(***************************************************************************)
(* TicketNumbers with 2 phones, a record and 2 numbers, of which one may   *)
(* have two rows.                                                          *)
(***************************************************************************)
EXTENDS TicketNumbers, TLC

CONSTANTS d1, d2, v1

Devices == {d1, d2}
Records == {v1}
Symmetry == Permutations(Devices)

\* Once every number is in doubt there is little left to check.
SomeNumberIsSure == doubt # Number
=============================================================================
