--------------------------- MODULE MCVioPacking ---------------------------
(***************************************************************************)
(* VioPacking for two records, two packages and two users, one of whom     *)
(* sees only the first record.                                             *)
(***************************************************************************)
EXTENDS VioPacking, TLC

CONSTANTS v1, v2, chief, officer

MCVio == {v1, v2}
MCUser == {chief, officer}
MCVisible == (chief :> MCVio) @@ (officer :> {v1})

Symmetry == Permutations(Pack)

\* Where one kind of mishap has happened and a record is still accounted for.
Telling == (mixed = {} \/ unmarked = {}) /\ excused # Vio
=============================================================================
