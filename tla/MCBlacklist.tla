---------------------------- MODULE MCBlacklist ----------------------------
(***************************************************************************)
(* Blacklist for two rows and two phones: DataDelThread's timestamp is     *)
(* below, at and above those that are given, and a batch is one row.       *)
(***************************************************************************)
EXTENDS Blacklist, TLC

Symmetry == Permutations(Row) \cup Permutations(Phone)

\* Where one kind of mishap has happened, to one answer, and a row has a
\* timestamp of its own.
Telling ==
  /\ Cardinality(cause) <= 1 /\ Cardinality(misled) <= 1
  /\ misled # {} => cause = {} /\ del = "select" /\ high < MaxTime
  /\ Present = {} \/ Present \ behind # {}
=============================================================================
