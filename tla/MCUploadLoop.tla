---------------------------- MODULE MCUploadLoop ----------------------------
(***************************************************************************)
(* UploadLoop with arrays of 3 paths (2 pictures) and batches of 6 rows,   *)
(* so that like in the code (5 and 10) the last row of a full batch is     *)
(* past both arrays; 7 records do not fit in one batch.                    *)
(***************************************************************************)
EXTENDS UploadLoop

\* Records with no, one and two pictures, and one that names more than it has
\* paths for.
Pictures ==
  [r \in 1 .. N |-> IF r = 2 THEN 0 ELSE IF r = 3 THEN 1
                    ELSE IF r = 4 THEN 3 ELSE 2]
\* One record of a full batch, and the one that waits for the next.
LaterDisposed == {3, 7}
=============================================================================
