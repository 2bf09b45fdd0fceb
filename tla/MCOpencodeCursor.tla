-------------------------- MODULE MCOpencodeCursor --------------------------
(***************************************************************************)
(* A message and a part, finished in either order while the other table is *)
(* being read, in a database that is created anew.                         *)
(***************************************************************************)
EXTENDS OpencodeCursor

CONSTANTS m1, p1
=============================================================================
