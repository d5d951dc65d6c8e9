--------------------------- MODULE MCTaskService ---------------------------
(* Instances of TaskService for TLC: an admin without a profile and a      *)
(* worker with profile e1.  (A manager may do what an admin may, except    *)
(* delete.)                                                                *)
EXTENDS TaskService, TLC

CONSTANTS admin, worker,     \* users
          e1, e2             \* employee profiles

MCRoleOf == [u \in Users |-> IF u = admin THEN "ADMIN" ELSE "EMPLOYEE"]
MCProfileOf == [u \in Users |-> IF u = worker THEN e1 ELSE Null]

MCFields == {"title"}

RequestSymmetry == Permutations(Requests)
=============================================================================
