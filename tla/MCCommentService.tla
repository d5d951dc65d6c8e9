-------------------------- MODULE MCCommentService --------------------------
(* Instances of CommentService for TLC: an admin, a worker with profile e1,*)
(* a long text with its excerpt and a short one.                           *)
EXTENDS CommentService, TLC

CONSTANTS admin, worker, e1, e2, long, cut, short

MCRoleOf == [u \in Users |-> IF u = admin THEN "ADMIN" ELSE "EMPLOYEE"]
MCProfileOf == [u \in Users |-> IF u = worker THEN e1 ELSE Null]
MCExcerpt == [x \in Contents |-> IF x = long THEN cut ELSE x]

RequestSymmetry == Permutations(Requests)
=============================================================================
