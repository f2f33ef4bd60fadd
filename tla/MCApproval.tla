----------------------------- MODULE MCApproval -----------------------------
(* Instances of Approval for TLC.  The sessions and the posts are          *)
(* interchangeable; the users are not, one of them may be the manager.     *)
EXTENDS Approval, TLC

Symmetry == Permutations(Session) \cup Permutations(Post)
=============================================================================
