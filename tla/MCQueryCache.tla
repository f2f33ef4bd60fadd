---------------------------- MODULE MCQueryCache ----------------------------
(* Instances of QueryCache for TLC.                                        *)
EXTENDS QueryCache, TLC

CONSTANTS p, q, posts, v1, v2

(* Two paths of one area, such as a list and one of its members.           *)
AreaOfBoth == [x \in {p, q} |-> posts]

(* One view changes between the two paths, the other keeps to one.         *)
PathsOfBoth == (v1 :> {p, q}) @@ (v2 :> {p})
=============================================================================
