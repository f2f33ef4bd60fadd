------------------------------- MODULE MCFeed -------------------------------
(* Feed on a small instance.                                               *)
EXTENDS Feed, TLC

CONSTANTS ann, me, t1, c1, p1, p2, r1, r2, s1, s2, s3

(* The older Moin, for her followers, is by ann; the newer one is mine.    *)
Authors == <<ann, me>>

(* Ties under p1; under p2 the older Moin comes first for who follows c1.  *)
Rankings ==
    [f \in Pref |->
        [followed \in SUBSET {ann, me, c1} |->
            {[p \in Post |-> IF f = p2 /\ p = 1 /\ c1 \in followed THEN 1 ELSE 0]}]]

Beginnings ==
    {[published |-> {1, 2}, follows |-> {ann, c1}, mutes |-> {}, blocks |-> {}],
     [published |-> {2}, follows |-> {ann}, mutes |-> {}, blocks |-> {}],
     [published |-> {1}, follows |-> {ann}, mutes |-> {ann}, blocks |-> {}],
     [published |-> {1, 2}, follows |-> {}, mutes |-> {}, blocks |-> {<<me, ann>>}]}

FeedSymmetry == Permutations(Request) \cup Permutations(Id)
=============================================================================
