------------------------------ MODULE MCMedia ------------------------------
(* Instances of Media for TLC.                                             *)
EXTENDS Media, TLC

CONSTANTS a1, a2, u, p1

OneOwner == [a \in Asset |-> u]
OneAuthor == [p \in Post |-> u]
=============================================================================
