------------------------------ MODULE MCSignIn ------------------------------
(* Instances of SignIn for TLC: a local account and one of Keycloak, tabs  *)
(* of one browser.                                                         *)
EXTENDS SignIn, TLC

CONSTANTS ann, kim, b1

OneJar == [t \in Tab |-> b1]
TabSymmetry == Permutations(Tab)
=============================================================================
