------------------------------ MODULE MCOutbox ------------------------------
(* Instances of Outbox for TLC.                                            *)
EXTENDS Outbox, TLC

Symmetry == Permutations(Worker) \cup Permutations(Event)
=============================================================================
