---------------------------- MODULE MCResilience ----------------------------
(* Resilience for TLC: the requests are interchangeable.                    *)
EXTENDS Resilience, TLC

RequestSymmetry == Permutations(Callers)

=============================================================================
