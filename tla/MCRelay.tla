------------------------------ MODULE MCRelay ------------------------------
(* Small instances of Relay. *)
EXTENDS Relay, TLC

CONSTANTS a, b, c1, c2, c3

\* Peers run the same program and connections are interchangeable.
RelaySymmetry == Permutations({a, b}) \cup Permutations({c1, c2, c3})

=============================================================================
