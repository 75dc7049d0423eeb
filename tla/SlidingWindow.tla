--------------------------- MODULE SlidingWindow ---------------------------
(***************************************************************************)
(* What the replay detector of origin-channel promises to its caller: a    *)
(* number is answered Ok the first time it is offered, provided it has not *)
(* fallen below the window, and never again.                               *)
(***************************************************************************)
EXTENDS WindowOps

CONSTANT Seqs    \* the sequence numbers offered

VARIABLES window, answer

vars == <<window, answer>>

NoAnswer == [seq |-> 0, ok |-> FALSE]

Init == window = EmptyWindow /\ answer = NoAnswer

Accept(seq) ==
  /\ answer' = [seq |-> seq, ok |-> Accepts(window, seq)]
  /\ window' = IF Accepts(window, seq) THEN Marked(window, seq) ELSE window

Next == \E seq \in Seqs : Accept(seq)

Spec == Init /\ [][Next]_vars

=============================================================================
