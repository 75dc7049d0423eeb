----------------------------- MODULE WindowOps -----------------------------
(***************************************************************************)
(* The sliding replay window of origin-channel seen as a value: the        *)
(* highest sequence number accepted so far and the set of accepted numbers *)
(* that are still inside the window.  ReplayWindow shows that the bitmap   *)
(* of the code implements it; Channel uses it inside a session.            *)
(***************************************************************************)
EXTENDS Integers

CONSTANT Window  \* window_size: how many sequence numbers are tracked

ASSUME WindowAssumption == Window \in Nat \ {0}

\* highest.saturating_sub(window_size - 1): the lowest number still tracked
Floor(highest) == IF highest >= Window - 1 THEN highest - (Window - 1) ELSE 0

EmptyWindow == [highest |-> 0, recent |-> {}, initialized |-> FALSE]

\* accept(seq) answers Ok exactly for these
Accepts(w, seq) ==
  \/ ~w.initialized
  \/ seq >= Floor(w.highest) /\ seq \notin w.recent

\* the window after accept(seq) answered Ok
Marked(w, seq) ==
  LET top == IF w.initialized /\ w.highest >= seq THEN w.highest ELSE seq
  IN  [highest |-> top,
       recent |-> {s \in w.recent \cup {seq} : s >= Floor(top)},
       initialized |-> TRUE]

=============================================================================
