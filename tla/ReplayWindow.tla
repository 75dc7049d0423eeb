---------------------------- MODULE ReplayWindow ----------------------------
(***************************************************************************)
(* ReplayWindow of origin-channel: the replay detector as the code stores  *)
(* it, a bitmap of machine words whose bit i stands for the number         *)
(* floor + i, shifted down when the window moves.  A word has WordBits     *)
(* bits (64 in the code, a parameter here so that the shifts across words  *)
(* happen in small instances) and is the set of the bits that are 1.       *)
(***************************************************************************)
EXTENDS WindowOps

CONSTANTS
  WordBits,  \* bits of a word
  Seqs       \* the sequence numbers offered

ASSUME WordsAssumption == WordBits \in Nat \ {0} /\ Seqs \subseteq Nat

VARIABLES highest, bitmap, initialized, answer

windowVars == <<highest, bitmap, initialized, answer>>

\* window_size.div_ceil(64)
Words == (Window + WordBits - 1) \div WordBits

Bits == 0..WordBits - 1

NoBits == [i \in 0..Words - 1 |-> {}]

GetBit(bits, offset) ==
  LET word == offset \div WordBits
  IN  word < Words /\ offset % WordBits \in bits[word]

SetBit(bits, offset) ==
  LET word == offset \div WordBits
  IN  IF word < Words
      THEN [bits EXCEPT ![word] = @ \cup {offset % WordBits}]
      ELSE bits

\* word >> k and word << k: bits moved past either end are lost
ShiftRight(word, k) == {b \in Bits : b + k \in word}
ShiftLeft(word, k) == {b \in Bits : b - k \in word}

ShiftWords(bits, k) ==
  [i \in 0..Words - 1 |-> IF i + k < Words THEN bits[i + k] ELSE {}]

\* each word moves down k bits and takes the low k bits of the next one
ShiftBits(bits, k) ==
  [i \in 0..Words - 1 |->
     ShiftRight(bits[i], k)
       \cup (IF i + 1 < Words THEN ShiftLeft(bits[i + 1], WordBits - k) ELSE {})]

AdvanceWordsOnly(bits, shift) ==
  IF shift >= Window THEN NoBits ELSE ShiftWords(bits, shift \div WordBits)

Advance(bits, shift) ==
  IF shift >= Window
  THEN NoBits
  ELSE LET moved == ShiftWords(bits, shift \div WordBits)
       IN  IF shift % WordBits > 0 THEN ShiftBits(moved, shift % WordBits) ELSE moved

WindowInit ==
  /\ highest = 0 /\ bitmap = NoBits /\ initialized = FALSE
  /\ answer = [seq |-> 0, ok |-> FALSE]

Answer(seq, ok) ==
  answer' = [seq |-> seq, ok |-> ok]

\* the first message of a session sets the window's position
AcceptFirst(seq) ==
  /\ ~initialized
  /\ initialized' = TRUE
  /\ highest' = seq
  /\ bitmap' = SetBit(bitmap, seq - Floor(seq))
  /\ Answer(seq, TRUE)

\* below the floor: refused, nothing changes
AcceptBelow(seq) ==
  /\ initialized
  /\ seq < Floor(highest)
  /\ Answer(seq, FALSE)
  /\ UNCHANGED <<highest, bitmap, initialized>>

\* the bitmap once the window has moved
Moved(shift) == IF shift > 0 THEN Advance(bitmap, shift) ELSE bitmap

\* the window moves by as much as its floor does, not by as much as highest does
AcceptAhead(seq) ==
  /\ initialized
  /\ seq > highest
  /\ LET shift == Floor(seq) - Floor(highest)
         moved == Moved(shift)
         offset == seq - Floor(seq)
     IN  /\ bitmap' = IF GetBit(moved, offset) THEN moved ELSE SetBit(moved, offset)
         /\ Answer(seq, ~GetBit(moved, offset))
  /\ highest' = seq
  /\ UNCHANGED initialized

AcceptWithin(seq) ==
  /\ initialized
  /\ seq \in Floor(highest)..highest
  /\ LET offset == seq - Floor(highest)
         fresh == offset < Window /\ ~GetBit(bitmap, offset)
     IN  /\ bitmap' = IF fresh THEN SetBit(bitmap, offset) ELSE bitmap
         /\ Answer(seq, fresh)
  /\ UNCHANGED <<highest, initialized>>

Accept(seq) ==
  AcceptFirst(seq) \/ AcceptBelow(seq) \/ AcceptAhead(seq) \/ AcceptWithin(seq)

WindowNext == \E seq \in Seqs : Accept(seq)

WindowSpec == WindowInit /\ [][WindowNext]_windowVars

-----------------------------------------------------------------------------

\* the accepted numbers that a bitmap stands for
Recent(top, bits) == {Floor(top) + o : o \in {i \in 0..Window - 1 : GetBit(bits, i)}}

Abstract == INSTANCE SlidingWindow WITH
  window <- [highest |-> highest, recent |-> Recent(highest, bitmap),
             initialized |-> initialized]

\* The bitmap answers every offer exactly as the set of recently accepted
\* numbers would: in particular a fresh number inside the window is never
\* refused because a shift left a stale bit behind.
ImplementsSlidingWindow == Abstract!Spec

=============================================================================
