------------------------------ MODULE TextMerge ------------------------------
(***************************************************************************)
(* The line-by-line three-way merge of origin-vcs (textmerge.rs).  A file  *)
(* is a sequence of lines, a line a number.  myers aligns each side with   *)
(* the base through a longest common subsequence and leaves one edit per   *)
(* base line; fold applies the edits of both sides, line by line, and      *)
(* reports a conflict where they differ.                                   *)
(***************************************************************************)
EXTENDS Naturals, Sequences, SequencesExt

CONSTANTS
  Bases,       \* the files both sides start from
  Sides        \* what a side may have made of one

VARIABLE sides   \* base, ours and theirs of the merge under way
textVars == <<sides>>

TextInit == sides = [base |-> <<>>, ours |-> <<>>, theirs |-> <<>>]

-----------------------------------------------------------------------------
Keep == [keep |-> TRUE, lines |-> <<>>]
Replace(lines) == [keep |-> FALSE, lines |-> lines]

\* dp[i][j]: the length of the longest common subsequence of what is left of
\* the base from its i-th line and of the target from its j-th
Lcs(base, target) ==
  LET dp[i \in 1..Len(base) + 1, j \in 1..Len(target) + 1] ==
        CASE i > Len(base) \/ j > Len(target) -> 0
          [] i <= Len(base) /\ j <= Len(target) /\ base[i] = target[j] ->
               dp[i + 1, j + 1] + 1
          [] OTHER -> IF dp[i + 1, j] > dp[i, j + 1] THEN dp[i + 1, j]
                                                     ELSE dp[i, j + 1]
  IN  dp

\* the backtrace prefers to hold a target line back as inserted
CanInsertLate(dp, target, i, j) == j <= Len(target) /\ dp[i, j + 1] > dp[i + 1, j]
CanInsert(dp, target, i, j) == j <= Len(target) /\ dp[i, j + 1] >= dp[i + 1, j]

\* the lines held back become the edit of the base line they end before, a
\* matched line's too, and of the last line once the base is used up
Matched(held) == IF held = <<>> THEN Keep ELSE Replace(held)

Trace(base, target, dp) ==
  LET N == Len(base)
      Edits[i \in 1..N + 1, j \in 1..Len(target) + 1, from \in 1..Len(target) + 1] ==
        LET held == SubSeq(target, from, j - 1)
        IN  CASE i > N -> <<>>
              [] /\ i <= N /\ j <= Len(target) /\ base[i] = target[j]
                 /\ dp[i, j] = dp[i + 1, j + 1] + 1 ->
                   <<Matched(held)>> \o Edits[i + 1, j + 1, j + 1]
              [] /\ i <= N /\ ~ (j <= Len(target) /\ base[i] = target[j])
                 /\ CanInsert(dp, target, i, j) -> Edits[i, j + 1, from]
              [] OTHER -> <<Replace(held)>> \o Edits[i + 1, j, j]
  IN  Edits[1, 1, 1]

myers(base, target) == Trace(base, target, Lcs(base, target))

\* what the merge writes for one base line; the markers are left out, the
\* flag that they were written is kept
Pieces(line, o, t) ==
  CASE o.keep /\ t.keep -> [lines |-> <<line>>, conflict |-> FALSE]
    [] o.keep /\ ~ t.keep -> [lines |-> t.lines, conflict |-> FALSE]
    [] ~ o.keep /\ (t.keep \/ t.lines = o.lines) -> [lines |-> o.lines, conflict |-> FALSE]
    [] OTHER -> [lines |-> o.lines \o t.lines, conflict |-> TRUE]

fold(base, ours, theirs) ==
  LET parts == [i \in DOMAIN base |-> Pieces(base[i], ours[i], theirs[i])]
  IN  [lines |-> FlattenSeq([i \in DOMAIN base |-> parts[i].lines]),
       conflict |-> \E i \in DOMAIN base : parts[i].conflict]

Clean(lines) == [lines |-> lines, conflict |-> FALSE]
merge_lines(base, ours, theirs) ==
  CASE base = ours -> Clean(theirs)
    [] base # ours /\ base = theirs -> Clean(ours)
    [] base # ours /\ ours = theirs -> Clean(ours)
    [] OTHER -> fold(base, myers(base, ours), myers(base, theirs))

\* cmd_merge reaches a file both sides have
MergeText ==
  /\ sides.base = <<>>
  /\ \E base \in Bases : \E ours, theirs \in Sides[base] :
       sides' = [base |-> base, ours |-> ours, theirs |-> theirs]

TextNext == MergeText
TextSpec == TextInit /\ [][TextNext]_textVars

-----------------------------------------------------------------------------
Merged == merge_lines(sides.base, sides.ours, sides.theirs)

\* the sides changed lines where they stand, and no line stands twice
InPlace ==
  /\ Len(sides.ours) = Len(sides.base) /\ Len(sides.theirs) = Len(sides.base)
  /\ IsInjective(sides.base)
  /\ \A s \in {sides.ours, sides.theirs} : \A i, k \in DOMAIN s :
        s[i] = sides.base[k] => i = k

ThreeWay(b, o, t) == IF o = b THEN t ELSE o

\* lines changed where they stand merge line by line: the outcome is clean
\* only if no line was changed to two things, it is then the line-wise merge,
\* and whatever the outcome no new line of either side is lost, although
\* myers lumps neighbouring changes together and leaves gaps for the rest
EditsMergeByLine ==
  InPlace =>
    LET B == sides.base  O == sides.ours  T == sides.theirs
        clash == \E i \in DOMAIN B : O[i] # B[i] /\ T[i] # B[i] /\ O[i] # T[i]
    IN  /\ clash => Merged.conflict
        /\ ~ Merged.conflict =>
             Merged.lines = [i \in DOMAIN B |-> ThreeWay(B[i], O[i], T[i])]
        /\ \A i \in DOMAIN B : \A line \in {O[i], T[i]} \ {B[i]} :
             \E k \in DOMAIN Merged.lines : Merged.lines[k] = line
=============================================================================
