---------------------------- MODULE MCRepository ---------------------------
(* A small instance of Repository: two files, two contents, two branches.    *)
EXTENDS Repository, TLC

CONSTANTS x, y, main, topic

Working == {"edit", "add", "commit"}

\* One set of commands for each way the commands interfere.
Scenarios ==
  { \* diverging branches, conflicts, commits that complete or abandon a merge
    [can |-> Working \cup {"rm", "branch", "checkout", "merge"},
     edits |-> 2, commits |-> 4],
    \* commands killed between two writes
    [can |-> Working \cup {"amend", "kill"}, edits |-> 2, commits |-> 3],
    [can |-> Working \cup {"fetch", "merge", "kill"}, edits |-> 1, commits |-> 4],
    \* shelved and abandoned work across gc
    [can |-> Working \cup {"stash", "gc", "reset"}, edits |-> 2, commits |-> 3],
    [can |-> Working \cup {"branch", "checkout", "delete", "move", "tag", "gc"},
     edits |-> 2, commits |-> 2],
    [can |-> Working \cup {"fetch", "merge", "gc"}, edits |-> 2, commits |-> 3],
    \* replayed commits
    [can |-> Working \cup {"branch", "checkout", "cherry", "rebase", "textual"},
     edits |-> 3, commits |-> 4],
    [can |-> Working \cup {"fetch", "merge", "textual"}, edits |-> 2, commits |-> 4],
    [can |-> Working \cup {"amend", "interactive"}, edits |-> 3, commits |-> 4],
    \* sparse checkouts and checkouts of a commit
    [can |-> Working \cup {"branch", "checkout", "detach", "sparse"},
     edits |-> 2, commits |-> 2] }

\* Contents are only compared.
ContentSymmetry == Permutations({x, y})

=============================================================================
