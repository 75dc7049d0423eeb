-------------------------------- MODULE Mmr ---------------------------------
(***************************************************************************)
(* origin-proof: the Merkle mountain range, its append with carries, its   *)
(* root, and membership proofs, over a state file several `append`         *)
(* commands load and save.  A hash is the sequence of what was hashed, so  *)
(* that a leaf of 64 bytes and an untagged node hash alike.                *)
(***************************************************************************)
EXTENDS Naturals, Sequences, SequencesExt

CONSTANTS Data_,          \* what is appended: <<d>>, or the two hashes a leaf may consist of
          Appenders,      \* `origin-proof append` processes
          MaxLeaves,      \* bound: leaves in the state file
          MaxAppends      \* bound: append commands

VARIABLES mmr,            \* the state file
          loaded,         \* appender -> the state it loaded
          slip,           \* a membership proof kept from some earlier time, and its state's leaves
          appends

mmrVars == <<mmr, loaded, slip, appends>>

\* blake3 of the data; of NODE_DOMAIN and two hashes; of two hashes (parent_hash).
LeafHash(d) == d
NodeHashFor(version, a, b) == IF version >= 3 THEN <<"node", a, b>> ELSE <<a, b>>

\* Data that are two hashes put together: 64 bytes which parent_hash hashes too.
Joined(d) == Len(d) = 2

\* Mountain: its height, and its nodes level by level from the leaves up.
LevelOffset(m, l) == 2^(m.height + 1) - 2^(m.height - l + 1)
LevelCount(m, l) == 2^(m.height - l)
GetNode(m, level, index) == m.nodes[LevelOffset(m, level) + index + 1]
Peak(m) == Last(m.nodes)
Level(m, l) == SubSeq(m.nodes, LevelOffset(m, l) + 1, LevelOffset(m, l) + LevelCount(m, l))

MergeSideBySide(left, right, version) ==
    [height |-> left.height + 1,
     nodes |-> left.nodes \o right.nodes \o <<NodeHashFor(version, Peak(left), Peak(right))>>]
MergeWith(left, right, version) ==
    [height |-> left.height + 1,
     nodes |-> FlattenSeq([l \in 1..(left.height + 1) |-> Level(left, l - 1) \o Level(right, l - 1)])
               \o <<NodeHashFor(version, Peak(left), Peak(right))>>]

\* auth_path: the sibling at every level, and whether the node itself is a left child.
AuthPath(m, leaf) ==
    [k \in 1..m.height |->
        LET idx == leaf \div 2^(k - 1) IN
        [hash |-> GetNode(m, k - 1, IF idx % 2 = 0 THEN idx + 1 ELSE idx - 1),
         is_left |-> idx % 2 = 0]]

\* append_hash: merge with the last mountain while it is as high.
RECURSIVE Carry(_, _, _)
Carry(mountains, m, version) ==
    IF mountains # <<>> /\ Last(mountains).height = m.height
    THEN Carry(Front(mountains), MergeWith(Last(mountains), m, version), version)
    ELSE Append(mountains, m)
AppendHash(s, d) ==
    [s EXCEPT !.mountains = Carry(s.mountains, [height |-> 0, nodes |-> <<LeafHash(d)>>], s.version),
              !.leaf_count = @ + 1, !.given = Append(@, d)]

Peaks(s) == [k \in 1..Len(s.mountains) |-> Peak(s.mountains[k])]
FoldPeaks(version, peaks) ==
    FoldLeft(LAMBDA acc, p : NodeHashFor(version, acc, p), peaks[1], Tail(peaks))
NoRoot == <<"zero">>
Root(s) == IF s.mountains = <<>> THEN NoRoot ELSE FoldPeaks(s.version, Peaks(s))

\* locate_leaf: the mountain that holds the leaf, and the leaf's index in it.
LeavesBefore(s, k) == FoldLeft(LAMBDA n, m : n + 2^m.height, 0, SubSeq(s.mountains, 1, k - 1))
LocateLeaf(s, leaf) ==
    CHOOSE k \in 1..Len(s.mountains) :
        LeavesBefore(s, k) <= leaf /\ leaf < LeavesBefore(s, k + 1)

Prove(s, leaf) ==
    LET k == LocateLeaf(s, leaf)
        at == leaf - LeavesBefore(s, k) IN
    [leaf_index |-> leaf, leaf_hash |-> GetNode(s.mountains[k], 0, at),
     auth_path |-> AuthPath(s.mountains[k], at),
     peak_index |-> k, peaks |-> Peaks(s), version |-> s.version]
VerifyProof(proof, root) ==
    LET climbed == FoldLeft(LAMBDA h, step :
                       IF step.is_left THEN NodeHashFor(proof.version, h, step.hash)
                                       ELSE NodeHashFor(proof.version, step.hash, h),
                       proof.leaf_hash, proof.auth_path) IN
    /\ proof.peak_index <= Len(proof.peaks)
    /\ FoldPeaks(proof.version, [proof.peaks EXCEPT ![proof.peak_index] = climbed]) = root

-----------------------------------------------------------------------------
\* `given` is what the state's leaves stand for.
NewState == [version |-> 3, mountains |-> <<>>, leaf_count |-> 0, given |-> <<>>]
NotLoaded == [NewState EXCEPT !.version = 0]
NoSlip == [proof |-> [leaf_index |-> 0, leaf_hash |-> NoRoot, auth_path |-> <<>>,
                      peak_index |-> 1, peaks |-> <<>>, version |-> 3],
           leaves |-> <<>>]

\* cmd_append: load_state ...
AppendLoads(p) ==
    /\ loaded[p] = NotLoaded
    /\ appends < MaxAppends /\ appends' = appends + 1
    /\ loaded' = [loaded EXCEPT ![p] = mmr]
    /\ UNCHANGED <<mmr, slip>>
\* ... append_hash and save_state.
AppendSaves(p, d) ==
    /\ loaded[p] # NotLoaded
    /\ loaded[p].leaf_count < MaxLeaves
    /\ mmr' = AppendHash(loaded[p], d)
    /\ loaded' = [loaded EXCEPT ![p] = NotLoaded]
    /\ UNCHANGED <<slip, appends>>
\* cmd_prove, its output kept.
KeepProof ==
    /\ slip = NoSlip
    /\ \E leaf \in 0..(mmr.leaf_count - 1) : slip' = [proof |-> Prove(mmr, leaf), leaves |-> mmr.given]
    /\ UNCHANGED <<mmr, loaded, appends>>

\* A state file is new, or one an earlier version of the program wrote.
MmrInit ==
    /\ mmr \in {NewState} \union {AppendHash([NewState EXCEPT !.version = 2], d) : d \in Data_}
    /\ loaded = [p \in Appenders |-> NotLoaded]
    /\ slip = NoSlip
    /\ appends = 0
MmrNext ==
    \/ \E p \in Appenders :
         \/ AppendLoads(p)
         \/ \E d \in Data_ : AppendSaves(p, d)
    \/ KeepProof

-----------------------------------------------------------------------------
\* Every leaf of the state can be proved: whatever the carries of append_hash merged,
\* prove finds the leaf that was appended at that index and its proof leads to root.
ProofsVerify ==
    \A leaf \in 0..(mmr.leaf_count - 1) :
        LET proof == Prove(mmr, leaf) IN
        /\ VerifyProof(proof, Root(mmr))
        /\ proof.leaf_hash = LeafHash(mmr.given[leaf + 1])

\* A proof kept from an earlier state verifies against today's root only while the
\* state has the very leaves the proof was taken from, though appends that overlap
\* drop some: the root commits to all of them and to how many there are.  A version 2
\* root does so only among leaves that are not themselves two hashes joined, which
\* the untagged parent_hash takes for a node (mmr.rs:109-116).
RootsCommit ==
    /\ slip # NoSlip /\ VerifyProof(slip.proof, Root(mmr))
    /\ mmr.version = 2 => ~\E i \in 1..Len(slip.leaves \o mmr.given) : Joined((slip.leaves \o mmr.given)[i])
    => slip.leaves = mmr.given

\* A proof verifies against a root exactly when it was taken from the leaves that
\* root commits to (prove, verify, root), but for what version 2 confuses.
ProofsAreExact == ProofsVerify /\ RootsCommit
=============================================================================
