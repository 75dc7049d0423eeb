------------------------------ MODULE WorkTree ------------------------------
(***************************************************************************)
(* The files of a repository of origin-vcs: the working tree, and the      *)
(* objects, streams and bundles that hold their content.                   *)
(***************************************************************************)
EXTENDS Naturals, Sequences, FiniteSets, SequencesExt

-----------------------------------------------------------------------------
(***************************************************************************)
(* The working tree as origin-vcs sees it: collect_files walks the         *)
(* directories in whatever order the file system lists them, picks up each *)
(* .gitignore on entering its directory (commands.rs, ignore.rs), and      *)
(* `add` and `status` work from the files it found.  A path is a sequence  *)
(* of names; a glob segment is the set of names it matches.                *)
(***************************************************************************)
CONSTANTS
  TreeFiles,    \* the paths of files that may exist
  HiddenNames,  \* names that start with a dot, the store's among them
  Contents,     \* what a file may hold
  RuleFiles,    \* what a .gitignore may say: sequences of patterns
  Orders,       \* the orders in which a file system may list names
  MaxTreeSteps

VARIABLES
  disk,         \* path -> content, for the files that exist
  rules,        \* directory -> its .gitignore
  index,        \* path -> content staged
  treeSteps
treeVars == <<disk, rules, index, treeSteps>>

DirsOf(paths) == UNION {{SubSeq(f, 1, k) : k \in 0..Len(f) - 1} : f \in paths}
TreeDirs == DirsOf(TreeFiles)

TreeInit ==
  /\ disk = [f \in {} |-> 0] /\ index = disk
  /\ rules = [d \in TreeDirs |-> <<>>]
  /\ treeSteps = 0

-----------------------------------------------------------------------------
\* `**` stands for any number of components
Stars == {"**"}

RECURSIVE dmatch(_, _)
dmatch(p, t) ==
  IF p = <<>> THEN t = <<>>
  ELSE IF p[1] = Stars THEN \E k \in 0..Len(t) : dmatch(Tail(p), SubSeq(t, k + 1, Len(t)))
  ELSE t # <<>> /\ t[1] \in p[1] /\ dmatch(Tail(p), Tail(t))

\* a pattern: its segments, whether it negates, whether a leading slash ties
\* it to its directory, whether a trailing one makes it match directories only
PatternMatches(pat, rel, isDir) ==
  /\ pat.dirOnly => isDir
  /\ \/ dmatch(pat.segs, rel)
     \/ /\ ~ pat.anchored
        /\ \E k \in DOMAIN rel : dmatch(pat.segs, SubSeq(rel, k, Len(rel)))

\* the scopes are every .gitignore read so far, and the walk never drops one:
\* a scope speaks only of the paths inside its directory
Inside(scope, full) == IsPrefix(scope.dir, full)

\* the innermost scope first, and in it the first pattern that matches
Deciding(scopes, full, isDir) ==
  {<<s, p>> \in UNION {{s} \X DOMAIN scopes[s].pats : s \in DOMAIN scopes} :
     /\ Inside(scopes[s], full)
     /\ PatternMatches(scopes[s].pats[p],
                       SubSeq(full, Len(scopes[s].dir) + 1, Len(full)), isDir)}

IsIgnored(scopes, full, isDir) ==
  LET hits == Deciding(scopes, full, isDir)
  IN  hits # {} /\
        LET first == CHOOSE h \in hits : \A g \in hits :
                       g[1] < h[1] \/ (g[1] = h[1] /\ h[2] <= g[2])
        IN  ~ scopes[first[1]].pats[first[2]].negate

PushScope(scopes, dir) ==
  IF rules[dir] = <<>> THEN scopes
  ELSE Append(scopes, [dir |-> dir, pats |-> rules[dir]])

\* what read_dir lists, in the order of the file system; hidden entries are
\* passed over
Listing(dir, order) ==
  SelectSeq(order, LAMBDA n : n \notin HiddenNames /\
                              \E f \in DOMAIN disk : IsPrefix(Append(dir, n), f))

\* walk: acc is the ignore state and the files found so far, and both are
\* handed on from one entry to the next
RECURSIVE Walk(_, _, _)
Walk(dir, order, acc) ==
  LET Visit(found, name) ==
        LET full == Append(dir, name)
            isDir == full \notin DOMAIN disk
        IN  CASE IsIgnored(found.scopes, full, isDir) -> found
              [] ~ IsIgnored(found.scopes, full, isDir) /\ isDir -> Walk(full, order, found)
              [] OTHER -> [found EXCEPT !.files = @ \cup {full}]
  IN  FoldLeft(Visit, [acc EXCEPT !.scopes = PushScope(@, dir)], Listing(dir, order))

CollectFiles(order) == Walk(<<>>, order, [scopes |-> <<>>, files |-> {}]).files

-----------------------------------------------------------------------------
TreeStep == treeSteps < MaxTreeSteps /\ treeSteps' = treeSteps + 1

\* someone edits the working tree
Touch(f, content) ==
  TreeStep /\ disk' = [g \in DOMAIN disk \cup {f} |-> IF g = f THEN content ELSE disk[g]]
  /\ UNCHANGED <<rules, index>>
Unlink(f) ==
  TreeStep /\ f \in DOMAIN disk /\ disk' = [g \in DOMAIN disk \ {f} |-> disk[g]]
  /\ UNCHANGED <<rules, index>>
WriteRules(dir, pats) ==
  TreeStep /\ rules' = [rules EXCEPT ![dir] = pats] /\ UNCHANGED <<disk, index>>

\* `add .`: every file found is staged as it stands
AddDot(order) ==
  LET found == CollectFiles(order)
  IN  /\ TreeStep /\ found # {}
      /\ index' = [f \in DOMAIN index \cup found |-> IF f \in found THEN disk[f] ELSE index[f]]
      /\ UNCHANGED <<disk, rules>>

\* cmd_status: the index against the files found
Status(order) ==
  LET found == CollectFiles(order)
      tracked == DOMAIN index
  IN  [staged |-> {f \in tracked \cap found : disk[f] = index[f]},
       modified |-> {f \in tracked \cap found : disk[f] # index[f]},
       deleted |-> tracked \ found,
       untracked |-> found \ tracked]

TreeNext ==
  \/ \E f \in TreeFiles, c \in Contents : Touch(f, c)
  \/ \E f \in TreeFiles : Unlink(f)
  \/ \E d \in TreeDirs, pats \in RuleFiles : WriteRules(d, pats)
  \/ \E order \in Orders : AddDot(order)

TreeSpec == TreeInit /\ [][TreeNext]_treeVars

-----------------------------------------------------------------------------
\* the rules of a path, read without a walk: of the .gitignore files above it the
\* deepest one that speaks of it decides; Lines are its lines that do
Speaking(path, isDir) ==
  LET Says(d) == {p \in DOMAIN rules[d] :
                    PatternMatches(rules[d][p], SubSeq(path, Len(d) + 1, Len(path)), isDir)}
      above == {d \in DirsOf({path}) : Says(d) # {}}
      deepest == CHOOSE d \in above : \A e \in above : Len(e) <= Len(d)
  IN  IF above = {} THEN <<>>
      ELSE [k \in 1..Cardinality(Says(deepest)) |->
              rules[deepest][SetToSortSeq(Says(deepest), <)[k]].negate]

\* git lets the last such line decide, is_ignored returns at the first
HiddenByLast(lines) == lines # <<>> /\ ~ Last(lines)
HiddenByFirst(lines) == lines # <<>> /\ ~ Head(lines)
Contested(lines) == Cardinality(Range(lines)) > 1

\* the components of a path, each with the lines that speak of it
LinesOn(f) == {Speaking(SubSeq(f, 1, k), k < Len(f)) : k \in 1..Len(f)}
Seen(f) ==
  /\ Range(f) \cap HiddenNames = {}
  /\ \A lines \in LinesOn(f) : ~ HiddenByFirst(lines)
SeenByGit(f) ==
  /\ Range(f) \cap HiddenNames = {}
  /\ \A lines \in LinesOn(f) : ~ HiddenByLast(lines)

\* whatever order the file system lists a directory in, the walk finds the
\* files that git-style rules (README.md:129) leave visible and no others: what
\* it has read on its way through one directory says nothing about the next.
\* Where lines of one .gitignore contradict each other about a path it does not
\* follow git, whose last line wins: there the first one does
WalkFollowsTheRules ==
  \A order \in Orders :
     LET found == CollectFiles(order)
     IN  \A f \in DOMAIN disk :
           IF \E lines \in LinesOn(f) : Contested(lines)
           THEN f \in found <=> Seen(f)
           ELSE f \in found <=> SeenByGit(f)

\* `status` passes over no change: a visible file that is not what was staged
\* is reported, and a staged file reported deleted is gone or ignored
ChangesAreReported ==
  \A order \in Orders :
     LET st == Status(order)
     IN  /\ \A f \in DOMAIN disk : Seen(f) =>
              (f \in st.staged <=> f \in DOMAIN index /\ index[f] = disk[f])
         /\ \A f \in st.deleted : f \in DOMAIN disk => ~ Seen(f)
         /\ \A f \in DOMAIN disk : Seen(f) => f \in st.staged \cup st.modified \cup st.untracked

-----------------------------------------------------------------------------
(***************************************************************************)
(* How file contents get into an origin-vcs store and from one store into  *)
(* another: `add` buffers a file or streams it in several passes           *)
(* (stream.rs), the store keeps each object encrypted under the address of *)
(* its plaintext (store.rs), and a bundle carries envelopes to a second    *)
(* store (bundle.rs).  A content is a sequence of chunks; an address is    *)
(* the pair of the length and the bytes that were hashed.  One operator    *)
(* owns both stores, with one seed and one passphrase.                     *)
(***************************************************************************)
CONSTANTS
  FileTexts,     \* what the file may hold
  MaxBlobEdits, MaxBlobAdds, MaxBundleFaults

VARIABLES
  file,          \* the file as it is now
  repos,         \* "here" and "there": encrypt mode, objects, ids referred to
  adder,         \* the `add --stream` under way
  pack,          \* the bundle file
  importer,      \* the `bundle import` under way
  blobRaced,         \* addresses whose file was changed while it was streamed
  blobEdits, blobAdds, packFaults
blobVars == <<file, repos, adder, pack, importer, blobRaced, blobEdits, blobAdds, packFaults>>

Repos == {"here", "there"}
Nothing_ == [id \in {} |-> id]
NoAdd == [at |-> "idle", len |-> 0, id |-> <<0, <<>>>>, frames |-> <<>>]
NoPack == [there |-> FALSE, ids |-> <<>>, parts |-> <<>>, ended |-> FALSE]
NoImport == [at |-> "idle", next |-> 0]

\* how the two stores were made: `init` draws a salt of its own for a store
\* whose objects are encrypted under a passphrase
BlobsInit ==
  /\ file \in FileTexts
  /\ \E mode \in [Repos -> {"identity", "passphrase"}] :
       repos = [r \in Repos |-> [mode |-> mode[r], objects |-> Nothing_, refs |-> {}]]
  /\ adder = NoAdd /\ pack = NoPack /\ importer = NoImport
  /\ blobRaced = {} /\ blobEdits = 0 /\ blobAdds = 0 /\ packFaults = 0

-----------------------------------------------------------------------------
\* repo_storage_key: from the seed, or from the passphrase and the salt
StorageKey(r) == IF repos[r].mode = "identity" THEN "seed" ELSE r

Address(text) == <<Len(text), text>>

\* chunk i is sealed under the base nonce and its number
BlobNonce(i) == i
BlobFrame(i, chunk) == [nonce |-> BlobNonce(i), chunk |-> chunk]

\* an envelope is one sealed piece (ORGN), or frames and a sentinel (OVCS); each
\* is made with a nonce of its own, so no two have the same bytes
Envelope(key, text) == [form |-> "ORGN", key |-> key, body |-> text,
                        frames |-> <<>>, ended |-> TRUE, made |-> blobAdds]
Streamed_(key, frames, ended) == [form |-> "OVCS", key |-> key, body |-> <<>>,
                                  frames |-> frames, ended |-> ended, made |-> blobAdds]

\* put_raw and the final rename replace what is there; put_envelope_bytes,
\* for what comes from elsewhere, does not
Put(objects, id, env) == [i \in DOMAIN objects \cup {id} |-> IF i = id THEN env ELSE objects[i]]
PutEnvelopeBytes(objects, id, env) == IF id \in DOMAIN objects THEN objects ELSE Put(objects, id, env)

\* read_blob: the frames must open in their order and end with the sentinel
Declined == <<0>>
StreamDecrypt(env) ==
  IF env.ended /\ \A i \in DOMAIN env.frames : env.frames[i].nonce = BlobNonce(i)
  THEN [i \in DOMAIN env.frames |-> env.frames[i].chunk] ELSE Declined
ReadBlob(r, id) ==
  LET env == repos[r].objects[id]
  IN  CASE id \notin DOMAIN repos[r].objects -> Declined
        [] id \in DOMAIN repos[r].objects /\ env.key # StorageKey(r) -> Declined
        [] id \in DOMAIN repos[r].objects /\ env.key = StorageKey(r) /\ env.form = "OVCS" ->
             StreamDecrypt(env)
        [] OTHER -> env.body

-----------------------------------------------------------------------------
\* someone edits the file, during `add` too
EditBlob(text) ==
  /\ blobEdits < MaxBlobEdits /\ text # file
  /\ file' = text /\ blobEdits' = blobEdits + 1
  /\ blobRaced' = IF adder.at \in {"hashed", "copying"} THEN blobRaced \cup {adder.id} ELSE blobRaced
  /\ UNCHANGED <<repos, adder, pack, importer, blobAdds, packFaults>>

Adds == adder.at = "idle" /\ blobAdds < MaxBlobAdds /\ blobAdds' = blobAdds + 1
Stages(objects, id) ==
  repos' = [repos EXCEPT !["here"].objects = objects, !["here"].refs = @ \cup {id}]

\* `add`: the bytes are read once, addressed and encrypted
WriteBlob ==
  /\ Adds
  /\ Stages(Put(repos["here"].objects, Address(file), Envelope(StorageKey("here"), file)),
            Address(file))
  /\ UNCHANGED <<file, adder, pack, importer, blobRaced, blobEdits, packFaults>>

\* `add --stream`: one pass for the length, one for the hash, one to encrypt;
\* the address the last one computes again is not used
StreamLength ==
  /\ Adds
  /\ adder' = [NoAdd EXCEPT !.at = "measured", !.len = Len(file)]
  /\ UNCHANGED <<file, repos, pack, importer, blobRaced, blobEdits, packFaults>>

StreamHash ==
  /\ adder.at = "measured"
  /\ adder' = [adder EXCEPT !.at = "hashed", !.id = <<adder.len, file>>]
  /\ blobRaced' = IF adder.len # Len(file) THEN blobRaced \cup {adder'.id} ELSE blobRaced
  /\ UNCHANGED <<file, repos, pack, importer, blobEdits, blobAdds, packFaults>>

StreamBlobChunk ==
  LET i == Len(adder.frames) + 1
  IN  /\ adder.at \in {"hashed", "copying"} /\ i <= Len(file)
      /\ adder' = [adder EXCEPT !.at = "copying", !.frames = Append(@, BlobFrame(i, file[i]))]
      /\ UNCHANGED <<file, repos, pack, importer, blobRaced, blobEdits, blobAdds, packFaults>>

StreamFinish ==
  /\ adder.at \in {"hashed", "copying"} /\ Len(adder.frames) >= Len(file)
  /\ Stages(Put(repos["here"].objects, adder.id,
                Streamed_(StorageKey("here"), adder.frames, TRUE)), adder.id)
  /\ adder' = NoAdd
  /\ UNCHANGED <<file, pack, importer, blobRaced, blobEdits, blobAdds, packFaults>>

\* killed: only the temporary file is left behind
LeftInPlace == Put(repos["here"].objects, adder.id,
                   Streamed_(StorageKey("here"), adder.frames, FALSE))
LeftBehind == repos["here"].objects
StreamDies ==
  /\ adder.at \in {"hashed", "copying"}
  /\ repos' = [repos EXCEPT !["here"].objects = LeftBehind]
  /\ adder' = NoAdd
  /\ UNCHANGED <<file, pack, importer, blobRaced, blobEdits, blobAdds, packFaults>>

-----------------------------------------------------------------------------
BlobListed(ids) == CHOOSE s \in [1..Cardinality(ids) -> ids] : \A i \in ids : \E k \in DOMAIN s : s[k] = i

\* `bundle create`, renamed into place when it is complete; the store is locked
BundleCreate ==
  LET ids == BlobListed(repos["here"].refs)
  IN  /\ adder.at = "idle" /\ importer.at = "idle" /\ repos["here"].refs # {}
      /\ pack' = [there |-> TRUE, ids |-> ids, ended |-> TRUE,
                  parts |-> [k \in DOMAIN ids |-> repos["here"].objects[ids[k]]]]
      /\ UNCHANGED <<file, repos, adder, importer, blobRaced, blobEdits, blobAdds, packFaults>>

\* the file is cut short on its way
PackCut(n) ==
  /\ pack.there /\ importer.at = "idle" /\ packFaults < MaxBundleFaults
  /\ pack.ended /\ n <= Len(pack.parts)
  /\ pack' = [pack EXCEPT !.parts = SubSeq(@, 1, n), !.ended = FALSE]
  /\ packFaults' = packFaults + 1
  /\ UNCHANGED <<file, repos, adder, importer, blobRaced, blobEdits, blobAdds>>

\* parse_bundle reads it all before anything is imported
Parses == pack.there /\ pack.ended

ImportStarts ==
  /\ Parses /\ importer.at = "idle"
  /\ importer' = [at |-> "putting", next |-> 1]
  /\ UNCHANGED <<file, repos, adder, pack, blobRaced, blobEdits, blobAdds, packFaults>>

ImportPut ==
  LET k == importer.next
  IN  /\ importer.at = "putting" /\ k <= Len(pack.parts)
      /\ repos' = [repos EXCEPT !["there"].objects = PutEnvelopeBytes(@, pack.ids[k], pack.parts[k])]
      /\ importer' = [importer EXCEPT !.next = k + 1]
      /\ UNCHANGED <<file, adder, pack, blobRaced, blobEdits, blobAdds, packFaults>>

ImportRefs ==
  /\ importer.at = "putting" /\ importer.next > Len(pack.parts)
  /\ repos' = [repos EXCEPT !["there"].refs = @ \cup {pack.ids[k] : k \in DOMAIN pack.ids}]
  /\ importer' = NoImport
  /\ UNCHANGED <<file, adder, pack, blobRaced, blobEdits, blobAdds, packFaults>>

ImportDies ==
  /\ importer.at = "putting" /\ importer' = NoImport
  /\ UNCHANGED <<file, repos, adder, pack, blobRaced, blobEdits, blobAdds, packFaults>>

\* Store::read: one sealed piece, and nothing else, opens
StoreRead(r, id) ==
  LET env == repos[r].objects[id]
  IN  IF env.form = "ORGN" /\ env.key = StorageKey(r) THEN env.body ELSE Declined

\* `bundle verify` against a store: every part is there, the same, and opens
BundleVerifies(r) ==
  Parses /\ \A k \in DOMAIN pack.parts :
    /\ pack.ids[k] \in DOMAIN repos[r].objects
    /\ repos[r].objects[pack.ids[k]] = pack.parts[k]
    /\ StoreRead(r, pack.ids[k]) # Declined

BlobsNext ==
  \/ \E text \in FileTexts : EditBlob(text)
  \/ WriteBlob
  \/ StreamLength
  \/ StreamHash
  \/ StreamBlobChunk
  \/ StreamFinish
  \/ StreamDies
  \/ BundleCreate
  \/ \E n \in 0..MaxBlobAdds : PackCut(n)
  \/ ImportStarts
  \/ ImportPut
  \/ ImportRefs
  \/ ImportDies

BlobsSpec == BlobsInit /\ [][BlobsNext]_blobVars

-----------------------------------------------------------------------------
\* an object that was not streamed from a changing file reads back, in the
\* store that made it, as the content its address names: also after an `add`
\* of the same content was killed, and after one form replaced the other
ObjectsReadBack ==
  \A id \in DOMAIN repos["here"].objects \ blobRaced :
     LET text == ReadBlob("here", id)
     IN  text # Declined /\ Address(text) = id

\* what a bundle import refers to is in the store, whole, and readable if the
\* stores' keys agree: a bundle cut short changes no ref, and neither does an
\* import that was killed half-way; and what `bundle verify` accepts reads back
ImportsAreWhole ==
  \A id \in repos["there"].refs :
     /\ id \in DOMAIN repos["there"].objects /\ repos["there"].objects[id].ended
     /\ (StorageKey("here") = StorageKey("there") /\ id \notin blobRaced) =>
           ReadBlob("there", id) = id[2]
     /\ BundleVerifies("there") =>
           \A k \in DOMAIN pack.ids : pack.ids[k] \in blobRaced \/
                                      ReadBlob("there", pack.ids[k]) = pack.ids[k][2]

\* Files come in and out as they are: the walk and `status` see them, objects and
\* bundles give them back.
FilesAreKept ==
  WalkFollowsTheRules /\ ChangesAreReported /\ ObjectsReadBack /\ ImportsAreWhole
=============================================================================
