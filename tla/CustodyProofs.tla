--------------------------- MODULE CustodyProofs ----------------------------
(***************************************************************************)
(* Proofs about what a user entrusts to the programs: the keystore keeps   *)
(* identities through rotations, renames and killed commands, an HTTP      *)
(* payment that settles was charged, for the right amount and at the right *)
(* endpoint, and each wait for a PSP callback is resolved once.            *)
(***************************************************************************)
EXTENDS Keystore, X402, Receiver, TLAPS

-----------------------------------------------------------------------------
(* The keystore. *)

\* A name's blob gives a seed back.
Holds(b, n, s) == b[n].state = "whole" /\ b[n].seed = s

\* A blob that can be read holds a seed made so far.
BlobOk(b, seeds) ==
    /\ DOMAIN b = {"state", "seed", "pass"}
    /\ b.state = "whole" => b.seed \in 1..seeds /\ b.pass \in IdPasses

\* A command under way names what it works on.
JobOk(j, seeds) ==
    /\ DOMAIN j = {"at", "name", "to", "seed", "pass"}
    /\ j.at \in {"idle", "create", "fill", "rename", "remove", "swap"}
    /\ j.at # "idle" => j.name \in IdNames
    /\ j.at = "rename" => j.to \in IdNames /\ j.to # j.name
    /\ j.at \in {"create", "fill", "swap"} => j.seed \in 1..seeds /\ j.pass \in IdPasses

\* Types.
KeyTypes ==
    /\ idSeeds \in Nat /\ phraseFile \in 0..idSeeds
    /\ DOMAIN blobs = IdNames /\ \A n \in IdNames : BlobOk(blobs[n], idSeeds)
    /\ DOMAIN user = Users /\ \A u \in Users : JobOk(user[u], idSeeds)
    /\ \A s, p : <<s, p>> \in pastPhrases => s \in 1..idSeeds

\* Every kept seed has a blob under another name than n.
HeldApart(b, kept, n) == \A s \in kept : \E m \in IdNames : m # n /\ Holds(b, m, s)

\* No blob holds the seed and none of its passphrases was rotated away.
Unused(b, past, s) == (\A m \in IdNames : ~ Holds(b, m, s)) /\ (\A p : <<s, p>> \notin past)

\* A command under way.
UnderWay(j, b, kept, past, back) ==
    /\ j.at \in {"create", "fill"} =>
          HeldApart(b, kept, j.name) /\ (j.seed \in back \/ Unused(b, past, j.seed))
    /\ j.at = "rename" => HeldApart(b, kept, j.to)
    /\ j.at = "remove" => HeldApart(b, kept, j.name)
    /\ j.at = "swap" => Holds(b, j.name, j.seed)

\* Two names hold one seed only when the seed was imported.
NoCopies(b, back) ==
    \A m, n \in IdNames : m # n /\ b[m].state = "whole" /\ Holds(b, n, b[m].seed)
                              => b[m].seed \in back
\* No blob but that of an imported seed opens with a retired passphrase.
NoneRetired(b, past, back) ==
    \A n \in IdNames : b[n].state = "whole" /\ <<b[n].seed, b[n].pass>> \in past
                           => b[n].seed \in back

\* Every kept seed has a blob.
AllHeld(b, kept) == \A s \in kept : \E m \in IdNames : Holds(b, m, s)

\* While commands have not overlapped, at most one is under way.
QuietInv ==
    /\ \A u, w \in Users : u # w => user[u].at = "idle" \/ user[w].at = "idle"
    /\ \A u \in Users : UnderWay(user[u], blobs, keptSeeds, pastPhrases, imported)
    /\ AllHeld(blobs, keptSeeds)
    /\ NoCopies(blobs, imported) /\ NoneRetired(blobs, pastPhrases, imported)

\* The inductive invariant of the keystore.
KeyInv == KeyTypes /\ (quiet => QuietInv)

\* An idle process constrains nothing.
LEMMA RestingIsIdle ==
    /\ \A seeds : JobOk(Resting, seeds) /\ Resting.at = "idle"
    /\ \A j, b, kept, past, back : j.at = "idle" => UnderWay(j, b, kept, past, back)
<1>1. \A seeds : JobOk(Resting, seeds) /\ Resting.at = "idle"
  BY DEF JobOk, Resting
<1>2. \A j, b, kept, past, back : j.at = "idle" => UnderWay(j, b, kept, past, back)
  BY DEF UnderWay
<1> QED
  BY <1>1, <1>2, Zenon

\* Seeds are only ever added.
LEMMA SeedsGrow ==
    ASSUME NEW a \in Nat, NEW b \in Nat, a <= b
    PROVE  /\ \A j : JobOk(j, a) => JobOk(j, b)
           /\ \A x : BlobOk(x, a) => BlobOk(x, b)
<1>1. \A s : s \in 1..a => s \in 1..b
  OBVIOUS
<1> QED
  BY <1>1, Zenon DEF JobOk, BlobOk

\* A command is given: while commands do not overlap, no other is under way.
LEMMA CommandStarts ==
    ASSUME KeyInv, NEW u \in Users, NEW job, Invokes(u, job), JobOk(job, idSeeds'),
           idSeeds' = idSeeds \/ idSeeds' = idSeeds + 1, phraseFile' \in 0..idSeeds',
           DOMAIN blobs' = IdNames, \A n \in IdNames : BlobOk(blobs'[n], idSeeds'),
           pastPhrases' = pastPhrases,
           quiet => /\ UnderWay(job, blobs', keptSeeds', pastPhrases, imported')
                    /\ AllHeld(blobs', keptSeeds') /\ NoCopies(blobs', imported')
                    /\ NoneRetired(blobs', pastPhrases, imported')
    PROVE  KeyInv'
<1>1. /\ idSeeds \in Nat /\ DOMAIN user = Users /\ \A w \in Users : JobOk(user[w], idSeeds)
      /\ \A s, p : <<s, p>> \in pastPhrases => s \in 1..idSeeds
  BY Zenon DEF KeyInv, KeyTypes
<1>2. idSeeds' \in Nat /\ idSeeds <= idSeeds' /\ \A s : s \in 1..idSeeds => s \in 1..idSeeds'
  BY <1>1
<1>3. /\ user' = [user EXCEPT ![u] = job]
      /\ quiet' => quiet /\ \A w \in Users : user[w].at = "idle"
  BY Zenon DEF Invokes
<1>4. DOMAIN user' = Users /\ user'[u] = job /\ \A w \in Users : w # u => user'[w] = user[w]
  BY <1>1, <1>3
<1>5. \A w \in Users : JobOk(user'[w], idSeeds')
  BY <1>1, <1>2, <1>4, SeedsGrow, Zenon
<1>6. KeyTypes'
  BY <1>1, <1>2, <1>4, <1>5, Zenon DEF KeyTypes
<1>7. ASSUME quiet'
      PROVE  QuietInv'
  <2>1. \A w \in Users : w # u => user'[w].at = "idle"
    BY <1>3, <1>4, <1>7, Zenon
  <2>2. \A w \in Users : UnderWay(user'[w], blobs', keptSeeds', pastPhrases', imported')
    BY <1>3, <1>4, <1>7, <2>1, RestingIsIdle, Zenon
  <2>3. \A v, w \in Users : v # w => user'[v].at = "idle" \/ user'[w].at = "idle"
    BY <2>1, Zenon
  <2> QED
    BY <1>3, <1>7, <2>2, <2>3, Zenon DEF QuietInv
<1> QED
  BY <1>6, <1>7, Zenon DEF KeyInv

\* The command under way takes its next step.
LEMMA CommandGoesOn ==
    ASSUME KeyInv, NEW u \in Users, NEW job, user[u].at # "idle",
           user' = [user EXCEPT ![u] = job], JobOk(job, idSeeds),
           UNCHANGED <<phraseFile, idSeeds, imported, quiet>>,
           DOMAIN blobs' = IdNames, \A n \in IdNames : BlobOk(blobs'[n], idSeeds),
           \A s, p : <<s, p>> \in pastPhrases' => s \in 1..idSeeds,
           quiet => /\ UnderWay(job, blobs', keptSeeds', pastPhrases', imported)
                    /\ AllHeld(blobs', keptSeeds') /\ NoCopies(blobs', imported)
                    /\ NoneRetired(blobs', pastPhrases', imported)
    PROVE  KeyInv'
<1>1. /\ idSeeds \in Nat /\ DOMAIN user = Users /\ \A w \in Users : JobOk(user[w], idSeeds)
      /\ phraseFile \in 0..idSeeds
  BY Zenon DEF KeyInv, KeyTypes
<1>2. phraseFile' = phraseFile /\ idSeeds' = idSeeds /\ imported' = imported /\ quiet' = quiet
  OBVIOUS
<1>3. DOMAIN user' = Users /\ user'[u] = job /\ \A w \in Users : w # u => user'[w] = user[w]
  BY <1>1
<1>4. KeyTypes'
  BY <1>1, <1>2, <1>3, Zenon DEF KeyTypes
<1>5. ASSUME quiet'
      PROVE  QuietInv'
  <2>0. quiet
    BY <1>2, <1>5
  <2>1. \A w \in Users : w # u => user'[w].at = "idle"
    BY <1>3, <2>0, ZenonT(40) DEF KeyInv, QuietInv
  <2>2. \A w \in Users : UnderWay(user'[w], blobs', keptSeeds', pastPhrases', imported')
    BY <1>2, <1>3, <2>0, <2>1, RestingIsIdle, Zenon
  <2>3. \A v, w \in Users : v # w => user'[v].at = "idle" \/ user'[w].at = "idle"
    BY <2>1, Zenon
  <2> QED
    BY <1>2, <2>0, <2>2, <2>3, Zenon DEF QuietInv
<1> QED
  BY <1>4, <1>5, Zenon DEF KeyInv

\* What is not given up has another name.
LEMMA RestIsHeldApart ==
    ASSUME NEW n
    PROVE  HeldApart(blobs, keptSeeds \ GivenUp({n}), n)
<1> SUFFICES ASSUME NEW s \in keptSeeds \ GivenUp({n})
             PROVE  \E m \in IdNames : m # n /\ Holds(blobs, m, s)
  BY Zenon DEF HeldApart
<1> QED
  BY DEF GivenUp, Holds

\* keygen: a seed no blob and no retired passphrase has.
LEMMA KeygenKeeps ==
    ASSUME KeyInv, NEW u \in Users, Keygen(u)
    PROVE  KeyInv'
<1>1. PICK n \in IdNames, pass \in IdPasses, toFile \in BOOLEAN :
         /\ idSeeds' = idSeeds + 1
         /\ phraseFile' = write_phrase_file(toFile, idSeeds + 1)
         /\ Invokes(u, [Resting EXCEPT !.at = "create", !.name = n, !.seed = idSeeds + 1,
                                       !.pass = pass])
         /\ keptSeeds' = keptSeeds \ GivenUp({n})
         /\ UNCHANGED <<blobs, pastPhrases, imported>>
  BY Zenon DEF Keygen
<1> DEFINE job == [Resting EXCEPT !.at = "create", !.name = n, !.seed = idSeeds + 1, !.pass = pass]
<1>2. /\ DOMAIN job = {"at", "name", "to", "seed", "pass"} /\ job.at = "create" /\ job.name = n
      /\ job.seed = idSeeds + 1 /\ job.pass = pass
  BY DEF Resting
<1>3. Invokes(u, job)
  BY <1>1, Zenon
<1> HIDE DEF job
<1>4. /\ idSeeds \in Nat /\ phraseFile \in 0..idSeeds /\ DOMAIN blobs = IdNames
      /\ \A m \in IdNames : BlobOk(blobs[m], idSeeds)
      /\ \A s, p : <<s, p>> \in pastPhrases => s \in 1..idSeeds
  BY Zenon DEF KeyInv, KeyTypes
<1>5. /\ idSeeds' \in Nat /\ idSeeds <= idSeeds' /\ idSeeds + 1 \in 1..idSeeds'
      /\ idSeeds + 1 \notin 1..idSeeds /\ phraseFile \in 0..idSeeds' /\ idSeeds + 1 \in 0..idSeeds'
  BY <1>1, <1>4
<1>6. phraseFile' \in 0..idSeeds'
  BY <1>1, <1>5, Zenon DEF write_phrase_file
<1>7. JobOk(job, idSeeds')
  BY <1>1, <1>2, <1>5 DEF JobOk
<1>8. blobs' = blobs /\ pastPhrases' = pastPhrases /\ imported' = imported
  BY <1>1
<1>9. \A m \in IdNames : BlobOk(blobs[m], idSeeds')
  BY <1>4, <1>5, SeedsGrow, Zenon
<1>10. HeldApart(blobs, keptSeeds', n) /\ AllHeld(blobs, keptSeeds')
  BY <1>1, RestIsHeldApart, Zenon DEF HeldApart, AllHeld
<1>11. Unused(blobs, pastPhrases, idSeeds + 1)
  BY <1>4, <1>5, Zenon DEF Unused, Holds, BlobOk
<1>12. UnderWay(job, blobs, keptSeeds', pastPhrases, imported)
  BY <1>2, <1>10, <1>11 DEF UnderWay
<1>13. quiet => NoCopies(blobs, imported) /\ NoneRetired(blobs, pastPhrases, imported)
  BY Zenon DEF KeyInv, QuietInv
<1> QED
  BY <1>1, <1>3, <1>4, <1>6, <1>7, <1>8, <1>9, <1>10, <1>12, <1>13, CommandStarts, Zenon

\* import: the phrase's seed may now be under any name.
LEMMA ImportKeeps ==
    ASSUME KeyInv, NEW u \in Users, Import(u)
    PROVE  KeyInv'
<1>1. PICK n \in IdNames, pass \in IdPasses, force \in BOOLEAN :
         /\ phraseFile # 0
         /\ Invokes(u, [Resting EXCEPT !.at = "create", !.name = n, !.seed = phraseFile,
                                       !.pass = pass])
         /\ keptSeeds' = keptSeeds \ GivenUp({n})
         /\ imported' = imported \cup {phraseFile}
         /\ UNCHANGED <<blobs, phraseFile, idSeeds, pastPhrases>>
  BY Zenon DEF Import
<1> DEFINE job == [Resting EXCEPT !.at = "create", !.name = n, !.seed = phraseFile, !.pass = pass]
<1>2. /\ DOMAIN job = {"at", "name", "to", "seed", "pass"} /\ job.at = "create" /\ job.name = n
      /\ job.seed = phraseFile /\ job.pass = pass
  BY DEF Resting
<1>3. Invokes(u, job)
  BY <1>1, Zenon
<1> HIDE DEF job
<1>4. /\ idSeeds \in Nat /\ phraseFile \in 0..idSeeds /\ DOMAIN blobs = IdNames
      /\ \A m \in IdNames : BlobOk(blobs[m], idSeeds)
  BY Zenon DEF KeyInv, KeyTypes
<1>5. phraseFile \in 1..idSeeds
  BY <1>1, <1>4
<1>6. blobs' = blobs /\ pastPhrases' = pastPhrases /\ phraseFile' = phraseFile /\ idSeeds' = idSeeds
  BY <1>1
<1>7. JobOk(job, idSeeds)
  BY <1>1, <1>2, <1>5 DEF JobOk
<1>8. HeldApart(blobs, keptSeeds', n) /\ AllHeld(blobs, keptSeeds')
  BY <1>1, RestIsHeldApart, Zenon DEF HeldApart, AllHeld
<1>9. phraseFile \in imported' /\ imported \subseteq imported'
  BY <1>1
<1>10. UnderWay(job, blobs, keptSeeds', pastPhrases, imported')
  BY <1>2, <1>8, <1>9 DEF UnderWay
<1>11. quiet => NoCopies(blobs, imported') /\ NoneRetired(blobs, pastPhrases, imported')
  BY <1>9, Zenon DEF KeyInv, QuietInv, NoCopies, NoneRetired
<1> QED
  BY <1>3, <1>4, <1>6, <1>7, <1>8, <1>10, <1>11, CommandStarts, ZenonT(40)

\* rename, to its checks.
LEMMA RenameChecksKeeps ==
    ASSUME KeyInv, NEW u \in Users, RenameChecks(u)
    PROVE  KeyInv'
<1>1. PICK n \in IdNames, t \in IdNames, force \in BOOLEAN :
         /\ n # t
         /\ Invokes(u, [Resting EXCEPT !.at = "rename", !.name = n, !.to = t])
         /\ keptSeeds' = keptSeeds \ GivenUp({t})
         /\ UNCHANGED <<blobs, phraseFile, idSeeds, pastPhrases, imported>>
  BY Zenon DEF RenameChecks
<1> DEFINE job == [Resting EXCEPT !.at = "rename", !.name = n, !.to = t]
<1>2. /\ DOMAIN job = {"at", "name", "to", "seed", "pass"} /\ job.at = "rename" /\ job.name = n
      /\ job.to = t
  BY DEF Resting
<1>3. Invokes(u, job)
  BY <1>1, Zenon
<1> HIDE DEF job
<1>4. /\ idSeeds \in Nat /\ phraseFile \in 0..idSeeds /\ DOMAIN blobs = IdNames
      /\ \A m \in IdNames : BlobOk(blobs[m], idSeeds)
  BY Zenon DEF KeyInv, KeyTypes
<1>5. /\ blobs' = blobs /\ pastPhrases' = pastPhrases /\ phraseFile' = phraseFile
      /\ idSeeds' = idSeeds /\ imported' = imported
  BY <1>1
<1>6. JobOk(job, idSeeds)
  BY <1>1, <1>2 DEF JobOk
<1>7. HeldApart(blobs, keptSeeds', t) /\ AllHeld(blobs, keptSeeds')
  BY <1>1, RestIsHeldApart, Zenon DEF HeldApart, AllHeld
<1>8. UnderWay(job, blobs, keptSeeds', pastPhrases, imported)
  BY <1>2, <1>7 DEF UnderWay
<1>9. quiet => NoCopies(blobs, imported) /\ NoneRetired(blobs, pastPhrases, imported)
  BY Zenon DEF KeyInv, QuietInv
<1> QED
  BY <1>3, <1>4, <1>5, <1>6, <1>7, <1>8, <1>9, CommandStarts, ZenonT(40)

\* rotate-passphrase, to its temporary file.
LEMMA RotateReadsKeeps ==
    ASSUME KeyInv, NEW u \in Users, RotateReads(u)
    PROVE  KeyInv'
<1>1. PICK n \in IdNames, old \in IdPasses, new \in IdPasses :
         /\ RecoverBlob(blobs[n], old)
         /\ Invokes(u, [Resting EXCEPT !.at = "swap", !.name = n, !.seed = blobs[n].seed,
                                       !.pass = new])
         /\ UNCHANGED <<blobs, phraseFile, idSeeds, keptSeeds, pastPhrases, imported>>
  BY Zenon DEF RotateReads
<1> DEFINE job == [Resting EXCEPT !.at = "swap", !.name = n, !.seed = blobs[n].seed, !.pass = new]
<1>2. /\ DOMAIN job = {"at", "name", "to", "seed", "pass"} /\ job.at = "swap" /\ job.name = n
      /\ job.seed = blobs[n].seed /\ job.pass = new
  BY DEF Resting
<1>3. Invokes(u, job)
  BY <1>1, Zenon
<1> HIDE DEF job
<1>4. /\ idSeeds \in Nat /\ phraseFile \in 0..idSeeds /\ DOMAIN blobs = IdNames
      /\ \A m \in IdNames : BlobOk(blobs[m], idSeeds)
  BY Zenon DEF KeyInv, KeyTypes
<1>5. /\ blobs' = blobs /\ pastPhrases' = pastPhrases /\ phraseFile' = phraseFile
      /\ idSeeds' = idSeeds /\ imported' = imported /\ keptSeeds' = keptSeeds
  BY <1>1
<1>6. Holds(blobs, n, blobs[n].seed) /\ blobs[n].seed \in 1..idSeeds
  BY <1>1, <1>4, Zenon DEF RecoverBlob, Holds, BlobOk
<1>7. JobOk(job, idSeeds)
  BY <1>1, <1>2, <1>6 DEF JobOk
<1>8. UnderWay(job, blobs, keptSeeds, pastPhrases, imported)
  BY <1>2, <1>6 DEF UnderWay
<1>9. quiet => /\ AllHeld(blobs, keptSeeds) /\ NoCopies(blobs, imported)
               /\ NoneRetired(blobs, pastPhrases, imported)
  BY Zenon DEF KeyInv, QuietInv
<1> QED
  BY <1>3, <1>4, <1>5, <1>7, <1>8, <1>9, CommandStarts, ZenonT(40)

\* A name's blob is emptied or removed.
LEMMA BlobGoes ==
    ASSUME NEW n \in IdNames, NEW blob, blob.state # "whole", DOMAIN blobs = IdNames,
           NEW b, b = [blobs EXCEPT ![n] = blob], NEW kept, NEW past, NEW back
    PROVE  /\ HeldApart(blobs, kept, n) => HeldApart(b, kept, n) /\ AllHeld(b, kept)
           /\ \A s : Unused(blobs, past, s) => Unused(b, past, s)
           /\ NoCopies(blobs, back) => NoCopies(b, back)
           /\ NoneRetired(blobs, past, back) => NoneRetired(b, past, back)
<1>1. b[n].state # "whole" /\ \A m \in IdNames : m # n => b[m] = blobs[m]
  OBVIOUS
<1>2. \A m \in IdNames : \A s : Holds(b, m, s) <=> m # n /\ Holds(blobs, m, s)
  BY <1>1, Zenon DEF Holds
<1>3. HeldApart(blobs, kept, n) => HeldApart(b, kept, n) /\ AllHeld(b, kept)
  BY <1>2, Zenon DEF HeldApart, AllHeld
<1>4. \A s : Unused(blobs, past, s) => Unused(b, past, s)
  BY <1>2, Zenon DEF Unused
<1>5. NoCopies(blobs, back) => NoCopies(b, back)
  BY <1>1, <1>2, ZenonT(40) DEF NoCopies
<1>6. NoneRetired(blobs, past, back) => NoneRetired(b, past, back)
  BY <1>1, Zenon DEF NoneRetired
<1> QED
  BY <1>3, <1>4, <1>5, <1>6, Zenon

\* delete: the blob is overwritten.
LEMMA DeleteOverwritesKeeps ==
    ASSUME KeyInv, NEW u \in Users, DeleteOverwrites(u)
    PROVE  KeyInv'
<1>1. /\ idSeeds \in Nat /\ phraseFile \in 0..idSeeds /\ DOMAIN blobs = IdNames
      /\ \A m \in IdNames : BlobOk(blobs[m], idSeeds)
      /\ \A w \in Users : JobOk(user[w], idSeeds)
      /\ \A s, p : <<s, p>> \in pastPhrases => s \in 1..idSeeds
  BY Zenon DEF KeyInv, KeyTypes
<1>2. quiet => /\ AllHeld(blobs, keptSeeds) /\ NoCopies(blobs, imported)
               /\ NoneRetired(blobs, pastPhrases, imported)
  BY Zenon DEF KeyInv, QuietInv
<1>3. PICK n \in IdNames :
         /\ Invokes(u, [Resting EXCEPT !.at = "remove", !.name = n])
         /\ blobs' = [blobs EXCEPT ![n] = [NoBlob EXCEPT !.state = "torn"]]
         /\ keptSeeds' = keptSeeds \ GivenUp({n})
         /\ UNCHANGED <<phraseFile, idSeeds, pastPhrases, imported>>
  BY Zenon DEF DeleteOverwrites
<1> DEFINE job == [Resting EXCEPT !.at = "remove", !.name = n]
           blob == [NoBlob EXCEPT !.state = "torn"]
<1>4. /\ DOMAIN job = {"at", "name", "to", "seed", "pass"} /\ job.at = "remove" /\ job.name = n
      /\ DOMAIN blob = {"state", "seed", "pass"} /\ blob.state = "torn"
  BY DEF Resting, NoBlob
<1>5. Invokes(u, job) /\ blobs' = [blobs EXCEPT ![n] = blob]
  BY <1>3, Zenon
<1>6. /\ pastPhrases' = pastPhrases /\ phraseFile' = phraseFile
      /\ idSeeds' = idSeeds /\ imported' = imported
  BY <1>3
<1> HIDE DEF job, blob
<1>7. DOMAIN blobs' = IdNames /\ blobs'[n] = blob /\ \A m \in IdNames : m # n => blobs'[m] = blobs[m]
  BY <1>1, <1>5
<1>8. blob.state # "whole" /\ \A m \in IdNames : BlobOk(blobs'[m], idSeeds)
  BY <1>1, <1>4, <1>7 DEF BlobOk
<1>9. JobOk(job, idSeeds)
  BY <1>4 DEF JobOk
<1>10. HeldApart(blobs, keptSeeds', n)
  BY <1>3, RestIsHeldApart, Zenon
<1>11. /\ HeldApart(blobs', keptSeeds', n) /\ AllHeld(blobs', keptSeeds')
       /\ quiet => /\ NoCopies(blobs', imported)
                   /\ NoneRetired(blobs', pastPhrases, imported)
  BY <1>1, <1>2, <1>5, <1>8, <1>10, BlobGoes, Zenon
<1>12. UnderWay(job, blobs', keptSeeds', pastPhrases, imported)
  BY <1>4, <1>11 DEF UnderWay
<1> QED
  BY <1>1, <1>5, <1>6, <1>7, <1>8, <1>9, <1>11, <1>12, CommandStarts, Zenon

\* fs::write empties the file before it fills it.
LEMMA BlobTruncatesKeeps ==
    ASSUME KeyInv, NEW u \in Users, BlobTruncates(u)
    PROVE  KeyInv'
<1>1. /\ idSeeds \in Nat /\ phraseFile \in 0..idSeeds /\ DOMAIN blobs = IdNames
      /\ \A m \in IdNames : BlobOk(blobs[m], idSeeds)
      /\ \A w \in Users : JobOk(user[w], idSeeds)
      /\ \A s, p : <<s, p>> \in pastPhrases => s \in 1..idSeeds
  BY Zenon DEF KeyInv, KeyTypes
<1>2. quiet => /\ AllHeld(blobs, keptSeeds) /\ NoCopies(blobs, imported)
               /\ NoneRetired(blobs, pastPhrases, imported)
               /\ UnderWay(user[u], blobs, keptSeeds, pastPhrases, imported)
  BY Zenon DEF KeyInv, QuietInv
<1>3. /\ \A seeds : JobOk(Resting, seeds)
      /\ \A b, kept, past, back : UnderWay(Resting, b, kept, past, back)
  BY RestingIsIdle, Zenon
<1> DEFINE n == user[u].name
           job == [user[u] EXCEPT !.at = "fill"]
           blob == [NoBlob EXCEPT !.state = "torn"]
<1>4. user[u].at = "create" /\ JobOk(user[u], idSeeds)
  BY <1>1, Zenon DEF BlobTruncates
<1>5. /\ DOMAIN job = {"at", "name", "to", "seed", "pass"} /\ job.at = "fill" /\ job.name = n
      /\ job.seed = user[u].seed /\ job.pass = user[u].pass
      /\ DOMAIN blob = {"state", "seed", "pass"} /\ blob.state = "torn"
  BY <1>4 DEF JobOk, NoBlob
<1>6. /\ blobs' = [blobs EXCEPT ![n] = blob] /\ user' = [user EXCEPT ![u] = job]
      /\ UNCHANGED <<phraseFile, idSeeds, imported, quiet>>
      /\ keptSeeds' = keptSeeds /\ pastPhrases' = pastPhrases
  BY DEF BlobTruncates
<1>7. n \in IdNames /\ user[u].at # "idle" /\ JobOk(job, idSeeds)
  <2> HIDE DEF job
  <2> QED
    BY <1>4, <1>5 DEF JobOk
<1> HIDE DEF n, job, blob
<1>8. DOMAIN blobs' = IdNames /\ blobs'[n] = blob /\ \A m \in IdNames : m # n => blobs'[m] = blobs[m]
  BY <1>1, <1>6, <1>7
<1>9. blob.state # "whole" /\ \A m \in IdNames : BlobOk(blobs'[m], idSeeds)
  BY <1>1, <1>5, <1>8 DEF BlobOk
<1>10. quiet => /\ HeldApart(blobs, keptSeeds, n)
                /\ job.seed \in imported \/ Unused(blobs, pastPhrases, job.seed)
  BY <1>2, <1>4, <1>5 DEF UnderWay, n
<1>11. quiet => /\ HeldApart(blobs', keptSeeds, n) /\ AllHeld(blobs', keptSeeds)
                /\ job.seed \in imported \/ Unused(blobs', pastPhrases, job.seed)
                /\ NoCopies(blobs', imported) /\ NoneRetired(blobs', pastPhrases, imported)
  BY <1>1, <1>2, <1>6, <1>7, <1>9, <1>10, BlobGoes, Zenon
<1>12. quiet => UnderWay(job, blobs', keptSeeds, pastPhrases, imported)
  BY <1>5, <1>11 DEF UnderWay
<1> QED
  BY <1>1, <1>6, <1>7, <1>8, <1>9, <1>11, <1>12, CommandGoesOn, Zenon

\* delete: the path goes.
LEMMA DeleteRemovesKeeps ==
    ASSUME KeyInv, NEW u \in Users, DeleteRemoves(u)
    PROVE  KeyInv'
<1>1. /\ idSeeds \in Nat /\ phraseFile \in 0..idSeeds /\ DOMAIN blobs = IdNames
      /\ \A m \in IdNames : BlobOk(blobs[m], idSeeds)
      /\ \A w \in Users : JobOk(user[w], idSeeds)
      /\ \A s, p : <<s, p>> \in pastPhrases => s \in 1..idSeeds
  BY Zenon DEF KeyInv, KeyTypes
<1>2. quiet => /\ AllHeld(blobs, keptSeeds) /\ NoCopies(blobs, imported)
               /\ NoneRetired(blobs, pastPhrases, imported)
               /\ UnderWay(user[u], blobs, keptSeeds, pastPhrases, imported)
  BY Zenon DEF KeyInv, QuietInv
<1>3. /\ \A seeds : JobOk(Resting, seeds)
      /\ \A b, kept, past, back : UnderWay(Resting, b, kept, past, back)
  BY RestingIsIdle, Zenon
<1> DEFINE n == user[u].name
<1>4. user[u].at = "remove" /\ user[u].at # "idle" /\ n \in IdNames
  BY <1>1 DEF DeleteRemoves, JobOk
<1>6. /\ blobs' = [blobs EXCEPT ![n] = NoBlob] /\ user' = [user EXCEPT ![u] = Resting]
      /\ UNCHANGED <<phraseFile, idSeeds, imported, quiet>>
      /\ keptSeeds' = keptSeeds /\ pastPhrases' = pastPhrases
  BY DEF DeleteRemoves
<1>7. DOMAIN NoBlob = {"state", "seed", "pass"} /\ NoBlob.state = "none"
  BY DEF NoBlob
<1>8. DOMAIN blobs' = IdNames /\ blobs'[n] = NoBlob /\ \A m \in IdNames : m # n => blobs'[m] = blobs[m]
  BY <1>1, <1>4, <1>6
<1>9. NoBlob.state # "whole" /\ \A m \in IdNames : BlobOk(blobs'[m], idSeeds)
  BY <1>1, <1>7, <1>8 DEF BlobOk
<1>10. quiet => HeldApart(blobs, keptSeeds, n)
  BY <1>2, <1>4, Zenon DEF UnderWay
<1> HIDE DEF n
<1>11. quiet => /\ AllHeld(blobs', keptSeeds)
                /\ NoCopies(blobs', imported) /\ NoneRetired(blobs', pastPhrases, imported)
  BY <1>1, <1>2, <1>4, <1>6, <1>9, <1>10, BlobGoes, Zenon
<1> QED
  BY <1>1, <1>3, <1>4, <1>6, <1>8, <1>9, <1>11, CommandGoesOn, Zenon

\* A command is killed.
LEMMA UserDiesKeeps ==
    ASSUME KeyInv, NEW u \in Users, UserDies(u)
    PROVE  KeyInv'
<1>1. /\ idSeeds \in Nat /\ phraseFile \in 0..idSeeds /\ DOMAIN blobs = IdNames
      /\ \A m \in IdNames : BlobOk(blobs[m], idSeeds)
      /\ \A w \in Users : JobOk(user[w], idSeeds)
      /\ \A s, p : <<s, p>> \in pastPhrases => s \in 1..idSeeds
  BY Zenon DEF KeyInv, KeyTypes
<1>2. quiet => /\ AllHeld(blobs, keptSeeds) /\ NoCopies(blobs, imported)
               /\ NoneRetired(blobs, pastPhrases, imported)
               /\ UnderWay(user[u], blobs, keptSeeds, pastPhrases, imported)
  BY Zenon DEF KeyInv, QuietInv
<1>3. /\ \A seeds : JobOk(Resting, seeds)
      /\ \A b, kept, past, back : UnderWay(Resting, b, kept, past, back)
  BY RestingIsIdle, Zenon
<1>4. /\ user[u].at # "idle" /\ user' = [user EXCEPT ![u] = Resting] /\ blobs' = blobs
      /\ UNCHANGED <<phraseFile, idSeeds, imported, quiet>>
      /\ keptSeeds' = keptSeeds /\ pastPhrases' = pastPhrases
  BY DEF UserDies
<1> QED
  BY <1>1, <1>2, <1>3, <1>4, CommandGoesOn, Zenon

\* The blob is filled: the seed has this name, and another one only when it was imported.
LEMMA BlobFillsKeeps ==
    ASSUME KeyInv, NEW u \in Users, BlobFills(u)
    PROVE  KeyInv'
<1>1. /\ idSeeds \in Nat /\ phraseFile \in 0..idSeeds /\ DOMAIN blobs = IdNames
      /\ \A m \in IdNames : BlobOk(blobs[m], idSeeds)
      /\ \A w \in Users : JobOk(user[w], idSeeds)
      /\ \A s, p : <<s, p>> \in pastPhrases => s \in 1..idSeeds
  BY Zenon DEF KeyInv, KeyTypes
<1>2. quiet => /\ AllHeld(blobs, keptSeeds) /\ NoCopies(blobs, imported)
               /\ NoneRetired(blobs, pastPhrases, imported)
               /\ UnderWay(user[u], blobs, keptSeeds, pastPhrases, imported)
  BY Zenon DEF KeyInv, QuietInv
<1>3. /\ \A seeds : JobOk(Resting, seeds)
      /\ \A b, kept, past, back : UnderWay(Resting, b, kept, past, back)
  BY RestingIsIdle, Zenon
<1> DEFINE n == user[u].name
           s == user[u].seed
           blob == Sealed(u)
<1>4. user[u].at = "fill" /\ JobOk(user[u], idSeeds)
  BY <1>1, Zenon DEF BlobFills
<1>5. /\ user[u].at # "idle" /\ n \in IdNames /\ s \in 1..idSeeds /\ user[u].pass \in IdPasses
  BY <1>4 DEF JobOk
<1>6. /\ DOMAIN blob = {"state", "seed", "pass"} /\ blob.state = "whole" /\ blob.seed = s
      /\ blob.pass = user[u].pass
  BY DEF Sealed
<1>7. /\ blobs' = [blobs EXCEPT ![n] = blob] /\ user' = [user EXCEPT ![u] = Resting]
      /\ UNCHANGED <<phraseFile, idSeeds, imported, quiet>>
      /\ keptSeeds' = keptSeeds \cup {s} /\ pastPhrases' = pastPhrases
  BY DEF BlobFills
<1>8. quiet => /\ HeldApart(blobs, keptSeeds, n)
               /\ s \in imported \/ Unused(blobs, pastPhrases, s)
  BY <1>2, <1>4 DEF UnderWay
<1> HIDE DEF n, s, blob
<1>9. DOMAIN blobs' = IdNames /\ blobs'[n] = blob /\ \A m \in IdNames : m # n => blobs'[m] = blobs[m]
  BY <1>1, <1>5, <1>7
<1>10. \A m \in IdNames : BlobOk(blobs'[m], idSeeds)
  BY <1>1, <1>5, <1>6, <1>9 DEF BlobOk
<1>11. ASSUME quiet
       PROVE  AllHeld(blobs', keptSeeds') /\ NoCopies(blobs', imported)
              /\ NoneRetired(blobs', pastPhrases, imported)
  <2>1. Holds(blobs', n, s)
    BY <1>6, <1>9, Zenon DEF Holds
  <2>2. \A m \in IdNames : \A t : m # n => (Holds(blobs', m, t) <=> Holds(blobs, m, t))
    BY <1>9, Zenon DEF Holds
  <2>3. \A t \in keptSeeds' : t \in keptSeeds \/ t = s
    BY <1>7
  <2>4. AllHeld(blobs', keptSeeds')
    BY <1>5, <1>8, <1>11, <2>1, <2>2, <2>3, Zenon DEF AllHeld, HeldApart
  <2>5. NoneRetired(blobs', pastPhrases, imported)
    <3> SUFFICES ASSUME NEW m \in IdNames, blobs'[m].state = "whole",
                        <<blobs'[m].seed, blobs'[m].pass>> \in pastPhrases
                 PROVE  blobs'[m].seed \in imported
      BY Zenon DEF NoneRetired
    <3>1. CASE m = n
      BY <1>6, <1>8, <1>9, <1>11, <3>1, Zenon DEF Unused
    <3>2. CASE m # n
      BY <1>2, <1>9, <1>11, <3>2, Zenon DEF NoneRetired
    <3> QED
      BY <3>1, <3>2
  <2>6. NoCopies(blobs', imported)
    <3> SUFFICES ASSUME NEW l \in IdNames, NEW m \in IdNames, l # m, blobs'[l].state = "whole",
                        Holds(blobs', m, blobs'[l].seed)
                 PROVE  blobs'[l].seed \in imported
      BY Zenon DEF NoCopies
    <3>1. CASE l = n
      <4>1. blobs'[l].seed = s /\ Holds(blobs, m, s)
        BY <1>6, <1>9, <2>2, <3>1, Zenon
      <4> QED
        BY <1>8, <1>11, <4>1, Zenon DEF Unused
    <3>2. CASE m = n
      <4>1. blobs'[l].seed = s /\ Holds(blobs, l, s)
        BY <1>6, <1>9, <3>2, Zenon DEF Holds
      <4> QED
        BY <1>8, <1>11, <4>1, Zenon DEF Unused
    <3>3. CASE l # n /\ m # n
      BY <1>2, <1>9, <1>11, <2>2, <3>3, Zenon DEF NoCopies
    <3> QED
      BY <3>1, <3>2, <3>3
  <2> QED
    BY <2>4, <2>5, <2>6, Zenon
<1> QED
  BY <1>1, <1>3, <1>5, <1>7, <1>9, <1>10, <1>11, CommandGoesOn, Zenon

\* fs::rename moves what the source holds; what the target held is held elsewhere.
LEMMA RenamesKeeps ==
    ASSUME KeyInv, NEW u \in Users, Renames(u)
    PROVE  KeyInv'
<1>1. /\ idSeeds \in Nat /\ phraseFile \in 0..idSeeds /\ DOMAIN blobs = IdNames
      /\ \A m \in IdNames : BlobOk(blobs[m], idSeeds)
      /\ \A w \in Users : JobOk(user[w], idSeeds)
      /\ \A s, p : <<s, p>> \in pastPhrases => s \in 1..idSeeds
  BY Zenon DEF KeyInv, KeyTypes
<1>2. quiet => /\ AllHeld(blobs, keptSeeds) /\ NoCopies(blobs, imported)
               /\ NoneRetired(blobs, pastPhrases, imported)
               /\ UnderWay(user[u], blobs, keptSeeds, pastPhrases, imported)
  BY Zenon DEF KeyInv, QuietInv
<1>3. /\ \A seeds : JobOk(Resting, seeds)
      /\ \A b, kept, past, back : UnderWay(Resting, b, kept, past, back)
  BY RestingIsIdle, Zenon
<1> DEFINE n == user[u].name
           t == user[u].to
<1>4. user[u].at = "rename" /\ JobOk(user[u], idSeeds)
  BY <1>1, Zenon DEF Renames
<1>5. /\ user[u].at # "idle" /\ n \in IdNames /\ t \in IdNames /\ t # n
  BY <1>4 DEF JobOk
<1>6. /\ blobs' = blobs \/ blobs' = [blobs EXCEPT ![t] = blobs[n], ![n] = NoBlob]
      /\ user' = [user EXCEPT ![u] = Resting]
      /\ UNCHANGED <<phraseFile, idSeeds, imported, quiet>>
      /\ keptSeeds' = keptSeeds /\ pastPhrases' = pastPhrases
  BY DEF Renames
<1>7. quiet => HeldApart(blobs, keptSeeds, t)
  BY <1>2, <1>4, Zenon DEF UnderWay
<1> HIDE DEF n, t
<1>8. CASE blobs' = blobs
  BY <1>1, <1>2, <1>3, <1>5, <1>6, <1>8, CommandGoesOn, Zenon
<1>9. CASE blobs' = [blobs EXCEPT ![t] = blobs[n], ![n] = NoBlob]
  <2>1. /\ DOMAIN blobs' = IdNames /\ blobs'[t] = blobs[n] /\ blobs'[n] = NoBlob
        /\ \A m \in IdNames : m # n /\ m # t => blobs'[m] = blobs[m]
    BY <1>1, <1>5, <1>9
  <2>2. NoBlob.state # "whole" /\ DOMAIN NoBlob = {"state", "seed", "pass"}
    BY DEF NoBlob
  <2>3. \A m \in IdNames : BlobOk(blobs'[m], idSeeds)
    BY <1>1, <1>5, <2>1, <2>2 DEF BlobOk
  <2>4. \A s : /\ ~ Holds(blobs', n, s) /\ (Holds(blobs', t, s) <=> Holds(blobs, n, s))
              /\ \A m \in IdNames : m # n /\ m # t => (Holds(blobs', m, s) <=> Holds(blobs, m, s))
    BY <2>1, <2>2, Zenon DEF Holds
  <2>5. ASSUME quiet
        PROVE  AllHeld(blobs', keptSeeds)
    <3> SUFFICES ASSUME NEW s \in keptSeeds
                 PROVE  \E m \in IdNames : Holds(blobs', m, s)
      BY Zenon DEF AllHeld
    <3>1. PICK m \in IdNames : m # t /\ Holds(blobs, m, s)
      BY <1>7, <2>5, Zenon DEF HeldApart
    <3> QED
      BY <1>5, <2>4, <3>1, Zenon
  <2>6. ASSUME quiet
        PROVE  NoneRetired(blobs', pastPhrases, imported)
    BY <1>2, <1>5, <2>1, <2>2, <2>6, Zenon DEF NoneRetired
  <2>7. ASSUME quiet
        PROVE  NoCopies(blobs', imported)
    <3> SUFFICES ASSUME NEW l \in IdNames, NEW m \in IdNames, l # m, blobs'[l].state = "whole",
                        Holds(blobs', m, blobs'[l].seed)
                 PROVE  blobs'[l].seed \in imported
      BY Zenon DEF NoCopies
    <3>1. l # n /\ m # n
      BY <2>1, <2>2, <2>4, Zenon
    <3>2. CASE l = t
      BY <1>2, <1>5, <2>1, <2>4, <2>7, <3>1, <3>2, Zenon DEF NoCopies
    <3>3. CASE m = t
      BY <1>2, <1>5, <2>1, <2>4, <2>7, <3>1, <3>3, Zenon DEF NoCopies
    <3>4. CASE l # t /\ m # t
      BY <1>2, <2>1, <2>4, <2>7, <3>1, <3>4, Zenon DEF NoCopies
    <3> QED
      BY <3>2, <3>3, <3>4
  <2> QED
    BY <1>1, <1>3, <1>5, <1>6, <2>1, <2>3, <2>5, <2>6, <2>7, CommandGoesOn, Zenon
<1> QED
  BY <1>6, <1>8, <1>9

\* rotate-passphrase: the blob keeps its seed, and every other passphrase is retired.
LEMMA RotateSwapsKeeps ==
    ASSUME KeyInv, NEW u \in Users, RotateSwaps(u)
    PROVE  KeyInv'
<1>1. /\ idSeeds \in Nat /\ phraseFile \in 0..idSeeds /\ DOMAIN blobs = IdNames
      /\ \A m \in IdNames : BlobOk(blobs[m], idSeeds)
      /\ \A w \in Users : JobOk(user[w], idSeeds)
      /\ \A s, p : <<s, p>> \in pastPhrases => s \in 1..idSeeds
  BY Zenon DEF KeyInv, KeyTypes
<1>2. quiet => /\ AllHeld(blobs, keptSeeds) /\ NoCopies(blobs, imported)
               /\ NoneRetired(blobs, pastPhrases, imported)
               /\ UnderWay(user[u], blobs, keptSeeds, pastPhrases, imported)
  BY Zenon DEF KeyInv, QuietInv
<1>3. /\ \A seeds : JobOk(Resting, seeds)
      /\ \A b, kept, past, back : UnderWay(Resting, b, kept, past, back)
  BY RestingIsIdle, Zenon
<1> DEFINE n == user[u].name
           s == user[u].seed
           p == user[u].pass
           blob == Sealed(u)
<1>4. user[u].at = "swap" /\ JobOk(user[u], idSeeds)
  BY <1>1, Zenon DEF RotateSwaps
<1>5. /\ user[u].at # "idle" /\ n \in IdNames /\ s \in 1..idSeeds /\ p \in IdPasses
  BY <1>4 DEF JobOk
<1>6. /\ DOMAIN blob = {"state", "seed", "pass"} /\ blob.state = "whole" /\ blob.seed = s
      /\ blob.pass = p
  BY DEF Sealed
<1>7. /\ blobs' = [blobs EXCEPT ![n] = blob] /\ user' = [user EXCEPT ![u] = Resting]
      /\ UNCHANGED <<phraseFile, idSeeds, imported, quiet>>
      /\ keptSeeds' = keptSeeds
      /\ pastPhrases' = (pastPhrases \ {<<s, p>>}) \cup {<<s, q>> : q \in IdPasses \ {p}}
  BY DEF RotateSwaps
<1>8. quiet => Holds(blobs, n, s)
  BY <1>2, <1>4, Zenon DEF UnderWay
<1> HIDE DEF n, s, p, blob
<1>9. DOMAIN blobs' = IdNames /\ blobs'[n] = blob /\ \A m \in IdNames : m # n => blobs'[m] = blobs[m]
  BY <1>1, <1>5, <1>7
<1>10. \A m \in IdNames : BlobOk(blobs'[m], idSeeds)
  BY <1>1, <1>5, <1>6, <1>9 DEF BlobOk
<1>11. \A t, q : <<t, q>> \in pastPhrases' =>
          /\ <<t, q>> \in pastPhrases \/ t = s
          /\ <<t, q>> # <<s, p>>
  BY <1>7
<1>12. \A t, q : <<t, q>> \in pastPhrases' => t \in 1..idSeeds
  BY <1>1, <1>5, <1>11, Zenon
<1>13. ASSUME quiet
       PROVE  AllHeld(blobs', keptSeeds) /\ NoCopies(blobs', imported)
              /\ NoneRetired(blobs', pastPhrases', imported)
  <2>1. \A m \in IdNames : \A t : Holds(blobs', m, t) <=> Holds(blobs, m, t)
    BY <1>6, <1>8, <1>9, <1>13, Zenon DEF Holds
  <2>2. \A m \in IdNames : blobs'[m].state = "whole" => Holds(blobs, m, blobs'[m].seed)
    BY <2>1, Zenon DEF Holds
  <2>3. AllHeld(blobs', keptSeeds)
    BY <1>2, <1>13, <2>1, Zenon DEF AllHeld
  <2>4. NoCopies(blobs', imported)
    BY <1>2, <1>13, <2>1, <2>2, ZenonT(40) DEF NoCopies, Holds
  <2>5. NoneRetired(blobs', pastPhrases', imported)
    <3> SUFFICES ASSUME NEW m \in IdNames, blobs'[m].state = "whole",
                        <<blobs'[m].seed, blobs'[m].pass>> \in pastPhrases'
                 PROVE  blobs'[m].seed \in imported
      BY Zenon DEF NoneRetired
    <3>1. m # n
      BY <1>6, <1>9, <1>11, Zenon
    <3>2. blobs'[m] = blobs[m]
      BY <1>9, <3>1, Zenon
    <3>3. CASE blobs'[m].seed = s
      BY <1>2, <1>5, <1>8, <1>13, <3>1, <3>2, <3>3, Zenon DEF NoCopies
    <3>4. CASE blobs'[m].seed # s
      BY <1>2, <1>11, <1>13, <3>2, <3>4, Zenon DEF NoneRetired
    <3> QED
      BY <3>3, <3>4
  <2> QED
    BY <2>3, <2>4, <2>5, Zenon
<1> QED
  BY <1>1, <1>3, <1>5, <1>7, <1>9, <1>10, <1>12, <1>13, CommandGoesOn, Zenon

\* As long as no two commands overlap, no identity reported stored is lost to a rotation, a
\* rename, or a killed command, and no passphrase rotated away opens one that was not imported
\* again (IdentitiesAreKept), for any number of processes, names, passphrases and commands.
THEOREM KeystoreKeeps == KeystoreSpec => []IdentitiesAreKept
<1>1. KeystoreInit => KeyInv
  <2> SUFFICES ASSUME KeystoreInit
               PROVE  KeyInv
    OBVIOUS
  <2>1. KeyTypes
    BY RestingIsIdle DEF KeystoreInit, KeyTypes, BlobOk, NoBlob
  <2>2. \A m \in IdNames : blobs[m].state # "whole"
    BY DEF KeystoreInit, NoBlob
  <2>3. \A u \in Users : user[u].at = "idle"
    BY RestingIsIdle DEF KeystoreInit
  <2>4. keptSeeds = {}
    BY DEF KeystoreInit
  <2>5. QuietInv
    BY <2>2, <2>3, <2>4, RestingIsIdle, Zenon DEF QuietInv, AllHeld, NoCopies, NoneRetired
  <2> QED
    BY <2>1, <2>5, Zenon DEF KeyInv
<1>2. ASSUME KeyInv, KeystoreNext
      PROVE  KeyInv'
  BY <1>2, KeygenKeeps, ImportKeeps, BlobTruncatesKeeps, BlobFillsKeeps, RenameChecksKeeps,
     RenamesKeeps, DeleteOverwritesKeeps, DeleteRemovesKeeps, RotateReadsKeeps, RotateSwapsKeeps,
     UserDiesKeeps, Zenon DEF KeystoreNext
<1>3. ASSUME KeyInv, UNCHANGED keyVars
      PROVE  KeyInv'
  <2>1. /\ blobs' = blobs /\ phraseFile' = phraseFile /\ user' = user /\ idSeeds' = idSeeds
        /\ keptSeeds' = keptSeeds /\ pastPhrases' = pastPhrases /\ imported' = imported
        /\ quiet' = quiet
    BY <1>3 DEF keyVars
  <2> QED
    BY <1>3, <2>1, Zenon DEF KeyInv, KeyTypes, QuietInv
<1>4. KeyInv => IdentitiesAreKept
  <2> SUFFICES ASSUME KeyInv, quiet
               PROVE  /\ \A s \in keptSeeds :
                            \E n \in Listed, p \in IdPasses : VerifyWith(n, p, SignWith(s))
                      /\ NoneRetired(blobs, pastPhrases, imported)
    BY Zenon DEF IdentitiesAreKept, NoIdentityLost, RetiredPassphrasesOpenNothing, NoneRetired
  <2>1. ASSUME NEW s \in keptSeeds
        PROVE  \E n \in Listed, p \in IdPasses : VerifyWith(n, p, SignWith(s))
    <3>1. PICK m \in IdNames : blobs[m].state = "whole" /\ blobs[m].seed = s
      BY Zenon DEF KeyInv, QuietInv, AllHeld, Holds
    <3>2. m \in Listed /\ blobs[m].pass \in IdPasses
      BY <3>1 DEF Listed, KeyInv, KeyTypes, BlobOk
    <3>3. VerifyWith(m, blobs[m].pass, SignWith(s))
      BY <3>1, Zenon DEF VerifyWith, RecoverBlob
    <3> QED
      BY <3>2, <3>3, Zenon
  <2> QED
    BY <2>1, Zenon DEF KeyInv, QuietInv
<1> QED
  BY <1>1, <1>2, <1>3, <1>4, PTL DEF KeystoreSpec

-----------------------------------------------------------------------------
(* Payments over HTTP. *)

\* The records have their fields.
HttpShape ==
  /\ DOMAIN pay = {"at", "rail", "amount", "url", "try", "value"}
  /\ DOMAIN reply = {"status", "header", "amount", "body", "length", "retryAfter", "got", "cut"}
  /\ DOMAIN copy = {"on", "resource", "auth", "signed", "url"}

\* Where an attempt is tells its rail, and a payment the split has let through is for
\* the order's amount.
AttemptInv ==
  /\ pay.at = "new" => debits = {}
  /\ pay.at \in {"new", "over"} => reply = NoReply
  /\ pay.at \in {"require", "verify", "settle"} => pay.rail # "card"
  /\ pay.at = "pay" => pay.rail = "direct"
  /\ pay.at = "authorize" => pay.rail = "card"
  /\ pay.at \in {"verify", "settle"} => pay.rail # "direct" /\ pay.value = pay.amount

\* A receipt on its way says success only for what was charged.
ReceiptInv ==
  /\ pay.at = "pay" /\ reply.header = "success" => Charged
  /\ pay.at = "settle" /\ (reply.header = "success" \/ reply.body = "success") => Charged
  /\ pay.at = "authorize" /\ reply.body = "success" => debits # {}

\* The signature of a payload covers the URL it was signed for, wherever it went.
CopyInv == copy.on => copy.signed = AuthorizationCanonical(copy.auth, copy.url)

\* The inductive invariant of an exchange.
HttpInv == HttpShape /\ AttemptInv /\ ReceiptInv /\ CopyInv /\ SettledMeansCharged /\ ChargesAreTheOrders

-----------------------------------------------------------------------------
\* What the invariant says of a state, field by field: the shapes are apart.
HttpCore == AttemptInv /\ ReceiptInv /\ SettledMeansCharged /\ ChargesAreTheOrders

\* Nothing of the attempt but its place changes.
AttemptMoves(at) ==
  /\ pay'.at = at /\ pay'.rail = pay.rail /\ pay'.amount = pay.amount /\ pay'.try = pay.try
  /\ DOMAIN pay' = DOMAIN pay

\* What stands for no reply says nothing.
LEMMA NoReplyFields ==
  /\ NoReply.header = "none" /\ NoReply.body = "empty" /\ NoReply.status = 0
  /\ DOMAIN NoReply = {"status", "header", "amount", "body", "length", "retryAfter", "got", "cut"}
BY DEF NoReply

\* An attempt that ends keeps its order and drops the reply.
LEMMA EndsMoves ==
  ASSUME HttpShape, NEW o, Ends(o)
  PROVE  AttemptMoves("over") /\ reply' = NoReply /\ outcome' = o
BY DEF HttpShape, Ends, AttemptMoves

\* An attempt that ends without a charge being made or reported.
LEMMA EndKeeps ==
  ASSUME HttpShape, HttpCore, UNCHANGED debits, NEW o, Ends(o),
         pay.at # "new",
         o = "settled" => debits # {} /\ (pay.rail # "card" => Charged)
  PROVE  HttpCore'
<1>1. AttemptMoves("over") /\ reply' = NoReply /\ outcome' = o BY EndsMoves
<1>2. Charged' <=> Charged BY <1>1 DEF AttemptMoves, Charged
<1>3. SettledMeansCharged' BY <1>1, <1>2 DEF SettledMeansCharged, AttemptMoves
<1>4. ChargesAreTheOrders' BY <1>1 DEF ChargesAreTheOrders, AttemptMoves, HttpCore
<1>5. AttemptInv' BY <1>1 DEF AttemptInv, AttemptMoves, HttpCore
<1>6. ReceiptInv' BY <1>1 DEF ReceiptInv, AttemptMoves
<1>7. QED BY <1>3, <1>4, <1>5, <1>6 DEF HttpCore

\* A new attempt, of an order that is new or whose last attempt may be retried.
LEMMA StartKeeps ==
  ASSUME HttpShape, HttpCore, NEW rail \in HttpRails, StartAttempt(rail)
  PROVE  HttpCore'
<1>1. /\ pay'.at = IF rail = "card" THEN "authorize" ELSE "require"
      /\ pay'.rail = rail /\ pay'.amount = pay.amount
      /\ UNCHANGED <<reply, debits>> /\ outcome' = "none"
  BY DEF StartAttempt, HttpShape
<1>2. reply = NoReply /\ (pay.rail = rail \/ debits = {})
  BY DEF StartAttempt, HttpCore, AttemptInv
<1>3. AttemptInv' BY <1>1 DEF AttemptInv
<1>4. ReceiptInv' BY <1>1, <1>2, NoReplyFields DEF ReceiptInv
<1>5. SettledMeansCharged' BY <1>1 DEF SettledMeansCharged
<1>6. ChargesAreTheOrders' BY <1>1, <1>2 DEF ChargesAreTheOrders, HttpCore
<1>7. QED BY <1>3, <1>4, <1>5, <1>6 DEF HttpCore

\* A request that cannot make the provider charge.
LEMMA AskKeeps ==
  ASSUME HttpShape, HttpCore, AskRequirements \/ PostVerify
  PROVE  HttpCore'
<1>1. UNCHANGED <<pay, debits, outcome>> /\ pay.at \in {"require", "verify"}
  BY Zenon DEF AskRequirements, PostVerify, Sends
<1>2. AttemptInv' BY <1>1 DEF AttemptInv, HttpCore
<1>3. ReceiptInv' BY <1>1 DEF ReceiptInv
<1>4. SettledMeansCharged' BY <1>1 DEF SettledMeansCharged, HttpCore, Charged
<1>5. ChargesAreTheOrders' BY <1>1 DEF ChargesAreTheOrders, HttpCore
<1>6. QED BY <1>2, <1>3, <1>4, <1>5 DEF HttpCore

\* The requirements are read: the payment goes on for the amount the resource asked
\* for, on the split and the ach rail only when it is the order's.
LEMMA RequirementsKeep ==
  ASSUME HttpShape, HttpCore, RequirementsRead
  PROVE  HttpCore'
<1>0. pay.at = "require" /\ UNCHANGED debits BY DEF RequirementsRead
<1>1. CASE Ends("retry") \/ Ends("refused")
  BY <1>0, <1>1, EndKeeps
<1>2. CASE /\ pay.rail = "direct" /\ pay' = [pay EXCEPT !.at = "pay", !.value = reply.amount]
           /\ reply' = NoReply /\ UNCHANGED outcome
  <2>1. /\ AttemptMoves("pay") /\ pay.rail = "direct" BY <1>2 DEF HttpShape, AttemptMoves
  <2>2. Charged' <=> Charged BY <1>0, <2>1 DEF AttemptMoves, Charged
  <2>3. AttemptInv' BY <2>1 DEF AttemptInv, AttemptMoves
  <2>4. ReceiptInv' BY <1>2, <2>1, NoReplyFields DEF ReceiptInv, AttemptMoves
  <2>5. SettledMeansCharged' BY <1>0, <1>2, <2>1, <2>2 DEF SettledMeansCharged, HttpCore, AttemptMoves
  <2>6. ChargesAreTheOrders' BY <1>0, <2>1 DEF ChargesAreTheOrders, HttpCore, AttemptMoves
  <2>7. QED BY <2>3, <2>4, <2>5, <2>6 DEF HttpCore
<1>3. CASE /\ pay.rail # "direct" /\ pay' = [pay EXCEPT !.at = "verify", !.value = reply.amount]
           /\ VerifySignedPayload(HybridSign(reply.amount, pay.try, pay.url), pay.url, pay.amount)
           /\ reply' = NoReply /\ UNCHANGED outcome
  <2>1. AttemptMoves("verify") /\ pay.rail # "direct" /\ pay'.value = reply.amount
    BY <1>3 DEF HttpShape, AttemptMoves
  <2>2. reply.amount = pay.amount BY <1>3 DEF VerifySignedPayload, HybridSign
  <2>3. Charged' <=> Charged BY <1>0, <2>1 DEF AttemptMoves, Charged
  <2>4. AttemptInv' BY <1>0, <2>1, <2>2 DEF AttemptInv, AttemptMoves, HttpCore
  <2>5. ReceiptInv' BY <2>1 DEF ReceiptInv, AttemptMoves
  <2>6. SettledMeansCharged' BY <1>0, <1>3, <2>1, <2>3 DEF SettledMeansCharged, HttpCore, AttemptMoves
  <2>7. ChargesAreTheOrders' BY <1>0, <2>1 DEF ChargesAreTheOrders, HttpCore, AttemptMoves
  <2>8. QED BY <2>4, <2>5, <2>6, <2>7 DEF HttpCore
<1>4. QED BY <1>1, <1>2, <1>3, Zenon DEF RequirementsRead, OnRailUnavailable

\* A request the provider may charge for, direct or through the facilitator.
LEMMA ChargeKeeps ==
  ASSUME HttpShape, HttpCore, PayResource \/ PostSettle
  PROVE  HttpCore'
<1>1. PICK yes \in BOOLEAN :
        /\ pay.at \in {"pay", "settle"} /\ UNCHANGED <<pay, outcome>> /\ TakeCharge(yes)
        /\ reply'.header = "success" \/ reply'.body = "success" => yes
  <2>1. CASE PayResource
    <3>1. PICK h \in {"none", "success", "settlement_pending", "failed"}, l \in BOOLEAN :
            /\ Sends("pay", Answering(IF h = "success" THEN 200 ELSE 402, h, 0, "empty", l, FALSE))
            /\ TakeCharge(h = "success")
      BY <2>1, Zenon DEF PayResource
    <3>2. /\ pay.at = "pay" /\ pay' = pay /\ outcome' = outcome
          /\ reply'.header = h /\ reply'.body = "empty"
      BY <3>1, SMT DEF Sends, Answering
    <3>3. QED BY <3>1, <3>2, Zenon
  <2>2. CASE PostSettle
    <3>1. PICK x \in {"success", "settlement_pending", "failed"}, i, l, r \in BOOLEAN :
            /\ Sends("settle", Answering(200, IF i THEN x ELSE "none", 0, IF i THEN "empty" ELSE x, l, r))
            /\ TakeCharge(x = "success")
      BY <2>2, Zenon DEF PostSettle
    <3>2. /\ pay.at = "settle" /\ pay' = pay /\ outcome' = outcome
          /\ reply'.header = (IF i THEN x ELSE "none") /\ reply'.body = IF i THEN "empty" ELSE x
      BY <3>1, SMT DEF Sends, Answering
    <3>3. QED BY <3>1, <3>2, Zenon
  <2>3. QED BY <2>1, <2>2
<1>0. UNCHANGED <<pay, outcome>> /\ pay.at \in {"pay", "settle"} BY <1>1
<1>2. /\ debits \subseteq debits' /\ (yes => Charged')
      /\ \A c \in debits' : c \in debits \/ c.value = pay.value
  <2> DEFINE new == [try |-> pay.try, value |-> pay.value]
  <2>1. new.try = pay.try /\ new.value = pay.value OBVIOUS
  <2> HIDE DEF new
  <2>2. debits' = IF yes THEN debits \cup {new} ELSE debits BY <1>1 DEF TakeCharge, new
  <2>3. QED BY <1>0, <2>1, <2>2 DEF Charged
<1>3. Charged => Charged' BY <1>0, <1>2 DEF Charged
<1>4. AttemptInv' BY <1>0 DEF AttemptInv, HttpCore
<1>5. ReceiptInv' BY <1>0, <1>1, <1>2 DEF ReceiptInv
<1>6. SettledMeansCharged' BY <1>0, <1>2, <1>3 DEF SettledMeansCharged, HttpCore
<1>7. ChargesAreTheOrders'
  <2>1. CASE pay.at = "pay" BY <1>0, <2>1 DEF ChargesAreTheOrders, HttpCore, AttemptInv
  <2>2. CASE pay.at = "settle"
    BY <1>0, <1>2, <2>2 DEF ChargesAreTheOrders, HttpCore, AttemptInv
  <2>3. QED BY <1>0, <2>1, <2>2
<1>8. QED BY <1>4, <1>5, <1>6, <1>7 DEF HttpCore

\* The card's provider charges the order itself, once.
LEMMA AuthorizeKeeps ==
  ASSUME HttpShape, HttpCore, PostAuthorize
  PROVE  HttpCore'
<1>0. /\ UNCHANGED <<pay, outcome>> /\ pay.at = "authorize" /\ pay.rail = "card"
      /\ debits' = debits \/ debits' = {[try |-> 1, value |-> pay.amount]}
      /\ reply'.body = "success" => debits' # {}
  <2>1. pay.at = "authorize" => pay.rail = "card" BY DEF HttpCore, AttemptInv
  <2>2. ASSUME NEW x, NEW l, Sends("authorize", Answering(200, "none", 0, x, l, FALSE)),
               debits' = IF x = "success" THEN {[try |-> 1, value |-> pay.amount]} ELSE debits
        PROVE  /\ UNCHANGED <<pay, outcome>> /\ pay.at = "authorize"
               /\ debits' = debits \/ debits' = {[try |-> 1, value |-> pay.amount]}
               /\ reply'.body = "success" => debits' # {}
    <3>1. /\ pay.at = "authorize" /\ pay' = pay /\ outcome' = outcome /\ reply'.body = x
      BY <2>2, SMT DEF Sends, Answering
    <3>2. QED BY <2>2, <3>1, Zenon
  <2>3. ASSUME Sends("authorize", Answering(500, "none", 0, "empty", TRUE, FALSE)), UNCHANGED debits
        PROVE  UNCHANGED <<pay, outcome, debits>> /\ pay.at = "authorize" /\ reply'.body = "empty"
    <3>1. pay.at = "authorize" /\ pay' = pay /\ outcome' = outcome /\ reply'.body = "empty"
      BY <2>3, SMT DEF Sends, Answering
    <3>2. QED BY <2>3, <3>1
  <2>4. QED BY <2>1, <2>2, <2>3, ZenonT(40) DEF PostAuthorize
<1>1. AttemptInv' BY <1>0 DEF AttemptInv, HttpCore
<1>2. ReceiptInv' BY <1>0 DEF ReceiptInv
<1>3. SettledMeansCharged' BY <1>0, Zenon DEF SettledMeansCharged, HttpCore
<1>4. ChargesAreTheOrders' BY <1>0 DEF ChargesAreTheOrders, HttpCore
<1>5. QED BY <1>1, <1>2, <1>3, <1>4 DEF HttpCore

\* A reply is read to its end and its receipt is believed.
LEMMA ReceiptKeeps ==
  ASSUME HttpShape, HttpCore, PaymentResponseRead \/ SettleRead \/ AuthorizeRead
  PROVE  HttpCore'
<1>0. UNCHANGED debits /\ pay.at # "new" BY DEF PaymentResponseRead, SettleRead, AuthorizeRead
<1>1. PICK o : Ends(o) /\ (o = "settled" => debits # {} /\ (pay.rail # "card" => Charged))
  <2>1. CASE PaymentResponseRead
    BY <2>1 DEF PaymentResponseRead, X402Status, OnRailUnavailable, HttpCore, ReceiptInv, Charged
  <2>2. CASE SettleRead
    BY <2>2 DEF SettleRead, X402Status, SettleOutcome, OnRailUnavailable, OnMalformed, BodyRead,
                HttpCore, ReceiptInv, Charged
  <2>3. CASE AuthorizeRead
    BY <2>3 DEF AuthorizeRead, X402Status, OnRailUnavailable, OnMalformed, BodyRead,
                HttpCore, ReceiptInv, AttemptInv
  <2>4. QED BY <2>1, <2>2, <2>3
<1>2. QED BY <1>0, <1>1, EndKeeps

\* The facilitator's verdict is read, an answer is read bit by bit, no connection.
LEMMA OthersKeep ==
  ASSUME HttpShape, HttpCore, VerifyRead \/ Reading \/ NotConnected \/ CopyMoves
  PROVE  HttpCore'
<1>1. CASE VerifyRead
  <2>0. pay.at = "verify" /\ UNCHANGED debits BY <1>1 DEF VerifyRead
  <2>1. CASE \E o \in {"retry", "refused"} : Ends(o) BY <2>0, <2>1, EndKeeps
  <2>2. CASE pay' = [pay EXCEPT !.at = "settle"] /\ reply' = NoReply /\ UNCHANGED outcome
    <3>1. AttemptMoves("settle") /\ pay'.value = pay.value BY <2>2 DEF HttpShape, AttemptMoves
    <3>2. Charged' <=> Charged BY <2>0, <3>1 DEF AttemptMoves, Charged
    <3>3. AttemptInv' BY <2>0, <3>1 DEF AttemptInv, AttemptMoves, HttpCore
    <3>4. ReceiptInv' BY <2>2, <3>1, NoReplyFields DEF ReceiptInv, AttemptMoves
    <3>5. SettledMeansCharged' BY <2>0, <2>2, <3>1, <3>2 DEF SettledMeansCharged, HttpCore, AttemptMoves
    <3>6. ChargesAreTheOrders' BY <2>0, <3>1 DEF ChargesAreTheOrders, HttpCore, AttemptMoves
    <3>7. QED BY <3>3, <3>4, <3>5, <3>6 DEF HttpCore
  <2>3. QED BY <1>1, <2>1, <2>2 DEF VerifyRead, OnRailUnavailable, OnMalformed
<1>2. CASE Reading
  <2>0. UNCHANGED <<pay, debits, outcome>> BY <1>2 DEF Reading
  <2>1. reply'.header = reply.header /\ reply'.body = reply.body /\ reply.status # 0
    BY <1>2 DEF Reading, HttpShape
  <2>2. Charged' <=> Charged BY <2>0 DEF Charged
  <2>3. AttemptInv' BY <2>0, <2>1, NoReplyFields DEF AttemptInv, HttpCore
  <2>4. ReceiptInv' BY <2>0, <2>1, <2>2 DEF ReceiptInv, HttpCore
  <2>5. SettledMeansCharged' BY <2>0, <2>2 DEF SettledMeansCharged, HttpCore
  <2>6. ChargesAreTheOrders' BY <2>0 DEF ChargesAreTheOrders, HttpCore
  <2>7. QED BY <2>3, <2>4, <2>5, <2>6 DEF HttpCore
<1>3. CASE NotConnected
  <2>1. pay.at # "new" /\ Ends("retry") /\ UNCHANGED debits BY <1>3 DEF NotConnected
  <2>2. QED BY <2>1, EndKeeps
<1>4. CASE CopyMoves
  <2>1. UNCHANGED <<pay, reply, debits, outcome>> BY <1>4 DEF CopyMoves
  <2>2. QED BY <2>1 DEF HttpCore, AttemptInv, ReceiptInv, SettledMeansCharged, ChargesAreTheOrders, Charged
<1>5. QED BY <1>1, <1>2, <1>3, <1>4

-----------------------------------------------------------------------------
\* The records keep their fields.
LEMMA ShapeKept ==
  ASSUME HttpShape, HttpNext
  PROVE  HttpShape'
<1> USE DEF HttpShape
<1>0. DOMAIN NoReply = {"status", "header", "amount", "body", "length", "retryAfter", "got", "cut"}
  BY NoReplyFields
<1>1. ASSUME NEW rail \in HttpRails, StartAttempt(rail) PROVE HttpShape' BY <1>1 DEF StartAttempt
<1>2. CASE AskRequirements BY <1>2, Zenon DEF AskRequirements, Sends, Answering
<1>3. CASE RequirementsRead BY <1>0, <1>3, Zenon DEF RequirementsRead, Ends, HybridSign
<1>4. CASE PayResource BY <1>4 DEF PayResource, Sends, Answering
<1>5. CASE PaymentResponseRead BY <1>0, <1>5 DEF PaymentResponseRead, Ends
<1>6. CASE PostVerify BY <1>6 DEF PostVerify, Sends, Answering
<1>7. CASE VerifyRead BY <1>0, <1>7 DEF VerifyRead, Ends
<1>8. CASE PostSettle BY <1>8 DEF PostSettle, Sends, Answering
<1>9. CASE SettleRead BY <1>0, <1>9 DEF SettleRead, Ends
<1>10. CASE PostAuthorize BY <1>10 DEF PostAuthorize, Sends, Answering
<1>11. CASE AuthorizeRead BY <1>0, <1>11 DEF AuthorizeRead, Ends
<1>12. CASE Reading BY <1>12 DEF Reading
<1>13. CASE NotConnected BY <1>0, <1>13 DEF NotConnected, Ends
<1>14. CASE CopyMoves BY <1>14, Zenon DEF CopyMoves
<1>15. QED
  BY <1>1, <1>2, <1>3, <1>4, <1>5, <1>6, <1>7, <1>8, <1>9, <1>10, <1>11, <1>12, <1>13, <1>14, Zenon
  DEF HttpNext

\* A payload is signed once, when the requirements are read, and only its resource
\* field is rewritten afterwards.
LEMMA CopyKept ==
  ASSUME HttpShape, CopyInv, HttpNext
  PROVE  CopyInv'
<1>1. CASE copy' = copy BY <1>1 DEF CopyInv
<1>2. CASE CopyMoves BY <1>2 DEF CopyMoves, CopyInv, HttpShape
<1>3. ASSUME RequirementsRead, copy' = HybridSign(reply.amount, pay.try, pay.url) PROVE CopyInv'
  BY <1>3 DEF CopyInv, HybridSign
<1>4. CASE RequirementsRead BY <1>1, <1>3, <1>4 DEF RequirementsRead
<1>5. QED
  BY <1>1, <1>2, <1>4, Zenon DEF HttpNext, StartAttempt, AskRequirements, PayResource, PaymentResponseRead,
     PostVerify, VerifyRead, PostSettle, SettleRead, PostAuthorize, AuthorizeRead, Reading,
     NotConnected, Sends

\* A signature that covers the URL verifies at no other endpoint.
LEMMA SignedForOne ==
  ASSUME CopyInv
  PROVE  PaymentsStayAtTheirEndpoint
BY DEF CopyInv, PaymentsStayAtTheirEndpoint, VerifyPaymentPayload, AuthorizationCanonical

\* Settled means charged, for the order's amount, at the endpoint it was signed for,
\* whatever the provider answers and however its replies are cut.
THEOREM HttpChargesGenuine == HttpSpec => []ChargesAreGenuine
<1>1. HttpInit => HttpInv
  BY NoReplyFields
     DEF HttpInit, HttpInv, HttpShape, AttemptInv, ReceiptInv, CopyInv, SettledMeansCharged,
         ChargesAreTheOrders, NoCopy
<1>2. HttpInv /\ [HttpNext]_httpVars => HttpInv'
  <2> SUFFICES ASSUME HttpInv, [HttpNext]_httpVars PROVE HttpInv' BY Zenon
  <2>1. CASE UNCHANGED httpVars
    BY <2>1 DEF httpVars, HttpInv, HttpShape, AttemptInv, ReceiptInv, CopyInv, SettledMeansCharged,
                ChargesAreTheOrders, Charged
  <2>2. CASE HttpNext
    <3>1. HttpShape' /\ CopyInv' BY <2>2, ShapeKept, CopyKept DEF HttpInv
    <3>2. HttpShape /\ HttpCore BY DEF HttpInv, HttpCore
    <3>3. HttpCore'
      BY <2>2, <3>2, StartKeeps, AskKeeps, RequirementsKeep, ChargeKeeps, AuthorizeKeeps,
         ReceiptKeeps, OthersKeep, Zenon DEF HttpNext
    <3>4. QED BY <3>1, <3>3 DEF HttpInv, HttpCore
  <2>3. QED BY <2>1, <2>2
<1>3. HttpInv => ChargesAreGenuine BY SignedForOne DEF HttpInv, ChargesAreGenuine
<1>4. QED BY <1>1, <1>2, <1>3, PTL DEF HttpSpec

-----------------------------------------------------------------------------
(* PSP callbacks. *)

\* What a callback reports of a payment.
Statuses == {"settled", "failed", "odd"}

\* Connections made: a callback of the PSP, or a request of anyone else.
Requests ==
    [stage : {"request"}, path : BOOLEAN, json : BOOLEAN, dated : BOOLEAN,
     signature : {<<>>} \cup ({"webhook"} \X Statuses \X Int \X BOOLEAN),
     stalls : {"never", "request", "headers", "body", "drips"}, lines : {0}, status : Statuses,
     sentAt : Int]

\* Every request, waiting or being read, says when it was sent.
RequestsInv ==
    /\ minute \in Int
    /\ backlog \in Seq(Requests)
    /\ reading.sentAt \in Int
    /\ DOMAIN reading = DOMAIN Idle

\* An order that waits has not been resolved in this wait, which began by now, and
\* none was resolved in a wait still to come.
WaitsInv ==
    /\ order = [status |-> order.status, waits |-> order.waits, since |-> order.since]
    /\ order.waits \in Int
    /\ order.since \in Int /\ order.since <= minute
    /\ \A a \in acts : /\ a.resolved \in Int
                       /\ a.resolved <= order.waits
                       /\ order.status = "REQUIRES_ACTION" => a.resolved < order.waits

\* The inductive invariant of the receiver.
RecvInv == RequestsInv /\ WaitsInv /\ WaitsResolveOnce

\* A connection made goes to the end of the backlog and touches nothing else.
LEMMA PostKeeps ==
    ASSUME RecvInv, NEW r \in Requests, backlog' = Append(backlog, r),
           UNCHANGED <<order, minute, secret, reading, acts>>
    PROVE  RecvInv'
<1>1. RequestsInv'
  BY DEF RecvInv, RequestsInv
<1>2. WaitsInv' /\ WaitsResolveOnce'
  BY DEF RecvInv, WaitsInv, WaitsResolveOnce, EachWaitResolvedOnce, RepeatsRunOut
<1> QED
  BY <1>1, <1>2 DEF RecvInv

\* Whoever calls, what arrives is a request.
LEMMA PostsKeep ==
    ASSUME RecvInv, PspPosts \/ SlowPosts \/ OtherPosts
    PROVE  RecvInv'
<1>1. CASE PspPosts
  <2>1. PICK at \in 0..minute, status \in Statuses, dated \in BOOLEAN :
          Post(Request(TRUE, TRUE, dated, Hmac("webhook", status, at, dated), "never", status, at))
    BY <1>1, Zenon DEF PspPosts, Statuses
  <2> DEFINE q == Request(TRUE, TRUE, dated, Hmac("webhook", status, at, dated), "never", status, at)
  <2>2. at \in Int
    BY <2>1, SMTT(40) DEF RecvInv, RequestsInv
  <2>3. q \in Requests
    BY <2>2 DEF Requests, Request, Hmac, Statuses
  <2> HIDE DEF q
  <2>4. backlog' = Append(backlog, q) /\ UNCHANGED <<order, minute, secret, reading, acts>>
    BY <2>1 DEF Post, q
  <2> QED
    BY <2>3, <2>4, PostKeeps
<1>2. CASE OtherPosts
  <2>1. PICK path \in BOOLEAN, json \in BOOLEAN :
          Post(Request(path, json, FALSE, <<>>, "never", "settled", 0))
    BY <1>2, Zenon DEF OtherPosts
  <2> DEFINE q == Request(path, json, FALSE, <<>>, "never", "settled", 0)
  <2>2. q \in Requests
    BY DEF Requests, Request, Statuses
  <2> HIDE DEF q
  <2>3. backlog' = Append(backlog, q) /\ UNCHANGED <<order, minute, secret, reading, acts>>
    BY <2>1 DEF Post, q
  <2> QED
    BY <2>2, <2>3, PostKeeps
<1>3. CASE SlowPosts
  <2>1. PICK stalls \in {"request", "headers", "body", "drips"} :
          Post(Request(TRUE, TRUE, TRUE, Hmac("webhook", "settled", minute, TRUE), stalls,
                       "settled", minute))
    BY <1>3, Zenon DEF SlowPosts
  <2> DEFINE q == Request(TRUE, TRUE, TRUE, Hmac("webhook", "settled", minute, TRUE), stalls,
                          "settled", minute)
  <2>2. q \in Requests
    <3>1. minute \in Int
      BY DEF RecvInv, RequestsInv
    <3> QED
      BY <2>1, <3>1, Zenon DEF Requests, Request, Hmac, Statuses
  <2> HIDE DEF q
  <2>3. backlog' = Append(backlog, q) /\ UNCHANGED <<order, minute, secret, reading, acts>>
    BY <2>1 DEF Post, q
  <2> QED
    BY <2>2, <2>3, PostKeeps
<1> QED
  BY <1>1, <1>2, <1>3

\* The clock and the next wait: a wait begins only when the order had left the one
\* before, so what was resolved lies in earlier waits.
LEMMA WorldKeeps ==
    ASSUME RecvInv, TimePasses \/ WaitsAgain
    PROVE  RecvInv'
<1>1. RequestsInv'
  BY DEF TimePasses, WaitsAgain, RecvInv, RequestsInv
<1>2. WaitsInv'
  <2>1. CASE TimePasses
    BY <2>1 DEF TimePasses, RecvInv, RequestsInv, WaitsInv
  <2>2. CASE WaitsAgain
    <3>1. /\ order' = [status |-> "REQUIRES_ACTION", waits |-> order.waits + 1, since |-> minute]
          /\ minute' = minute /\ acts' = acts
      BY <2>2 DEF WaitsAgain
    <3>2. /\ minute \in Int /\ order.waits \in Int
          /\ \A a \in acts : a.resolved \in Int /\ a.resolved <= order.waits
      BY DEF RecvInv, RequestsInv, WaitsInv
    <3> QED
      BY <3>1, <3>2 DEF WaitsInv
  <2> QED
    BY <2>1, <2>2
<1>3. WaitsResolveOnce'
  BY DEF TimePasses, WaitsAgain, RecvInv, WaitsResolveOnce, EachWaitResolvedOnce,
         RepeatsRunOut
<1> QED
  BY <1>1, <1>2, <1>3 DEF RecvInv

\* Accepting and reading change nothing but the connections.
LEMMA ReadingKeeps ==
    ASSUME RecvInv, Accept_ \/ ReadRequestLine \/ ReadHeaders \/ ReadBody
    PROVE  RecvInv'
<1>1. CASE Accept_
  <2>1. Head(backlog) \in Requests /\ Tail(backlog) \in Seq(Requests)
    BY <1>1 DEF Accept_, RecvInv, RequestsInv
  <2>2. \A r \in Requests : r.sentAt \in Int /\ DOMAIN r = DOMAIN Idle
    BY DEF Requests, Idle
  <2>3. RequestsInv'
    BY <1>1, <2>1, <2>2 DEF Accept_, RecvInv, RequestsInv
  <2> QED
    BY <1>1, <2>3 DEF Accept_, RecvInv, WaitsInv, WaitsResolveOnce, EachWaitResolvedOnce,
                      RepeatsRunOut
<1>2. CASE ReadRequestLine \/ ReadHeaders \/ ReadBody
  <2>1. RequestsInv'
    BY <1>2 DEF ReadRequestLine, ReadHeaders, ReadBody, ReadOn, Answered, Idle, RecvInv, RequestsInv
  <2> QED
    BY <1>2, <2>1 DEF ReadRequestLine, ReadHeaders, ReadBody, RecvInv, WaitsInv,
                      WaitsResolveOnce, EachWaitResolvedOnce, RepeatsRunOut
<1> QED
  BY <1>1, <1>2

\* A callback that changes the order finds it waiting, is timely, and ends the wait.
LEMMA HandleKeeps ==
    ASSUME RecvInv, Handle
    PROVE  RecvInv'
<1>1. RequestsInv'
  BY DEF Handle, Answered, Idle, RecvInv, RequestsInv
<1>2. order' = [status |-> order'.status, waits |-> order.waits, since |-> order.since]
  BY DEF Handle, RecvInv, WaitsInv
<1>3. CASE order' = order
  <2>1. acts' = acts
    BY <1>3 DEF Handle
  <2> QED
    BY <1>1, <1>3, <2>1 DEF Handle, RecvInv, WaitsInv, WaitsResolveOnce, EachWaitResolvedOnce,
                            RepeatsRunOut
<1>4. CASE order' # order
  <2> DEFINE a == [resolved |-> order.waits, began |-> order.since, sentAt |-> reading.sentAt,
                   dated |-> reading.dated, status |-> reading.status]
  <2>1. /\ Timely(reading)
        /\ order' = [order EXCEPT !.status = Process(reading)]
        /\ acts' = acts \cup {a}
    BY <1>4 DEF Handle
  <2>2. order.status = "REQUIRES_ACTION" /\ order'.status # "REQUIRES_ACTION"
    <3>1. order'.status = Process(reading) /\ order'.status # order.status
      BY <1>2, <1>4, <2>1 DEF RecvInv, WaitsInv
    <3> QED
      BY <3>1 DEF Process, Resolved
  <2>3. a.dated => a.began - a.sentAt <= Tolerance
    <3>1. order.since \in Int /\ minute \in Int /\ reading.sentAt \in Int /\ order.since <= minute
      BY DEF RecvInv, WaitsInv, RequestsInv
    <3> QED
      BY <2>1, <3>1, ToleranceIsANumber DEF Timely, Abs
  <2>4. order'.waits = order.waits /\ order.waits \in Int /\ a.resolved = order.waits
    BY <1>2 DEF RecvInv, WaitsInv
  <2>5. \A b \in acts : b.resolved \in Int /\ b.resolved < a.resolved
    BY <2>2, <2>4 DEF RecvInv, WaitsInv
  <2> HIDE DEF a
  <2>6. WaitsInv'
    <3>1. minute' = minute /\ order.since \in Int /\ order.since <= minute
      BY DEF Handle, RecvInv, WaitsInv
    <3> QED
      BY <1>2, <2>1, <2>2, <2>4, <2>5, <3>1 DEF WaitsInv
  <2>7. EachWaitResolvedOnce'
    BY <2>1, <2>4, <2>5 DEF RecvInv, WaitsResolveOnce, EachWaitResolvedOnce
  <2>8. RepeatsRunOut'
    BY <2>1, <2>3 DEF RecvInv, WaitsResolveOnce, RepeatsRunOut
  <2> QED
    BY <1>1, <2>6, <2>7, <2>8 DEF RecvInv, WaitsResolveOnce
<1> QED
  BY <1>3, <1>4

\* However often the PSP repeats a callback, however the network delays it and however
\* often the order waits again: each wait is resolved at most once, and by a dated
\* callback only if it began inside the callback's window.
THEOREM WebhookResolvesOnce == RecvSpec => []WaitsResolveOnce
<1>1. RecvInit => RecvInv
  BY DEF RecvInit, RecvInv, RequestsInv, WaitsInv, WaitsResolveOnce, EachWaitResolvedOnce,
         RepeatsRunOut, Idle
<1>2. RecvInv /\ [RecvNext]_recvVars => RecvInv'
  <2>1. CASE UNCHANGED recvVars
    BY <2>1 DEF recvVars, RecvInv, RequestsInv, WaitsInv, WaitsResolveOnce,
                EachWaitResolvedOnce, RepeatsRunOut
  <2> QED
    BY <2>1, PostsKeep, WorldKeeps, ReadingKeeps, HandleKeeps DEF RecvNext, Serve_
<1> QED
  BY <1>1, <1>2, PTL DEF RecvSpec, RecvInv
=============================================================================
