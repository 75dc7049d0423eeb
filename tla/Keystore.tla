------------------------------ MODULE Keystore -------------------------------
(***************************************************************************)
(* The identity directory of origin-identity: one sealed blob per name, and *)
(* a recovery phrase file.  keygen and import write the blob in place;      *)
(* rotate-passphrase writes a temporary file and renames it over the blob;  *)
(* rename and delete work on the path.  Nothing locks the directory, and a  *)
(* command may be killed between any two steps.                             *)
(***************************************************************************)
EXTENDS Naturals, FiniteSets

CONSTANTS
    Users,         \* processes running a command
    IdNames,
    IdPasses,
    MaxIdSeeds,    \* identities generated
    MaxIdCommands

VARIABLES
    blobs,      \* name -> [state, seed, pass]: the .id file
    phraseFile, \* the seed last written by --phrase-output, 0 when none
    user,       \* each process: [at, name, to, seed, pass]
    idSeeds, idCommands,
    keptSeeds,  \* history: seeds reported stored and not given up since
    pastPhrases,    \* history: passphrases rotated away, as <<seed, pass>>
    imported,   \* history: seeds brought back from the phrase, under any name
    quiet       \* history: no two commands ever overlapped

keyVars == <<blobs, phraseFile, user, idSeeds, idCommands, keptSeeds, pastPhrases,
             imported, quiet>>

NoBlob == [state |-> "none", seed |-> 0, pass |-> 0]
Resting == [at |-> "idle", name |-> 0, to |-> 0, seed |-> 0, pass |-> 0]

\* recover_seed: a whole blob and its passphrase (and tier) give the seed back.
RecoverBlob(b, pass) == b.state = "whole" /\ b.pass = pass

\* cmd_sign and cmd_verify: both derive the key bundle from the recovered seed.
SignWith(seed) == <<"signature", seed>>
VerifyWith(n, pass, sig) == RecoverBlob(blobs[n], pass) /\ SignWith(blobs[n].seed) = sig

\* cmd_list: every .id file, malformed ones included.
Listed == {n \in IdNames : blobs[n].state # "none"}

KeystoreInit ==
    /\ blobs = [n \in IdNames |-> NoBlob] /\ phraseFile = 0
    /\ user = [u \in Users |-> Resting]
    /\ idSeeds = 0 /\ idCommands = 0 /\ keptSeeds = {} /\ pastPhrases = {}
    /\ imported = {} /\ quiet = TRUE

Invokes(u, job) ==
    /\ user[u].at = "idle" /\ idCommands < MaxIdCommands
    /\ idCommands' = idCommands + 1
    /\ user' = [user EXCEPT ![u] = job]
    /\ quiet' = (quiet /\ \A w \in Users : user[w].at = "idle")

\* A command that replaces or removes the blob of a name gives its seed up,
\* unless another name holds it too.
GivenUp(names) ==
    {s \in keptSeeds : \A n \in IdNames \ names : blobs[n].state = "whole" => blobs[n].seed # s}

(***************************************************************************)
(* keygen and import.                                                      *)
(***************************************************************************)

\* The phrase file is replaced whole, by a rename: --phrase-output is optional.
write_phrase_file(toFile, seed) == IF toFile THEN seed ELSE phraseFile

\* cmd_keygen through the phrase: generate, encode, write_phrase_file.  There
\* is no look at the path the blob will take.
Keygen(u) ==
    \E n \in IdNames, pass \in IdPasses, toFile \in BOOLEAN :
       /\ idSeeds < MaxIdSeeds
       /\ idSeeds' = idSeeds + 1
       /\ phraseFile' = write_phrase_file(toFile, idSeeds + 1)
       /\ Invokes(u, [Resting EXCEPT !.at = "create", !.name = n, !.seed = idSeeds + 1,
                                     !.pass = pass])
       /\ keptSeeds' = keptSeeds \ GivenUp({n})
       /\ UNCHANGED <<blobs, pastPhrases, imported>>

\* cmd_import to the check of the path: read_phrase, decode, --force.
Import(u) ==
    \E n \in IdNames, pass \in IdPasses, force \in BOOLEAN :
       /\ phraseFile # 0
       /\ blobs[n].state # "none" <=> force
       /\ Invokes(u, [Resting EXCEPT !.at = "create", !.name = n, !.seed = phraseFile,
                                     !.pass = pass])
       /\ keptSeeds' = keptSeeds \ GivenUp({n})
       /\ imported' = imported \cup {phraseFile}
       /\ UNCHANGED <<blobs, phraseFile, idSeeds, pastPhrases>>

\* fs::write of the sealed blob: the file is emptied, then filled.
BlobTruncates(u) ==
    /\ user[u].at = "create"
    /\ blobs' = [blobs EXCEPT ![user[u].name] = [NoBlob EXCEPT !.state = "torn"]]
    /\ user' = [user EXCEPT ![u].at = "fill"]
    /\ UNCHANGED <<phraseFile, idSeeds, idCommands, keptSeeds, pastPhrases, imported, quiet>>

Sealed(u) == [state |-> "whole", seed |-> user[u].seed, pass |-> user[u].pass]

BlobFills(u) ==
    /\ user[u].at = "fill"
    /\ blobs' = [blobs EXCEPT ![user[u].name] = Sealed(u)]
    /\ keptSeeds' = keptSeeds \cup {user[u].seed}
    /\ user' = [user EXCEPT ![u] = Resting]
    /\ UNCHANGED <<phraseFile, idSeeds, idCommands, pastPhrases, imported, quiet>>

(***************************************************************************)
(* rename and delete.                                                      *)
(***************************************************************************)

\* cmd_rename to the rename: the source exists, the target does not or --force.
RenameChecks(u) ==
    \E n, t \in IdNames, force \in BOOLEAN :
       /\ n # t /\ blobs[n].state # "none"
       /\ blobs[t].state # "none" <=> force
       /\ Invokes(u, [Resting EXCEPT !.at = "rename", !.name = n, !.to = t])
       /\ keptSeeds' = keptSeeds \ GivenUp({t})
       /\ UNCHANGED <<blobs, phraseFile, idSeeds, pastPhrases, imported>>

\* fs::rename; it fails when the source is gone by now.
Renames(u) ==
    /\ user[u].at = "rename"
    /\ blobs' = IF blobs[user[u].name].state = "none" THEN blobs
                ELSE [blobs EXCEPT ![user[u].to] = blobs[user[u].name],
                                   ![user[u].name] = NoBlob]
    /\ user' = [user EXCEPT ![u] = Resting]
    /\ UNCHANGED <<phraseFile, idSeeds, idCommands, keptSeeds, pastPhrases, imported, quiet>>

\* cmd_delete after the confirmation: the random overwrite and the truncation.
DeleteOverwrites(u) ==
    \E n \in IdNames :
       /\ blobs[n].state # "none"
       /\ Invokes(u, [Resting EXCEPT !.at = "remove", !.name = n])
       /\ blobs' = [blobs EXCEPT ![n] = [NoBlob EXCEPT !.state = "torn"]]
       /\ keptSeeds' = keptSeeds \ GivenUp({n})
       /\ UNCHANGED <<phraseFile, idSeeds, pastPhrases, imported>>

DeleteRemoves(u) ==
    /\ user[u].at = "remove"
    /\ blobs' = [blobs EXCEPT ![user[u].name] = NoBlob]
    /\ user' = [user EXCEPT ![u] = Resting]
    /\ UNCHANGED <<phraseFile, idSeeds, idCommands, keptSeeds, pastPhrases, imported, quiet>>

(***************************************************************************)
(* rotate-passphrase.                                                      *)
(***************************************************************************)

\* A rotation that writes over the blob as keygen does.
RotateReadsInPlace(u) ==
    \E n \in IdNames, old \in IdPasses, new \in IdPasses :
       /\ old # new /\ RecoverBlob(blobs[n], old)
       /\ Invokes(u, [Resting EXCEPT !.at = "create", !.name = n, !.seed = blobs[n].seed,
                                     !.pass = new])
       /\ UNCHANGED <<blobs, phraseFile, idSeeds, keptSeeds, pastPhrases, imported>>

\* cmd_rotate_passphrase to the temporary file, which no reader sees.
RotateReads(u) ==
    \E n \in IdNames, old \in IdPasses, new \in IdPasses :
       /\ old # new /\ RecoverBlob(blobs[n], old)
       /\ Invokes(u, [Resting EXCEPT !.at = "swap", !.name = n, !.seed = blobs[n].seed,
                                     !.pass = new])
       /\ UNCHANGED <<blobs, phraseFile, idSeeds, keptSeeds, pastPhrases, imported>>

RotateSwaps(u) ==
    LET n == user[u].name IN
    /\ user[u].at = "swap"
    /\ blobs' = [blobs EXCEPT ![n] = Sealed(u)]
    /\ pastPhrases' = (pastPhrases \ {<<user[u].seed, user[u].pass>>})
                     \cup {<<user[u].seed, p>> : p \in IdPasses \ {user[u].pass}}
    /\ user' = [user EXCEPT ![u] = Resting]
    /\ UNCHANGED <<phraseFile, idSeeds, idCommands, keptSeeds, imported, quiet>>

\* A command is killed, or its next step fails.
UserDies(u) ==
    /\ user[u].at # "idle"
    /\ user' = [user EXCEPT ![u] = Resting]
    /\ UNCHANGED <<blobs, phraseFile, idSeeds, idCommands, keptSeeds, pastPhrases, imported, quiet>>

KeystoreNext ==
    \E u \in Users :
       \/ Keygen(u) \/ Import(u) \/ BlobTruncates(u) \/ BlobFills(u)
       \/ RenameChecks(u) \/ Renames(u)
       \/ DeleteOverwrites(u) \/ DeleteRemoves(u)
       \/ RotateReads(u) \/ RotateSwaps(u)
       \/ UserDies(u)

KeystoreSpec == KeystoreInit /\ [][KeystoreNext]_keyVars

-----------------------------------------------------------------------------

\* While commands do not overlap, an identity reported stored is still listed and
\* verifies its signatures, until a command that replaces or deletes it is
\* given: no rotation or rename loses it, wherever they are killed.
NoIdentityLost ==
    quiet => \A s \in keptSeeds :
                \E n \in Listed, p \in IdPasses : VerifyWith(n, p, SignWith(s))

\* While commands do not overlap, a passphrase rotated away opens that identity
\* under no name, through renames, deletions and killed commands, unless the
\* phrase was imported again.
RetiredPassphrasesOpenNothing ==
    quiet => \A n \in IdNames :
                blobs[n].state = "whole" /\ <<blobs[n].seed, blobs[n].pass>> \in pastPhrases
                => blobs[n].seed \in imported

\* The identity directory keeps what it was given and forgets what it was told to:
\* no identity is lost to a rotation or rename, and no retired passphrase opens one.
IdentitiesAreKept == NoIdentityLost /\ RetiredPassphrasesOpenNothing

=============================================================================
