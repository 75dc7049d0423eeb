------------------------------- MODULE Secrets -------------------------------
(***************************************************************************)
(* origin-secrets: a vault file holding a master seed, its audit log and    *)
(* its revocations; the share files beside it, encrypted under the seed;    *)
(* and one share exported in the clear.  Every command opens the vault      *)
(* into memory and, when it changes anything, saves the whole of it back    *)
(* by an atomic rename.  Nothing locks the vault between the two.           *)
(***************************************************************************)
EXTENDS Naturals, FiniteSets

CONSTANTS
    Operators,     \* processes running a command
    Schemes,       \* [k, n]: threshold and number of shares
    Passphrases,
    MaxSeeds,      \* master seeds ever made
    MaxCommands    \* commands started in a behaviour

VARIABLES
    svault,     \* the vault file
    sfiles,     \* shares/share_NNN.json: number -> share, NoShare when absent
    sout,       \* the exported file
    soper,      \* each process: [at, held, share, scheme, next, fact]
    slate,      \* the expiry date of dated shares has passed
    sseeds, scommands,
    srestored,  \* what recover returned
    sfacts,     \* what successful commands told their operators
    salone, sgeneration      \* histories: see the properties

secretVars == <<svault, sfiles, sout, soper, slate, sseeds, scommands, srestored,
                sfacts, salone, sgeneration>>

Numbers == 1 .. CHOOSE m \in {s.n : s \in Schemes} : \A s \in Schemes : s.n <= m

NoVaultFile == [made |-> FALSE, seed |-> 0, pass |-> 0, log |-> {}, revoked |-> {}]
NoShareFile == [seed |-> 0, k |-> 0, n |-> 0, num |-> 0, by |-> 0, bound |-> FALSE,
                dated |-> FALSE, intact |-> FALSE]
AtRest == [at |-> "idle", held |-> NoVaultFile, share |-> NoShareFile,
           scheme |-> [k |-> 0, n |-> 0], next |-> 0, fact |-> <<"none", 0>>]

\* A process takes up a command; the rest of the command is `job'.
Starts(o, job) ==
    /\ soper[o].at = "idle" /\ scommands < MaxCommands
    /\ scommands' = scommands + 1
    /\ soper' = [soper EXCEPT ![o] = job]
    /\ salone' = (salone /\ \A p \in Operators : soper[p].at = "idle")


(***************************************************************************)
(* Vaults and shares.                                                      *)
(***************************************************************************)

\* VaultHandle::open: the vault file decrypted under the passphrase.
CanOpen(v, pass) == v.made /\ v.pass = pass

\* append_audit_and_save and the pushes the commands make themselves.
WithEntry(v, fact) == [v EXCEPT !.log = @ \cup {fact}]

ShardEntry(scheme) == <<"shard", scheme.n>>

\* VaultHandle::rotate: the same data under a key of the new passphrase.
RotatedVault(v, pass) == [v EXCEPT !.pass = pass]

\* One share of cmd_shard's loop, signed by the seed's key bundle.
MakeShare(v, scheme, num, dated) ==
    [seed |-> v.seed, k |-> scheme.k, n |-> scheme.n, num |-> num, by |-> v.seed,
     bound |-> FALSE, dated |-> dated, intact |-> TRUE]

\* The files a command can be given: the numbered ones and the exported one.
Paths == Numbers \cup {0}
ShareAt(p) == IF p = 0 THEN sout ELSE sfiles[p]

\* decrypt_share, with the number enc_share_number takes from the file name:
\* only the seed that encrypted the file opens it, and only unharmed.
Decrypts(p, v) == sfiles[p].seed = v.seed /\ sfiles[p].intact

\* read_share_file: decryption, expiry, revocation.
ReadShareFile(p, v) ==
    /\ ShareAt(p) # NoShareFile
    /\ p \in Numbers => v.made /\ Decrypts(p, v)
    /\ ~ (ShareAt(p).dated /\ slate)
    /\ v.made => ShareAt(p).num \notin v.revoked

\* The hybrid signature over share_data, or share_data and the recipient.
SignedBy(s, seed) == s.intact /\ s.by = seed

\* verify_share_offline: the keys embedded in the share are its signer's.
VerifyShareOffline(s) == s.intact

\* verify_share with the vault beside the share, or the one named by -V.
VerifyShare(p, v) ==
    /\ ReadShareFile(p, v)
    /\ 1 <= ShareAt(p).k /\ ShareAt(p).k <= ShareAt(p).n
    /\ SignedBy(ShareAt(p), v.seed)

\* cmd_verify --share: the vault beside the share or the one named; without a
\* vault there is no cryptographic verdict.
CmdVerify(p) == svault.made /\ VerifyShare(p, svault)

\* cmd_handoff: the manifest is written only for a share its own keys accept.
Handoff(p, v) == ReadShareFile(p, v) /\ VerifyShareOffline(ShareAt(p))

(***************************************************************************)
(* After the first init; or after an init, a sharding, the export of one   *)
(* share, the loss of the vault and a second init beside those files.      *)
(***************************************************************************)

NewVault(seed) == [NoVaultFile EXCEPT !.made = TRUE, !.seed = seed,
                                      !.pass = CHOOSE p \in Passphrases : TRUE]

SecretsInit ==
    /\ \/ /\ svault = NewVault(1) /\ sseeds = 1 /\ scommands = 0
          /\ sfiles = [i \in Numbers |-> NoShareFile] /\ sout = NoShareFile
       \/ /\ svault = NewVault(2) /\ sseeds = 2 /\ scommands = 1
          /\ \E scheme \in Schemes :
                sfiles = [i \in Numbers |-> IF i <= scheme.n
                                            THEN MakeShare(NewVault(1), scheme, i, FALSE)
                                            ELSE NoShareFile]
          /\ sout = sfiles[1]
    /\ soper = [o \in Operators |-> AtRest]
    /\ slate = FALSE /\ srestored = {} /\ sfacts = {}
    /\ salone = TRUE /\ sgeneration = FALSE

(***************************************************************************)
(* init, shard, revoke-share, rotate-passphrase.                           *)
(***************************************************************************)

InitChecks(o) ==
    /\ ~ svault.made /\ sseeds < MaxSeeds
    /\ \E pass \in Passphrases :
          Starts(o, [AtRest EXCEPT !.at = "init",
                                   !.held = [NoVaultFile EXCEPT !.made = TRUE,
                                                                !.seed = sseeds + 1,
                                                                !.pass = pass]])
    /\ sseeds' = sseeds + 1
    /\ UNCHANGED <<svault, sfiles, sout, slate, srestored, sfacts, sgeneration>>

InitWrites(o) ==
    /\ soper[o].at = "init"
    /\ svault' = soper[o].held
    /\ soper' = [soper EXCEPT ![o] = AtRest]
    /\ sfacts' = {}
    /\ UNCHANGED <<sfiles, sout, slate, sseeds, scommands, srestored, salone, sgeneration>>

\* cmd_shard up to the loop: share files outside this sharding are an error, or
\* removed under --force.
ShardOpens(o) ==
    \E scheme \in Schemes, dated \in BOOLEAN, force \in BOOLEAN :
       LET stale == {i \in Numbers : sfiles[i] # NoShareFile /\ i > scheme.n} IN
       /\ svault.made
       /\ stale # {} <=> force
       /\ Starts(o, [AtRest EXCEPT !.at = "shard", !.next = 1, !.scheme = scheme,
                                   !.share.dated = dated,
                                   !.fact = ShardEntry(scheme),
                                   !.held = WithEntry(svault, ShardEntry(scheme))])
       /\ sfiles' = [i \in Numbers |-> IF i \in stale THEN NoShareFile ELSE sfiles[i]]
       /\ sgeneration' = FALSE
       /\ UNCHANGED <<svault, sout, slate, sseeds, srestored, sfacts>>

\* encrypt_share and the atomic write of one share.
ShardWrites(o) ==
    LET c == soper[o] IN
    /\ c.at = "shard"
    /\ sfiles' = [sfiles EXCEPT ![c.next] =
                     MakeShare(c.held, c.scheme, c.next, c.share.dated)]
    /\ soper' = [soper EXCEPT ![o].next = @ + 1,
                              ![o].at = IF c.next = c.scheme.n THEN "save" ELSE "shard"]
    /\ UNCHANGED <<svault, sout, slate, sseeds, scommands, srestored, sfacts, salone, sgeneration>>

\* cmd_revoke_share up to its save.
RevokeOpens(o) ==
    \E num \in Numbers \ svault.revoked :
       /\ svault.made
       /\ Starts(o, [AtRest EXCEPT
            !.at = "save", !.fact = <<"revoke", num>>,
            !.held = [WithEntry(svault, <<"revoke", num>>) EXCEPT !.revoked = @ \cup {num}]])
       /\ UNCHANGED <<svault, sfiles, sout, slate, sseeds, srestored, sfacts, sgeneration>>

\* A rotation that re-encrypts a vault built from the seed alone.
RotateOpensSeedOnly(o) ==
    \E pass \in Passphrases \ {svault.pass} :
       /\ svault.made
       /\ Starts(o, [AtRest EXCEPT
            !.at = "save", !.fact = <<"rotate", 0>>,
            !.held = [RotatedVault(WithEntry(svault, <<"rotate", 0>>), pass) EXCEPT !.revoked = {}]])
       /\ UNCHANGED <<svault, sfiles, sout, slate, sseeds, srestored, sfacts, sgeneration>>

\* cmd_rotate_passphrase up to VaultHandle::rotate, whose write is Saves.
RotateOpens(o) ==
    \E pass \in Passphrases \ {svault.pass} :
       /\ svault.made
       /\ Starts(o, [AtRest EXCEPT
            !.at = "save", !.fact = <<"rotate", 0>>,
            !.held = RotatedVault(WithEntry(svault, <<"rotate", 0>>), pass)])
       /\ UNCHANGED <<svault, sfiles, sout, slate, sseeds, srestored, sfacts, sgeneration>>

\* VaultHandle::save: the vault in memory replaces the file.  Export goes on.
Saves(o) ==
    LET c == soper[o] IN
    /\ c.at = "save"
    /\ svault' = c.held
    /\ sfacts' = IF c.fact[1] = "export" THEN sfacts ELSE sfacts \cup {c.fact}
    /\ sgeneration' = IF c.fact[1] = "shard" THEN TRUE ELSE sgeneration
    /\ soper' = [soper EXCEPT ![o] =
                    IF c.fact[1] = "export" THEN [c EXCEPT !.at = "export"] ELSE AtRest]
    /\ UNCHANGED <<sfiles, sout, slate, sseeds, scommands, srestored, salone>>

(***************************************************************************)
(* export-share.                                                           *)
(***************************************************************************)

\* cmd_export_share up to the signing; without a recipient nothing is signed.
ExportReads(o) ==
    \E num \in Numbers, bound \in BOOLEAN :
       /\ ReadShareFile(num, svault)
       /\ Starts(o, [AtRest EXCEPT !.at = IF bound THEN "sign" ELSE "export",
                                   !.share = sfiles[num]])
       /\ UNCHANGED <<svault, sfiles, sout, slate, sseeds, srestored, sfacts, sgeneration>>

\* re_sign_for_recipient, up to its save; the vault is opened again.
ReSign(o) ==
    LET c == soper[o]
        entry == <<"export", c.share.num>>
    IN  /\ c.at = "sign" /\ svault.made
        /\ soper' = [soper EXCEPT ![o].at = "save", ![o].fact = entry,
                                  ![o].held = WithEntry(svault, entry),
                                  ![o].share.bound = TRUE, ![o].share.by = svault.seed]
        /\ UNCHANGED <<svault, sfiles, sout, slate, sseeds, scommands, srestored, sfacts,
                       salone, sgeneration>>

\* The file is written last, over an earlier one only under --force.
ExportWrites(o) ==
    LET c == soper[o] IN
    /\ c.at = "export"
    /\ sout' = c.share
    /\ sfacts' = IF c.share.bound THEN sfacts \cup {c.fact} ELSE sfacts
    /\ soper' = [soper EXCEPT ![o] = AtRest]
    /\ UNCHANGED <<svault, sfiles, slate, sseeds, scommands, srestored, salone, sgeneration>>

(***************************************************************************)
(* recover.                                                                *)
(***************************************************************************)

\* The shares a recovery is given: files that exist, the numbered ones first.
Selections == SUBSET {p \in Paths : ShareAt(p) # NoShareFile} \ {{}}
First(paths) ==
    IF paths = {0} THEN 0 ELSE CHOOSE p \in paths \ {0} : \A q \in paths \ {0} : p <= q

\* The vault that opens the shares: --source-vault, or the one beside the first.
ShareVault(paths, source) ==
    IF source \/ First(paths) # 0 THEN svault ELSE NoVaultFile

\* decode_shards: k of the shards rebuild the seed they were cut from; shards
\* of different seeds, or harmed ones, rebuild a value that is nobody's seed.
Nobodys == 0
DecodeShards(shares, k) ==
    IF /\ \A s \in shares : s.intact
       /\ Cardinality({s.seed : s \in shares}) = 1
    THEN (CHOOSE s \in shares : TRUE).seed
    ELSE Nobodys

Failed == [ok |-> FALSE, seed |-> Nobodys]

\* cmd_recover to the end of the signature checks: every share is read, the
\* thresholds agree, there are enough different ones, and each signature holds
\* under the keys of the decoded seed.
RecoverSeed(paths, source, pass) ==
    LET v == ShareVault(paths, source)
        shares == {ShareAt(p) : p \in paths}
        f == ShareAt(First(paths))
        seed == DecodeShards(shares, f.k)
    IN  IF /\ v.made => CanOpen(v, pass)
           /\ source => v.made
           /\ \A p \in paths : ReadShareFile(p, v)
           /\ \A s \in shares : s.k = f.k /\ s.n = f.n
           /\ Cardinality(paths) >= f.k /\ Cardinality({s.num : s \in shares}) >= f.k
           /\ \A s \in shares : SignedBy(s, seed)
        THEN [ok |-> TRUE, seed |-> seed]
        ELSE Failed

\* run_preflight counts the files it could read and those it could not.
Preflight(paths, source, pass) ==
    LET v == ShareVault(paths, source)
        usable == {p \in paths : (v.made => CanOpen(v, pass)) /\ (source => v.made)
                                 /\ ReadShareFile(p, v)}
    IN  /\ usable # {} /\ Cardinality(usable) >= ShareAt(First(usable)).k
        /\ usable = paths

\* load_carried_vault: history is carried only from a source that opens.
Carried(source, pass) == source /\ CanOpen(svault, pass)

\* write_recovered_vault: the carried data or an empty vault, with the
\* recovered seed and a Recover entry.
RecoveredVault(seed, pass, source) ==
    [made |-> TRUE, seed |-> seed, pass |-> pass,
     log |-> (IF Carried(source, pass) THEN svault.log ELSE {}) \cup {<<"recover", 0>>},
     revoked |-> IF Carried(source, pass) THEN svault.revoked ELSE {}]

\* cmd_recover, to the check that --vault-out may be written.
Recover(o) ==
    \E paths \in Selections, source \in BOOLEAN, pass \in Passphrases,
       force \in BOOLEAN :
       LET r == RecoverSeed(paths, source, pass) IN
       /\ r.ok
       /\ force <=> svault.made
       /\ Starts(o, [AtRest EXCEPT
                       !.at = "rebuild",
                       !.fact = <<"recover", IF Carried(source, pass) THEN 1 ELSE 0>>,
                       !.held = RecoveredVault(r.seed, pass, source)])
       /\ srestored' = srestored \cup {r.seed}
       /\ UNCHANGED <<svault, sfiles, sout, slate, sseeds, sfacts, sgeneration>>

\* The write of --vault-out.  A rebuild without a source begins a new history.
RebuildWrites(o) ==
    LET c == soper[o] IN
    /\ c.at = "rebuild"
    /\ svault' = c.held
    /\ sfacts' = (IF c.fact[2] = 1 THEN sfacts ELSE {}) \cup {<<"recover", 0>>}
    /\ soper' = [soper EXCEPT ![o] = AtRest]
    /\ UNCHANGED <<sfiles, sout, slate, sseeds, scommands, srestored, salone, sgeneration>>

(***************************************************************************)
(* What is read, and what happens to files and processes.                  *)
(***************************************************************************)

\* filter_entries, for the filter that keeps one kind of entry.
FilterEntries(log, kinds) == {e \in log : e[1] \in kinds}

\* cmd_audit: the log of the vault, all of it or its recoveries.
Kinds == {"shard", "revoke", "rotate", "export", "recover"}
AuditShown(recoveriesOnly) ==
    FilterEntries(svault.log, IF recoveriesOnly THEN {"recover"} ELSE Kinds)

\* verify_vault, asked for a recovery log or not.
VerifyVault(recoveryLog) == svault.made /\ (recoveryLog => AuditShown(TRUE) # {})

\* cmd_list_keys: the labels of the shardings in the log.
ListKeys == FilterEntries(svault.log, {"shard"})

\* cmd_list_shares: the files read_share_file accepts.
ListShares == {i \in Numbers : ReadShareFile(i, svault)}

\* cmd_status: ready once the files that can be read reach the threshold of
\* one of them (the first in directory order, so any).
StatusReady ==
    \E p \in ListShares : Cardinality(ListShares) >= sfiles[p].k

\* A process is killed, or its next write fails.
Dies(o) ==
    /\ soper[o].at # "idle"
    /\ soper' = [soper EXCEPT ![o] = AtRest]
    /\ UNCHANGED <<svault, sfiles, sout, slate, sseeds, scommands, srestored, sfacts, salone,
                   sgeneration>>

\* The vault file is lost; a share or the exported file rots; time passes.
VaultLost ==
    /\ svault.made /\ \A o \in Operators : soper[o].at = "idle"
    /\ svault' = NoVaultFile /\ sfacts' = {}
    /\ UNCHANGED <<sfiles, sout, soper, slate, sseeds, scommands, srestored, salone, sgeneration>>

Rots ==
    /\ \/ /\ sout.intact
          /\ sout' = [sout EXCEPT !.intact = FALSE] /\ UNCHANGED sfiles
       \/ /\ sfiles[1].intact
          /\ sfiles' = [sfiles EXCEPT ![1].intact = FALSE] /\ UNCHANGED sout
    /\ UNCHANGED <<svault, soper, slate, sseeds, scommands, srestored, sfacts, salone, sgeneration>>

DatePasses ==
    /\ ~ slate /\ \E p \in Paths : ShareAt(p).dated
    /\ slate' = TRUE
    /\ UNCHANGED <<svault, sfiles, sout, soper, sseeds, scommands, srestored, sfacts, salone,
                   sgeneration>>

SecretsNext ==
    \/ \E o \in Operators :
          \/ InitChecks(o) \/ InitWrites(o)
          \/ ShardOpens(o) \/ ShardWrites(o)
          \/ RevokeOpens(o) \/ RotateOpens(o) \/ Saves(o)
          \/ ExportReads(o) \/ ReSign(o) \/ ExportWrites(o)
          \/ Recover(o) \/ RebuildWrites(o)
          \/ Dies(o)
    \/ VaultLost \/ Rots \/ DatePasses

SecretsSpec == SecretsInit /\ [][SecretsNext]_secretVars

-----------------------------------------------------------------------------

\* recover returns only seeds some vault was made with, and only from shares that
\* were all cut from that seed and by one scheme, whatever mix it is given of
\* shardings half-written over older ones, of vaults made anew, of exported and of
\* rotten files (shard.rs:85-88 "so a later `recover` can't silently pick up a
\* share belonging to a different master seed").
RestoredAreGenuine ==
    /\ srestored \subseteq 1 .. sseeds
    /\ \A paths \in Selections, source \in BOOLEAN, pass \in Passphrases :
          LET r == RecoverSeed(paths, source, pass) IN
          r.ok => \A p \in paths :
                     /\ ShareAt(p).seed = r.seed /\ ShareAt(p).intact
                     /\ ShareAt(p).k = ShareAt(First(paths)).k
                     /\ ShareAt(p).n = ShareAt(First(paths)).n

\* While commands do not overlap, what a successful command reported stays: its
\* audit entry is in the log `audit' shows, through every later shard, rotation,
\* export and carried recovery, and a share reported revoked is still refused.
NothingForgotten ==
    salone /\ svault.made =>
       /\ sfacts \subseteq AuditShown(FALSE)
       /\ <<"recover", 0>> \in sfacts => VerifyVault(TRUE)
       /\ FilterEntries(sfacts, {"shard"}) \subseteq ListKeys
       /\ \A i \in Numbers : <<"revoke", i>> \in sfacts => i \notin ListShares

\* While commands do not overlap, shares that verify against the vault, taken one
\* per number from one sharding, rebuild its seed once they reach the threshold;
\* and shares handed off with a passing manifest rebuild the seed that signed them.
VerifiedSharesRecover ==
    salone => \A paths \in Selections :
       LET f == ShareAt(First(paths))
           oneSet == /\ \A p, q \in paths : p # q => ShareAt(p).num # ShareAt(q).num
                     /\ \A p \in paths : ShareAt(p).k = f.k /\ ShareAt(p).n = f.n
                     /\ Cardinality(paths) >= f.k
       IN  /\ oneSet /\ (\A p \in paths : CmdVerify(p))
              => /\ RecoverSeed(paths, TRUE, svault.pass).ok
                 /\ RecoverSeed(paths, TRUE, svault.pass).seed = svault.seed
           /\ oneSet /\ (\A p \in paths : Handoff(p, svault))
                 /\ Cardinality({ShareAt(p).by : p \in paths}) = 1
              => RecoverSeed(paths, FALSE, svault.pass).ok

\* When the preflight of different shares of one sharding says ready, nothing
\* short of a share failing its signature stops the recovery itself.
ReadyMeansRecoverable ==
    \A paths \in Selections, source \in BOOLEAN, pass \in Passphrases :
       LET f == ShareAt(First(paths)) IN
       /\ Preflight(paths, source, pass)
       /\ \A p, q \in paths : p # q => ShareAt(p).num # ShareAt(q).num
       /\ (\A p \in paths : /\ ShareAt(p).k = f.k /\ ShareAt(p).n = f.n
                            /\ ShareAt(p).seed = f.seed /\ SignedBy(ShareAt(p), f.seed))
       => RecoverSeed(paths, source, pass).ok

\* Once a sharding has succeeded, and commands do not overlap, the directory
\* holds that one generation (a sharding that was killed half-way leaves a mix,
\* which RestoredAreGenuine is about, and which `status' may call ready): when
\* status says ready, the files it counted rebuild one seed.
DirectoryIsOneGeneration ==
    salone /\ sgeneration =>
       /\ \A i, j \in Numbers :
             sfiles[i] # NoShareFile /\ sfiles[j] # NoShareFile =>
                /\ sfiles[i].seed = sfiles[j].seed
                /\ sfiles[i].k = sfiles[j].k /\ sfiles[i].n = sfiles[j].n
       /\ svault.made /\ StatusReady => RecoverSeed(ListShares, TRUE, svault.pass).ok

\* The vault and its shares are kept: recovery gives genuine seeds back, shares
\* that verify or are reported ready do recover, and neither what a command
\* reported nor a finished sharding is lost.
SecretsAreKept ==
    /\ RestoredAreGenuine /\ VerifiedSharesRecover /\ ReadyMeansRecoverable
    /\ NothingForgotten /\ DirectoryIsOneGeneration

=============================================================================
