------------------------------ MODULE Provenance ------------------------------
(***************************************************************************)
(* origin-provenance: the manifests, and the marks and hashes by which     *)
(* files are recognised.                                                   *)
(***************************************************************************)
EXTENDS Integers, FiniteSets, Sequences, SequencesExt

-----------------------------------------------------------------------------
(***************************************************************************)
(* origin-provenance: the sidecar manifest of an asset (opm.rs), the       *)
(* commands that write it (commands.rs) and the eight-step verdict on it   *)
(* (verify.rs).  A hash is what was hashed; a signature is what was        *)
(* signed, with its signer.                                                *)
(***************************************************************************)
CONSTANTS Writers,          \* processes running origin-provenance commands
          Signers,          \* identities; each command is given a seed file
          Bodies,           \* contents of the asset
          RequiredK,        \* --k of verify-manifest
          Skew,             \* max_future_skew_secs
          LastTime,         \* bound: the wall clock stops here
          MaxProvCommands,  \* bound: commands run
          MaxMishaps        \* bound: asset edits, revocations, journal damage

VARIABLES body,             \* the asset's bytes
          sidecar,          \* <asset>.opm
          anchor,           \* <asset>.anchor
          journal,          \* revocations.json: [health, revoked, tip]
          writer,           \* what each process has loaded and is about to save
          clock,
          provSteps,            \* commands and mishaps so far
          lone,             \* history: no two commands have overlapped, none was killed
          bound,            \* history: the manifest last saved by a create or an append
          vouched           \* history: <<attestor, edits>> of every attestation made

provVars == <<body, sidecar, anchor, journal, writer, clock, provSteps, lone, bound, vouched>>

NoManifest == [state |-> "none", chunk |-> 1, edits |-> <<>>, cps |-> <<>>, atts |-> <<>>]
Torn == [NoManifest EXCEPT !.state = "torn"]
Waiting == [cmd |-> "idle", by |-> "nobody", opm |-> NoManifest]

\* A leaf binds the position, the bytes and the chunk size the tree was cut with;
\* the MMR root over a prefix of the edits is that prefix.
EditLeaf(index, bytes, chunk) == [index |-> index, bytes |-> bytes, cut |-> chunk]
ManifestId(opm, n) == [chunk |-> opm.chunk, edits |-> SubSeq(opm.edits, 1, n),
                       cps |-> SelectSeq(opm.cps, LAMBDA c : c.count <= n)]

\* next_timestamp: strictly after the last checkpoint.
NextTimestamp(now, cps) ==
    IF cps # <<>> /\ now <= Last(cps).at THEN Last(cps).at + 1 ELSE now

Checkpointed(opm, signer) ==
    [opm EXCEPT !.cps = Append(@, [count |-> Len(opm.edits), root |-> opm.edits,
                                   at |-> NextTimestamp(clock, opm.cps), by |-> signer])]

\* create_from_bytes: chunk size 0 is stored as the default, 1 here, but the
\* first edit is cut with the size given.
Created(signer, chunk) ==
    Checkpointed([NoManifest EXCEPT !.state = "whole", !.edits = <<EditLeaf(0, body, chunk)>>], signer)

\* append_edit: reads the asset as it is now; attestations are cleared.
Appended(opm, signer) ==
    [Checkpointed([opm EXCEPT !.edits = Append(@, EditLeaf(Len(@), body, opm.chunk))], signer)
        EXCEPT !.atts = <<>>]

\* attest: signs the manifest id, the edit count and the root.
Attested(opm, signer) ==
    [opm EXCEPT !.atts = Append(@, [by |-> signer, id |-> ManifestId(opm, Len(opm.edits)),
                                    count |-> Len(opm.edits), root |-> opm.edits])]

-----------------------------------------------------------------------------
Loads(w, cmd, signer, opm) ==
    /\ writer[w] = Waiting
    /\ provSteps.commands < MaxProvCommands
    /\ provSteps' = [provSteps EXCEPT !.commands = @ + 1]
    /\ writer' = [writer EXCEPT ![w] = [cmd |-> cmd, by |-> signer, opm |-> opm]]
    /\ lone' = (lone /\ \A v \in Writers : writer[v] = Waiting)
    /\ UNCHANGED <<body, sidecar, anchor, journal, clock, bound>>

\* cmd_create: refused when the asset has a sidecar.
CreateManifest(w, signer) ==
    /\ sidecar.state = "none"
    /\ \E chunk \in {0, 1} : Loads(w, "create", signer, Created(signer, chunk))
    /\ UNCHANGED vouched

\* cmd_append: refused under another signer unless --force.
AppendCmd(w, signer) ==
    /\ sidecar.state = "whole"
    /\ \E force \in BOOLEAN : force \/ Last(sidecar.cps).by = signer
    /\ Loads(w, "append", signer, Appended(sidecar, signer))
    /\ UNCHANGED vouched

\* cmd_attest
Attest(w, signer) ==
    /\ sidecar.state = "whole"
    /\ Loads(w, "attest", signer, Attested(sidecar, signer))
    /\ vouched' = vouched \union {<<signer, sidecar.edits>>}

\* opm::save: fs::write truncates the sidecar and fills it.
SaveOpm(w) ==
    /\ writer[w] # Waiting
    /\ sidecar' = writer[w].opm
    /\ bound' = IF writer[w].cmd = "attest" THEN bound ELSE writer[w].opm
    /\ writer' = [writer EXCEPT ![w] = Waiting]
    /\ UNCHANGED <<body, anchor, journal, clock, provSteps, lone, vouched>>

\* The process is killed within the save.
SaveTears(w) ==
    /\ writer[w] # Waiting
    /\ sidecar' = Torn
    /\ writer' = [writer EXCEPT ![w] = Waiting]
    /\ lone' = FALSE
    /\ UNCHANGED <<body, anchor, journal, clock, provSteps, bound, vouched>>

\* cmd_anchor: by the manifest's own signer, and never over an existing anchor.
PublishAnchor ==
    /\ sidecar.state = "whole"
    /\ anchor.count = 0
    /\ anchor' = [id |-> ManifestId(sidecar, Len(sidecar.edits)), count |-> Len(sidecar.edits),
                  by |-> Last(sidecar.cps).by]
    /\ UNCHANGED <<body, sidecar, journal, writer, clock, provSteps, lone, bound, vouched>>

\* What happens around the tool: the asset is edited; a signer's key is revoked
\* (append_signed); the journal file is damaged; time passes.
Mishap == provSteps.mishaps < MaxMishaps /\ provSteps' = [provSteps EXCEPT !.mishaps = @ + 1]
EditAsset ==
    /\ Mishap
    /\ body' \in Bodies \ {body}
    /\ UNCHANGED <<sidecar, anchor, journal, writer, clock, lone, bound, vouched>>
AppendSigned(signer) ==
    /\ Mishap
    /\ journal' = [journal EXCEPT !.health = IF @ = "none" THEN "clean" ELSE @,
                                  !.revoked = @ \union {signer}, !.tip = clock]
    /\ UNCHANGED <<body, sidecar, anchor, writer, clock, lone, bound, vouched>>
JournalDamaged ==
    /\ Mishap
    /\ journal.health = "clean"
    /\ journal' = [journal EXCEPT !.health = "broken"]
    /\ UNCHANGED <<body, sidecar, anchor, writer, clock, lone, bound, vouched>>
TimePasses ==
    /\ clock < LastTime
    /\ clock' = clock + 1
    /\ UNCHANGED <<body, sidecar, anchor, journal, writer, provSteps, lone, bound, vouched>>

ProvInit ==
    /\ body = CHOOSE b \in Bodies : TRUE
    /\ sidecar = NoManifest
    /\ anchor = [id |-> ManifestId(NoManifest, 0), count |-> 0, by |-> "nobody"]
    /\ journal = [health |-> "none", revoked |-> {}, tip |-> 0]
    /\ writer = [w \in Writers |-> Waiting]
    /\ clock = 0
    /\ provSteps = [commands |-> 0, mishaps |-> 0]
    /\ lone = TRUE
    /\ bound = NoManifest
    /\ vouched = {}

ProvNext ==
    \/ \E w \in Writers : \E s \in Signers : CreateManifest(w, s) \/ AppendCmd(w, s) \/ Attest(w, s)
    \/ \E w \in Writers : SaveOpm(w) \/ SaveTears(w)
    \/ PublishAnchor \/ EditAsset \/ JournalDamaged \/ TimePasses
    \/ \E s \in Signers : AppendSigned(s)
ProvSpec == ProvInit /\ [][ProvNext]_provVars

-----------------------------------------------------------------------------
(* verify.rs: the checks, each TRUE when it passes. *)

\* The verifier's policy: the roster it trusts (all signers without one), the head
\* and the number of edits it was told to expect.
AnyHead == ManifestId(NoManifest, 0)
NoPolicy == [roster |-> Signers, head |-> AnyHead, edits |-> 0]

\* check_structure: the edits number themselves.
CheckStructure(opm) == \A i \in 1..Len(opm.edits) : opm.edits[i].index = i - 1

\* check_content: the last edit against the bytes, cut with the manifest's chunk size.
CheckContent(opm, bytes) ==
    Last(opm.edits).bytes = bytes /\ Last(opm.edits).cut = opm.chunk

\* The announced expectations: this head exactly, no fewer edits.
CheckExpected(opm, policy) ==
    /\ policy.head # AnyHead => ManifestId(opm, Len(opm.edits)) = policy.head
    /\ Len(opm.edits) >= policy.edits

\* keys_for: signers and attestors outside the roster have no key.
OnRoster(entries, policy) == \A i \in 1..Len(entries) : entries[i].by \in policy.roster

\* check_mmr_history: one signer; counts and times strictly increase; every
\* checkpoint replays; the last one covers every edit.
CheckMmrHistory(opm) ==
    /\ opm.cps # <<>>
    /\ \A i \in 1..Len(opm.cps) : opm.cps[i].by = opm.cps[1].by
    /\ \A i \in 2..Len(opm.cps) :
          opm.cps[i].count > opm.cps[i - 1].count /\ opm.cps[i].at > opm.cps[i - 1].at
    /\ \A i \in 1..Len(opm.cps) :
          opm.cps[i].count <= Len(opm.edits)
          /\ opm.cps[i].root = SubSeq(opm.edits, 1, opm.cps[i].count)
    /\ Last(opm.cps).count = Len(opm.edits)

\* Step 6: no checkpoint lies further ahead than the allowed skew.
CheckTimestamps(opm) == \A i \in 1..Len(opm.cps) : opm.cps[i].at <= clock + Skew

\* Steps 7 and 8 enforce revocations only from a healthy journal.
Enforceable == journal.health = "clean"
CheckRevocation(opm) ==
    Enforceable => \A i \in 1..Len(opm.cps) : opm.cps[i].by \notin journal.revoked

\* verify_anchor: the announced head is this head, or a genuine prefix of it.
VerifyAnchorCount(opm) == anchor.count <= Len(opm.edits) /\ anchor.by = Last(opm.cps).by
VerifyAnchor(opm) ==
    /\ anchor.count <= Len(opm.edits)
    /\ anchor.id = ManifestId(opm, anchor.count)
    /\ anchor.by = Last(opm.cps).by

\* check_attestations: every attestation must bind this state; distinct,
\* unrevoked attestors count towards K.
CheckAttestations(opm) ==
    \A i \in 1..Len(opm.atts) :
        /\ opm.atts[i].id = ManifestId(opm, Len(opm.edits))
        /\ opm.atts[i].count = Last(opm.cps).count
        /\ opm.atts[i].root = Last(opm.cps).root
CountDistinct(opm) ==
    Cardinality({opm.atts[i].by : i \in 1..Len(opm.atts)}
                    \ IF Enforceable THEN journal.revoked ELSE {})

\* verify and verify_loaded, in the order of the code; a sibling anchor is
\* applied when there is one.
VerifyLoaded(opm, bytes, policy) ==
    CASE opm.state = "none"                        -> "no-manifest"
      [] opm.state = "torn"                        -> "unparseable"
      [] ~CheckStructure(opm)                      -> "non-canonical"
      [] ~CheckContent(opm, bytes)                 -> "content-hash"
      [] ~CheckMmrHistory(opm)                     -> "history"
      [] ~CheckExpected(opm, policy)               -> "history"
      [] ~OnRoster(opm.cps, policy)                -> "key-binding"
      [] ~CheckTimestamps(opm)                     -> "timestamp"
      [] ~CheckRevocation(opm)                     -> "signer-revoked"
      [] anchor.count > 0 /\ ~VerifyAnchor(opm)    -> "head-anchor"
      [] ~OnRoster(opm.atts, policy)               -> "key-binding"
      [] ~CheckAttestations(opm)                   -> "attestation-binding"
      [] CountDistinct(opm) < RequiredK            -> "intact-unattested"
      [] OTHER                                     -> "intact"
Intact == {"intact", "intact-unattested"}

-----------------------------------------------------------------------------
\* A loss shows: when a command that overlapped an append, or was killed, has undone
\* an edit that was reported saved, and the publisher had announced a head with that
\* edit in it, no verifier calls the manifest intact, whether it has the anchor file,
\* was told the head or was told the number of edits of a longer history (opm.rs
\* verify_anchor, verify.rs:566-583).  Without an announcement the loss is
\* undetectable, as verify.rs:555-558 says; while commands run one at a time there
\* is none.
LossesShow ==
    sidecar.state = "whole" =>
        /\ lone => sidecar.edits = bound.edits
        /\ anchor.count > 0 /\ ~IsPrefix(anchor.id.edits, sidecar.edits)
           => VerifyLoaded(sidecar, body, NoPolicy) \notin Intact
        /\ sidecar.edits # bound.edits =>
              LET told == [NoPolicy EXCEPT !.head = ManifestId(bound, Len(bound.edits))]
                  counted == [NoPolicy EXCEPT !.edits = Len(bound.edits)]
              IN /\ VerifyLoaded(sidecar, body, told) \notin Intact
                 /\ Len(sidecar.edits) < Len(bound.edits) =>
                       VerifyLoaded(sidecar, body, counted) \notin Intact

\* Honest work verifies, for every roster it is on: under one signer who is not
\* revoked, with checkpoints no further ahead than the skew and the asset unchanged
\* since its last create or append, the manifest is intact, with attestations,
\* appends and a stale anchor in any order while commands run one at a time.  Where
\* they overlap, and no head was announced, what is left of the history still
\* verifies against the bytes it binds.  A manifest created with --chunk-size 0 is
\* left out until its first append.
HonestManifestsVerify ==
    \A roster \in SUBSET Signers :
        /\ sidecar.state = "whole"
        /\ IF lone THEN body = Last(bound.edits).bytes
           ELSE anchor.count = 0 /\ body = Last(sidecar.edits).bytes
        /\ Last(sidecar.edits).cut = sidecar.chunk
        /\ \A i \in 1..Len(sidecar.cps) :
              /\ sidecar.cps[i].by = sidecar.cps[1].by
              /\ sidecar.cps[i].by \in roster \ journal.revoked
        /\ \A i \in 1..Len(sidecar.atts) : sidecar.atts[i].by \in roster
        /\ Last(sidecar.cps).at <= clock + Skew
        => VerifyLoaded(sidecar, body, [NoPolicy EXCEPT !.roster = roster]) \in Intact

\* A manifest that is not reported unattested was attested, in its present state,
\* by at least K different attestors of the roster, none revoked in a healthy journal
\* (verify.rs check_attestations).
AttestedMeansKAttestors ==
    \A roster \in SUBSET Signers :
        VerifyLoaded(sidecar, body, [NoPolicy EXCEPT !.roster = roster]) = "intact" =>
        \E S \in SUBSET roster :
            /\ Cardinality(S) >= RequiredK
            /\ \A s \in S : <<s, sidecar.edits>> \in vouched
                            /\ (Enforceable => s \notin journal.revoked)

-----------------------------------------------------------------------------
(***************************************************************************)
(* origin-provenance: the directory manifest (scan, check), the watermark  *)
(* (watermark, unwatermark) and the search for a sidecar by watermark      *)
(* (verify.rs verify_discover).  File contents are sequences of tokens:    *)
(* text, a newline, the marker's line without the newlines around it, and  *)
(* the payload and end marker of a watermark.                              *)
(***************************************************************************)
CONSTANTS FileNames,          \* files of the directory, all in plain sight
          Texts,              \* bound: contents files are given
          MaxStampCommands    \* bound: commands and changes

VARIABLES files,              \* bytes of each file; Absent when there is none
          scans,              \* the directory manifests written, in order
          mfile,              \* provenance-manifest.json: which of them, 0 for none
          siblings,           \* other assets' sidecars: [first, last] bytes bound
          steps,
          marked              \* history: bytes each file had when it was watermarked

stampVars == <<files, scans, mfile, siblings, steps, marked>>

Token(t) == [t |-> t, of |-> <<>>]
Absent == <<Token("absent")>>
Present == {n \in FileNames : files[n] # Absent}

\* Watermark::embed; has_watermark looks for a start marker, which is the line
\* between two newlines wherever they come from; extract takes the first start
\* marker, and the first end marker after it with a payload between.
StartMarker == <<Token("newline"), Token("line"), Token("newline")>>
Embed(bytes) == bytes \o StartMarker \o <<[t |-> "payload", of |-> bytes], Token("end")>>
StartsAt(bytes) == {i \in 1..(Len(bytes) - 2) : SubSeq(bytes, i, i + 2) = StartMarker}
HasWatermark(bytes) == StartsAt(bytes) # {}
FirstStart(bytes) == CHOOSE i \in StartsAt(bytes) : \A j \in StartsAt(bytes) : i <= j
Extracts(bytes) ==
    /\ HasWatermark(bytes)
    /\ LET start == FirstStart(bytes) IN
          /\ Len(bytes) >= start + 4
          /\ bytes[start + 3].t = "payload" /\ bytes[start + 4].t = "end"
Original(bytes) == SubSeq(bytes, 1, FirstStart(bytes) - 1)
WatermarkVerifies(bytes) == bytes[FirstStart(bytes) + 3].of = Original(bytes)

\* Stamp::verify_content.
VerifyContent(stamp, bytes) == stamp = bytes /\ Len(stamp) = Len(bytes)

-----------------------------------------------------------------------------
Stepped == steps < MaxStampCommands /\ steps' = steps + 1

\* Somebody writes or removes a file.
ChangeFile(n) ==
    /\ Stepped
    /\ \E bytes \in Texts \union {Absent} : files' = [files EXCEPT ![n] = bytes]
    /\ marked' = [marked EXCEPT ![n] = Absent]
    /\ UNCHANGED <<scans, mfile, siblings>>

\* cmd_watermark: refused for a file that has a start marker; in place or --output.
MarkFile(n, out) ==
    /\ files' = [files EXCEPT ![out] = Embed(files[n])]
    /\ marked' = [marked EXCEPT ![out] = files[n]]
    /\ UNCHANGED <<scans, mfile, siblings>>
WatermarkFile(n, out) ==
    /\ Stepped
    /\ n \in Present
    /\ ~HasWatermark(files[n])
    /\ MarkFile(n, out)

\* cmd_unwatermark --strip: writes the original, whatever the integrity line says.
Unwatermark(n, out) ==
    /\ Stepped
    /\ n \in Present
    /\ Extracts(files[n])
    /\ files' = [files EXCEPT ![out] = Original(files[n])]
    /\ marked' = [marked EXCEPT ![out] = Absent]
    /\ UNCHANGED <<scans, mfile, siblings>>

\* cmd_scan: every visible file is stamped, provenance-manifest.json among them
\* when it is already there; then the manifest is written over it.
ScanDir ==
    /\ Stepped
    /\ scans' = Append(scans, [stamps |-> [n \in Present |-> files[n]], own |-> mfile])
    /\ mfile' = Len(scans) + 1
    /\ UNCHANGED <<files, siblings, marked>>

\* Another asset's manifest comes to lie in the directory.
SiblingAppears ==
    /\ Stepped
    /\ \E first, last \in Texts : siblings' = siblings \union {[first |-> first, last |-> last]}
    /\ UNCHANGED <<files, scans, mfile, marked>>

StampsInit ==
    /\ files = [n \in FileNames |-> Absent]
    /\ scans = <<>>
    /\ mfile = 0
    /\ siblings = {}
    /\ steps = 0
    /\ marked = [n \in FileNames |-> Absent]

StampsNext ==
    \/ \E n \in FileNames : ChangeFile(n)
    \/ \E n, out \in FileNames : WatermarkFile(n, out) \/ Unwatermark(n, out)
    \/ ScanDir \/ SiblingAppears
StampsSpec == StampsInit /\ [][StampsNext]_stampVars

-----------------------------------------------------------------------------
\* Manifest::verify with the manifest of scan k: the entries by status.
MissingOf(scan) == {n \in DOMAIN scan.stamps : files[n] = Absent}
ModifiedOf(scan) ==
    {n \in DOMAIN scan.stamps : files[n] # Absent /\ ~VerifyContent(scan.stamps[n], files[n])}

\* cmd_check fails on modified or missing entries; its own old manifest is one.
OwnModified(scan) == scan.own # 0 /\ scan.own # mfile
CheckPasses(scan) == MissingOf(scan) = {} /\ ModifiedOf(scan) = {} /\ ~OwnModified(scan)

\* watermark_candidates: sidecars whose first edit binds the file or its original.
MarkedCopies(bytes) ==
    IF ~Extracts(bytes) THEN {}
    ELSE {s \in siblings : s.first \in {bytes, Original(bytes)}}

\* verify_discover without a default sidecar: one candidate, whose last edit is
\* compared with the original when its first edit binds that.
DiscoveredIntact(bytes) ==
    /\ Cardinality(MarkedCopies(bytes)) = 1
    /\ \E s \in MarkedCopies(bytes) :
          s.last = IF s.first = Original(bytes) THEN Original(bytes) ELSE bytes

-----------------------------------------------------------------------------
\* A file that ends in the marker's line and lacks its newline: has_watermark does
\* not see a marker, and the one embed appends begins where that line ends.
EndsInMarker(bytes) ==
    Len(bytes) >= 2 /\ SubSeq(bytes, Len(bytes) - 1, Len(bytes)) = <<Token("newline"), Token("line")>>

\* A watermark comes off again: whatever file the watermark command wrote, unless
\* rewritten since, extracts to exactly the bytes that were marked and passes its
\* own integrity line; all but a file that ended in the start marker short of its
\* last newline, whose watermark cannot be extracted at all (watermark.rs
\* has_watermark, embed, extract, verify).
MarksComeOff ==
    \A n \in FileNames : marked[n] # Absent =>
        /\ EndsInMarker(marked[n]) <=> ~Extracts(files[n])
        /\ Extracts(files[n]) => Original(files[n]) = marked[n] /\ WatermarkVerifies(files[n])

\* A check that passes means every scanned file is there with the bytes it was
\* scanned with (manifest.rs verify, commands.rs cmd_check).
CleanCheckMeansUnchanged ==
    \A k \in 1..Len(scans) : CheckPasses(scans[k]) =>
        \A n \in DOMAIN scans[k].stamps : files[n] = scans[k].stamps[n]

\* A watermarked copy is recognised by the manifest of the bytes it was made from:
\* when that is the only manifest that could be meant, discovery calls the copy
\* intact exactly when the manifest's last edit still binds those bytes.
CopiesAreRecognised ==
    \A n \in FileNames, s \in siblings :
        /\ marked[n] # Absent /\ ~EndsInMarker(marked[n])
        /\ s.first = marked[n]
        /\ \A r \in siblings \ {s} : r.first \notin {files[n], marked[n]}
        => (DiscoveredIntact(files[n]) <=> s.last = marked[n])

\* The verdicts are right both ways: honest work and its marked copies are found
\* intact, losses that were announced are not, attested means attested, and a clean
\* check means unchanged.
VerdictsAreRight ==
    /\ LossesShow /\ HonestManifestsVerify /\ AttestedMeansKAttestors
    /\ MarksComeOff /\ CopiesAreRecognised /\ CleanCheckMeansUnchanged
=============================================================================
