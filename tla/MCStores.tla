------------------------------ MODULE MCStores ------------------------------
(***************************************************************************)
(* Small instances of what the suite keeps at rest: secrets, identities,   *)
(* password vaults, envelopes, logs, provenance, marks and canaries.  One  *)
(* of the parts runs in each behaviour, chosen at the start; the variables *)
(* of the others stay as their Init has them.                              *)
(***************************************************************************)
EXTENDS Secrets, Keystore, PassVault, Seal, Mmr, Provenance, Canary, TLC

CONSTANTS Parts,
          p1, p2,   \* two processes that run commands of the same program
          f1, f2    \* two output files of origin-seal

VARIABLE part

StoreSymmetry == Permutations({p1, p2}) \union Permutations({f1, f2})

\* Secrets: a single share, and two that are both needed.
MCSchemes == {[k |-> 1, n |-> 1], [k |-> 2, n |-> 2]}

\* PassVault: suites with and without a counter, a time step and session data.
MCSuites == {<<"Q">>, <<"C", "Q">>, <<"T", "Q">>, <<"Q", "S">>, <<"C">>}

\* Seal: no chunk, and two that differ.
MCPlain == {<<>>, <<"a", "b">>}

\* Mmr: a datum, and two of its hashes joined.
MCData == {<<1>>, <<<<1>>, <<1>>>>}

\* Stamps: texts, two of which end in a part of what a mark starts with.
MCStampTexts == {<<Token("text")>>, <<Token("text"), Token("newline"), Token("line")>>,
                 <<Token("newline"), Token("line"), Token("newline")>>}

\* Canary: two trees, and the kinds of canary planned for them; "d" is the path of
\* "a" once its directory is renamed.
MCFile(lang, base, at) == [lang |-> lang, base |-> base, at |-> at]
MCSources == [a |-> MCFile("py", "x.py", 1), d |-> MCFile("py", "x.py", 2), b |-> MCFile("rs", "y.rs", 3),
              n |-> MCFile("md", "n.md", 4), j |-> MCFile("js", "j.js", 5), s |-> MCFile("sol", "s.sol", 6)]
MCTrees == {[a |-> <<"shebang", "import", "blank", "def", "code">>, b |-> <<"mod">>, n |-> <<"long">>],
            [j |-> <<"import">>, s |-> <<"import", "contract", "import">>]}
MCPlans == {<<"py", "rs">>, <<"watermark", "deadcode">>, <<"js", "sol">>}

-----------------------------------------------------------------------------
storeVars == <<part, secretVars, keyVars, passVars, sealVars, mmrVars, provVars, stampVars,
    canaryVars>>

Init ==
    /\ part \in Parts
    /\ SecretsInit /\ KeystoreInit /\ PassInit /\ SealInit
    /\ MmrInit /\ ProvInit /\ StampsInit /\ CanaryInit
    /\ part = "secrets" \/ sseeds = 1
    /\ part = "mmr" \/ mmr = NewState
    /\ part = "canary" \/ "a" \in DOMAIN tree

Next ==
    \/ /\ part = "secrets" /\ SecretsNext
       /\ UNCHANGED <<part, keyVars, passVars, sealVars, mmrVars, provVars, stampVars,
                      canaryVars>>
    \/ /\ part = "keystore" /\ KeystoreNext
       /\ UNCHANGED <<part, secretVars, passVars, sealVars, mmrVars, provVars, stampVars,
                      canaryVars>>
    \/ /\ part = "pass" /\ PassNext
       /\ UNCHANGED <<part, secretVars, keyVars, sealVars, mmrVars, provVars, stampVars,
                      canaryVars>>
    \/ /\ part = "seal" /\ SealNext
       /\ UNCHANGED <<part, secretVars, keyVars, passVars, mmrVars, provVars, stampVars,
                      canaryVars>>
    \/ /\ part = "mmr" /\ MmrNext
       /\ UNCHANGED <<part, secretVars, keyVars, passVars, sealVars, provVars, stampVars,
                      canaryVars>>
    \/ /\ part = "provenance" /\ ProvNext
       /\ UNCHANGED <<part, secretVars, keyVars, passVars, sealVars, mmrVars, stampVars,
                      canaryVars>>
    \/ /\ part = "stamps" /\ StampsNext
       /\ UNCHANGED <<part, secretVars, keyVars, passVars, sealVars, mmrVars, provVars,
                      canaryVars>>
    \/ /\ part = "canary" /\ CanaryNext
       /\ UNCHANGED <<part, secretVars, keyVars, passVars, sealVars, mmrVars, provVars,
                      stampVars>>

Spec == Init /\ [][Next]_storeVars
=============================================================================
