----------------------------- MODULE PassVault -----------------------------
(* origin-pass: one vault file, its OCRA ledger and the session tokens that   *)
(* open it. Every command is a process of its own that reads a file whole,    *)
(* works in memory and replaces the file by a rename; nothing is locked, so   *)
(* a command is modelled as its reads and writes and commands overlap. A      *)
(* command that fails before it has written anything changes nothing and is   *)
(* not a step; its arguments are chosen where they are first used.            *)
EXTENDS Integers, Sequences, FiniteSets

CONSTANTS
  Runners,       \* processes that may run a command at the same time
  Entries,       \* entry names
  Suites,        \* OCRA suites: the letters of their data input, in order
  MasterPhrases,
  TokenFiles,
  Challenges,
  Ttl,           \* lifetime of a session token
  RenewBelow,    \* auto-rotate when less than this remains
  MaxUses,       \* MAX_USES_PER_ENTRY
  MaxTime,       \* bound on the clock
  MaxPassCommands  \* bound on commands started

\* a code that answers no challenge
NoChallenge == "none"
ASSUME UsesAssumption == MaxUses \in Nat /\ NoChallenge \notin Challenges
ASSUME PhrasesAssumption == MasterPhrases # {}

\* EntryPayload: what the commands tell apart
Entry(kind, suite, secret, counter) ==
  [kind |-> kind, suite |-> suite, secret |-> secret, counter |-> counter]
NoEntry == Entry("none", <<>>, 0, 0)
\* write_session_token: the master key, sealed, and a lifetime
SealToken(key, from, ttl, auto) ==
  [there |-> TRUE, key |-> key, created |-> from, expires |-> from + ttl, auto |-> auto]
NoToken == [SealToken(<<>>, 0, 0, FALSE) EXCEPT !.there = FALSE]
NoVault == [there |-> FALSE, key |-> <<>>, entries |-> [n \in Entries |-> NoEntry]]
NoUse == [name |-> "none", ch |-> NoChallenge, counter |-> 0, force |-> FALSE, advance |-> FALSE]
NoJob == [cmd |-> "none", at |-> "done", file |-> "none", key |-> <<>>, vault |-> NoVault,
          use |-> NoUse, uses |-> <<>>, token |-> NoToken, seen |-> 0, doomed |-> {},
          listed |-> [f \in TokenFiles |-> NoToken]]

VARIABLES
  vault,       \* the vault file: the master key it is encrypted under, its entries
  ocraLedger,      \* <vault>.ocra-ledger.json: recent uses of each entry, newest last
  tokens,      \* the token store
  job,         \* what each process has read and where it is
  now,         \* unix_now
  salts,       \* salts and secrets handed out, each one fresh
  spent,       \* history: the codes the commands committed to show, in order
  retired,     \* history: master keys an acknowledged change-passphrase replaced
  raced,       \* history: a write replaced something it had not read
  started      \* commands started

passFiles == <<vault, ocraLedger, tokens>>
passHistory == <<spent, retired, raced>>
passVars == <<passFiles, job, now, salts, passHistory, started>>

\* argon2id_derive
MasterKey(pass, salt) == <<pass, salt>>
Salt(key) == key[2]

\* a fresh vault
PassInit ==
  LET p == CHOOSE p \in MasterPhrases : TRUE
  IN
    /\ vault = [NoVault EXCEPT !.there = TRUE, !.key = MasterKey(p, 1)]
    /\ ocraLedger = [n \in Entries |-> <<>>]
    /\ tokens = [f \in TokenFiles |-> NoToken]
    /\ job = [r \in Runners |-> NoJob]
    /\ now = 0
    /\ salts = 1
    /\ spent = <<>>
    /\ retired = {}
    /\ raced = FALSE
    /\ started = 0

----------------------------------------------------------------------------
(* How a command begins.                                                     *)

At(r, place) == job[r].at = place
Goto(r, place) == job' = [job EXCEPT ![r].at = place]
Finish(r) == job' = [job EXCEPT ![r] = NoJob]

Begin(r, j) ==
  /\ At(r, "done")
  /\ started < MaxPassCommands
  /\ started' = started + 1
  /\ job' = [job EXCEPT ![r] = j]
  /\ UNCHANGED <<passFiles, now, salts, passHistory>>

\* cmd_init: refuses a path that exists; the vault is written afterwards
InitCheck(r) == ~vault.there /\ Begin(r, [NoJob EXCEPT !.cmd = "init", !.at = "create"])

\* unlock_vault: the passphrase is right when it derives the file's own key
OpenByPassphrase(r) == \E p \in MasterPhrases :
  /\ vault.there /\ MasterKey(p, Salt(vault.key)) = vault.key
  /\ Begin(r, [NoJob EXCEPT !.cmd = "passphrase", !.at = "opened", !.vault = vault])

Living(token) == token.there /\ now < token.expires

\* unlock_vault_with_args with a session token: read_session_token first
ReadToken(r) == \E f \in TokenFiles :
  /\ Living(tokens[f])
  /\ Begin(r, [NoJob EXCEPT !.cmd = "token", !.at = "decide", !.file = f, !.key = tokens[f].key])

\* `tokens rotate` and `tokens renew` go straight to the rotation
RotateToken(r) == \E f \in TokenFiles, cmd \in {"rotate", "renew"} :
  /\ Living(tokens[f])
  /\ Begin(r, [NoJob EXCEPT !.cmd = cmd, !.at = "rewrite", !.file = f, !.token = tokens[f], !.seen = now])

\* what `lock` removes is one token, `lock-all` every one listed, `prune` and
\* `revoke-all --expired-only` the dead ones
Doomed(cmd) == {f \in TokenFiles : tokens[f].there /\ (cmd = "prune" => now >= tokens[f].expires)}

Revoke(r) == \E cmd \in {"lock", "lock-all", "prune"}, doomed \in SUBSET TokenFiles :
  /\ doomed # {} /\ doomed \subseteq Doomed(cmd)
  /\ IF cmd = "lock" THEN Cardinality(doomed) = 1 ELSE doomed = Doomed(cmd)
  /\ Begin(r, [NoJob EXCEPT !.cmd = cmd, !.at = "remove", !.doomed = doomed, !.listed = tokens])

----------------------------------------------------------------------------
(* Session tokens.                                                           *)

\* maybe_auto_rotate reads the token again, and rotate_session_token once more
Decide(r) ==
  LET token == tokens[job[r].file]
  IN  /\ At(r, "decide")
      /\ Goto(r, IF Living(token) /\ token.auto /\ token.expires - now < RenewBelow
                 THEN "reread" ELSE "open")
      /\ UNCHANGED <<passFiles, now, salts, passHistory, started>>

\* a token that died in between ends the command with an error
Reread(r) ==
  LET token == tokens[job[r].file]
  IN  /\ At(r, "reread")
      /\ IF Living(token)
         THEN job' = [job EXCEPT ![r].token = token, ![r].seen = now, ![r].at = "rewrite"]
         ELSE Finish(r)
      /\ UNCHANGED <<passFiles, now, salts, passHistory, started>>

\* rotate starts the lifetime anew, renew keeps the creation time; without --ttl
\* both take the span of the token they read, auto-rotation the policy's
Rewrite(r) ==
  LET old == job[r].token
      auto == job[r].cmd = "token"
      ttl == IF auto THEN Ttl ELSE old.expires - old.created
  IN  /\ At(r, "rewrite")
      /\ tokens' = [tokens EXCEPT ![job[r].file] =
           [old EXCEPT !.created = IF job[r].cmd = "renew" THEN @ ELSE now, !.expires = now + ttl]]
      /\ IF auto THEN Goto(r, "open") ELSE Finish(r)
      /\ UNCHANGED <<vault, ocraLedger, now, salts, passHistory, started>>

\* revoke_session_token, one file after the other; a file already gone is an error
\* and ends the command
RemoveToken(r) == \E f \in job[r].doomed :
  /\ At(r, "remove")
  /\ tokens' = [tokens EXCEPT ![f] = NoToken]
  /\ IF ~tokens[f].there \/ job[r].doomed = {f} THEN Finish(r)
     ELSE job' = [job EXCEPT ![r].doomed = @ \ {f}]
  /\ UNCHANGED <<vault, ocraLedger, now, salts, passHistory, started>>

\* unlock_vault_with_key: the key sealed in the token must be the file's own
OpenByKey(r) ==
  /\ At(r, "open")
  /\ IF vault.there /\ job[r].key = vault.key
     THEN job' = [job EXCEPT ![r] = [NoJob EXCEPT !.cmd = "token", !.at = "opened", !.vault = vault]]
     ELSE Finish(r)
  /\ UNCHANGED <<passFiles, now, salts, passHistory, started>>

----------------------------------------------------------------------------
(* The commands on an open vault. `get`, `list` and `export-qr` only read:    *)
(* for the model they end as Leave does.                                     *)

\* write_session_token at the end of cmd_unlock, with or without --auto-rotate
Unlock(r) == \E f \in TokenFiles, auto \in BOOLEAN :
  /\ At(r, "opened") /\ job[r].cmd = "passphrase"
  /\ tokens' = [tokens EXCEPT ![f] = SealToken(job[r].vault.key, now, Ttl, auto)]
  /\ Finish(r)
  /\ UNCHANGED <<vault, ocraLedger, now, salts, passHistory, started>>

\* init_vault, after its check
Create(r) == \E p \in MasterPhrases :
  /\ At(r, "create")
  /\ vault' = [NoVault EXCEPT !.there = TRUE, !.key = MasterKey(p, salts + 1)]
  /\ salts' = salts + 1
  /\ raced' = (raced \/ vault.there)
  /\ Finish(r)
  /\ UNCHANGED <<ocraLedger, tokens, now, spent, retired, started>>

\* persist_vault: the file becomes what the command has in memory
Persist(r, mem) ==
  /\ vault' = mem
  /\ raced' = (raced \/ vault # job[r].vault)
  /\ Finish(r)
  /\ UNCHANGED <<ocraLedger, tokens, now, started>>

Opened(r, n) == job[r].vault.entries[n]

\* the end of the four commands that add: a name in use needs --force, and the
\* secret, new to the vault, comes with the counter given
StoreEntry(r, n, kind, suite) == \E force \in BOOLEAN :
  /\ At(r, "opened")
  /\ Opened(r, n) # NoEntry => force
  /\ Persist(r, [job[r].vault EXCEPT !.entries[n] = Entry(kind, suite, salts + 1, 0)])
  /\ salts' = salts + 1
  /\ UNCHANGED <<spent, retired>>

AddPassword(r) == \E n \in Entries : StoreEntry(r, n, "password", <<>>)

AddOtp(r) == \E n \in Entries, kind \in {"totp", "hotp"} : StoreEntry(r, n, kind, <<>>)

\* x is one of a sequence
Has(seq, x) == \E i \in DOMAIN seq : seq[i] = x

\* parse_data_input: a letter may come once
ParseSuite(suite) ==
  [ok |-> suite # <<>> /\ \A i, j \in DOMAIN suite : suite[i] = suite[j] => i = j,
   counter |-> Has(suite, "C"), challenge |-> Has(suite, "Q"),
   session |-> Has(suite, "S"), timed |-> Has(suite, "T")]

\* a suite with session data is refused
AddOcra(r) == \E n \in Entries, suite \in Suites :
  /\ ParseSuite(suite).ok /\ ~ParseSuite(suite).session
  /\ StoreEntry(r, n, "ocra", suite)

\* the URI of an HOTP entry carries its counter
ImportQr(r) == \E n \in Entries, kind \in {"totp", "hotp"} : StoreEntry(r, n, kind, <<>>)

RmEntry(r) == \E n \in Entries :
  /\ At(r, "opened")
  /\ Opened(r, n) # NoEntry
  /\ Persist(r, [job[r].vault EXCEPT !.entries[n] = NoEntry])
  /\ UNCHANGED <<salts, spent, retired>>

\* cmd_change_passphrase: a fresh salt, hence a fresh master key; no session token
ChangePassphrase(r) == \E p \in MasterPhrases :
  /\ At(r, "opened") /\ job[r].cmd = "passphrase"
  /\ Persist(r, [job[r].vault EXCEPT !.key = MasterKey(p, salts + 1)])
  /\ salts' = salts + 1
  /\ retired' = retired \cup {job[r].vault.key}
  /\ UNCHANGED spent

CodeFor(r, n, counter, c, force) ==
  [secret |-> Opened(r, n).secret, counter |-> counter, ch |-> c, force |-> force]

\* mutant: the counter is advanced in memory only
CodeOtpUnsaved(r) == \E n \in Entries :
  /\ At(r, "opened")
  /\ Opened(r, n).kind = "hotp"
  /\ Persist(r, job[r].vault)
  /\ spent' = Append(spent, CodeFor(r, n, Opened(r, n).counter, NoChallenge, FALSE))
  /\ UNCHANGED <<salts, retired>>

\* cmd_code_otp on an HOTP entry: the next counter is on disk before the code is shown
CodeOtp(r) == \E n \in Entries :
  /\ At(r, "opened")
  /\ Opened(r, n).kind = "hotp"
  /\ Persist(r, [job[r].vault EXCEPT !.entries[n].counter = @ + 1])
  /\ spent' = Append(spent, CodeFor(r, n, Opened(r, n).counter, NoChallenge, FALSE))
  /\ UNCHANGED <<salts, retired>>

\* cmd_code_ocra up to the read of the ledger: a C suite takes the stored counter or
\* an explicit --counter (here 0); the ledger is for suites with a challenge and no
\* timestamp, and a use it remembers is refused without --force
LoadLedger(r) == \E n \in Entries, c \in Challenges, force \in BOOLEAN, given \in BOOLEAN :
  LET suite == ParseSuite(Opened(r, n).suite)
      counter == IF suite.counter /\ ~given THEN Opened(r, n).counter ELSE 0
      applies == suite.challenge /\ ~suite.timed
  IN  /\ At(r, "opened")
      /\ Opened(r, n).kind = "ocra"
      /\ applies => ~Has(ocraLedger[n], <<c, counter>>) \/ force
      /\ job' = [job EXCEPT
           ![r].use = [name |-> n, ch |-> c, counter |-> counter, force |-> force,
                       advance |-> suite.counter /\ ~given],
           ![r].uses = ocraLedger[n], ![r].at = IF applies THEN "record" ELSE "code"]
      /\ UNCHANGED <<passFiles, now, salts, passHistory, started>>

\* the rest of record_use: the newest MaxUses stay
Newest(uses) == SubSeq(uses, IF Len(uses) > MaxUses THEN 1 + Len(uses) - MaxUses ELSE 1, Len(uses))

RecordUse(r) ==
  LET u == job[r].use
  IN  /\ At(r, "record")
      /\ ocraLedger' = [ocraLedger EXCEPT ![u.name] = Newest(Append(job[r].uses, <<u.ch, u.counter>>))]
      /\ raced' = (raced \/ ocraLedger[u.name] # job[r].uses)
      /\ spent' = Append(spent, CodeFor(r, u.name, u.counter, u.ch, u.force))
      /\ Goto(r, "code")
      /\ UNCHANGED <<vault, tokens, now, salts, retired, started>>

\* its end: a C suite whose stored counter was used advances it, and the code is shown
CodeOcra(r) ==
  LET u == job[r].use
  IN  /\ At(r, "code")
      /\ IF u.advance THEN Persist(r, [job[r].vault EXCEPT !.entries[u.name].counter = @ + 1])
         ELSE Finish(r) /\ UNCHANGED <<passFiles, now, raced, started>>
      /\ UNCHANGED <<salts, spent, retired>>

----------------------------------------------------------------------------
\* a command that only read is over, or the process is killed between two steps
Leave(r) ==
  /\ ~At(r, "done")
  /\ Finish(r)
  /\ UNCHANGED <<passFiles, now, salts, passHistory, started>>

\* the vault file is deleted by hand
DeleteVault ==
  /\ vault.there /\ started < MaxPassCommands
  /\ vault' = NoVault
  /\ started' = started + 1
  /\ UNCHANGED <<ocraLedger, tokens, job, now, salts, passHistory>>

\* the clock is only ever compared with a token's times
PassTick ==
  /\ now < MaxTime
  /\ \E f \in TokenFiles : tokens[f].there
  /\ now' = now + 1
  /\ UNCHANGED <<passFiles, job, salts, passHistory, started>>

PassNext ==
  \/ PassTick \/ DeleteVault
  \/ \E r \in Runners :
       \/ InitCheck(r) \/ OpenByPassphrase(r) \/ ReadToken(r) \/ RotateToken(r) \/ Revoke(r)
       \/ Decide(r) \/ Reread(r) \/ Rewrite(r) \/ RemoveToken(r) \/ OpenByKey(r)
       \/ Unlock(r) \/ Create(r) \/ AddPassword(r) \/ AddOtp(r) \/ AddOcra(r)
       \/ ImportQr(r) \/ RmEntry(r) \/ ChangePassphrase(r)
       \/ CodeOtp(r) \/ LoadLedger(r) \/ RecordUse(r) \/ CodeOcra(r) \/ Leave(r)

PassSpec == PassInit /\ [][PassNext]_passVars

----------------------------------------------------------------------------
(* Properties.                                                               *)

SameCode(a, b) == [a EXCEPT !.force = FALSE] = [b EXCEPT !.force = FALSE]

\* A code is never shown twice: an HOTP counter is on disk before its code is
\* printed (cmd_code_otp), and the ledger refuses a challenge it remembers
\* (record_use), whatever is killed half-way. What may break it is --force, a
\* challenge that MaxUses others have pushed out of the ledger, and a command
\* that overwrote what another one wrote after it had read.
CodesAreFresh ==
  ~raced => \A j \in DOMAIN spent : ~spent[j].force =>
    \A i \in 1..(j - 1) : SameCode(spent[i], spent[j]) =>
      spent[i].ch # NoChallenge /\ j - i > MaxUses

\* A master key that change-passphrase replaced never encrypts the vault again, so
\* neither the old passphrase nor a token sealed with it opens anything, unless a
\* command that had opened the vault before the change writes it back after it.
RetiredKeysStayRetired == ~raced => vault.key \notin retired

\* Nothing used up comes back: neither a one-time code nor a replaced master key.
UsedUpStaysUsedUp == CodesAreFresh /\ RetiredKeysStayRetired

============================================================================
