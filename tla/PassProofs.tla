----------------------------- MODULE PassProofs -----------------------------
(***************************************************************************)
(* Proof about PassVault, for any number of processes, entries and         *)
(* commands: nothing used up comes back.  What a step does to the file and *)
(* to one process first, then the steps that write the file, that show a   *)
(* code and that do neither.                                               *)
(***************************************************************************)
EXTENDS PassVault, TLAPS

-----------------------------------------------------------------------------
(* The invariant *)

\* An entry: a stored secret is one of those handed out, and only a missing entry has none.
EntryOk(e, given) ==
  /\ DOMAIN e = {"kind", "suite", "secret", "counter"}
  /\ e.secret \in 0..given /\ e.counter \in Nat
  /\ e.kind # "none" => e.secret # 0

\* A vault, in the file or in a process: its key was derived with a salt handed out.
VaultOk(v, given) ==
  /\ DOMAIN v = {"there", "key", "entries"}
  /\ DOMAIN v.entries = Entries /\ \A n \in Entries : EntryOk(v.entries[n], given)
  /\ v.there => \E p \in MasterPhrases, s \in 1..given : v.key = MasterKey(p, s)

\* A remembered use of an entry.
Uses == Challenges \X Nat

\* A command under way: what it opened, and what it is about to record.
PassJobOk(j, given) ==
  /\ DOMAIN j = DOMAIN NoJob
  /\ VaultOk(j.vault, given)
  /\ j.at \in {"opened", "record", "code"} => j.vault.there
  /\ j.at \in {"record", "code"} => j.use.name \in Entries /\ j.vault.entries[j.use.name].kind = "ocra"
  /\ j.at = "record" =>
       /\ j.use.ch \in Challenges /\ j.use.counter \in Nat /\ j.use.force \in BOOLEAN
       /\ j.uses \in Seq(Uses) /\ Len(j.uses) <= MaxUses
       /\ ~ j.use.force => ~ Has(j.uses, <<j.use.ch, j.use.counter>>)

\* Codes shown.
Codes(given) == [secret : 1..given, counter : Nat, ch : Challenges \cup {NoChallenge}, force : BOOLEAN]

\* Types.
PassTypes ==
  /\ salts \in Nat /\ raced \in BOOLEAN
  /\ VaultOk(vault, salts)
  /\ DOMAIN job = Runners /\ \A r \in Runners : PassJobOk(job[r], salts)
  /\ DOMAIN ocraLedger = Entries
  /\ \A n \in Entries : ocraLedger[n] \in Seq(Uses) /\ Len(ocraLedger[n]) <= MaxUses
  /\ spent \in Seq(Codes(salts))
  /\ \A k \in retired : \E p \in MasterPhrases, s \in 1..salts : k = MasterKey(p, s)

\* Secret s is stored under name n, in the file or in what a process has open.
Bears(v, n, s) == s # 0 /\ v.entries[n].secret = s
Borne(v, jobs, n, s) == Bears(v, n, s) \/ \E r \in Runners : Bears(jobs[r].vault, n, s)

\* A secret stays under one name.
OneName(v, jobs) ==
  \A m, n \in Entries, s \in Nat : Borne(v, jobs, m, s) /\ Borne(v, jobs, n, s) => m = n

\* The counter in the file is past every one-time code shown.
CountersPast(v, codes) ==
  \A i \in 1..Len(codes), n \in Entries :
    codes[i].ch = NoChallenge /\ v.entries[n].secret = codes[i].secret
      => codes[i].counter < v.entries[n].counter

\* The ledger of an entry remembers the i-th of `shown` codes, unless MaxUses came after it.
Remembers(uses, code, shown, i) ==
  \/ shown - i >= MaxUses
  \/ \E p \in 1..Len(uses) : uses[p] = <<code.ch, code.counter>> /\ Len(uses) - p <= shown - i
LedgersRemember(v, jobs, ledger, codes) ==
  \A i \in 1..Len(codes), n \in Entries :
    codes[i].ch # NoChallenge /\ Borne(v, jobs, n, codes[i].secret)
      => Remembers(ledger[n], codes[i], Len(codes), i)

\* The inductive invariant of the vault.
PassInv ==
  /\ PassTypes /\ OneName(vault, job)
  /\ ~ raced => /\ CountersPast(vault, spent) /\ LedgersRemember(vault, job, ocraLedger, spent)
  /\ UsedUpStaysUsedUp

-----------------------------------------------------------------------------
\* What was handed out stays so when more is.
LEMMA MoreGiven ==
  ASSUME NEW g \in Nat, NEW h \in Nat, g <= h
  PROVE  /\ \A v : VaultOk(v, g) => VaultOk(v, h)
         /\ \A j : PassJobOk(j, g) => PassJobOk(j, h)
         /\ Seq(Codes(g)) \subseteq Seq(Codes(h))
<1>1. \A v : VaultOk(v, g) => VaultOk(v, h)
  <2> SUFFICES ASSUME NEW v, VaultOk(v, g) PROVE VaultOk(v, h)
    OBVIOUS
  <2>1. \A n \in Entries : EntryOk(v.entries[n], h)
    BY SMT DEF VaultOk, EntryOk
  <2>2. v.there => \E p \in MasterPhrases, s \in 1..h : v.key = MasterKey(p, s)
    BY SMT DEF VaultOk
  <2> QED
    BY <2>1, <2>2 DEF VaultOk
<1>2. \A j : PassJobOk(j, g) => PassJobOk(j, h)
  BY <1>1 DEF PassJobOk
<1>3. Codes(g) \subseteq Codes(h)
  BY SMT DEF Codes
<1> QED
  BY <1>1, <1>2, <1>3, SMT

\* The empty vault and the idle process.
LEMMA IdleIsOk ==
  ASSUME NEW g \in Nat
  PROVE  VaultOk(NoVault, g) /\ PassJobOk(NoJob, g) /\ NoJob.vault = NoVault
<1>1. VaultOk(NoVault, g)
  BY SMT DEF VaultOk, NoVault, NoEntry, Entry, EntryOk
<1> QED
  BY <1>1 DEF PassJobOk, NoJob

\* A step that leaves the files of codes alone and opens at most the vault that is there.
LEMMA NothingShown ==
  ASSUME PassInv, vault' = vault, ocraLedger' = ocraLedger, salts' = salts, spent' = spent,
         retired' = retired, raced' = raced, DOMAIN job' = Runners,
         \A r \in Runners : PassJobOk(job'[r], salts),
         \A r \in Runners : job'[r].vault \in {job[r].vault, vault, NoVault}
  PROVE  PassInv'
<1>1. PassTypes'
  BY DEF PassInv, PassTypes
<1>2. \A n \in Entries : \A s : Borne(vault', job', n, s) => Borne(vault, job, n, s)
  <2> SUFFICES ASSUME NEW n \in Entries, NEW s, NEW r \in Runners, Bears(job'[r].vault, n, s)
               PROVE  Borne(vault, job, n, s)
    BY DEF Borne
  <2>1. CASE job'[r].vault = NoVault
    BY <2>1 DEF Bears, NoVault, NoEntry, Entry
  <2>2. CASE job'[r].vault # NoVault
    BY <2>2 DEF Borne
  <2> QED
    BY <2>1, <2>2
<1>3. OneName(vault', job')
  BY <1>2 DEF OneName, PassInv
<1>4. ~ raced => LedgersRemember(vault', job', ocraLedger', spent')
  BY <1>2 DEF LedgersRemember, PassInv
<1>5. UsedUpStaysUsedUp'
  BY DEF PassInv, UsedUpStaysUsedUp, CodesAreFresh, RetiredKeysStayRetired
<1> QED
  BY <1>1, <1>3, <1>4, <1>5 DEF PassInv

\* What a step makes of a vault v: a name has no entry, a new secret, or the secret it had
\* and a counter no smaller; at most one secret is new.
Follows(v, w, given) ==
  /\ \A n \in Entries :
       \/ w.entries[n].secret \in {0, given + 1}
       \/ w.entries[n].secret = v.entries[n].secret /\ v.entries[n].counter <= w.entries[n].counter
  /\ \A m, n \in Entries :
       w.entries[m].secret = given + 1 /\ w.entries[n].secret = given + 1 => m = n

\* What a code has.
LEMMA CodesHave ==
  ASSUME NEW g, NEW codes \in Seq(Codes(g)), NEW i \in 1..Len(codes)
  PROVE  /\ codes[i] \in Codes(g) /\ codes[i].secret \in 1..g /\ codes[i].counter \in Nat
         /\ codes[i].ch \in Challenges \cup {NoChallenge} /\ codes[i].force \in BOOLEAN
<1>1. codes[i] \in Codes(g)
  OBVIOUS
<1> QED
  BY <1>1, Zenon DEF Codes

\* A step that writes the file from a vault v in the file or in a process.
Writes(v) ==
  /\ v = vault \/ \E r \in Runners : v = job[r].vault
  /\ salts' \in {salts, salts + 1} /\ VaultOk(vault', salts') /\ Follows(v, vault', salts)
  /\ raced' \in BOOLEAN /\ (~ raced' => ~ raced /\ v = vault)
  /\ ocraLedger' = ocraLedger
  /\ DOMAIN job' = Runners
  /\ \A r \in Runners : PassJobOk(job'[r], salts) /\ job'[r].vault \in {job[r].vault, NoVault}

\* Such a step keeps secrets under their names, counters ahead and ledgers complete.
LEMMA WritingKeeps ==
  ASSUME PassInv, NEW v, Writes(v)
  PROVE  /\ OneName(vault', job')
         /\ ~ raced' => CountersPast(vault', spent) /\ LedgersRemember(vault', job', ocraLedger', spent)
         /\ salts' \in Nat /\ spent \in Seq(Codes(salts')) /\ VaultOk(v, salts)
         /\ \A r \in Runners : PassJobOk(job'[r], salts')
         /\ \A k \in retired : \E p \in MasterPhrases, s \in 1..salts' : k = MasterKey(p, s)
<1> DEFINE Old(n, s) == Borne(vault, job, n, s)
           New(n, s) == Borne(vault', job', n, s)
<1>1. salts \in Nat /\ salts' \in Nat /\ salts <= salts' /\ VaultOk(v, salts)
  <2>1. salts \in Nat /\ VaultOk(vault, salts) /\ \A r \in Runners : VaultOk(job[r].vault, salts)
    BY Zenon DEF PassInv, PassTypes, PassJobOk
  <2>2. VaultOk(v, salts)
    BY <2>1, Zenon DEF Writes
  <2>3. salts' \in {salts, salts + 1}
    BY DEF Writes
  <2> QED
    BY <2>1, <2>2, <2>3
<1>2. \A n \in Entries, s \in Nat : Old(n, s) => s <= salts
  <2> SUFFICES ASSUME NEW n \in Entries, NEW s \in Nat, Old(n, s) PROVE s <= salts
    OBVIOUS
  <2>1. \A w : VaultOk(w, salts) /\ Bears(w, n, s) => s <= salts
    BY <1>1 DEF VaultOk, EntryOk, Bears
  <2> QED
    BY <2>1, Zenon DEF Borne, PassInv, PassTypes, PassJobOk
<1>3. \A n \in Entries, s \in Nat : New(n, s) => Old(n, s) \/ (s = salts + 1 /\ vault'.entries[n].secret = s)
  <2> SUFFICES ASSUME NEW n \in Entries, NEW s \in Nat, New(n, s)
               PROVE  Old(n, s) \/ (s = salts + 1 /\ vault'.entries[n].secret = s)
    OBVIOUS
  <2>1. CASE Bears(vault', n, s)
    BY <2>1 DEF Writes, Follows, Borne, Bears
  <2>2. CASE \E r \in Runners : Bears(job'[r].vault, n, s)
    <3> PICK r \in Runners : Bears(job'[r].vault, n, s)
      BY <2>2
    <3>1. job'[r].vault # NoVault
      BY DEF Bears, NoVault, NoEntry, Entry
    <3> QED
      BY <3>1 DEF Writes, Borne
  <2> QED
    BY <2>1, <2>2 DEF Borne
<1>4. OneName(vault', job')
  <2> SUFFICES ASSUME NEW m \in Entries, NEW n \in Entries, NEW s \in Nat, New(m, s), New(n, s)
               PROVE  m = n
    BY DEF OneName
  <2>1. CASE s = salts + 1
    BY <2>1, <1>1, <1>2, <1>3 DEF Writes, Follows
  <2>2. CASE s # salts + 1
    <3>1. Old(m, s) /\ Old(n, s)
      BY <2>2, <1>3
    <3> QED
      BY <3>1 DEF PassInv, OneName
  <2> QED
    BY <2>1, <2>2
<1>5. \A i \in 1..Len(spent) : spent[i].secret \in 1..salts /\ spent[i].counter \in Nat
  BY CodesHave DEF PassInv, PassTypes
<1>6. ASSUME ~ raced' PROVE CountersPast(vault', spent)
  <2> SUFFICES ASSUME NEW i \in 1..Len(spent), NEW n \in Entries, spent[i].ch = NoChallenge,
                      vault'.entries[n].secret = spent[i].secret
               PROVE  spent[i].counter < vault'.entries[n].counter
    BY DEF CountersPast
  <2>1. vault.entries[n].secret = spent[i].secret /\ vault.entries[n].counter <= vault'.entries[n].counter
    BY <1>1, <1>5, <1>6 DEF Writes, Follows
  <2>2. spent[i].counter < vault.entries[n].counter
    BY <2>1, <1>6 DEF PassInv, CountersPast, Writes
  <2>3. vault.entries[n].counter \in Nat /\ vault'.entries[n].counter \in Nat
    BY DEF PassInv, PassTypes, VaultOk, EntryOk, Writes
  <2> QED
    BY <2>1, <2>2, <2>3, <1>5
<1>7. ASSUME ~ raced' PROVE LedgersRemember(vault', job', ocraLedger', spent)
  <2> SUFFICES ASSUME NEW i \in 1..Len(spent), NEW n \in Entries, spent[i].ch # NoChallenge,
                      New(n, spent[i].secret)
               PROVE  Remembers(ocraLedger[n], spent[i], Len(spent), i)
    BY DEF LedgersRemember, Writes
  <2>1. Old(n, spent[i].secret)
    BY <1>1, <1>3, <1>5
  <2> QED
    BY <2>1, <1>7 DEF PassInv, LedgersRemember, Writes
<1>8. spent \in Seq(Codes(salts')) /\ \A r \in Runners : PassJobOk(job'[r], salts')
  BY <1>1, MoreGiven DEF Writes, PassInv, PassTypes
<1>9. \A k \in retired : \E p \in MasterPhrases, s \in 1..salts' : k = MasterKey(p, s)
  <2> SUFFICES ASSUME NEW k \in retired PROVE \E p \in MasterPhrases, s \in 1..salts' : k = MasterKey(p, s)
    OBVIOUS
  <2>1. PICK p \in MasterPhrases, s \in 1..salts : k = MasterKey(p, s)
    BY DEF PassInv, PassTypes
  <2>2. s \in 1..salts'
    BY <1>1
  <2> QED
    BY <2>1, <2>2
<1> QED
  BY <1>1, <1>4, <1>6, <1>7, <1>8, <1>9

\* A step that writes the file and shows no code.
LEMMA FileWritten ==
  ASSUME PassInv, NEW v, Writes(v), spent' = spent,
         \A k \in retired' : k \in retired \/ (k = v.key /\ v.there),
         ~ raced' => vault'.key \notin retired'
  PROVE  PassInv'
<1>1. \A k \in retired' : \E p \in MasterPhrases, s \in 1..salts' : k = MasterKey(p, s)
  <2>1. VaultOk(v, salts')
    <3>1. salts \in Nat /\ salts' \in Nat /\ salts <= salts'
      BY DEF Writes, PassInv, PassTypes
    <3> QED
      BY <3>1, WritingKeeps, MoreGiven
  <2> QED
    BY <2>1, WritingKeeps, Zenon DEF VaultOk
<1>2. PassTypes'
  BY <1>1, WritingKeeps, Zenon DEF PassTypes, PassInv, Writes
<1>3. CodesAreFresh'
  BY DEF CodesAreFresh, PassInv, UsedUpStaysUsedUp, Writes
<1> QED
  BY <1>2, <1>3, WritingKeeps DEF PassInv, UsedUpStaysUsedUp, RetiredKeysStayRetired

\* A process has its copy of the vault, and a step on it that ends the command writes the
\* file from this copy.
LEMMA PersistWrites ==
  ASSUME PassInv, NEW r \in Runners, NEW mem, Persist(r, mem), salts' \in {salts, salts + 1},
         VaultOk(mem, salts'), Follows(job[r].vault, mem, salts)
  PROVE  Writes(job[r].vault)
<1>1. job' = [job EXCEPT ![r] = NoJob] /\ vault' = mem /\ ocraLedger' = ocraLedger
      /\ raced' = (raced \/ vault # job[r].vault)
  BY DEF Persist, Finish
<1>2. salts \in Nat /\ DOMAIN job = Runners /\ \A q \in Runners : PassJobOk(job[q], salts)
  BY DEF PassInv, PassTypes
<1>3. \A q \in Runners : job'[q] = IF q = r THEN NoJob ELSE job[q]
  BY <1>1, <1>2
<1>4. \A q \in Runners : PassJobOk(job'[q], salts) /\ job'[q].vault \in {job[q].vault, NoVault}
  BY <1>2, <1>3, IdleIsOk
<1>5. raced' \in BOOLEAN /\ (~ raced' => ~ raced /\ job[r].vault = vault)
  BY <1>1, Zenon DEF PassInv, PassTypes
<1> QED
  BY <1>1, <1>2, <1>4, <1>5 DEF Writes

\* What the commands make of a vault they have open.
Rekeyed(v, k) == [v EXCEPT !.key = k]
Advanced(v, n) == [v EXCEPT !.entries[n].counter = @ + 1]
Stored(v, n, e) == [v EXCEPT !.entries[n] = e]

\* Another key.
LEMMA Rekeying ==
  ASSUME NEW g \in Nat, NEW v, VaultOk(v, g), NEW p \in MasterPhrases
  PROVE  /\ VaultOk(Rekeyed(v, MasterKey(p, g + 1)), g + 1)
         /\ Follows(v, Rekeyed(v, MasterKey(p, g + 1)), g)
         /\ Rekeyed(v, MasterKey(p, g + 1)).key = MasterKey(p, g + 1)
<1> DEFINE k == MasterKey(p, g + 1)
           w == Rekeyed(v, k)
<1>1. DOMAIN v = {"there", "key", "entries"} /\ VaultOk(v, g + 1)
  BY MoreGiven DEF VaultOk
<1>2. DOMAIN w = {"there", "key", "entries"} /\ w.key = k /\ w.entries = v.entries
  BY <1>1 DEF Rekeyed
<1> HIDE DEF w
<1>3. VaultOk(w, g + 1)
  BY <1>1, <1>2 DEF VaultOk
<1>4. Follows(v, w, g)
  BY <1>2 DEF Follows, VaultOk, EntryOk
<1> QED
  BY <1>2, <1>3, <1>4 DEF w

\* A counter one higher.
LEMMA Advancing ==
  ASSUME NEW g \in Nat, NEW v, VaultOk(v, g), NEW n \in Entries
  PROVE  /\ VaultOk(Advanced(v, n), g) /\ Follows(v, Advanced(v, n), g) /\ Advanced(v, n).key = v.key
         /\ Advanced(v, n).entries[n].counter = v.entries[n].counter + 1
         /\ Advanced(v, n).entries[n].secret = v.entries[n].secret
<1> DEFINE w == Advanced(v, n)
           e == [v.entries[n] EXCEPT !.counter = @ + 1]
<1>1. /\ DOMAIN v = {"there", "key", "entries"} /\ DOMAIN v.entries = Entries
      /\ \A m \in Entries : /\ DOMAIN v.entries[m] = {"kind", "suite", "secret", "counter"}
                            /\ v.entries[m].secret \in 0..g /\ v.entries[m].counter \in Nat
                            /\ v.entries[m].kind # "none" => v.entries[m].secret # 0
  BY DEF VaultOk, EntryOk
<1>2. w.there = v.there /\ w.key = v.key /\ DOMAIN w = {"there", "key", "entries"}
      /\ DOMAIN w.entries = Entries /\ \A m \in Entries : w.entries[m] = IF m = n THEN e ELSE v.entries[m]
  BY <1>1 DEF Advanced
<1>3. DOMAIN e = {"kind", "suite", "secret", "counter"} /\ e.secret = v.entries[n].secret
      /\ e.kind = v.entries[n].kind /\ e.counter = v.entries[n].counter + 1
  BY <1>1
<1> HIDE DEF w, e
<1>4. \A m \in Entries : EntryOk(w.entries[m], g)
  BY <1>1, <1>2, <1>3 DEF EntryOk
<1>5. VaultOk(w, g)
  BY <1>2, <1>4 DEF VaultOk
<1>6. Follows(v, w, g)
  BY <1>1, <1>2, <1>3 DEF Follows
<1> QED
  BY <1>2, <1>3, <1>5, <1>6 DEF w

\* An entry with a secret just handed out, or none.
LEMMA Storing ==
  ASSUME NEW g \in Nat, NEW h \in {g, g + 1}, NEW v, VaultOk(v, g), NEW n \in Entries,
         NEW e, EntryOk(e, h), e.secret \in {0, g + 1}
  PROVE  VaultOk(Stored(v, n, e), h) /\ Follows(v, Stored(v, n, e), g) /\ Stored(v, n, e).key = v.key
<1> DEFINE w == Stored(v, n, e)
<1>1. DOMAIN v = {"there", "key", "entries"} /\ DOMAIN v.entries = Entries /\ VaultOk(v, h)
  BY MoreGiven DEF VaultOk
<1>2. w.there = v.there /\ w.key = v.key /\ DOMAIN w = {"there", "key", "entries"}
      /\ DOMAIN w.entries = Entries /\ \A m \in Entries : w.entries[m] = IF m = n THEN e ELSE v.entries[m]
  BY <1>1 DEF Stored
<1> HIDE DEF w
<1>3. VaultOk(w, h)
  BY <1>1, <1>2 DEF VaultOk
<1>4. Follows(v, w, g)
  BY <1>2 DEF Follows, VaultOk, EntryOk
<1> QED
  BY <1>2, <1>3, <1>4 DEF w

\* Codes are told apart by what they answer and for which secret.
LEMMA SameCodes ==
  ASSUME NEW g, NEW a \in Codes(g), NEW b \in Codes(g), SameCode(a, b)
  PROVE  a.secret = b.secret /\ a.counter = b.counter /\ a.ch = b.ch
<1>1. DOMAIN a = {"secret", "counter", "ch", "force"} /\ DOMAIN b = {"secret", "counter", "ch", "force"}
  BY DEF Codes
<1> DEFINE aa == [a EXCEPT !.force = FALSE]
           bb == [b EXCEPT !.force = FALSE]
<1>2. aa.secret = a.secret /\ aa.counter = a.counter /\ aa.ch = a.ch
      /\ bb.secret = b.secret /\ bb.counter = b.counter /\ bb.ch = b.ch
  BY <1>1
<1>3. aa = bb
  BY DEF SameCode
<1> QED
  BY <1>2, <1>3, Zenon

\* What a ledger remembers it remembers when more is shown.
LEMMA LongerRemembers ==
  ASSUME NEW uses \in Seq(Uses), NEW c, NEW k \in Nat, NEW i \in Nat, Remembers(uses, c, k, i)
  PROVE  Remembers(uses, c, k + 1, i)
BY UsesAssumption DEF Remembers

\* One more code is shown: it is fresh when no code before it is the same, or those that
\* are were pushed out of the ledger.
LEMMA OneMoreCode ==
  ASSUME PassInv, NEW g \in Nat, spent \in Seq(Codes(g)), NEW c \in Codes(g),
         spent' = Append(spent, c), ~ raced' => ~ raced,
         ~ raced' /\ ~ c.force => \A i \in 1..Len(spent) :
            SameCode(spent[i], c) => spent[i].ch # NoChallenge /\ Len(spent) - i >= MaxUses
  PROVE  /\ CodesAreFresh' /\ spent' \in Seq(Codes(g))
         /\ Len(spent') = Len(spent) + 1 /\ spent'[Len(spent) + 1] = c
         /\ \A i \in 1..Len(spent) : spent'[i] = spent[i]
<1>1. /\ spent' \in Seq(Codes(g)) /\ Len(spent') = Len(spent) + 1 /\ spent'[Len(spent) + 1] = c
      /\ \A i \in 1..Len(spent) : spent'[i] = spent[i]
      /\ Len(spent) \in Nat
  OBVIOUS
<1>2. SUFFICES ASSUME ~ raced', NEW j \in 1..Len(spent'), ~ spent'[j].force,
                      NEW i \in 1..(j - 1), SameCode(spent'[i], spent'[j])
               PROVE  spent'[i].ch # NoChallenge /\ j - i > MaxUses
  BY <1>1 DEF CodesAreFresh
<1>3. CASE j = Len(spent) + 1
  BY <1>1, <1>2, <1>3, UsesAssumption
<1>4. CASE j # Len(spent) + 1
  <2>1. j \in 1..Len(spent) /\ i \in 1..Len(spent) /\ j \in DOMAIN spent
    BY <1>1, <1>4
  <2>2. spent'[i] = spent[i] /\ spent'[j] = spent[j]
    BY <1>1, <2>1
  <2>3. CodesAreFresh /\ ~ raced
    BY <1>2 DEF PassInv, UsedUpStaysUsedUp
  <2> QED
    BY <1>2, <2>1, <2>2, <2>3 DEF CodesAreFresh
<1> QED
  BY <1>3, <1>4

\* A one-time code: the next counter is in the file before it is shown.
LEMMA OtpKeeps ==
  ASSUME PassInv, NEW r \in Runners, CodeOtp(r)
  PROVE  PassInv'
<1> DEFINE v == job[r].vault
<1>1. PICK n \in Entries :
        /\ At(r, "opened") /\ v.entries[n].kind = "hotp"
        /\ Persist(r, Advanced(v, n))
        /\ spent' = Append(spent, CodeFor(r, n, v.entries[n].counter, NoChallenge, FALSE))
        /\ salts' = salts /\ retired' = retired
  BY Zenon DEF CodeOtp, Opened, Advanced
<1> DEFINE w == Advanced(v, n)
           c == CodeFor(r, n, v.entries[n].counter, NoChallenge, FALSE)
<1>2. salts \in Nat /\ VaultOk(v, salts) /\ spent \in Seq(Codes(salts))
  BY Zenon DEF PassInv, PassTypes, PassJobOk
<1>3. /\ VaultOk(w, salts) /\ Follows(v, w, salts) /\ w.key = v.key
      /\ w.entries[n].counter = v.entries[n].counter + 1
      /\ w.entries[n].secret = v.entries[n].secret
  BY <1>2, Advancing, Zenon
<1>4. v.entries[n].secret \in 1..salts /\ v.entries[n].counter \in Nat
  BY <1>1, <1>2, SMTT(40) DEF VaultOk, EntryOk
<1>5. c \in Codes(salts) /\ c.secret = v.entries[n].secret /\ c.counter = v.entries[n].counter
      /\ c.ch = NoChallenge
  BY <1>4 DEF CodeFor, Opened, Codes
<1>6. vault' = w /\ raced' = (raced \/ vault # v)
  BY <1>1, Zenon DEF Persist
<1> HIDE DEF w, c
<1>7. Writes(v)
  BY <1>1, <1>3, PersistWrites DEF w
<1>8. /\ OneName(vault', job')
      /\ ~ raced' => CountersPast(vault', spent) /\ LedgersRemember(vault', job', ocraLedger', spent)
      /\ \A q \in Runners : PassJobOk(job'[q], salts')
  BY <1>7, WritingKeeps
<1>9. \A i \in 1..Len(spent) : spent[i] \in Codes(salts) /\ spent[i].counter \in Nat
  BY <1>2, CodesHave
<1>10. ASSUME ~ raced', NEW i \in 1..Len(spent), SameCode(spent[i], c) PROVE FALSE
  <2>1. spent[i].secret = c.secret /\ spent[i].counter = c.counter /\ spent[i].ch = c.ch
    BY <1>5, <1>9, <1>10, SameCodes
  <2>2. CountersPast(vault, spent) /\ vault = v
    BY <1>6, <1>10, Zenon DEF PassInv, PassTypes
  <2>3. spent[i].counter < v.entries[n].counter
    BY <1>5, <2>1, <2>2 DEF CountersPast
  <2> QED
    BY <1>4, <1>5, <2>1, <2>3
<1>11. ~ raced' => ~ raced
  BY <1>6 DEF PassInv, PassTypes
<1>12. /\ CodesAreFresh' /\ spent' \in Seq(Codes(salts))
       /\ Len(spent') = Len(spent) + 1 /\ spent'[Len(spent) + 1] = c
       /\ \A i \in 1..Len(spent) : spent'[i] = spent[i]
  BY <1>1, <1>2, <1>5, <1>10, <1>11, OneMoreCode, Zenon DEF c
<1>13. PassTypes'
  BY <1>1, <1>7, <1>8, <1>12, Zenon DEF PassTypes, PassInv, Writes
<1>14. RetiredKeysStayRetired'
  BY <1>1, <1>3, <1>6, Zenon DEF RetiredKeysStayRetired, PassInv, PassTypes, UsedUpStaysUsedUp
<1>15. ASSUME ~ raced' PROVE CountersPast(vault', spent')
  <2> SUFFICES ASSUME NEW i \in 1..Len(spent'), NEW m \in Entries, spent'[i].ch = NoChallenge,
                      vault'.entries[m].secret = spent'[i].secret
               PROVE  spent'[i].counter < vault'.entries[m].counter
    BY DEF CountersPast
  <2>1. CASE i \in 1..Len(spent)
    BY <2>1, <1>8, <1>12, <1>15, Zenon DEF CountersPast
  <2>2. CASE i = Len(spent) + 1
    <3>1. vault'.entries[m].secret = c.secret /\ vault'.entries[n].secret = c.secret
          /\ c.secret \in Nat /\ c.secret # 0
      BY <2>2, <1>3, <1>4, <1>5, <1>6, <1>12
    <3>3. Borne(vault', job', m, c.secret) /\ Borne(vault', job', n, c.secret)
      BY <3>1, Zenon DEF Borne, Bears
    <3>2. m = n
      BY <3>1, <3>3, <1>8 DEF OneName
    <3> QED
      BY <2>2, <3>2, <1>3, <1>4, <1>5, <1>6, <1>12, SMTT(40)
  <2> QED
    BY <2>1, <2>2, <1>2, <1>12
<1>16. ASSUME ~ raced' PROVE LedgersRemember(vault', job', ocraLedger', spent')
  <2> SUFFICES ASSUME NEW i \in 1..Len(spent'), NEW m \in Entries, spent'[i].ch # NoChallenge,
                      Borne(vault', job', m, spent'[i].secret)
               PROVE  Remembers(ocraLedger'[m], spent'[i], Len(spent'), i)
    BY DEF LedgersRemember
  <2>1. i \in 1..Len(spent) /\ spent'[i] = spent[i]
    BY <1>2, <1>5, <1>12
  <2>2. Remembers(ocraLedger'[m], spent[i], Len(spent), i)
    BY <2>1, <1>8, <1>16 DEF LedgersRemember
  <2>3. ocraLedger'[m] \in Seq(Uses)
    BY <1>7 DEF Writes, PassInv, PassTypes
  <2> QED
    BY <2>1, <2>2, <2>3, <1>2, <1>12, LongerRemembers
<1> QED
  BY <1>8, <1>12, <1>13, <1>14, <1>15, <1>16 DEF PassInv, UsedUpStaysUsedUp

\* record_use: the newest use is there, and the others move one place.
LEMMA UseRecorded ==
  ASSUME NEW uses \in Seq(Uses), Len(uses) <= MaxUses, NEW u \in Uses
  PROVE  /\ Newest(Append(uses, u)) \in Seq(Uses) /\ Len(Newest(Append(uses, u))) <= MaxUses
         /\ \A c, k, i : k \in Nat /\ i \in Nat /\ u = <<c.ch, c.counter>> /\ i = k
              => Remembers(Newest(Append(uses, u)), c, k, i)
         /\ \A c, k, i : k \in Nat /\ i \in Nat /\ Remembers(uses, c, k, i)
              => Remembers(Newest(Append(uses, u)), c, k + 1, i)
<1> DEFINE long == Append(uses, u)
           new == Newest(long)
<1>1. long \in Seq(Uses) /\ Len(long) = Len(uses) + 1 /\ long[Len(uses) + 1] = u
      /\ Len(uses) \in Nat /\ MaxUses \in Nat /\ \A p \in 1..Len(uses) : long[p] = uses[p]
  BY UsesAssumption
<1> HIDE DEF long
<1>2. CASE Len(uses) = MaxUses
  <2>1. new = SubSeq(long, 2, Len(long))
    BY <1>1, <1>2 DEF Newest
  <2>2. new \in Seq(Uses) /\ Len(new) = Len(uses) /\ \A p \in 1..Len(uses) : new[p] = long[p + 1]
    BY <2>1, <1>1
  <2> HIDE DEF new
  <2>3. ASSUME NEW c, NEW k \in Nat, u = <<c.ch, c.counter>> PROVE Remembers(new, c, k, k)
    <3>1. CASE MaxUses = 0
      BY <3>1 DEF Remembers
    <3>2. CASE MaxUses # 0
      <4>1. Len(new) \in 1..Len(new) /\ new[Len(new)] = u /\ Len(new) - Len(new) <= k - k
        BY <3>2, <2>2, <1>1, <1>2
      <4> QED
        BY <4>1, <2>3 DEF Remembers
    <3> QED
      BY <3>1, <3>2
  <2>4. ASSUME NEW c, NEW k \in Nat, NEW i \in Nat, Remembers(uses, c, k, i)
        PROVE  Remembers(new, c, k + 1, i)
    <3>1. CASE k - i >= MaxUses
      BY <3>1, <1>1 DEF Remembers
    <3>2. CASE ~ (k - i >= MaxUses)
      <4>1. PICK p \in 1..Len(uses) : uses[p] = <<c.ch, c.counter>> /\ Len(uses) - p <= k - i
        BY <2>4, <3>2 DEF Remembers
      <4>2. CASE p = 1
        BY <4>1, <4>2, <1>1, <1>2 DEF Remembers
      <4>3. CASE p # 1
        <5> DEFINE q == p - 1
        <5>1. q \in 1..Len(new) /\ Len(new) - q <= (k + 1) - i
          BY <4>1, <4>3, <2>2, <1>1
        <5>2. new[q] = uses[p]
          BY <4>3, <2>2, <1>1
        <5>3. new[q] = <<c.ch, c.counter>>
          BY <5>2, <4>1, Zenon
        <5> HIDE DEF q
        <5>4. \E j \in 1..Len(new) : new[j] = <<c.ch, c.counter>> /\ Len(new) - j <= (k + 1) - i
          BY <5>1, <5>3, Zenon
        <5> QED
          BY <5>4, Zenon DEF Remembers
      <4> QED
        BY <4>2, <4>3
    <3> QED
      BY <3>1, <3>2
  <2> QED
    BY <2>2, <2>3, <2>4, <1>1, <1>2 DEF new, long
<1>3. CASE Len(uses) # MaxUses
  <2>0. ~ (Len(long) > MaxUses)
    BY <1>1, <1>3
  <2>1. new = SubSeq(long, 1, Len(long))
    BY <2>0, Zenon DEF Newest
  <2>2. new \in Seq(Uses) /\ Len(new) = Len(uses) + 1 /\ \A p \in 1..Len(uses) + 1 : new[p] = long[p]
    BY <2>1, <1>1
  <2> HIDE DEF new
  <2>3. ASSUME NEW c, NEW k \in Nat, u = <<c.ch, c.counter>> PROVE Remembers(new, c, k, k)
    <3>1. Len(new) \in 1..Len(new) /\ new[Len(new)] = u /\ Len(new) - Len(new) <= k - k
      BY <2>2, <1>1
    <3> QED
      BY <3>1, <2>3 DEF Remembers
  <2>4. ASSUME NEW c, NEW k \in Nat, NEW i \in Nat, Remembers(uses, c, k, i)
        PROVE  Remembers(new, c, k + 1, i)
    <3>1. CASE k - i >= MaxUses
      BY <3>1, <1>1 DEF Remembers
    <3>2. CASE ~ (k - i >= MaxUses)
      <4>1. PICK p \in 1..Len(uses) : uses[p] = <<c.ch, c.counter>> /\ Len(uses) - p <= k - i
        BY <2>4, <3>2 DEF Remembers
      <4>2. p \in 1..Len(new) /\ new[p] = uses[p] /\ Len(new) - p <= (k + 1) - i
        BY <4>1, <2>2, <1>1
      <4> QED
        BY <4>1, <4>2 DEF Remembers
    <3> QED
      BY <3>1, <3>2
  <2> QED
    BY <2>2, <2>3, <2>4, <1>1, <1>3 DEF new, long
<1> QED
  BY <1>2, <1>3

\* The secret of a stored challenge entry is one of those handed out.
LEMMA SecretOfAnEntry ==
  ASSUME NEW g \in Nat, NEW e, EntryOk(e, g), e.kind = "ocra"
  PROVE  e.secret \in 1..g
BY DEF EntryOk

\* A secret handed out is a positive number.
LEMMA SecretIsANumber ==
  ASSUME NEW g \in Nat, NEW s \in 1..g
  PROVE  s \in Nat /\ s # 0
OBVIOUS

\* A use recorded in the ledger before its code is shown.
LEMMA RecordKeeps ==
  ASSUME PassInv, NEW r \in Runners, RecordUse(r)
  PROVE  PassInv'
<1> DEFINE u == job[r].use
           v == job[r].vault
           n == u.name
           use == <<u.ch, u.counter>>
           new == Newest(Append(job[r].uses, use))
           c == CodeFor(r, n, u.counter, u.ch, u.force)
<1>1. /\ job[r].at = "record"
      /\ ocraLedger' = [ocraLedger EXCEPT ![n] = new]
      /\ raced' = (raced \/ ocraLedger[n] # job[r].uses)
      /\ spent' = Append(spent, c)
      /\ job' = [job EXCEPT ![r].at = "code"]
      /\ vault' = vault /\ salts' = salts /\ retired' = retired
  BY Zenon DEF RecordUse, At, Goto
<1>2. salts \in Nat /\ spent \in Seq(Codes(salts)) /\ PassJobOk(job[r], salts) /\ raced \in BOOLEAN
  BY DEF PassInv, PassTypes
<1>3. /\ n \in Entries /\ v.entries[n].kind = "ocra" /\ VaultOk(v, salts) /\ v.there
      /\ u.ch \in Challenges /\ u.counter \in Nat /\ u.force \in BOOLEAN
      /\ job[r].uses \in Seq(Uses) /\ Len(job[r].uses) <= MaxUses
      /\ ~ u.force => ~ Has(job[r].uses, use)
  BY <1>1, <1>2, Zenon DEF PassJobOk
<1>4. v.entries[n].secret \in 1..salts
  <2>1. EntryOk(v.entries[n], salts)
    BY <1>3, Zenon DEF VaultOk
  <2> QED
    BY <2>1, <1>3, <1>2, SecretOfAnEntry, Zenon
<1>5. c \in Codes(salts) /\ c.secret = v.entries[n].secret /\ c.counter = u.counter /\ c.ch = u.ch
      /\ c.force = u.force /\ c.ch # NoChallenge
  BY <1>3, <1>4, UsesAssumption, Zenon DEF CodeFor, Opened, Codes
<1>6. use \in Uses
  BY <1>3, Zenon DEF Uses
<1> HIDE DEF new, c
<1>7. /\ new \in Seq(Uses) /\ Len(new) <= MaxUses
      /\ \A k \in Nat : Remembers(new, c, k, k)
      /\ \A a : \A k, i \in Nat : Remembers(job[r].uses, a, k, i) => Remembers(new, a, k + 1, i)
  BY <1>3, <1>5, <1>6, UseRecorded, Zenon DEF new
<1>8. \A m \in Entries : ocraLedger'[m] = IF m = n THEN new ELSE ocraLedger[m]
  BY <1>1 DEF PassInv, PassTypes
<1>9. /\ DOMAIN job' = Runners
      /\ \A q \in Runners : job'[q].vault = job[q].vault /\ PassJobOk(job'[q], salts)
  <2>1. DOMAIN job = Runners /\ \A q \in Runners : PassJobOk(job[q], salts)
    BY DEF PassInv, PassTypes
  <2>2. DOMAIN job' = Runners /\ \A q \in Runners \ {r} : job'[q] = job[q]
    BY <1>1, <2>1
  <2>3. job'[r] = [job[r] EXCEPT !.at = "code"]
    BY <1>1, <2>1, ZenonT(40)
  <2>4. DOMAIN job[r] = DOMAIN NoJob /\ "at" \in DOMAIN NoJob /\ "vault" \in DOMAIN NoJob /\ "use" \in DOMAIN NoJob
    BY <1>2 DEF PassJobOk, NoJob
  <2>5. DOMAIN job'[r] = DOMAIN NoJob /\ job'[r].at = "code" /\ job'[r].vault = v /\ job'[r].use = u
    BY <2>3, <2>4, Zenon
  <2>6. PassJobOk(job'[r], salts)
    BY <2>5, <1>3 DEF PassJobOk
  <2> QED
    BY <2>1, <2>2, <2>5, <2>6
<1>10. \A m \in Entries : \A s : Borne(vault', job', m, s) => Borne(vault, job, m, s)
  BY <1>1, <1>9 DEF Borne
<1>11. OneName(vault', job')
  BY <1>10 DEF PassInv, OneName
<1>12. \A i \in 1..Len(spent) : spent[i] \in Codes(salts)
  BY <1>2, CodesHave
<1>13. \A s : s = c.secret => Borne(vault, job, n, s) /\ s \in Nat
  <2>1. c.secret \in Nat /\ c.secret # 0 /\ v.entries[n].secret = c.secret
    BY <1>2, <1>4, <1>5, SecretIsANumber, ZenonT(40)
  <2> QED
    BY <2>1, Zenon DEF Borne, Bears
<1>14. ASSUME ~ raced', ~ c.force, NEW i \in 1..Len(spent), SameCode(spent[i], c)
       PROVE  spent[i].ch # NoChallenge /\ Len(spent) - i >= MaxUses
  <2>1. spent[i].secret = c.secret /\ spent[i].counter = c.counter /\ spent[i].ch = c.ch
    BY <1>5, <1>12, <1>14, SameCodes
  <2>2. LedgersRemember(vault, job, ocraLedger, spent) /\ ocraLedger[n] = job[r].uses
    BY <1>1, <1>2, <1>14, Zenon DEF PassInv
  <2>3. Remembers(job[r].uses, spent[i], Len(spent), i)
    BY <2>1, <2>2, <1>3, <1>5, <1>13, Zenon DEF LedgersRemember
  <2>4. ~ Has(job[r].uses, <<spent[i].ch, spent[i].counter>>)
    BY <2>1, <1>3, <1>5, <1>14, Zenon
  <2>5. \A p \in 1..Len(job[r].uses) : job[r].uses[p] # <<spent[i].ch, spent[i].counter>>
    BY <2>4, <1>3 DEF Has
  <2>6. Len(spent) - i >= MaxUses
    BY <2>3, <2>5, Zenon DEF Remembers
  <2> QED
    BY <2>1, <2>6, <1>5, Zenon
<1>15. ~ raced' => ~ raced /\ ocraLedger[n] = job[r].uses
  BY <1>1, <1>2, ZenonT(40)
<1>16. /\ CodesAreFresh' /\ spent' \in Seq(Codes(salts)) /\ Len(spent) \in Nat
       /\ Len(spent') = Len(spent) + 1 /\ spent'[Len(spent) + 1] = c
       /\ \A i \in 1..Len(spent) : spent'[i] = spent[i]
  BY <1>1, <1>2, <1>5, <1>14, <1>15, OneMoreCode
<1>17. PassTypes'
  <2>1. DOMAIN ocraLedger' = Entries
        /\ \A m \in Entries : ocraLedger'[m] \in Seq(Uses) /\ Len(ocraLedger'[m]) <= MaxUses
    BY <1>1, <1>7, <1>8 DEF PassInv, PassTypes
  <2>2. raced' \in BOOLEAN
    BY <1>1, <1>2
  <2> QED
    BY <2>1, <2>2, <1>1, <1>9, <1>16, ZenonT(40) DEF PassInv, PassTypes
<1>18. RetiredKeysStayRetired'
  BY <1>1, <1>15 DEF RetiredKeysStayRetired, PassInv, UsedUpStaysUsedUp
<1>19. ASSUME ~ raced' PROVE CountersPast(vault', spent')
  <2> SUFFICES ASSUME NEW i \in 1..Len(spent'), NEW m \in Entries, spent'[i].ch = NoChallenge,
                      vault'.entries[m].secret = spent'[i].secret
               PROVE  spent'[i].counter < vault'.entries[m].counter
    BY DEF CountersPast
  <2>1. i \in 1..Len(spent) /\ spent'[i] = spent[i]
    BY <1>5, <1>16
  <2> QED
    BY <2>1, <1>1, <1>15, <1>19 DEF PassInv, CountersPast
<1>20. ASSUME ~ raced' PROVE LedgersRemember(vault', job', ocraLedger', spent')
  <2> SUFFICES ASSUME NEW i \in 1..Len(spent'), NEW m \in Entries, spent'[i].ch # NoChallenge,
                      Borne(vault', job', m, spent'[i].secret)
               PROVE  Remembers(ocraLedger'[m], spent'[i], Len(spent'), i)
    BY DEF LedgersRemember
  <2>1. Borne(vault, job, m, spent'[i].secret)
    BY <1>10
  <2>2. CASE i = Len(spent) + 1
    <3>1. m = n
      BY <2>1, <2>2, <1>3, <1>13, <1>16 DEF PassInv, OneName
    <3> QED
      BY <3>1, <2>2, <1>7, <1>8, <1>16, SMTT(40)
  <2>3. CASE i \in 1..Len(spent)
    <3>1. Remembers(ocraLedger[m], spent[i], Len(spent), i)
      BY <2>1, <2>3, <1>15, <1>16, <1>20 DEF PassInv, LedgersRemember
    <3>2. ocraLedger[m] \in Seq(Uses)
      BY Zenon DEF PassInv, PassTypes
    <3>3. CASE m = n
      BY <3>1, <3>3, <2>3, <1>7, <1>8, <1>15, <1>16, <1>20, SMTT(40)
    <3>4. CASE m # n
      BY <3>1, <3>2, <3>4, <2>3, <1>8, <1>16, LongerRemembers
    <3> QED
      BY <3>3, <3>4, ZenonT(40)
  <2> QED
    BY <2>2, <2>3, <1>16
<1> QED
  BY <1>11, <1>16, <1>17, <1>18, <1>19, <1>20 DEF PassInv, UsedUpStaysUsedUp

\* The other commands that write what they have open and show no code.
LEMMA CommandsKeep ==
  ASSUME PassInv, NEW r \in Runners,
         AddPassword(r) \/ AddOtp(r) \/ AddOcra(r) \/ ImportQr(r) \/ RmEntry(r) \/ ChangePassphrase(r)
  PROVE  PassInv'
<1> DEFINE v == job[r].vault
<1>1. salts \in Nat /\ VaultOk(v, salts) /\ raced \in BOOLEAN
  BY Zenon DEF PassInv, PassTypes, PassJobOk
<1>2. ASSUME NEW n \in Entries, NEW kind, NEW suite, StoreEntry(r, n, kind, suite), kind # "none"
      PROVE  PassInv'
  <2> DEFINE e == Entry(kind, suite, salts + 1, 0)
  <2>1. Persist(r, Stored(v, n, e)) /\ salts' = salts + 1 /\ spent' = spent /\ retired' = retired
    BY <1>2, Zenon DEF StoreEntry, Stored
  <2>2. EntryOk(e, salts + 1) /\ e.secret = salts + 1
    BY <1>1 DEF EntryOk, Entry
  <2> HIDE DEF e
  <2>3. VaultOk(Stored(v, n, e), salts + 1) /\ Follows(v, Stored(v, n, e), salts)
        /\ Stored(v, n, e).key = v.key
    BY <1>1, <2>2, Storing, SMTT(40)
  <2>4. Writes(v)
    BY <2>1, <2>3, PersistWrites
  <2>5. vault'.key = v.key
    BY <2>1, <2>3 DEF Persist
  <2>6. ~ raced' => vault'.key \notin retired'
    BY <2>1, <2>4, <2>5, Zenon DEF Writes, PassInv, UsedUpStaysUsedUp, RetiredKeysStayRetired
  <2> QED
    BY <2>1, <2>4, <2>6, FileWritten, Zenon
<1>3. ASSUME RmEntry(r) PROVE PassInv'
  <2>1. PICK n \in Entries : Persist(r, Stored(v, n, NoEntry)) /\ salts' = salts /\ spent' = spent /\ retired' = retired
    BY <1>3, Zenon DEF RmEntry, Stored
  <2>2. EntryOk(NoEntry, salts) /\ NoEntry.secret = 0
    BY <1>1 DEF EntryOk, NoEntry, Entry
  <2>3. VaultOk(Stored(v, n, NoEntry), salts) /\ Follows(v, Stored(v, n, NoEntry), salts)
        /\ Stored(v, n, NoEntry).key = v.key
    BY <1>1, <2>2, Storing, SMTT(40)
  <2>4. Writes(v)
    BY <2>1, <2>3, PersistWrites
  <2>5. vault'.key = v.key
    BY <2>1, <2>3, Zenon DEF Persist
  <2>6. ~ raced' => vault'.key \notin retired'
    BY <2>1, <2>4, <2>5 DEF Writes, PassInv, UsedUpStaysUsedUp, RetiredKeysStayRetired
  <2> QED
    BY <2>1, <2>4, <2>6, FileWritten, Zenon
<1>4. ASSUME ChangePassphrase(r) PROVE PassInv'
  <2>1. PICK p \in MasterPhrases :
          /\ At(r, "opened") /\ Persist(r, Rekeyed(v, MasterKey(p, salts + 1)))
          /\ salts' = salts + 1 /\ spent' = spent /\ retired' = retired \cup {v.key}
    BY <1>4, Zenon DEF ChangePassphrase, Rekeyed
  <2> DEFINE k == MasterKey(p, salts + 1)
  <2>2. VaultOk(Rekeyed(v, k), salts + 1) /\ Follows(v, Rekeyed(v, k), salts) /\ Rekeyed(v, k).key = k
    BY <1>1, Rekeying
  <2>3. Writes(v)
    BY <2>1, <2>2, PersistWrites
  <2>4. v.there
    BY <2>1, Zenon DEF At, PassInv, PassTypes, PassJobOk
  <2>5. vault'.key = k
    BY <2>1, <2>2, ZenonT(40) DEF Persist
  <2>6. \A x \in retired \cup {v.key} : \E q \in MasterPhrases, s \in 1..salts : x = MasterKey(q, s)
    BY <1>1, <2>4 DEF VaultOk, PassInv, PassTypes
  <2>7. \A q \in MasterPhrases, s \in 1..salts : MasterKey(q, s) # k
    BY <1>1 DEF MasterKey
  <2>8. vault'.key \notin retired'
    BY <2>1, <2>5, <2>6, <2>7, Zenon
  <2> QED
    BY <2>1, <2>3, <2>4, <2>8, FileWritten, Zenon
<1>5. ASSUME AddPassword(r) \/ AddOtp(r) \/ AddOcra(r) \/ ImportQr(r) PROVE PassInv'
  <2>1. PICK n \in Entries, kind \in {"password", "totp", "hotp", "ocra"} : \E suite : StoreEntry(r, n, kind, suite)
    BY <1>5, Zenon DEF AddPassword, AddOtp, AddOcra, ImportQr
  <2>2. kind # "none"
    BY Zenon
  <2> QED
    BY <1>2, <2>1, <2>2, Zenon
<1> QED
  BY <1>3, <1>4, <1>5

\* The end of a challenge code: its counter, if it has one, advances.
LEMMA OcraKeeps ==
  ASSUME PassInv, NEW r \in Runners, CodeOcra(r), job[r].use.advance
  PROVE  PassInv'
<1> DEFINE v == job[r].vault
           n == job[r].use.name
<1>1. job[r].at = "code" /\ Persist(r, Advanced(v, n)) /\ salts' = salts /\ spent' = spent /\ retired' = retired
  BY Zenon DEF CodeOcra, At, Advanced
<1>2. salts \in Nat /\ VaultOk(v, salts) /\ n \in Entries
  BY <1>1, Zenon DEF PassInv, PassTypes, PassJobOk
<1>3. VaultOk(Advanced(v, n), salts) /\ Follows(v, Advanced(v, n), salts) /\ Advanced(v, n).key = v.key
  BY <1>2, Advancing, Zenon
<1>4. Writes(v)
  BY <1>1, <1>3, PersistWrites
<1>5. vault'.key = v.key
  BY <1>1, <1>3, ZenonT(40) DEF Persist
<1>6. ~ raced' => vault'.key \notin retired'
  BY <1>1, <1>4, <1>5 DEF Writes, PassInv, UsedUpStaysUsedUp, RetiredKeysStayRetired
<1> QED
  BY <1>1, <1>4, <1>6, FileWritten

\* A vault made anew, or deleted by hand.
LEMMA AnewKeeps ==
  ASSUME PassInv, DeleteVault \/ \E r \in Runners : Create(r)
  PROVE  PassInv'
<1>1. salts \in Nat /\ raced \in BOOLEAN /\ VaultOk(NoVault, salts)
      /\ DOMAIN job = Runners /\ \A q \in Runners : PassJobOk(job[q], salts)
  BY IdleIsOk DEF PassInv, PassTypes
<1>2. \A w : w.entries = NoVault.entries => Follows(vault, w, salts)
  BY <1>1 DEF Follows, NoVault, NoEntry, Entry
<1>3. \A q \in MasterPhrases, s \in 1..salts : \A p : MasterKey(q, s) # <<>> /\ MasterKey(q, s) # MasterKey(p, salts + 1)
  BY <1>1 DEF MasterKey
<1>4. \A x \in retired : \E q \in MasterPhrases, s \in 1..salts : x = MasterKey(q, s)
  BY DEF PassInv, PassTypes
<1>5. CASE DeleteVault
  <2>1. vault' = NoVault /\ UNCHANGED <<ocraLedger, job, salts, spent, retired, raced>>
    BY <1>5 DEF DeleteVault, passHistory
  <2>2. Writes(vault)
    BY <1>1, <1>2, <2>1 DEF Writes
  <2>3. vault'.key = <<>>
    BY <2>1 DEF NoVault
  <2>4. vault'.key \notin retired'
    BY <2>1, <2>3, <1>3, <1>4, Zenon
  <2> QED
    BY <2>1, <2>2, <2>4, FileWritten
<1>6. ASSUME NEW r \in Runners, Create(r) PROVE PassInv'
  <2>1. PICK p \in MasterPhrases :
          /\ vault' = [NoVault EXCEPT !.there = TRUE, !.key = MasterKey(p, salts + 1)]
          /\ salts' = salts + 1 /\ raced' = (raced \/ vault.there)
          /\ job' = [job EXCEPT ![r] = NoJob]
          /\ ocraLedger' = ocraLedger /\ spent' = spent /\ retired' = retired
    BY <1>6, Zenon DEF Create, Finish
  <2>2. vault'.there = TRUE /\ vault'.key = MasterKey(p, salts + 1) /\ vault'.entries = NoVault.entries
        /\ DOMAIN vault' = {"there", "key", "entries"}
    BY <2>1 DEF NoVault
  <2>3. VaultOk(NoVault, salts + 1)
    BY <1>1, IdleIsOk
  <2>4. VaultOk(vault', salts + 1)
    BY <1>1, <2>2, <2>3 DEF VaultOk
  <2>5. \A q \in Runners : job'[q] = IF q = r THEN NoJob ELSE job[q]
    BY <2>1, <1>1
  <2>6. \A q \in Runners : PassJobOk(job'[q], salts) /\ job'[q].vault \in {job[q].vault, NoVault}
    BY <1>1, <2>5, IdleIsOk
  <2>7. Writes(vault)
    BY <1>1, <1>2, <2>1, <2>2, <2>4, <2>6, Zenon DEF Writes
  <2>8. vault'.key \notin retired'
    BY <2>1, <2>2, <1>3, <1>4, Zenon
  <2> QED
    BY <2>1, <2>7, <2>8, FileWritten
<1> QED
  BY <1>5, <1>6

\* The fields of a process.
LEMMA JobFields ==
  DOMAIN NoJob = {"cmd", "at", "file", "key", "vault", "use", "uses", "token", "seen", "doomed", "listed"}
BY DEF NoJob

\* A process r moves on, and nothing of the files of codes changes.
LEMMA ProcessMoves ==
  ASSUME PassInv, vault' = vault, ocraLedger' = ocraLedger, salts' = salts, spent' = spent,
         retired' = retired, raced' = raced, NEW r \in Runners, NEW j,
         job' = [job EXCEPT ![r] = j], DOMAIN j = DOMAIN NoJob,
         \/ j.vault \in {job[r].vault, NoVault} /\ j.at \notin {"opened", "record", "code"}
         \/ j.vault = vault /\ vault.there /\ j.at = "opened"
         \/ j.vault = job[r].vault /\ PassJobOk(j, salts)
  PROVE  PassInv'
<1>1. salts \in Nat /\ VaultOk(vault, salts) /\ VaultOk(NoVault, salts)
      /\ DOMAIN job = Runners /\ \A q \in Runners : PassJobOk(job[q], salts) /\ VaultOk(job[q].vault, salts)
  BY IdleIsOk, Zenon DEF PassInv, PassTypes, PassJobOk
<1>2. PassJobOk(j, salts) /\ j.vault \in {job[r].vault, vault, NoVault}
  BY <1>1, Zenon DEF PassJobOk
<1>3. DOMAIN job' = Runners /\ \A q \in Runners : job'[q] = IF q = r THEN j ELSE job[q]
  BY <1>1
<1>4. \A q \in Runners : PassJobOk(job'[q], salts) /\ job'[q].vault \in {job[q].vault, vault, NoVault}
  BY <1>1, <1>2, <1>3
<1> QED
  BY <1>3, <1>4, NothingShown

\* Steps that begin a command.
LEMMA BeginningsKeep ==
  ASSUME PassInv, NEW r \in Runners,
         InitCheck(r) \/ OpenByPassphrase(r) \/ ReadToken(r) \/ RotateToken(r) \/ Revoke(r)
  PROVE  PassInv'
<1>1. ASSUME NEW j, Begin(r, j), DOMAIN j = DOMAIN NoJob,
             \/ j.vault = NoVault /\ j.at \notin {"opened", "record", "code"}
             \/ j.vault = vault /\ vault.there /\ j.at = "opened"
      PROVE  PassInv'
  <2>1. job' = [job EXCEPT ![r] = j]
        /\ UNCHANGED <<vault, ocraLedger, salts, spent, retired, raced>>
    BY <1>1 DEF Begin, passFiles, passHistory
  <2> QED
    BY <1>1, <2>1, ProcessMoves, ZenonT(40)
<1>2. NoJob.vault = NoVault
  BY Zenon DEF NoJob
<1>3. CASE InitCheck(r)
  <2> DEFINE j == [NoJob EXCEPT !.cmd = "init", !.at = "create"]
  <2>1. DOMAIN j = DOMAIN NoJob /\ j.at = "create" /\ j.vault = NoVault
    BY JobFields, <1>2
  <2>2. Begin(r, j)
    BY <1>3 DEF InitCheck
  <2> HIDE DEF j
  <2> QED
    BY <1>1, <2>1, <2>2
<1>4. CASE OpenByPassphrase(r)
  <2> DEFINE j == [NoJob EXCEPT !.cmd = "passphrase", !.at = "opened", !.vault = vault]
  <2>1. DOMAIN j = DOMAIN NoJob /\ j.at = "opened" /\ j.vault = vault
    BY JobFields
  <2>2. Begin(r, j) /\ vault.there
    BY <1>4 DEF OpenByPassphrase
  <2> HIDE DEF j
  <2> QED
    BY <1>1, <2>1, <2>2
<1>5. CASE ReadToken(r)
  <2>1. PICK f \in TokenFiles :
          Begin(r, [NoJob EXCEPT !.cmd = "token", !.at = "decide", !.file = f, !.key = tokens[f].key])
    BY <1>5, Zenon DEF ReadToken
  <2> DEFINE j == [NoJob EXCEPT !.cmd = "token", !.at = "decide", !.file = f, !.key = tokens[f].key]
  <2>2. DOMAIN j = DOMAIN NoJob /\ j.at = "decide" /\ j.vault = NoVault
    BY JobFields, <1>2
  <2>3. Begin(r, j)
    BY <2>1
  <2> HIDE DEF j
  <2> QED
    BY <1>1, <2>2, <2>3
<1>6. CASE RotateToken(r)
  <2>1. PICK f \in TokenFiles, cmd \in {"rotate", "renew"} :
          Begin(r, [NoJob EXCEPT !.cmd = cmd, !.at = "rewrite", !.file = f, !.token = tokens[f], !.seen = now])
    BY <1>6, Zenon DEF RotateToken
  <2> DEFINE j == [NoJob EXCEPT !.cmd = cmd, !.at = "rewrite", !.file = f, !.token = tokens[f], !.seen = now]
  <2>2. DOMAIN j = DOMAIN NoJob /\ j.at = "rewrite" /\ j.vault = NoVault
    BY JobFields, <1>2
  <2>3. Begin(r, j)
    BY <2>1
  <2> HIDE DEF j
  <2> QED
    BY <1>1, <2>2, <2>3
<1>7. CASE Revoke(r)
  <2>1. PICK cmd \in {"lock", "lock-all", "prune"}, doomed \in SUBSET TokenFiles :
          Begin(r, [NoJob EXCEPT !.cmd = cmd, !.at = "remove", !.doomed = doomed, !.listed = tokens])
    BY <1>7, Zenon DEF Revoke
  <2> DEFINE j == [NoJob EXCEPT !.cmd = cmd, !.at = "remove", !.doomed = doomed, !.listed = tokens]
  <2>2. DOMAIN j = DOMAIN NoJob /\ j.at = "remove" /\ j.vault = NoVault
    BY JobFields, <1>2
  <2>3. Begin(r, j)
    BY <2>1
  <2> HIDE DEF j
  <2> QED
    BY <1>1, <2>2, <2>3
<1> QED
  BY <1>3, <1>4, <1>5, <1>6, <1>7, Zenon

\* Steps on tokens, and the end of a command.
LEMMA TokensKeep ==
  ASSUME PassInv, NEW r \in Runners,
         \/ Decide(r) \/ Reread(r) \/ Rewrite(r) \/ RemoveToken(r) \/ OpenByKey(r)
         \/ Unlock(r) \/ Leave(r) \/ (CodeOcra(r) /\ ~ job[r].use.advance)
  PROVE  PassInv'
<1>1. UNCHANGED <<vault, ocraLedger, salts, spent, retired, raced>>
  BY Zenon DEF Decide, Reread, Rewrite, RemoveToken, OpenByKey, Unlock, Leave, CodeOcra, passFiles, passHistory
<1>2. DOMAIN job = Runners /\ DOMAIN job[r] = DOMAIN NoJob /\ NoJob.vault = NoVault /\ NoJob.at = "done"
  BY Zenon DEF PassInv, PassTypes, PassJobOk, NoJob
<1>3. ASSUME Finish(r) PROVE PassInv'
  BY <1>1, <1>2, <1>3, ProcessMoves, Zenon DEF Finish
<1>4. ASSUME NEW place, Goto(r, place), place \in {"reread", "open"} PROVE PassInv'
  <2> DEFINE j == [job[r] EXCEPT !.at = place]
  <2>1. job' = [job EXCEPT ![r] = j]
    BY <1>2, <1>4 DEF Goto
  <2>2. DOMAIN j = DOMAIN NoJob /\ j.at = place /\ j.vault = job[r].vault
    BY <1>2, JobFields
  <2> HIDE DEF j
  <2> QED
    BY <1>1, <1>4, <2>1, <2>2, ProcessMoves, Zenon
<1>5. CASE Decide(r)
  BY <1>4, <1>5, Zenon DEF Decide
<1>6. CASE Reread(r)
  <2>1. CASE Living(tokens[job[r].file])
    <3> DEFINE t == tokens[job[r].file]
               j == [job[r] EXCEPT !.token = t, !.seen = now, !.at = "rewrite"]
    <3>1. job' = [job EXCEPT ![r].token = t, ![r].seen = now, ![r].at = "rewrite"]
      BY <1>6, <2>1 DEF Reread
    <3>2. job' = [job EXCEPT ![r] = j]
      BY <1>2, <3>1, Zenon
    <3>3. DOMAIN j = DOMAIN NoJob /\ j.at = "rewrite" /\ j.vault = job[r].vault
      BY <1>2, JobFields
    <3> HIDE DEF j
    <3> QED
      BY <1>1, <3>2, <3>3, ProcessMoves, Zenon
  <2>2. CASE ~ Living(tokens[job[r].file])
    BY <1>3, <1>6, <2>2 DEF Reread
  <2> QED
    BY <2>1, <2>2
<1>7. CASE Rewrite(r)
  BY <1>3, <1>4, <1>7, Zenon DEF Rewrite
<1>8. CASE RemoveToken(r)
  <2>1. CASE Finish(r)
    BY <1>3, <2>1
  <2>2. CASE ~ Finish(r)
    <3>1. PICK f : job' = [job EXCEPT ![r].doomed = @ \ {f}] /\ At(r, "remove")
      BY <1>8, <2>2 DEF RemoveToken
    <3> DEFINE j == [job[r] EXCEPT !.doomed = @ \ {f}]
    <3>2. job' = [job EXCEPT ![r] = j]
      BY <1>2, <3>1
    <3>3. DOMAIN j = DOMAIN NoJob /\ j.at = "remove" /\ j.vault = job[r].vault
      BY <1>2, <3>1, JobFields DEF At
    <3> HIDE DEF j
    <3> QED
      BY <1>1, <3>2, <3>3, ProcessMoves, Zenon
  <2> QED
    BY <2>1, <2>2
<1>9. CASE OpenByKey(r)
  <2>1. CASE vault.there /\ job[r].key = vault.key
    <3> DEFINE j == [NoJob EXCEPT !.cmd = "token", !.at = "opened", !.vault = vault]
    <3>1. job' = [job EXCEPT ![r] = j]
      BY <1>9, <2>1 DEF OpenByKey
    <3>2. DOMAIN j = DOMAIN NoJob /\ j.at = "opened" /\ j.vault = vault
      BY JobFields
    <3> HIDE DEF j
    <3> QED
      BY <1>1, <2>1, <3>1, <3>2, ProcessMoves, Zenon
  <2>2. CASE ~ (vault.there /\ job[r].key = vault.key)
    BY <1>3, <1>9, <2>2 DEF OpenByKey
  <2> QED
    BY <2>1, <2>2
<1>10. CASE Unlock(r) \/ Leave(r) \/ (CodeOcra(r) /\ ~ job[r].use.advance)
  BY <1>3, <1>10, Zenon DEF Unlock, Leave, CodeOcra
<1> QED
  BY <1>5, <1>6, <1>7, <1>8, <1>9, <1>10

\* The ledger is read, and what it remembers is refused without --force.
LEMMA LedgerReadKeeps ==
  ASSUME PassInv, NEW r \in Runners, LoadLedger(r)
  PROVE  PassInv'
<1>1. PICK n \in Entries, c \in Challenges, force \in BOOLEAN, given \in BOOLEAN :
        LET suite == ParseSuite(Opened(r, n).suite)
            counter == IF suite.counter /\ ~given THEN Opened(r, n).counter ELSE 0
            applies == suite.challenge /\ ~suite.timed
        IN  /\ At(r, "opened")
            /\ Opened(r, n).kind = "ocra"
            /\ applies => ~Has(ocraLedger[n], <<c, counter>>) \/ force
            /\ job' = [job EXCEPT
                 ![r].use = [name |-> n, ch |-> c, counter |-> counter, force |-> force,
                             advance |-> suite.counter /\ ~given],
                 ![r].uses = ocraLedger[n], ![r].at = IF applies THEN "record" ELSE "code"]
            /\ UNCHANGED <<passFiles, now, salts, passHistory, started>>
  BY Zenon DEF LoadLedger
<1> DEFINE suite == ParseSuite(Opened(r, n).suite)
           counter == IF suite.counter /\ ~given THEN Opened(r, n).counter ELSE 0
           applies == suite.challenge /\ ~suite.timed
           u == [name |-> n, ch |-> c, counter |-> counter, force |-> force,
                 advance |-> suite.counter /\ ~given]
           place == IF applies THEN "record" ELSE "code"
           j == [job[r] EXCEPT !.use = u, !.uses = ocraLedger[n], !.at = place]
<1>2. /\ DOMAIN job = Runners /\ PassJobOk(job[r], salts) /\ VaultOk(job[r].vault, salts)
      /\ job[r].vault.there /\ DOMAIN job[r] = DOMAIN NoJob
      /\ ocraLedger[n] \in Seq(Uses) /\ Len(ocraLedger[n]) <= MaxUses
  BY <1>1, Zenon DEF PassInv, PassTypes, PassJobOk, At
<1>3. Opened(r, n).counter \in Nat /\ job[r].vault.entries[n].kind = "ocra"
  BY <1>1, <1>2, Zenon DEF Opened, VaultOk, EntryOk
<1>4. /\ u.name = n /\ u.ch = c /\ u.force = force /\ u.counter = counter
      /\ counter \in Nat
      /\ place \in {"record", "code"}
      /\ place = "record" /\ ~ force => ~Has(ocraLedger[n], <<c, counter>>)
  BY <1>1, <1>3
<1>5. UNCHANGED <<vault, ocraLedger, salts, spent, retired, raced>>
  BY <1>1 DEF passFiles, passHistory
<1>6. job' = [job EXCEPT ![r].use = u, ![r].uses = ocraLedger[n], ![r].at = place]
  BY <1>1
<1> HIDE DEF u, place, counter
<1>7. job' = [job EXCEPT ![r] = j]
  BY <1>2, <1>6, Zenon
<1>8. DOMAIN j = DOMAIN NoJob /\ j.at = place /\ j.vault = job[r].vault /\ j.use = u /\ j.uses = ocraLedger[n]
  BY <1>2, JobFields
<1> HIDE DEF j
<1>9. PassJobOk(j, salts)
  BY <1>2, <1>3, <1>4, <1>8, Zenon DEF PassJobOk
<1> QED
  BY <1>5, <1>7, <1>8, <1>9, ProcessMoves, Zenon

\* For any processes, entries, suites, passphrases and number of commands, and whatever
\* is killed between two steps: while no command has overwritten what it had not read, no
\* one-time code is shown twice (cmd_code_otp saves the counter first, record_use refuses
\* a challenge it remembers), and no master key that change-passphrase replaced encrypts
\* the vault again.
THEOREM NothingComesBack == PassSpec => []UsedUpStaysUsedUp
<1>1. ASSUME PassInit PROVE PassInv
  <2> DEFINE p == CHOOSE p \in MasterPhrases : TRUE
  <2>1. p \in MasterPhrases
    BY PhrasesAssumption
  <2> HIDE DEF p
  <2>2. /\ vault = [NoVault EXCEPT !.there = TRUE, !.key = MasterKey(p, 1)]
        /\ ocraLedger = [n \in Entries |-> <<>>]
        /\ job = [r \in Runners |-> NoJob]
        /\ salts = 1 /\ spent = <<>> /\ retired = {} /\ raced = FALSE
    BY <1>1 DEF PassInit, p
  <2>3. vault.key = MasterKey(p, 1) /\ vault.entries = NoVault.entries
        /\ DOMAIN vault = {"there", "key", "entries"}
    BY <2>2 DEF NoVault
  <2>4. VaultOk(NoVault, 1) /\ PassJobOk(NoJob, 1) /\ NoJob.vault = NoVault
    BY IdleIsOk, Zenon
  <2>5. VaultOk(vault, 1)
    BY <2>1, <2>3, <2>4 DEF VaultOk
  <2>6. PassTypes
    <3>1. salts \in Nat /\ VaultOk(vault, salts) /\ raced \in BOOLEAN
      BY <2>2, <2>5, Zenon
    <3>2. DOMAIN job = Runners /\ \A r \in Runners : PassJobOk(job[r], salts)
      BY <2>2, <2>4
    <3>3. DOMAIN ocraLedger = Entries
          /\ \A n \in Entries : ocraLedger[n] \in Seq(Uses) /\ Len(ocraLedger[n]) <= MaxUses
      BY <2>2, UsesAssumption
    <3>4. spent \in Seq(Codes(salts)) /\ retired = {}
      BY <2>2
    <3> QED
      BY <3>1, <3>2, <3>3, <3>4 DEF PassTypes
  <2>7. \A n \in Entries : \A s : ~ Borne(vault, job, n, s)
    BY <2>2, <2>3, <2>4 DEF Borne, Bears, NoVault, NoEntry, Entry
  <2>8. OneName(vault, job)
    BY <2>7 DEF OneName
  <2>9. CountersPast(vault, spent) /\ LedgersRemember(vault, job, ocraLedger, spent)
    BY <2>2 DEF CountersPast, LedgersRemember
  <2>10. UsedUpStaysUsedUp
    BY <2>2 DEF UsedUpStaysUsedUp, CodesAreFresh, RetiredKeysStayRetired
  <2> QED
    BY <2>6, <2>8, <2>9, <2>10 DEF PassInv
<1>2. ASSUME PassInv, [PassNext]_passVars PROVE PassInv'
  <2>1. CASE UNCHANGED passVars
    <3>1. UNCHANGED <<vault, ocraLedger, salts, spent, retired, raced, job>>
      BY <2>1, Zenon DEF passVars, passFiles, passHistory
    <3> QED
      BY <1>2, <3>1, NothingShown DEF PassInv, PassTypes
  <2>2. CASE PassTick
    <3>1. UNCHANGED <<vault, ocraLedger, salts, spent, retired, raced, job>>
      BY <2>2 DEF PassTick, passFiles, passHistory
    <3> QED
      BY <1>2, <3>1, NothingShown DEF PassInv, PassTypes
  <2>3. CASE DeleteVault
    BY <1>2, <2>3, AnewKeeps
  <2>4. ASSUME NEW r \in Runners,
               \/ InitCheck(r) \/ OpenByPassphrase(r) \/ ReadToken(r) \/ RotateToken(r) \/ Revoke(r)
        PROVE  PassInv'
    BY <1>2, <2>4, BeginningsKeep
  <2>5. ASSUME NEW r \in Runners,
               \/ Decide(r) \/ Reread(r) \/ Rewrite(r) \/ RemoveToken(r) \/ OpenByKey(r)
               \/ Unlock(r) \/ Leave(r) \/ CodeOcra(r)
        PROVE  PassInv'
    BY <1>2, <2>5, TokensKeep, OcraKeeps
  <2>6. ASSUME NEW r \in Runners,
               \/ AddPassword(r) \/ AddOtp(r) \/ AddOcra(r) \/ ImportQr(r) \/ RmEntry(r) \/ ChangePassphrase(r)
               \/ Create(r) \/ CodeOtp(r) \/ LoadLedger(r) \/ RecordUse(r)
        PROVE  PassInv'
    BY <1>2, <2>6, CommandsKeep, AnewKeeps, OtpKeeps, LedgerReadKeeps, RecordKeeps
  <2> QED
    BY <1>2, <2>1, <2>2, <2>3, <2>4, <2>5, <2>6, Zenon DEF PassNext
<1>3. PassInv => UsedUpStaysUsedUp
  BY DEF PassInv
<1> QED
  BY <1>1, <1>2, <1>3, PTL DEF PassSpec

=============================================================================
