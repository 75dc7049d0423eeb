------------------------------ MODULE Channel ------------------------------
(***************************************************************************)
(* Two RatchetedSessions of origin-channel, one at each end of a           *)
(* SecurePipe of origin-network.  Each end keeps its ratchet keys, its     *)
(* send nonce and sequence counters, its replay window and its AEAD usage; *)
(* encrypt, decrypt and rotate are the operations.  The carrier is either  *)
(* a stream (TCP, QUIC: frames arrive in order) or UDP datagrams, which    *)
(* may be lost, duplicated and reordered.                                  *)
(*                                                                         *)
(* Keys are symbolic: a chain key is the epoch whose root it was derived   *)
(* from, its lane (the two chains every derivation yields) and how often   *)
(* it was advanced.  A ciphertext opens only under the message key it was  *)
(* sealed with, and the nonce travels with it.                             *)
(***************************************************************************)
EXTENDS WindowOps, Sequences, FiniteSets

CONSTANTS
  Initiator, Responder,  \* the two ends
  Datagrams,             \* TRUE: UdpFrameConn, FALSE: an ordered stream
  Apart,                 \* TRUE: each end rotates on its own
  MaxMessages, MaxBytes, \* AeadLimits
  Lengths,               \* plaintext lengths
  MaxEpoch, MaxFlight, MaxDup  \* bounds: rotations, frames in flight, duplicates

Peers == {Initiator, Responder}

ASSUME ChannelAssumption ==
  /\ Initiator # Responder
  /\ Datagrams \in BOOLEAN /\ Apart \in BOOLEAN
  /\ MaxMessages \in Nat /\ MaxBytes \in Nat
  /\ Lengths \subseteq Nat
  /\ MaxEpoch \in Nat /\ MaxFlight \in Nat /\ MaxDup \in Nat

VARIABLES
  root, sendChain, recvChain,  \* RatchetKeys of each end
  nonce,    \* NonceTracker: the next send nonce
  sendSeq,  \* send_seq
  replay,   \* the receive window, as WindowOps describes it
  sendUse, recvUse,            \* AeadUsageTracker, by direction
  wire,     \* frames in flight towards each end
  dups,     \* how many frames the carrier has duplicated
  sealed,   \* history: what each end encrypted, in order
  opened    \* history: what each end decrypted successfully, in order

keys == <<root, sendChain, recvChain>>

usage == <<sendUse, recvUse>>

vars == <<keys, nonce, sendSeq, replay, usage, wire, dups, sealed, opened>>

Other(p) == IF p = Initiator THEN Responder ELSE Initiator

Chain(epoch, lane) == [epoch |-> epoch, lane |-> lane, step |-> 0]

\* init_ratchet crosses the two chains: the initiator sends on the first one
SendLane(p) == IF p = Initiator THEN 1 ELSE 2

\* derive_message_key: the chain key names the message key, and moves on
NextChain(c) == [epoch |-> c.epoch, lane |-> c.lane, step |-> c.step + 1]

\* Mutant: the fresh secret is not mixed in.
NewRootUnmixed(p) == root[p]

\* dh_ratchet mixes a fresh DH secret into the root: a new epoch
NewRoot(p) == root[p] + 1

\* dh_ratchet yields both chains in one order; the responder's caller exchanges them
Rotated(p) == <<Chain(NewRoot(p), SendLane(p)), Chain(NewRoot(p), SendLane(Other(p)))>>

Unused == [messages |-> 0, bytes |-> 0]

\* check_and_record: the budget must cover the message that is about to be handled
WithinBudget(u, len) == u.messages + 1 <= MaxMessages /\ u.bytes + len <= MaxBytes

Charged(u, len) == [messages |-> u.messages + 1, bytes |-> u.bytes + len]

Exhausted(u) == u.messages >= MaxMessages \/ u.bytes >= MaxBytes

NeedsRotation(p) == Exhausted(sendUse[p]) \/ Exhausted(recvUse[p])

Init ==
  /\ root = [p \in Peers |-> 0]
  /\ sendChain = [p \in Peers |-> Chain(0, SendLane(p))]
  /\ recvChain = [p \in Peers |-> Chain(0, SendLane(Other(p)))]
  /\ nonce = [p \in Peers |-> 0]
  /\ sendSeq = [p \in Peers |-> 0]
  /\ replay = [p \in Peers |-> EmptyWindow]
  /\ sendUse = [p \in Peers |-> Unused] /\ recvUse = [p \in Peers |-> Unused]
  /\ wire = [p \in Peers |-> <<>>]
  /\ dups = 0
  /\ sealed = [p \in Peers |-> <<>>]
  /\ opened = [p \in Peers |-> <<>>]

\* SecurePipe::send: encrypt, frame and hand the frame to the carrier
Encrypt(p, len) ==
  /\ Len(wire[Other(p)]) < MaxFlight
  /\ WithinBudget(sendUse[p], len)
  /\ sendUse' = [sendUse EXCEPT ![p] = Charged(@, len)]
  /\ sendChain' = [sendChain EXCEPT ![p] = NextChain(@)]
  /\ nonce' = [nonce EXCEPT ![p] = @ + 1]
  /\ sendSeq' = [sendSeq EXCEPT ![p] = @ + 1]
  /\ LET msg == [key |-> sendChain[p], nonce |-> nonce[p], seq |-> sendSeq[p], len |-> len]
     IN  /\ wire' = [wire EXCEPT ![Other(p)] = Append(@, msg)]
         /\ sealed' = [sealed EXCEPT ![p] = Append(@, msg)]
  /\ UNCHANGED <<root, recvChain, recvUse, replay, dups, opened>>

\* the frame at position i leaves the carrier: only the first one on a stream
Arrives(p, i) == i \in DOMAIN wire[p] /\ (i = 1 \/ Datagrams)

Without(s, i) == [k \in 1..Len(s) - 1 |-> IF k < i THEN s[k] ELSE s[k + 1]]

\* decrypt: the window has seen the sequence number
DecryptReplay(p, i) ==
  /\ Arrives(p, i)
  /\ ~Accepts(replay[p], wire[p][i].seq)
  /\ wire' = [wire EXCEPT ![p] = Without(@, i)]
  /\ UNCHANGED <<keys, nonce, sendSeq, replay, usage, dups, sealed, opened>>

\* decrypt: the window has marked the number, then the budget refuses the frame
DecryptOverBudget(p, i) ==
  /\ Arrives(p, i)
  /\ Accepts(replay[p], wire[p][i].seq)
  /\ ~WithinBudget(recvUse[p], wire[p][i].len)
  /\ replay' = [replay EXCEPT ![p] = Marked(@, wire[p][i].seq)]
  /\ wire' = [wire EXCEPT ![p] = Without(@, i)]
  /\ UNCHANGED <<keys, nonce, sendSeq, usage, dups, sealed, opened>>

\* Mutant: any step of the chain opens a message.
OpensAnyStep(p, msg) ==
  msg.key.epoch = recvChain[p].epoch /\ msg.key.lane = recvChain[p].lane

\* AEAD: the receive chain stands exactly where the sender's stood
Opens(p, msg) == msg.key = recvChain[p]

\* decrypt: number marked, budget charged and chain advanced before the AEAD decides
Decrypt(p, i) ==
  /\ Arrives(p, i)
  /\ LET msg == wire[p][i]
     IN  /\ Accepts(replay[p], msg.seq)
         /\ WithinBudget(recvUse[p], msg.len)
         /\ replay' = [replay EXCEPT ![p] = Marked(@, msg.seq)]
         /\ recvUse' = [recvUse EXCEPT ![p] = Charged(@, msg.len)]
         /\ recvChain' = [recvChain EXCEPT ![p] = NextChain(@)]
         /\ opened' = IF Opens(p, msg) THEN [opened EXCEPT ![p] = Append(@, msg)] ELSE opened
  /\ wire' = [wire EXCEPT ![p] = Without(@, i)]
  /\ UNCHANGED <<root, sendChain, sendUse, nonce, sendSeq, dups, sealed>>

\* rotate: new keys, and every per-epoch counter and the window start over
RotateEnds(ends) ==
  /\ root' = [p \in Peers |-> IF p \in ends THEN NewRoot(p) ELSE root[p]]
  /\ sendChain' = [p \in Peers |-> IF p \in ends THEN Rotated(p)[1] ELSE sendChain[p]]
  /\ recvChain' = [p \in Peers |-> IF p \in ends THEN Rotated(p)[2] ELSE recvChain[p]]
  /\ sendUse' = [p \in Peers |-> IF p \in ends THEN Unused ELSE sendUse[p]]
  /\ recvUse' = [p \in Peers |-> IF p \in ends THEN Unused ELSE recvUse[p]]
  /\ nonce' = [p \in Peers |-> IF p \in ends THEN 0 ELSE nonce[p]]
  /\ sendSeq' = [p \in Peers |-> IF p \in ends THEN 0 ELSE sendSeq[p]]
  /\ replay' = [p \in Peers |-> IF p \in ends THEN EmptyWindow ELSE replay[p]]
  /\ UNCHANGED <<wire, dups, sealed, opened>>

\* both ends rotate while the pipe is idle, the way the rotation test drives it
RotateTogether ==
  /\ ~Apart
  /\ \E p \in Peers : NeedsRotation(p)
  /\ \A p \in Peers : wire[p] = <<>> /\ root[p] < MaxEpoch
  /\ RotateEnds(Peers)

\* each end rotates when its own budget asks for it, or to follow the other end
RotateApart(p) ==
  /\ Apart
  /\ NeedsRotation(p) \/ root[p] < root[Other(p)]
  /\ root[p] < MaxEpoch
  /\ RotateEnds({p})

Lose(p, i) ==
  /\ Datagrams
  /\ i \in DOMAIN wire[p]
  /\ wire' = [wire EXCEPT ![p] = Without(@, i)]
  /\ UNCHANGED <<keys, nonce, sendSeq, replay, usage, dups, sealed, opened>>

Duplicate(p, i) ==
  /\ Datagrams
  /\ dups < MaxDup
  /\ i \in DOMAIN wire[p]
  /\ wire' = [wire EXCEPT ![p] = Append(@, @[i])]
  /\ dups' = dups + 1
  /\ UNCHANGED <<keys, nonce, sendSeq, replay, usage, sealed, opened>>

Receive(p) ==
  \E i \in DOMAIN wire[p] : DecryptReplay(p, i) \/ DecryptOverBudget(p, i) \/ Decrypt(p, i)

Next ==
  \/ \E p \in Peers :
       \/ \E len \in Lengths : Encrypt(p, len)
       \/ Receive(p)
       \/ RotateApart(p)
       \/ \E i \in DOMAIN wire[p] : Lose(p, i) \/ Duplicate(p, i)
  \/ RotateTogether

Spec == Init /\ [][Next]_vars

\* the receiving task of each end keeps calling recv
FairSpec == Spec /\ \A p \in Peers : WF_vars(Receive(p))

-----------------------------------------------------------------------------

Chains == [epoch : 0..MaxEpoch, lane : {1, 2}, step : Nat]

Messages == [key : Chains, nonce : Nat, seq : Nat, len : Lengths]

Usage == [messages : 0..MaxMessages, bytes : 0..MaxBytes]

TypeOK ==
  /\ root \in [Peers -> 0..MaxEpoch]
  /\ sendChain \in [Peers -> Chains] /\ recvChain \in [Peers -> Chains]
  /\ nonce \in [Peers -> Nat] /\ sendSeq \in [Peers -> Nat]
  /\ replay \in [Peers -> [highest : Nat, recent : SUBSET Nat, initialized : BOOLEAN]]
  /\ sendUse \in [Peers -> Usage] /\ recvUse \in [Peers -> Usage]
  /\ wire \in [Peers -> Seq(Messages)]
  /\ dups \in 0..MaxDup
  /\ sealed \in [Peers -> Seq(Messages)]
  /\ opened \in [Peers -> Seq(Messages)]

\* No two messages are ever sealed under the same message key, by the same
\* end or by the two ends, within an epoch or across rotations.  The nonce
\* restarts at zero with every rotation, so this is what keeps a
\* (key, nonce) pair from being used twice.
MessageKeysUsedOnce ==
  \A p, q \in Peers : \A i \in DOMAIN sealed[p], j \in DOMAIN sealed[q] :
    sealed[p][i].key = sealed[q][j].key => p = q /\ i = j

Before(c, d) ==
  \/ c.epoch < d.epoch
  \/ c.epoch = d.epoch /\ c.step < d.step

\* What an end decrypts is what the other end sent, in the order it was
\* sent and at most once each, whatever the carrier loses, repeats or
\* reorders and whenever the ends rotate.
OpenedInOrderOnce ==
  \A p \in Peers :
    /\ \A i \in DOMAIN opened[p] :
         \E j \in DOMAIN sealed[Other(p)] : opened[p][i] = sealed[Other(p)][j]
    /\ \A i, j \in DOMAIN opened[p] : i < j => Before(opened[p][i].key, opened[p][j].key)

\* AeadLimits bounds the messages sealed under the chains of one epoch, counted
\* over the messages themselves and not over the tracker's counter.
BudgetBoundsEpoch ==
  \A p \in Peers, e \in 0..MaxEpoch :
    Cardinality({i \in DOMAIN sealed[p] : sealed[p][i].key.epoch = e}) <= MaxMessages

\* On an ordered carrier whose ends rotate together every message that was
\* sent is eventually decrypted: however often they send, the receivers catch up.
SentIsOpened ==
  \A p \in Peers : []<>(Len(opened[Other(p)]) = Len(sealed[p]))

\* replay.rs calls the window a "bounded reordering window": a message of
\* the current epoch that the window and the budget admit is decrypted.
AdmittedMessagesOpen ==
  [][\A p \in Peers :
       ( /\ replay'[p] # replay[p]
         /\ recvUse'[p] # recvUse[p]
         /\ root'[p] = root[p]
         /\ \A i \in DOMAIN wire[p] : wire[p][i].key.epoch = root[p] )
       => opened'[p] # opened[p]]_vars

=============================================================================
