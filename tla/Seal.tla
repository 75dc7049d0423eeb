-------------------------------- MODULE Seal --------------------------------
(***************************************************************************)
(* origin-seal's encrypt and decrypt, whole and streamed, the library's    *)
(* decrypt beside them, and origin-common's ORGN envelope.  A key is the   *)
(* term it is derived from, a ciphertext opens only under its own key,     *)
(* nonce and associated data; a plaintext is a sequence of chunks.         *)
(***************************************************************************)
EXTENDS Naturals, Sequences, SequencesExt

CONSTANTS SealFiles,      \* output names
          Plaintexts,     \* sequences of chunks
          SealPasses,     \* passphrases
          Tiers,
          Signers_,       \* signing keys: a seed and the domain it is derived under
          MaxSeals,       \* bound: encryptions
          MaxDamage       \* bound: torn or mangled copies

VARIABLES envelopes,         \* file -> envelope on disk
          sealer,         \* the streamed encryption under way
          origins,        \* file -> what was asked to be sealed into it
          orgn,           \* an ORGN envelope
          sigfile,        \* name -> signature file
          signings,       \* <<signer, message>> that were signed
          seals, damage

sealVars == <<envelopes, sealer, origins, orgn, sigfile, signings, seals, damage>>
signVars == <<sigfile, signings>>

Identity == "identity"
Creds == SealPasses \union {Identity}

\* derive_key and key_from_identity.
Argon2(pass, salt, tier) == [kdf |-> "argon2id", from |-> pass, salt |-> salt, tier |-> tier]
KeyFromIdentity == [kdf |-> "hkdf", from |-> Identity, salt |-> 0, tier |-> 0]
HexOfIdentityKey == "hex of the identity's key"

KeyFor(cred, salt, tier) == IF cred = Identity THEN KeyFromIdentity ELSE Argon2(cred, salt, tier)
\* What a streamed encryption derives its key from.
StreamPass(cred) == IF cred = Identity THEN HexOfIdentityKey ELSE cred

\* An AEAD ciphertext: the chunk, and all it takes to open it.
Text(plain, z) == [plain |-> plain, z |-> z]
Garbled == Text(<<>>, FALSE)
Cipher(key, nonce, text, aad) == [key |-> key, nonce |-> nonce, text |-> text, aad |-> aad]
EnvelopeOpens(c, key, nonce, aad) == c.key = key /\ c.nonce = nonce /\ c.aad = aad
BaseNonce(base, counter) == <<base, 0>>
ChunkNonce(base, counter) == <<base, counter>>

\* A framed chunk of a stream, and the bare ciphertext of a whole envelope.
Frame(c) == [kind |-> "chunk", cipher |-> c]
Bare(c) == [kind |-> "whole", cipher |-> c]
NoCipher == Cipher(KeyFromIdentity, <<0, 0>>, Garbled, 0)
Sentinel == [kind |-> "end", cipher |-> NoCipher]
CutFrame == [kind |-> "cut", cipher |-> NoCipher]

NoFile_ == [on |-> FALSE, streamed |-> FALSE, compressed |-> FALSE, tier |-> 0, salt |-> 0,
            nonce |-> 0, body |-> <<>>]
NoOrigin == [whole |-> FALSE, harm |-> "none", cred |-> "", tier |-> 0, plain |-> <<>>,
             streamed |-> FALSE, compressed |-> FALSE]
NoSealer == [on |-> FALSE, file |-> "", key |-> KeyFromIdentity, left |-> <<>>, counter |-> 0]

Fresh_ == seals + 1     \* the random salt and nonce of this encryption

-----------------------------------------------------------------------------
\* cmd_encrypt without --stream.
SealedAs(cred, tier, plain, compress) ==
    [on |-> TRUE, streamed |-> FALSE, compressed |-> compress, tier |-> tier,
     salt |-> Fresh_, nonce |-> Fresh_,
     body |-> <<Bare(Cipher(KeyFor(cred, Fresh_, tier), <<Fresh_, 0>>, Text(plain, compress), 0))>>]
SealEnvelope(f, cred, tier, plain, compress) ==
    /\ seals < MaxSeals /\ seals' = seals + 1
    /\ ~sealer.on
    /\ envelopes' = [envelopes EXCEPT ![f] = SealedAs(cred, tier, plain, compress)]
    /\ origins' = [origins EXCEPT ![f] =
           [whole |-> TRUE, harm |-> "none", cred |-> cred, tier |-> tier, plain |-> plain,
            streamed |-> FALSE, compressed |-> compress]]
    /\ UNCHANGED <<sealer, orgn, signVars, damage>>

\* cmd_encrypt_stream: the output is created and its header written ...
EncryptStream(f, cred, tier, plain) ==
    /\ seals < MaxSeals /\ seals' = seals + 1
    /\ ~sealer.on
    /\ envelopes' = [envelopes EXCEPT ![f] =
           [on |-> TRUE, streamed |-> TRUE, compressed |-> FALSE, tier |-> tier,
            salt |-> Fresh_, nonce |-> Fresh_, body |-> <<>>]]
    /\ sealer' = [on |-> TRUE, file |-> f, left |-> plain, counter |-> 0,
                  key |-> Argon2(StreamPass(cred), Fresh_, tier)]
    /\ origins' = [origins EXCEPT ![f] =
           [whole |-> FALSE, harm |-> "none", cred |-> cred, tier |-> tier, plain |-> plain,
            streamed |-> TRUE, compressed |-> FALSE]]
    /\ UNCHANGED <<orgn, signVars, damage>>
\* ... then a frame per chunk ...
StreamChunk ==
    /\ sealer.on /\ sealer.left # <<>>
    /\ LET c == Cipher(sealer.key, ChunkNonce(envelopes[sealer.file].nonce, sealer.counter),
                       Text(<<Head(sealer.left)>>, FALSE), 0) IN
         envelopes' = [envelopes EXCEPT ![sealer.file].body = Append(@, Frame(c))]
    /\ sealer' = [sealer EXCEPT !.left = Tail(@), !.counter = @ + 1]
    /\ UNCHANGED <<origins, orgn, signVars, seals, damage>>
\* ... and the sentinel.
StreamEnd ==
    /\ sealer.on /\ sealer.left = <<>>
    /\ envelopes' = [envelopes EXCEPT ![sealer.file].body = Append(@, Sentinel)]
    /\ origins' = [origins EXCEPT ![sealer.file].whole = TRUE]
    /\ sealer' = NoSealer
    /\ UNCHANGED <<orgn, signVars, seals, damage>>
\* The process dies in between, leaving what it wrote.
SealerDies ==
    /\ sealer.on
    /\ sealer' = NoSealer
    /\ UNCHANGED <<envelopes, origins, orgn, signVars, seals, damage>>

\* A copy of an envelope that lost its tail ...
Truncated(f) ==
    LET body == envelopes[f].body IN
    {SubSeq(body, 1, k) : k \in 0..Len(body)}
    \union {SubSeq(body, 1, k - 1) \o <<CutFrame>> : k \in 1..Len(body)}
\* ... whose frames were lost, repeated or taken from another envelope ...
Mangled(f) ==
    LET body == envelopes[f].body IN
    {SubSeq(body, 1, k) \o SubSeq(body, j, Len(body)) : <<k, j>> \in (0..Len(body)) \X (1..Len(body))}
    \union {ReplaceAt(body, k, envelopes[g].body[j]) : <<k, g, j>> \in
              {<<k, g, j>> \in (1..Len(body)) \X SealFiles \X (1..4) : j <= Len(envelopes[g].body)}}
\* ... or whose header changed: no associated data ties a SEAL envelope to it.
Relabelled(f) ==
    LET env == envelopes[f] IN
    {[env EXCEPT !.streamed = ~@], [env EXCEPT !.compressed = ~@]}
    \union {[env EXCEPT !.tier = t] : t \in Tiers}
Damage(f) ==
    /\ damage < MaxDamage /\ damage' = damage + 1
    /\ envelopes[f].on /\ ~sealer.on
    /\ \/ \E body \in Truncated(f) \union Mangled(f) :
             /\ body # envelopes[f].body
             /\ envelopes' = [envelopes EXCEPT ![f].body = body]
             /\ origins' = [origins EXCEPT ![f].harm = IF body \in Truncated(f) THEN "cut"
                                                       ELSE "frames"]
       \/ \E env \in Relabelled(f) \ {envelopes[f]} :
             /\ envelopes' = [envelopes EXCEPT ![f] = env]
             /\ origins' = [origins EXCEPT ![f].harm = "header"]
    /\ UNCHANGED <<sealer, orgn, signVars, seals>>

-----------------------------------------------------------------------------
\* What decrypt returns, and what it wrote to its output on the way.
Refused(out) == [ok |-> FALSE, out |-> out]
Done(out) == [ok |-> TRUE, out |-> out]

\* Decompression as the header's flag says: plain bytes do not decompress, and
\* compressed ones left alone are not the plaintext.
Inflate(flag, text) ==
    CASE flag = text.z -> Done(text.plain)
      [] flag /\ ~text.z -> Refused(<<>>)
      [] ~flag /\ text.z -> Done(<<"compressed bytes">>)

\* The header's checks: a body needs at least a tag's 16 bytes, which a streamed
\* envelope with nothing but its 4-byte sentinel does not have, and is not both
\* compressed and streamed.
TooShort(env) == env.body \in {<<>>, <<Sentinel>>}
Malformed(env) == ~env.on \/ TooShort(env) \/ (env.compressed /\ env.streamed)

\* cmd_decrypt_stream, from the given frame on.
RECURSIVE DecryptStream(_, _, _, _)
DecryptStream(env, key, counter, out) ==
    IF counter >= Len(env.body) THEN Refused(out)
    ELSE LET frame == env.body[counter + 1] IN
         IF frame.kind = "end" THEN Done(out)
         ELSE IF frame.kind # "chunk" \/ ~EnvelopeOpens(frame.cipher, key, ChunkNonce(env.nonce, counter), 0)
         THEN Refused(out)
         ELSE DecryptStream(env, key, counter + 1, out \o frame.cipher.text.plain)
OpenWhole(env, key) ==
    LET c == env.body[1].cipher IN
    IF Len(env.body) # 1 \/ env.body[1].kind # "whole" \/ ~EnvelopeOpens(c, key, <<env.nonce, 0>>, 0)
    THEN Refused(<<>>)
    ELSE Inflate(env.compressed, c.text)
\* cmd_decrypt.
OpenEnvelope(env, cred, tier) ==
    IF Malformed(env) \/ env.tier # tier THEN Refused(<<>>)
    ELSE LET key == KeyFor(cred, env.salt, env.tier) IN
         IF env.streamed THEN DecryptStream(env, key, 0, <<>>) ELSE OpenWhole(env, key)
\* api::decrypt: the tier is the envelope's own, streams are refused.
ApiDecrypt(env, pass) ==
    IF Malformed(env) \/ env.streamed THEN Refused(<<>>)
    ELSE OpenWhole(env, Argon2(pass, env.salt, env.tier))

-----------------------------------------------------------------------------
\* Envelope::encrypt, with its header as associated data ...
Header(type, compressed, tier, salt, nonce) ==
    [type |-> type, compressed |-> compressed, tier |-> tier, salt |-> salt, nonce |-> nonce]
NoOrgn == [header |-> Header("file", FALSE, 0, 0, 0), cipher |-> NoCipher, key |-> KeyFromIdentity,
           plain |-> <<>>, on |-> FALSE]
ComputeAad(header) == header
EnvelopeEncrypt(key, type, tier, plain, compress) ==
    /\ seals < MaxSeals /\ seals' = seals + 1
    /\ LET header == Header(type, compress, tier, Fresh_, Fresh_) IN
         orgn' = [header |-> header, key |-> key, plain |-> plain, on |-> TRUE,
                  cipher |-> Cipher(key, <<Fresh_, 0>>, Text(plain, compress), ComputeAad(header))]
    /\ UNCHANGED <<envelopes, sealer, origins, signVars, damage>>
\* ... a header field changed on the way ...
HeaderChanges ==
    /\ damage < MaxDamage /\ damage' = damage + 1
    /\ orgn.on
    /\ \E type \in {"file", "vault"}, z \in BOOLEAN, tier \in Tiers :
         orgn' = [orgn EXCEPT !.header = Header(type, z, tier, orgn.header.salt, orgn.header.nonce)]
    /\ UNCHANGED <<envelopes, sealer, origins, signVars, seals>>
\* ... and decrypt.
EnvelopeDecrypt(key) ==
    IF ~EnvelopeOpens(orgn.cipher, key, <<orgn.header.nonce, 0>>, ComputeAad(orgn.header)) THEN Refused(<<>>)
    ELSE Inflate(orgn.header.compressed, orgn.cipher.text)

-----------------------------------------------------------------------------
\* A hybrid signature: one leg per scheme, as JSON or as the length-prefixed wire;
\* `said` is the wire's length of the Falcon leg, `there` what the file holds of it.
Leg(signer, message) == [by |-> signer, over |-> message]
NoLeg == Leg("nobody", <<>>)
NoSig == [format |-> "none", ed |-> NoLeg, falcon |-> NoLeg, said |-> 0, there |-> 0]
SignHybrid(signer, message, format) ==
    [format |-> format, ed |-> Leg(signer, message), falcon |-> Leg(signer, message),
     said |-> 2, there |-> 2]
\* cmd_sign and api::sign.
Sign(n, signer, message, format) ==
    /\ seals < MaxSeals /\ seals' = seals + 1
    /\ sigfile' = [sigfile EXCEPT ![n] = SignHybrid(signer, message, format)]
    /\ signings' = signings \union {<<signer, message>>}
    /\ UNCHANGED <<envelopes, sealer, origins, orgn, damage>>
\* A signature file that lost its tail, or holds the legs of two signatures.
SignatureSpoils(n) ==
    /\ damage < MaxDamage /\ damage' = damage + 1
    /\ sigfile[n].format # "none"
    /\ \/ sigfile' = [sigfile EXCEPT ![n].there = 1]
       \/ \E o \in SealFiles \ {n} :
            /\ sigfile[o].format = sigfile[n].format
            /\ sigfile' = [sigfile EXCEPT ![n].falcon = sigfile[o].falcon]
    /\ UNCHANGED <<envelopes, sealer, origins, orgn, signings, seals>>
\* parse_signature and from_wire: a cut JSON does not parse, a cut wire has not the
\* length it says.
ParseSignature(s) == s.format # "none" /\ s.there = s.said
BothLegs(s, edPk, falconPk, message) == s.ed = Leg(edPk, message) /\ s.falcon = Leg(falconPk, message)
\* cmd_verify with explicit public keys; with a seed or the identity both are the signer's.
VerifySignature(s, edPk, falconPk, message) ==
    ParseSignature(s) /\ BothLegs(s, edPk, falconPk, message)

SealInit ==
    /\ sigfile = [n \in SealFiles |-> NoSig]
    /\ signings = {}
    /\ envelopes = [f \in SealFiles |-> NoFile_]
    /\ sealer = NoSealer
    /\ origins = [f \in SealFiles |-> NoOrigin]
    /\ orgn = NoOrgn
    /\ seals = 0
    /\ damage = 0
SealNext ==
    \/ \E f \in SealFiles, cred \in Creds, tier \in Tiers, plain \in Plaintexts :
         \/ EncryptStream(f, cred, tier, plain)
         \/ \E z \in BOOLEAN : SealEnvelope(f, cred, tier, plain, z)
    \/ StreamChunk \/ StreamEnd \/ SealerDies
    \/ \E f \in SealFiles : Damage(f)
    \/ \E plain \in Plaintexts, z \in BOOLEAN, tier \in Tiers :
         EnvelopeEncrypt(KeyFromIdentity, "file", tier, plain, z)
    \/ HeaderChanges
    \/ \E n \in SealFiles :
         \/ \E k \in Signers_, message \in Plaintexts, format \in {"json", "hex"} : Sign(n, k, message, format)
         \/ SignatureSpoils(n)

-----------------------------------------------------------------------------
\* decrypt reverses encrypt: a finished envelope opens, under the credential and
\* tier it was sealed with, to exactly what was sealed; the library opens the whole
\* ones sealed with a passphrase.  Streams under the suite identity and streams of
\* nothing are excluded: decrypt derives another key for the first and takes the
\* second for a truncated file.
SealedOpens(f) ==
    OpenEnvelope(envelopes[f], origins[f].cred, origins[f].tier) = Done(origins[f].plain)
WholeEnvelopesOpen ==
    \A f \in SealFiles :
        LET o == origins[f] IN
        o.whole /\ o.harm = "none" /\ ~(o.streamed /\ (o.cred = Identity \/ o.plain = <<>>)) =>
            /\ SealedOpens(f)
            /\ ~o.streamed /\ o.cred # Identity =>
                   ApiDecrypt(envelopes[f], o.cred) = Done(o.plain)

\* An envelope whose sealer crashed, or that was cut short on the way, is never
\* reported as opened.  Whatever happened to its frames or its header, what decrypt
\* reports as opened is what was sealed, but for two things the format does not
\* tell: a stream that lost its last chunks and kept its sentinel opens to the
\* chunks before them, and a whole envelope whose compressed flag was cleared opens
\* to the compressed bytes.  Frames that were lost, repeated or replaced never make
\* it write anything but a beginning of what was sealed (chunk_nonce's counter
\* places every chunk, the sentinel tells the end).
SuccessMeansWhole ==
    \A f \in SealFiles, cred \in Creds, tier \in Tiers :
        LET env == envelopes[f]
            o == origins[f]
            got == OpenEnvelope(env, cred, tier)
            LostChunks == /\ o.harm = "frames" /\ o.streamed
                          /\ env.body[Len(got.out) + 1] = Sentinel
            FlagCleared == o.harm = "header" /\ o.compressed /\ ~env.compressed
        IN /\ got.ok => got.out = o.plain \/ LostChunks \/ FlagCleared
           /\ ~FlagCleared => IsPrefix(got.out, o.plain)

\* An ORGN envelope opens to what was sealed or not at all, whatever header field
\* changed: the header is the ciphertext's associated data (Envelope::compute_aad).
HeadersAreAuthentic ==
    orgn.on /\ EnvelopeDecrypt(orgn.key).ok => EnvelopeDecrypt(orgn.key).out = orgn.plain

\* verify says OK only for a message both of whose keys' owners signed it, whole and
\* with one signature's two legs or with legs that each fit; and every signature that
\* was not spoilt verifies, in either format (cmd_verify, parse_signature).
VerifiedMeansSigned ==
    \A n \in SealFiles, edPk \in Signers_, falconPk \in Signers_, message \in Plaintexts :
        LET ok == VerifySignature(sigfile[n], edPk, falconPk, message) IN
        /\ ok => <<edPk, message>> \in signings /\ <<falconPk, message>> \in signings
        /\ ok /\ damage = 0 => edPk = falconPk
        /\ damage = 0 /\ sigfile[n] \in {SignHybrid(edPk, message, format) : format \in {"json", "hex"}}
             => VerifySignature(sigfile[n], edPk, edPk, message)

\* Sealing and signing are exact: what was sealed whole opens, what opens was
\* sealed, but for what the format does not tell, and what verifies was signed.
SealsAreExact ==
    WholeEnvelopesOpen /\ SuccessMeansWhole /\ HeadersAreAuthentic /\ VerifiedMeansSigned
=============================================================================
