---------------------------- MODULE StreamProofs ----------------------------
(***************************************************************************)
(* Proofs about what a pipe carries: every stream multiplexed over it gets *)
(* the answers to its own questions, for any number of streams, and the    *)
(* bitmap replay window of a carrier without order implements the sliding  *)
(* window, for every window and word size.                                 *)
(***************************************************************************)
EXTENDS Demux, ReplayWindow, TLAPS

-----------------------------------------------------------------------------
(* Streams over one connection. *)

\* The ends number their streams apart.
Owner(id) == IF id % 2 = 1 THEN "ini" ELSE "rsp"

\* Requests and answers, and the frames that carry them.
MuxBodies == [asker : MuxEnds, on : Nat, n : Nat, answer : BOOLEAN]
MuxFrames == [mux : BOOLEAN, id : Nat, body : MuxBodies]

\* What a demultiplexer holds: it registers only ids of its own, each once.
EndInv(d, a, e) ==
    /\ DOMAIN d = {"streams", "next", "since", "rx"}
    /\ d.next \in Nat \ {0} /\ Owner(d.next) = e
    /\ d.streams \in SUBSET Ids /\ \A id \in d.streams : Owner(id) = e /\ id < d.next
    /\ d.since \in [Ids -> Nat] /\ \A id \in Ids : d.since[id] <= a
    /\ d.rx \in [Ids -> Seq(MuxBodies)] /\ \A id \in Ids : Owner(id) # e => d.rx[id] = <<>>

\* A frame on its way to e, or surfaced there: a request of the other end or the answer to
\* one of e, on a stream its asker has opened and sent on since.
FrameOk(d, a, e, f) ==
    /\ f.mux => /\ f.id \in Ids /\ f.body.on = f.id /\ f.body.asker = Owner(f.id)
                /\ f.body.answer <=> Owner(f.id) = e
                /\ f.id < d[Owner(f.id)].next
                /\ d[Owner(f.id)].since[f.id] < f.body.n /\ f.body.n <= a
    /\ ~ f.mux => f.body.answer
\* Every frame of a sequence is one.
FramesOk(d, a, e, fs) == \A i \in 1..Len(fs) : FrameOk(d, a, e, fs[i])

\* What a stream was handed.
BodyOk(since, a, e, id, b) ==
    b.answer /\ b.asker = e /\ b.on = id /\ since < b.n /\ b.n <= a
\* The same of all it was handed.
BodiesOk(since, a, e, id, bs) == \A i \in 1..Len(bs) : BodyOk(since, a, e, id, bs[i])

\* Types of the two demultiplexers and of the two pipes.
MuxTypes ==
    /\ asks \in Nat
    /\ DOMAIN demux = MuxEnds /\ \A e \in MuxEnds : EndInv(demux[e], asks, e)
    /\ pipe \in [MuxEnds -> Seq(MuxFrames)] /\ surfaced \in [MuxEnds -> Seq(MuxFrames)]

\* All frames, wherever they are, are what they should be.
FramesInv ==
    \A e \in MuxEnds :
        /\ FramesOk(demux, asks, e, pipe[e]) /\ FramesOk(demux, asks, e, surfaced[e])
        /\ \A id \in Ids : BodiesOk(demux[e].since[id], asks, e, id, demux[e].rx[id])

\* The numbers of the frames of a sequence on a stream, and of the bodies handed to one.
OnStream(f, id) == f.mux /\ f.id = id
Nums(fs, id) == {n \in Nat : \E i \in 1..Len(fs) : OnStream(fs[i], id) /\ fs[i].body.n = n}
Handed(bs) == {n \in Nat : \E i \in 1..Len(bs) : bs[i].n = n}
\* They rise along the sequence.
Rising(fs, id) ==
    \A i, j \in 1..Len(fs) :
        i < j /\ OnStream(fs[i], id) /\ OnStream(fs[j], id) => fs[i].body.n < fs[j].body.n
RisingHanded(bs) == \A i, j \in 1..Len(bs) : i < j => bs[i].n < bs[j].n
\* Every number of S is below every number of T.
AllBelow(S, T) == \A m \in S, n \in T : m < n

\* A question goes down one pipe to the other end's control and comes back by the other
\* pipe to its stream: what is further on is older.
OrderOk(rx, back, control, forth, id) ==
    /\ RisingHanded(rx) /\ Rising(back, id) /\ Rising(control, id) /\ Rising(forth, id)
    /\ AllBelow(Handed(rx), Nums(back, id))
    /\ AllBelow(Handed(rx), Nums(control, id))
    /\ AllBelow(Handed(rx), Nums(forth, id))
    /\ AllBelow(Nums(back, id), Nums(control, id))
    /\ AllBelow(Nums(back, id), Nums(forth, id))
    /\ AllBelow(Nums(control, id), Nums(forth, id))

\* The questions on every stream are in order.
OrderInv ==
    \A id \in Ids :
        LET e == Owner(id)
            o == OtherEnd(e)
        IN  OrderOk(demux[e].rx[id], pipe[e], surfaced[o], pipe[o], id)

\* The inductive invariant of the demultiplexers.
MuxInv == MuxTypes /\ FramesInv /\ OrderInv

\* There are two ends.
LEMMA TwoEnds == OtherEnd("ini") = "rsp" /\ OtherEnd("rsp") = "ini"
BY DEF OtherEnd, MuxEnds

\* A frame put last in a sequence adds its number.
LEMMA AppendNums ==
    ASSUME NEW fs \in Seq(MuxFrames), NEW f \in MuxFrames, NEW id
    PROVE  /\ OnStream(f, id) => Nums(Append(fs, f), id) = Nums(fs, id) \cup {f.body.n}
           /\ ~ OnStream(f, id) => Nums(Append(fs, f), id) = Nums(fs, id)
           /\ Rising(fs, id) /\ (OnStream(f, id) => AllBelow(Nums(fs, id), {f.body.n}))
                  => Rising(Append(fs, f), id)
<1> DEFINE gs == Append(fs, f)
<1>1. /\ Len(fs) \in Nat /\ Len(gs) = Len(fs) + 1 /\ gs[Len(fs) + 1] = f
      /\ \A i \in 1..Len(fs) : gs[i] = fs[i] /\ fs[i] \in MuxFrames
  OBVIOUS
<1>2. f.body.n \in Nat /\ \A i \in 1..Len(fs) : fs[i].body.n \in Nat
  BY <1>1, Zenon DEF MuxFrames, MuxBodies
<1> HIDE DEF gs
<1>3. \A i : i \in 1..Len(gs) <=> i \in 1..Len(fs) \/ i = Len(fs) + 1
  BY <1>1
<1>4. OnStream(f, id) => Nums(gs, id) = Nums(fs, id) \cup {f.body.n}
  BY <1>1, <1>2, <1>3, Zenon DEF Nums
<1>5. ~ OnStream(f, id) => Nums(gs, id) = Nums(fs, id)
  BY <1>1, <1>2, <1>3, Zenon DEF Nums
<1>6. ASSUME Rising(fs, id), OnStream(f, id) => AllBelow(Nums(fs, id), {f.body.n})
      PROVE  Rising(gs, id)
  <2> SUFFICES ASSUME NEW i \in 1..Len(gs), NEW j \in 1..Len(gs), i < j,
                      OnStream(gs[i], id), OnStream(gs[j], id)
               PROVE  gs[i].body.n < gs[j].body.n
    BY DEF Rising
  <2>1. i \in 1..Len(fs)
    BY <1>1
  <2>2. CASE j \in 1..Len(fs)
    BY <1>6, <2>1, <2>2, <1>1 DEF Rising
  <2>3. CASE j = Len(fs) + 1
    <3>1. gs[i] = fs[i] /\ gs[j] = f
      BY <1>1, <2>1, <2>3
    <3>2. fs[i].body.n \in Nums(fs, id)
      BY <2>1, <3>1, <1>2 DEF Nums
    <3> QED
      BY <3>1, <3>2, <1>6 DEF AllBelow
  <2> QED
    BY <2>2, <2>3, <1>3
<1> QED
  BY <1>4, <1>5, <1>6 DEF gs

\* Taking the first frame off a sequence.
LEMMA TailNums ==
    ASSUME NEW fs \in Seq(MuxFrames), fs # <<>>, NEW id
    PROVE  /\ Tail(fs) \in Seq(MuxFrames) /\ Head(fs) \in MuxFrames
           /\ Nums(Tail(fs), id) \subseteq Nums(fs, id)
           /\ OnStream(Head(fs), id) => Head(fs).body.n \in Nums(fs, id)
           /\ Rising(fs, id) => /\ Rising(Tail(fs), id)
                                /\ OnStream(Head(fs), id)
                                     => AllBelow({Head(fs).body.n}, Nums(Tail(fs), id))
<1> DEFINE gs == Tail(fs)
           f == Head(fs)
<1>1. /\ Len(fs) \in Nat \ {0} /\ Len(gs) = Len(fs) - 1 /\ f = fs[1] /\ gs \in Seq(MuxFrames)
      /\ f \in MuxFrames
  OBVIOUS
<1>2. \A i \in 1..Len(gs) : gs[i] = fs[i + 1] /\ i + 1 \in 1..Len(fs) /\ i \in Nat
  BY <1>1
<1>3. f.body.n \in Nat /\ 1 \in 1..Len(fs)
  BY <1>1 DEF MuxFrames, MuxBodies
<1> HIDE DEF gs, f
<1>4. Nums(gs, id) \subseteq Nums(fs, id)
  BY <1>2, Zenon DEF Nums
<1>5. OnStream(f, id) => f.body.n \in Nums(fs, id)
  BY <1>1, <1>3, Zenon DEF Nums
<1>6. ASSUME Rising(fs, id)
      PROVE  Rising(gs, id)
  BY <1>6, <1>2, SMTT(40) DEF Rising
<1>7. ASSUME Rising(fs, id), OnStream(f, id), NEW n \in Nums(gs, id)
      PROVE  f.body.n < n
  <2>1. PICK i \in 1..Len(gs) : OnStream(gs[i], id) /\ gs[i].body.n = n
    BY <1>7, Zenon DEF Nums
  <2>2. i + 1 \in 1..Len(fs) /\ 1 < i + 1 /\ gs[i] = fs[i + 1]
    BY <1>2
  <2> QED
    BY <2>1, <2>2, <1>1, <1>3, <1>7 DEF Rising
<1> QED
  BY <1>1, <1>4, <1>5, <1>6, <1>7, Zenon DEF gs, f, AllBelow

\* The same of the bodies a stream was handed.
LEMMA HandedOver ==
    ASSUME NEW bs \in Seq(MuxBodies), NEW b \in MuxBodies
    PROVE  /\ Handed(Append(bs, b)) = Handed(bs) \cup {b.n}
           /\ RisingHanded(bs) /\ AllBelow(Handed(bs), {b.n}) => RisingHanded(Append(bs, b))
<1> DEFINE cs == Append(bs, b)
<1>1. /\ Len(bs) \in Nat /\ Len(cs) = Len(bs) + 1 /\ cs[Len(bs) + 1] = b
      /\ \A i \in 1..Len(bs) : cs[i] = bs[i] /\ bs[i] \in MuxBodies
  OBVIOUS
<1>2. b.n \in Nat /\ \A i \in 1..Len(bs) : bs[i].n \in Nat
  BY <1>1 DEF MuxBodies
<1> HIDE DEF cs
<1>3. \A i : i \in 1..Len(cs) <=> i \in 1..Len(bs) \/ i = Len(bs) + 1
  BY <1>1
<1>4. Handed(cs) = Handed(bs) \cup {b.n}
  BY <1>1, <1>2, <1>3, Zenon DEF Handed
<1>5. ASSUME RisingHanded(bs), AllBelow(Handed(bs), {b.n})
      PROVE  RisingHanded(cs)
  <2> SUFFICES ASSUME NEW i \in 1..Len(cs), NEW j \in 1..Len(cs), i < j
               PROVE  cs[i].n < cs[j].n
    BY DEF RisingHanded
  <2>1. i \in 1..Len(bs)
    BY <1>1
  <2>2. CASE j \in 1..Len(bs)
    BY <1>5, <2>1, <2>2, <1>1 DEF RisingHanded
  <2>3. CASE j = Len(bs) + 1
    <3>1. bs[i].n \in Handed(bs)
      BY <2>1, <1>2 DEF Handed
    <3> QED
      BY <3>1, <1>1, <2>1, <2>3, <1>5 DEF AllBelow
  <2> QED
    BY <2>2, <2>3, <1>3
<1> QED
  BY <1>4, <1>5 DEF cs

\* Reading the oldest body.
LEMMA HandedRead ==
    ASSUME NEW bs \in Seq(MuxBodies), bs # <<>>
    PROVE  /\ Tail(bs) \in Seq(MuxBodies) /\ Handed(Tail(bs)) \subseteq Handed(bs)
           /\ RisingHanded(bs) => RisingHanded(Tail(bs))
<1> DEFINE cs == Tail(bs)
<1>1. Len(bs) \in Nat \ {0} /\ Len(cs) = Len(bs) - 1 /\ cs \in Seq(MuxBodies)
  OBVIOUS
<1>2. \A i \in 1..Len(cs) : cs[i] = bs[i + 1] /\ i + 1 \in 1..Len(bs) /\ i \in Nat
  BY <1>1
<1> HIDE DEF cs
<1>3. Handed(cs) \subseteq Handed(bs)
  BY <1>2, Zenon DEF Handed
<1>4. ASSUME RisingHanded(bs)
      PROVE  RisingHanded(cs)
  <2> SUFFICES ASSUME NEW i \in 1..Len(cs), NEW j \in 1..Len(cs), i < j
               PROVE  cs[i].n < cs[j].n
    BY DEF RisingHanded
  <2>1. /\ i + 1 \in 1..Len(bs) /\ j + 1 \in 1..Len(bs) /\ i + 1 < j + 1
        /\ cs[i] = bs[i + 1] /\ cs[j] = bs[j + 1]
    BY <1>2
  <2> QED
    BY <1>4, <2>1 DEF RisingHanded
<1> QED
  BY <1>1, <1>3, <1>4 DEF cs

\* An answer reaches its stream.
LEMMA OrderDelivered ==
    ASSUME NEW rx \in Seq(MuxBodies), NEW back \in Seq(MuxFrames), NEW control, NEW forth, NEW id,
           OrderOk(rx, back, control, forth, id), back # <<>>, OnStream(Head(back), id)
    PROVE  OrderOk(Append(rx, Head(back).body), Tail(back), control, forth, id)
<1> DEFINE f == Head(back)
<1>1. /\ f \in MuxFrames /\ Nums(Tail(back), id) \subseteq Nums(back, id)
      /\ f.body.n \in Nums(back, id) /\ Rising(Tail(back), id)
      /\ AllBelow({f.body.n}, Nums(Tail(back), id))
  BY TailNums, Zenon DEF OrderOk
<1>2. f.body \in MuxBodies
  BY <1>1 DEF MuxFrames
<1>3. AllBelow(Handed(rx), {f.body.n})
  BY <1>1, Zenon DEF OrderOk, AllBelow
<1>4. /\ Handed(Append(rx, f.body)) = Handed(rx) \cup {f.body.n}
      /\ RisingHanded(Append(rx, f.body))
  BY <1>2, <1>3, HandedOver, Zenon DEF OrderOk
<1> HIDE DEF f
<1> QED
  BY <1>1, <1>4, Zenon DEF OrderOk, AllBelow, f

\* Frames leave the pipe back and the control of the other end.
LEMMA OrderTaken ==
    ASSUME NEW rx, NEW back \in Seq(MuxFrames), NEW control \in Seq(MuxFrames), NEW forth, NEW id,
           OrderOk(rx, back, control, forth, id)
    PROVE  /\ back # <<>> => OrderOk(rx, Tail(back), control, forth, id)
           /\ control # <<>> => OrderOk(rx, back, Tail(control), forth, id)
<1>1. ASSUME back # <<>>
      PROVE  Nums(Tail(back), id) \subseteq Nums(back, id) /\ Rising(Tail(back), id)
  BY <1>1, TailNums, Zenon DEF OrderOk
<1>2. ASSUME control # <<>>
      PROVE  Nums(Tail(control), id) \subseteq Nums(control, id) /\ Rising(Tail(control), id)
  BY <1>2, TailNums, Zenon DEF OrderOk
<1> QED
  BY <1>1, <1>2, Zenon DEF OrderOk, AllBelow

\* A request reaches the other end's control.
LEMMA OrderSurfaced ==
    ASSUME NEW rx, NEW back, NEW control \in Seq(MuxFrames), NEW forth \in Seq(MuxFrames), NEW id,
           OrderOk(rx, back, control, forth, id), forth # <<>>
    PROVE  OrderOk(rx, back, Append(control, Head(forth)), Tail(forth), id)
<1> DEFINE f == Head(forth)
<1>1. /\ f \in MuxFrames /\ Nums(Tail(forth), id) \subseteq Nums(forth, id)
      /\ Rising(Tail(forth), id)
      /\ OnStream(f, id) => /\ f.body.n \in Nums(forth, id)
                            /\ AllBelow({f.body.n}, Nums(Tail(forth), id))
  BY TailNums, Zenon DEF OrderOk
<1>2. OnStream(f, id) => AllBelow(Nums(control, id), {f.body.n})
  BY <1>1, Zenon DEF OrderOk, AllBelow
<1>3. /\ OnStream(f, id) => Nums(Append(control, f), id) = Nums(control, id) \cup {f.body.n}
      /\ ~ OnStream(f, id) => Nums(Append(control, f), id) = Nums(control, id)
      /\ Rising(Append(control, f), id)
  BY <1>1, <1>2, AppendNums, Zenon DEF OrderOk
<1> HIDE DEF f
<1>4. CASE OnStream(f, id)
  BY <1>1, <1>3, <1>4, Zenon DEF OrderOk, AllBelow, f
<1>5. CASE ~ OnStream(f, id)
  BY <1>1, <1>3, <1>5, Zenon DEF OrderOk, AllBelow, f
<1> QED
  BY <1>4, <1>5

\* Control answers the request it has had longest.
LEMMA OrderAnswered ==
    ASSUME NEW rx, NEW back \in Seq(MuxFrames), NEW control \in Seq(MuxFrames), NEW forth, NEW id,
           OrderOk(rx, back, control, forth, id), control # <<>>,
           NEW g \in MuxFrames, g.mux, g.id = Head(control).id, Head(control).mux,
           g.body.n = Head(control).body.n
    PROVE  OrderOk(rx, Append(back, g), Tail(control), forth, id)
<1> DEFINE f == Head(control)
<1>0. OnStream(f, id) <=> OnStream(g, id)
  BY Zenon DEF OnStream
<1>1. /\ f \in MuxFrames /\ Nums(Tail(control), id) \subseteq Nums(control, id)
      /\ Rising(Tail(control), id)
      /\ OnStream(f, id) => /\ g.body.n \in Nums(control, id)
                            /\ AllBelow({g.body.n}, Nums(Tail(control), id))
  BY TailNums, Zenon DEF OrderOk
<1>2. OnStream(g, id) => AllBelow(Nums(back, id), {g.body.n})
  BY <1>0, <1>1, Zenon DEF OrderOk, AllBelow
<1>3. /\ OnStream(g, id) => Nums(Append(back, g), id) = Nums(back, id) \cup {g.body.n}
      /\ ~ OnStream(g, id) => Nums(Append(back, g), id) = Nums(back, id)
      /\ Rising(Append(back, g), id)
  BY <1>2, AppendNums, Zenon DEF OrderOk
<1> HIDE DEF f
<1>4. CASE OnStream(g, id)
  BY <1>0, <1>1, <1>3, <1>4, Zenon DEF OrderOk, AllBelow
<1>5. CASE ~ OnStream(g, id)
  BY <1>1, <1>3, <1>5, Zenon DEF OrderOk, AllBelow
<1> QED
  BY <1>4, <1>5

\* A new question is sent.
LEMMA OrderAsked ==
    ASSUME NEW rx, NEW back, NEW control, NEW forth \in Seq(MuxFrames), NEW id,
           OrderOk(rx, back, control, forth, id), NEW f \in MuxFrames,
           OnStream(f, id) =>
               /\ AllBelow(Handed(rx), {f.body.n}) /\ AllBelow(Nums(back, id), {f.body.n})
               /\ AllBelow(Nums(control, id), {f.body.n}) /\ AllBelow(Nums(forth, id), {f.body.n})
    PROVE  OrderOk(rx, back, control, Append(forth, f), id)
<1>3. /\ OnStream(f, id) => Nums(Append(forth, f), id) = Nums(forth, id) \cup {f.body.n}
      /\ ~ OnStream(f, id) => Nums(Append(forth, f), id) = Nums(forth, id)
      /\ Rising(Append(forth, f), id)
  BY AppendNums, Zenon DEF OrderOk
<1>4. CASE OnStream(f, id)
  BY <1>3, <1>4, Zenon DEF OrderOk, AllBelow
<1>5. CASE ~ OnStream(f, id)
  BY <1>3, <1>5, Zenon DEF OrderOk, AllBelow
<1> QED
  BY <1>4, <1>5

\* Frames of other streams.
LEMMA OrderOthers ==
    ASSUME NEW rx, NEW back \in Seq(MuxFrames), NEW control, NEW forth \in Seq(MuxFrames), NEW id,
           OrderOk(rx, back, control, forth, id), NEW f \in MuxFrames, ~ OnStream(f, id)
    PROVE  OrderOk(rx, Append(back, f), control, forth, id)
<1>1. Nums(Append(back, f), id) = Nums(back, id) /\ Rising(Append(back, f), id)
  BY AppendNums, Zenon DEF OrderOk
<1> QED
  BY <1>1, Zenon DEF OrderOk

\* A handle reads, and a fresh stream has nothing to read.
LEMMA OrderRead ==
    ASSUME NEW rx \in Seq(MuxBodies), NEW back, NEW control, NEW forth, NEW id,
           OrderOk(rx, back, control, forth, id)
    PROVE  /\ rx # <<>> => OrderOk(Tail(rx), back, control, forth, id)
           /\ OrderOk(<<>>, back, control, forth, id)
<1>1. Handed(<<>>) = {} /\ RisingHanded(<<>>)
  BY DEF Handed, RisingHanded
<1>2. rx # <<>> => Handed(Tail(rx)) \subseteq Handed(rx) /\ RisingHanded(Tail(rx))
  BY HandedRead, Zenon DEF OrderOk
<1> QED
  BY <1>1, <1>2, Zenon DEF OrderOk, AllBelow

\* Streams are opened and never reopened.
Later(d, dd) ==
    \A x \in MuxEnds : /\ d[x].next \in Nat /\ dd[x].next \in Nat /\ d[x].next <= dd[x].next
                      /\ \A id \in Ids : id < d[x].next => dd[x].since[id] = d[x].since[id]

\* A frame stays in order as streams are opened and questions sent.
LEMMA FramesLater ==
    ASSUME NEW d, NEW dd, NEW a \in Nat, NEW b \in Nat, a <= b, NEW e,
           NEW fs \in Seq(MuxFrames), FramesOk(d, a, e, fs), Later(d, dd)
    PROVE  FramesOk(dd, b, e, fs)
<1> SUFFICES ASSUME NEW i \in 1..Len(fs)
             PROVE  FrameOk(dd, b, e, fs[i])
  BY Zenon DEF FramesOk
<1> DEFINE f == fs[i]
<1>1. FrameOk(d, a, e, f)
  BY Zenon DEF FramesOk
<1>0. f \in MuxFrames
  OBVIOUS
<1>2. f.id \in Nat /\ f.body.n \in Nat
  BY <1>0 DEF MuxFrames, MuxBodies
<1>3. Owner(f.id) \in MuxEnds
  BY Zenon DEF Owner, MuxEnds
<1> HIDE DEF f
<1>4. ASSUME f.mux
      PROVE  /\ f.id < dd[Owner(f.id)].next
             /\ dd[Owner(f.id)].since[f.id] < f.body.n /\ f.body.n <= b
  <2>1. f.id \in Ids /\ f.id < d[Owner(f.id)].next /\ f.body.n <= a
        /\ d[Owner(f.id)].since[f.id] < f.body.n
    BY <1>1, <1>4, Zenon DEF FrameOk
  <2>2. /\ d[Owner(f.id)].next \in Nat /\ dd[Owner(f.id)].next \in Nat
        /\ d[Owner(f.id)].next <= dd[Owner(f.id)].next
        /\ dd[Owner(f.id)].since[f.id] = d[Owner(f.id)].since[f.id]
    BY <1>3, <2>1, Zenon DEF Later
  <2>3. f.id < dd[Owner(f.id)].next /\ f.body.n <= b
    BY <2>1, <2>2, <1>2
  <2> QED
    BY <2>1, <2>2, <2>3, Zenon
<1> QED
  BY <1>1, <1>4, Zenon DEF FrameOk, f

\* No frame and no body is numbered above the questions sent.
LEMMA NumsBounded ==
    ASSUME NEW a \in Nat, NEW fs \in Seq(MuxFrames), NEW d, NEW e, FramesOk(d, a, e, fs), NEW id
    PROVE  AllBelow(Nums(fs, id), {a + 1})
<1> SUFFICES ASSUME NEW m \in Nums(fs, id)
             PROVE  m < a + 1
  BY Zenon DEF AllBelow
<1>1. PICK i \in 1..Len(fs) : OnStream(fs[i], id) /\ fs[i].body.n = m
  BY Zenon DEF Nums
<1>2. m <= a /\ m \in Nat
  BY <1>1, Zenon DEF FramesOk, FrameOk, OnStream, Nums
<1> QED
  BY <1>2

\* The same of a stream's bodies.
LEMMA HandedBounded ==
    ASSUME NEW a \in Nat, NEW bs \in Seq(MuxBodies), NEW s, NEW e, NEW id, BodiesOk(s, a, e, id, bs)
    PROVE  AllBelow(Handed(bs), {a + 1})
<1> SUFFICES ASSUME NEW m \in Handed(bs)
             PROVE  m < a + 1
  BY Zenon DEF AllBelow
<1>1. PICK i \in 1..Len(bs) : bs[i].n = m
  BY Zenon DEF Handed
<1>2. m <= a /\ m \in Nat
  BY <1>1, Zenon DEF BodiesOk, BodyOk, Handed
<1> QED
  BY <1>2

\* A frame joins a sequence, or leaves it.
LEMMA FramesJoin ==
    ASSUME NEW d, NEW a, NEW e, NEW fs \in Seq(MuxFrames), FramesOk(d, a, e, fs)
    PROVE  /\ \A f \in MuxFrames : FrameOk(d, a, e, f) => FramesOk(d, a, e, Append(fs, f))
           /\ fs # <<>> => FrameOk(d, a, e, Head(fs)) /\ FramesOk(d, a, e, Tail(fs))
<1>1. ASSUME NEW f \in MuxFrames, FrameOk(d, a, e, f), NEW i \in 1..Len(Append(fs, f))
      PROVE  FrameOk(d, a, e, Append(fs, f)[i])
  <2>1. \/ i \in 1..Len(fs) /\ Append(fs, f)[i] = fs[i]
        \/ Append(fs, f)[i] = f
    OBVIOUS
  <2> QED
    BY <2>1, <1>1, Zenon DEF FramesOk
<1>2. ASSUME fs # <<>>
      PROVE  FrameOk(d, a, e, Head(fs)) /\ FramesOk(d, a, e, Tail(fs))
  <2>1. Head(fs) = fs[1] /\ 1 \in 1..Len(fs)
    BY <1>2
  <2>2. \A i \in 1..Len(Tail(fs)) : Tail(fs)[i] = fs[i + 1] /\ i + 1 \in 1..Len(fs)
    BY <1>2
  <2> QED
    BY <2>1, <2>2, Zenon DEF FramesOk
<1> QED
  BY <1>1, <1>2, Zenon DEF FramesOk

\* A body joins a stream's channel, or leaves it; a later question does no harm.
LEMMA BodiesJoin ==
    ASSUME NEW s, NEW a \in Nat, NEW e, NEW id, NEW bs \in Seq(MuxBodies), BodiesOk(s, a, e, id, bs)
    PROVE  /\ \A b \in MuxBodies : BodyOk(s, a, e, id, b) => BodiesOk(s, a, e, id, Append(bs, b))
           /\ bs # <<>> => BodiesOk(s, a, e, id, Tail(bs))
           /\ BodiesOk(s, a + 1, e, id, bs)
<1>1. ASSUME NEW b \in MuxBodies, BodyOk(s, a, e, id, b), NEW i \in 1..Len(Append(bs, b))
      PROVE  BodyOk(s, a, e, id, Append(bs, b)[i])
  <2>1. \/ i \in 1..Len(bs) /\ Append(bs, b)[i] = bs[i]
        \/ Append(bs, b)[i] = b
    OBVIOUS
  <2> QED
    BY <2>1, <1>1, Zenon DEF BodiesOk
<1>2. ASSUME bs # <<>>
      PROVE  BodiesOk(s, a, e, id, Tail(bs))
  <2>2. \A i \in 1..Len(Tail(bs)) : Tail(bs)[i] = bs[i + 1] /\ i + 1 \in 1..Len(bs)
    BY <1>2
  <2> QED
    BY <2>2, Zenon DEF BodiesOk
<1>3. ASSUME NEW i \in 1..Len(bs)
      PROVE  BodyOk(s, a + 1, e, id, bs[i])
  <2>0. bs[i] \in MuxBodies
    OBVIOUS
  <2>1. bs[i].n \in Nat
    BY <2>0 DEF MuxBodies
  <2>2. BodyOk(s, a, e, id, bs[i])
    BY Zenon DEF BodiesOk
  <2>3. bs[i].n <= a + 1
    BY <2>1, <2>2 DEF BodyOk
  <2> QED
    BY <2>2, <2>3, Zenon DEF BodyOk
<1> QED
  BY <1>1, <1>2, <1>3, Zenon DEF BodiesOk

\* A stream has an owner, an end is not its own other end.
LEMMA EndsApart ==
    /\ \A id : Owner(id) \in MuxEnds
    /\ \A e \in MuxEnds : OtherEnd(e) \in MuxEnds /\ OtherEnd(e) # e /\ OtherEnd(OtherEnd(e)) = e
    /\ \A e, f \in MuxEnds : f = e \/ f = OtherEnd(e)
<1>1. \A id : Owner(id) \in MuxEnds
  BY Zenon DEF Owner, MuxEnds
<1>2. \A e \in MuxEnds : e = "ini" \/ e = "rsp"
  BY DEF MuxEnds
<1>3. "ini" \in MuxEnds /\ "rsp" \in MuxEnds /\ "ini" # "rsp"
  BY DEF MuxEnds
<1> QED
  BY <1>1, <1>2, <1>3, TwoEnds, Zenon

\* At first no stream is open and nothing was sent.
LEMMA MuxStarts == MuxInit => MuxInv
<1> SUFFICES ASSUME MuxInit
             PROVE  MuxInv
  OBVIOUS
<1>1. ASSUME NEW e \in MuxEnds
      PROVE  EndInv(demux[e], asks, e)
  <2>1. demux[e] = New(e) /\ asks = 0
    BY DEF MuxInit
  <2>2. StartId(e) \in Nat \ {0} /\ Owner(StartId(e)) = e
    BY DEF StartId, Owner, MuxEnds
  <2> QED
    BY <2>1, <2>2 DEF New, EndInv
<1>2. ASSUME NEW e \in MuxEnds
      PROVE  /\ pipe[e] = <<>> /\ surfaced[e] = <<>>
             /\ \A id \in Ids : demux[e].rx[id] = <<>>
  BY DEF MuxInit, New
<1>3. pipe \in [MuxEnds -> Seq(MuxFrames)] /\ surfaced \in [MuxEnds -> Seq(MuxFrames)]
      /\ DOMAIN demux = MuxEnds /\ asks \in Nat
  BY DEF MuxInit
<1>4. FramesInv
  BY <1>2 DEF FramesInv, FramesOk, BodiesOk
<1>5. \A id : OrderOk(<<>>, <<>>, <<>>, <<>>, id)
  BY DEF OrderOk, Rising, RisingHanded, AllBelow, Nums, Handed
<1>6. OrderInv
  BY <1>2, <1>5, EndsApart, Zenon DEF OrderInv
<1> QED
  BY <1>1, <1>3, <1>4, <1>6, Zenon DEF MuxInv, MuxTypes

\* open_stream: a number never used, so no frame is on its way to it.
LEMMA OpenStreamKeeps ==
    ASSUME MuxInv, NEW e \in MuxEnds, OpenStream(e)
    PROVE  MuxInv'
<1> DEFINE d == demux[e]
           new == d.next
<1>1. /\ asks \in Nat /\ DOMAIN demux = MuxEnds /\ \A x \in MuxEnds : EndInv(demux[x], asks, x)
      /\ pipe \in [MuxEnds -> Seq(MuxFrames)] /\ surfaced \in [MuxEnds -> Seq(MuxFrames)]
  BY Zenon DEF MuxInv, MuxTypes
<1>2. EndInv(d, asks, e)
  BY <1>1, Zenon
<1>3. new \in Ids /\ new \in Nat \ {0} /\ Owner(new) = e
  <2>1. new \in Nat \ {0} /\ Owner(new) = e
    BY <1>2, Zenon DEF EndInv
  <2>2. new <= 2 * MaxStreams
    BY Zenon DEF OpenStream
  <2> QED
    BY <2>1, <2>2, StreamsAssumption DEF Ids
<1>4. /\ DOMAIN demux' = MuxEnds /\ demux'[e] = RegisterStream([d EXCEPT !.next = @ + 2], new)
      /\ \A x \in MuxEnds : x # e => demux'[x] = demux[x]
      /\ pipe' = pipe /\ surfaced' = surfaced /\ asks' = asks
  BY <1>1 DEF OpenStream
<1>5. /\ DOMAIN demux'[e] = {"streams", "next", "since", "rx"}
      /\ demux'[e].next = new + 2 /\ demux'[e].streams = d.streams \cup {new}
      /\ demux'[e].since = [d.since EXCEPT ![new] = asks]
      /\ demux'[e].rx = [d.rx EXCEPT ![new] = <<>>]
  BY <1>2, <1>4 DEF RegisterStream, EndInv
<1> HIDE DEF d, new
<1>6. /\ d.since \in [Ids -> Nat] /\ d.rx \in [Ids -> Seq(MuxBodies)]
      /\ d.streams \in SUBSET Ids /\ (\A id \in d.streams : Owner(id) = e /\ id < new)
      /\ (\A id \in Ids : d.since[id] <= asks)
      /\ (\A id \in Ids : Owner(id) # e => d.rx[id] = <<>>)
  BY <1>2, Zenon DEF EndInv, new, d
<1>7. /\ \A id \in Ids : id # new => demux'[e].since[id] = d.since[id] /\ demux'[e].rx[id] = d.rx[id]
      /\ demux'[e].since[new] = asks /\ demux'[e].rx[new] = <<>>
  BY <1>3, <1>5, <1>6
<1>8. EndInv(demux'[e], asks, e)
  <2>1. new + 2 \in Nat \ {0} /\ Owner(new + 2) = e
    BY <1>3 DEF Owner
  <2>2. \A id \in d.streams \cup {new} : Owner(id) = e /\ id < new + 2
    BY <1>3, <1>6 DEF Ids
  <2>3. d.streams \cup {new} \in SUBSET Ids
    BY <1>3, <1>6
  <2>4. /\ demux'[e].since \in [Ids -> Nat] /\ demux'[e].rx \in [Ids -> Seq(MuxBodies)]
        /\ asks <= asks
    BY <1>1, <1>3, <1>5, <1>6
  <2>5. \A id \in Ids : demux'[e].since[id] <= asks
    BY <1>6, <1>7, <2>4, Zenon
  <2>6. \A id \in Ids : Owner(id) # e => demux'[e].rx[id] = <<>>
    BY <1>6, <1>7, Zenon
  <2>7. /\ demux'[e].next \in Nat \ {0} /\ Owner(demux'[e].next) = e
        /\ demux'[e].streams \in SUBSET Ids
        /\ \A id \in demux'[e].streams : Owner(id) = e /\ id < demux'[e].next
    BY <1>5, <2>1, <2>2, <2>3, Zenon
  <2> QED
    BY <1>5, <2>4, <2>5, <2>6, <2>7, Zenon DEF EndInv
<1>9. MuxTypes'
  BY <1>1, <1>4, <1>8, Zenon DEF MuxTypes
<1>10. FramesInv'
  <2>1. Later(demux, demux')
    <3> SUFFICES ASSUME NEW x \in MuxEnds
                 PROVE  /\ demux[x].next \in Nat /\ demux'[x].next \in Nat
                        /\ demux[x].next <= demux'[x].next
                        /\ \A id \in Ids : id < demux[x].next
                               => demux'[x].since[id] = demux[x].since[id]
      BY Zenon DEF Later
    <3>1. demux[x].next \in Nat
      BY <1>1 DEF EndInv
    <3>2. CASE x # e
      BY <1>4, <3>1, <3>2
    <3>3. CASE x = e
      <4>1. demux[x].next = new /\ demux'[x].next = new + 2
        BY <1>5, <3>3, Zenon DEF d, new
      <4>2. \A id \in Ids : id < new => id # new
        BY <1>3, StreamsAssumption DEF Ids
      <4>3. \A id \in Ids : id < new => demux'[x].since[id] = demux[x].since[id]
        BY <1>7, <3>3, <4>2, Zenon DEF d
      <4> QED
        BY <1>3, <4>1, <4>3
    <3> QED
      BY <3>2, <3>3
  <2>2. ASSUME NEW x \in MuxEnds
        PROVE  /\ FramesOk(demux, asks, x, pipe[x]) /\ FramesOk(demux, asks, x, surfaced[x])
               /\ pipe[x] \in Seq(MuxFrames) /\ surfaced[x] \in Seq(MuxFrames)
    BY <1>1, Zenon DEF MuxInv, FramesInv
  <2>3. asks <= asks
    BY <1>1
  <2>4. ASSUME NEW x \in MuxEnds
        PROVE  FramesOk(demux', asks, x, pipe[x]) /\ FramesOk(demux', asks, x, surfaced[x])
    BY <1>1, <2>1, <2>2, <2>3, FramesLater, Zenon
  <2>5. ASSUME NEW x \in MuxEnds, NEW id \in Ids
        PROVE  BodiesOk(demux'[x].since[id], asks, x, id, demux'[x].rx[id])
    <3>1. BodiesOk(demux[x].since[id], asks, x, id, demux[x].rx[id])
      BY Zenon DEF MuxInv, FramesInv
    <3>2. CASE x # e
      BY <1>4, <3>1, <3>2, Zenon
    <3>3. CASE x = e /\ id # new
      BY <1>7, <3>1, <3>3, Zenon DEF d
    <3>4. CASE x = e /\ id = new
      BY <1>7, <3>4 DEF BodiesOk
    <3> QED
      BY <3>2, <3>3, <3>4
  <2> QED
    BY <1>4, <2>4, <2>5, Zenon DEF FramesInv
<1>11. OrderInv'
  <2> SUFFICES ASSUME NEW id \in Ids
               PROVE  OrderOk(demux'[Owner(id)].rx[id], pipe[Owner(id)],
                              surfaced[OtherEnd(Owner(id))], pipe[OtherEnd(Owner(id))], id)
    BY <1>4, Zenon DEF OrderInv
  <2>1. OrderOk(demux[Owner(id)].rx[id], pipe[Owner(id)],
                surfaced[OtherEnd(Owner(id))], pipe[OtherEnd(Owner(id))], id)
    BY Zenon DEF MuxInv, OrderInv
  <2>2. CASE id # new
    <3>1. demux'[Owner(id)].rx[id] = demux[Owner(id)].rx[id]
      BY <1>4, <1>7, <2>2, EndsApart, Zenon DEF d
    <3> QED
      BY <2>1, <3>1, Zenon
  <2>3. CASE id = new
    <3>1. demux'[Owner(id)].rx[id] = <<>>
      BY <1>3, <1>7, <2>3, Zenon
    <3>2. demux[Owner(id)].rx[id] \in Seq(MuxBodies)
      BY <1>3, <1>6, <2>3, Zenon DEF d
    <3> QED
      BY <2>1, <3>1, <3>2, OrderRead, Zenon
  <2> QED
    BY <2>2, <2>3
<1> QED
  BY <1>9, <1>10, <1>11, Zenon DEF MuxInv

\* A frame is sent: a question on an open stream or a frame of another type.
LEMMA SendKeeps ==
    ASSUME MuxInv, NEW e \in MuxEnds, NEW f \in MuxFrames,
           FrameOk(demux, asks + 1, OtherEnd(e), f), f.mux => f.body.n = asks + 1 /\ Owner(f.id) = e,
           pipe' = [pipe EXCEPT ![OtherEnd(e)] = Append(@, f)],
           asks' = asks + 1, UNCHANGED <<demux, surfaced>>
    PROVE  MuxInv'
<1> DEFINE o == OtherEnd(e)
<1>1. /\ asks \in Nat /\ DOMAIN demux = MuxEnds /\ \A x \in MuxEnds : EndInv(demux[x], asks, x)
      /\ pipe \in [MuxEnds -> Seq(MuxFrames)] /\ surfaced \in [MuxEnds -> Seq(MuxFrames)]
  BY Zenon DEF MuxInv, MuxTypes
<1>2. o \in MuxEnds /\ o # e /\ OtherEnd(o) = e /\ \A x \in MuxEnds : x = e \/ x = o
  BY EndsApart, Zenon
<1>3. demux' = demux /\ surfaced' = surfaced
  OBVIOUS
<1> HIDE DEF o
<1>4. pipe'[o] = Append(pipe[o], f) /\ pipe'[e] = pipe[e] /\ pipe' \in [MuxEnds -> Seq(MuxFrames)]
  <2>1. pipe[o] \in Seq(MuxFrames) /\ Append(pipe[o], f) \in Seq(MuxFrames)
    BY <1>1, <1>2
  <2>2. pipe' = [pipe EXCEPT ![o] = Append(@, f)]
    BY Zenon DEF o
  <2> QED
    BY <1>1, <1>2, <2>1, <2>2
<1>5. asks \in Nat /\ asks + 1 \in Nat /\ asks <= asks + 1
  BY <1>1
<1>6. MuxTypes'
  <2>1. ASSUME NEW x \in MuxEnds
        PROVE  EndInv(demux[x], asks + 1, x)
    <3>1. EndInv(demux[x], asks, x)
      BY <1>1, Zenon
    <3>2. \A id \in Ids : demux[x].since[id] <= asks + 1
      BY <3>1, <1>1 DEF EndInv
    <3> QED
      BY <3>1, <3>2, Zenon DEF EndInv
  <2> QED
    BY <1>1, <1>3, <1>4, <1>5, <2>1, Zenon DEF MuxTypes
<1>7. ASSUME NEW x \in MuxEnds
      PROVE  /\ FramesOk(demux, asks, x, pipe[x]) /\ FramesOk(demux, asks, x, surfaced[x])
             /\ pipe[x] \in Seq(MuxFrames) /\ surfaced[x] \in Seq(MuxFrames)
  BY <1>1, Zenon DEF MuxInv, FramesInv
<1>8. ASSUME NEW x \in MuxEnds, NEW id \in Ids
      PROVE  /\ BodiesOk(demux[x].since[id], asks, x, id, demux[x].rx[id])
             /\ demux[x].rx[id] \in Seq(MuxBodies)
  <2>1. demux[x].rx \in [Ids -> Seq(MuxBodies)]
    BY <1>1, Zenon DEF EndInv
  <2> QED
    BY <2>1, Zenon DEF MuxInv, FramesInv
<1>9. FramesInv'
  <2>1. Later(demux, demux)
    BY <1>1 DEF EndInv, Later
  <2>2. ASSUME NEW x \in MuxEnds
        PROVE  FramesOk(demux, asks + 1, x, pipe[x]) /\ FramesOk(demux, asks + 1, x, surfaced[x])
    BY <1>5, <1>7, <2>1, FramesLater, Zenon
  <2>3. FramesOk(demux, asks + 1, o, Append(pipe[o], f))
    BY <1>2, <1>7, <2>2, FramesJoin, Zenon DEF o
  <2>4. ASSUME NEW x \in MuxEnds, NEW id \in Ids
        PROVE  BodiesOk(demux[x].since[id], asks + 1, x, id, demux[x].rx[id])
    BY <1>5, <1>8, BodiesJoin, Zenon
  <2>5. ASSUME NEW x \in MuxEnds
        PROVE  FramesOk(demux, asks + 1, x, pipe'[x])
    BY <1>2, <1>4, <2>2, <2>3, Zenon
  <2> QED
    BY <1>3, <2>2, <2>4, <2>5, Zenon DEF FramesInv
<1>10. OrderInv'
  <2> SUFFICES ASSUME NEW id \in Ids
               PROVE  OrderOk(demux[Owner(id)].rx[id], pipe'[Owner(id)],
                              surfaced[OtherEnd(Owner(id))], pipe'[OtherEnd(Owner(id))], id)
    BY <1>3, Zenon DEF OrderInv
  <2>1. OrderOk(demux[Owner(id)].rx[id], pipe[Owner(id)],
                surfaced[OtherEnd(Owner(id))], pipe[OtherEnd(Owner(id))], id)
    BY Zenon DEF MuxInv, OrderInv
  <2>2. Owner(id) = e \/ Owner(id) = o
    BY <1>2, EndsApart, Zenon
  <2>3. CASE Owner(id) = e
    <3>1. OrderOk(demux[e].rx[id], pipe[e], surfaced[o], pipe[o], id)
      BY <2>1, <2>3, Zenon DEF o
    <3>2. /\ AllBelow(Handed(demux[e].rx[id]), {asks + 1}) /\ AllBelow(Nums(pipe[e], id), {asks + 1})
          /\ AllBelow(Nums(surfaced[o], id), {asks + 1}) /\ AllBelow(Nums(pipe[o], id), {asks + 1})
      BY <1>1, <1>2, <1>7, <1>8, NumsBounded, HandedBounded, Zenon
    <3>3. OnStream(f, id) => f.body.n = asks + 1
      BY Zenon DEF OnStream
    <3>4. OrderOk(demux[e].rx[id], pipe[e], surfaced[o], Append(pipe[o], f), id)
      BY <1>2, <1>7, <3>1, <3>2, <3>3, OrderAsked, Zenon
    <3> QED
      BY <1>4, <2>3, <3>4, Zenon DEF o
  <2>4. CASE Owner(id) = o
    <3>1. OrderOk(demux[o].rx[id], pipe[o], surfaced[e], pipe[e], id)
      BY <1>2, <2>1, <2>4, Zenon
    <3>2. ~ OnStream(f, id)
      BY <1>2, <2>4, Zenon DEF OnStream
    <3>3. OrderOk(demux[o].rx[id], Append(pipe[o], f), surfaced[e], pipe[e], id)
      BY <1>2, <1>7, <3>1, <3>2, OrderOthers, Zenon
    <3> QED
      BY <1>2, <1>4, <2>4, <3>3, Zenon
  <2> QED
    BY <2>2, <2>3, <2>4
<1> QED
  BY <1>6, <1>9, <1>10, Zenon DEF MuxInv

\* StreamHandle::send, and a frame of another type.
LEMMA AskKeeps ==
    ASSUME MuxInv, NEW e \in MuxEnds, NEW id \in Ids, Ask_(e, id)
    PROVE  MuxInv'
<1> DEFINE b == [asker |-> e, on |-> id, n |-> asks + 1, answer |-> FALSE]
           f == EncodeMux(id, b)
<1>1. asks \in Nat /\ EndInv(demux[e], asks, e) /\ OtherEnd(e) # e
  BY EndsApart, Zenon DEF MuxInv, MuxTypes
<1>2. id \in Nat /\ id \in demux[e].streams
  BY StreamsAssumption DEF Ids, Ask_
<1>3. Owner(id) = e /\ id < demux[e].next /\ demux[e].since[id] \in Nat /\ demux[e].since[id] <= asks
  BY <1>1, <1>2 DEF EndInv
<1>4. b \in MuxBodies
  BY <1>1, <1>2 DEF MuxBodies
<1>5. f \in MuxFrames /\ f.mux /\ f.id = id /\ f.body = b
  BY <1>2, <1>4 DEF MuxFrames, EncodeMux
<1>6. b.on = id /\ b.asker = e /\ ~ b.answer /\ b.n = asks + 1
  OBVIOUS
<1>7. /\ pipe' = [pipe EXCEPT ![OtherEnd(e)] = Append(@, f)] /\ asks' = asks + 1
      /\ UNCHANGED <<demux, surfaced>>
  BY Zenon DEF Ask_
<1>8. demux[e].since[id] < asks + 1 /\ asks + 1 <= asks + 1
  BY <1>1, <1>3
<1> HIDE DEF b, f
<1>9. FrameOk(demux, asks + 1, OtherEnd(e), f)
  BY <1>1, <1>3, <1>5, <1>6, <1>8, Zenon DEF FrameOk
<1> QED
  BY <1>3, <1>5, <1>6, <1>7, <1>9, SendKeeps, Zenon

\* A frame of another type.
LEMMA PlainKeeps ==
    ASSUME MuxInv, NEW e \in MuxEnds, Plain(e)
    PROVE  MuxInv'
<1> DEFINE b == [asker |-> e, on |-> 0, n |-> asks + 1, answer |-> TRUE]
           f == [mux |-> FALSE, id |-> 0, body |-> b]
<1>1. asks \in Nat
  BY Zenon DEF MuxInv, MuxTypes
<1>2. b \in MuxBodies
  BY <1>1 DEF MuxBodies
<1>3. f \in MuxFrames /\ ~ f.mux /\ f.body = b /\ b.answer
  BY <1>2 DEF MuxFrames
<1>4. /\ pipe' = [pipe EXCEPT ![OtherEnd(e)] = Append(@, f)] /\ asks' = asks + 1
      /\ UNCHANGED <<demux, surfaced>>
  BY Zenon DEF Plain
<1> HIDE DEF b, f
<1>5. FrameOk(demux, asks + 1, OtherEnd(e), f)
  BY <1>3, Zenon DEF FrameOk
<1> QED
  BY <1>3, <1>4, <1>5, SendKeeps, Zenon

\* A channel of a stream of e holds other bodies, and nothing else of a demultiplexer changes.
Rechannels(e, id, bs) == demux' = [demux EXCEPT ![e].rx[id] = bs]
\* What then holds of the two ends.
Rechannelled(e, id, bs) ==
    /\ \A x \in MuxEnds : EndInv(demux'[x], asks, x)
    /\ DOMAIN demux' = MuxEnds /\ Later(demux, demux')
    /\ \A x \in MuxEnds, i \in Ids : BodiesOk(demux'[x].since[i], asks, x, i, demux'[x].rx[i])
    /\ demux'[e].rx[id] = bs
    /\ \A i \in Ids : i # id => demux'[Owner(i)].rx[i] = demux[Owner(i)].rx[i]

\* A body of its stream is appended to a channel, or its first one is read.
LEMMA ChannelKeeps ==
    ASSUME MuxInv, NEW e \in MuxEnds, NEW id \in Ids, NEW bs \in Seq(MuxBodies), Owner(id) = e,
           Rechannels(e, id, bs), BodiesOk(demux[e].since[id], asks, e, id, bs)
    PROVE  Rechannelled(e, id, bs)
<1>1. /\ asks \in Nat /\ DOMAIN demux = MuxEnds /\ \A x \in MuxEnds : EndInv(demux[x], asks, x)
      /\ pipe \in [MuxEnds -> Seq(MuxFrames)] /\ surfaced \in [MuxEnds -> Seq(MuxFrames)]
  BY Zenon DEF MuxInv, MuxTypes
<1>2. EndInv(demux[e], asks, e)
  BY <1>1, Zenon
<1>3. /\ DOMAIN demux' = MuxEnds /\ demux'[e] = [demux[e] EXCEPT !.rx[id] = bs]
      /\ \A x \in MuxEnds : x # e => demux'[x] = demux[x]
  BY <1>1 DEF Rechannels
<1>4. /\ DOMAIN demux'[e] = {"streams", "next", "since", "rx"}
      /\ demux'[e].next = demux[e].next /\ demux'[e].streams = demux[e].streams
      /\ demux'[e].since = demux[e].since /\ demux'[e].rx = [demux[e].rx EXCEPT ![id] = bs]
  BY <1>2, <1>3 DEF EndInv
<1>5. demux[e].rx \in [Ids -> Seq(MuxBodies)]
  BY <1>2, Zenon DEF EndInv
<1>6. /\ demux'[e].rx \in [Ids -> Seq(MuxBodies)] /\ demux'[e].rx[id] = bs
      /\ \A i \in Ids : i # id => demux'[e].rx[i] = demux[e].rx[i]
  BY <1>4, <1>5
<1>7. EndInv(demux'[e], asks, e)
  BY <1>2, <1>4, <1>6, Zenon DEF EndInv
<1>8. \A x \in MuxEnds : EndInv(demux'[x], asks, x)
  BY <1>1, <1>3, <1>7, Zenon
<1>9. \A x \in MuxEnds : demux'[x].next = demux[x].next /\ demux'[x].since = demux[x].since
  BY <1>3, <1>4, Zenon
<1>10. Later(demux, demux')
  BY <1>1, <1>9 DEF Later, EndInv
<1>11. ASSUME NEW x \in MuxEnds, NEW i \in Ids
       PROVE  BodiesOk(demux'[x].since[i], asks, x, i, demux'[x].rx[i])
  <2>1. BodiesOk(demux[x].since[i], asks, x, i, demux[x].rx[i])
    BY Zenon DEF MuxInv, FramesInv
  <2>2. CASE x # e
    BY <1>3, <2>1, <2>2, Zenon
  <2>3. CASE x = e /\ i # id
    BY <1>4, <1>6, <2>1, <2>3, Zenon
  <2>4. CASE x = e /\ i = id
    BY <1>4, <1>6, <2>4, Zenon
  <2> QED
    BY <2>2, <2>3, <2>4
<1>12. \A i \in Ids : i # id => demux'[Owner(i)].rx[i] = demux[Owner(i)].rx[i]
  BY <1>3, <1>6, EndsApart, Zenon
<1> QED
  BY <1>3, <1>6, <1>8, <1>10, <1>11, <1>12, Zenon DEF Rechannelled

\* route_inbound: an answer to its stream, anything else to control.
LEMMA RouteInboundKeeps ==
    ASSUME MuxInv, NEW e \in MuxEnds, RouteInbound(e)
    PROVE  MuxInv'
<1> DEFINE f == Head(pipe[e])
           o == OtherEnd(e)
<1>1. /\ asks \in Nat /\ DOMAIN demux = MuxEnds /\ \A x \in MuxEnds : EndInv(demux[x], asks, x)
      /\ pipe \in [MuxEnds -> Seq(MuxFrames)] /\ surfaced \in [MuxEnds -> Seq(MuxFrames)]
  BY Zenon DEF MuxInv, MuxTypes
<1>2. ASSUME NEW x \in MuxEnds
      PROVE  /\ FramesOk(demux, asks, x, pipe[x]) /\ FramesOk(demux, asks, x, surfaced[x])
             /\ pipe[x] \in Seq(MuxFrames) /\ surfaced[x] \in Seq(MuxFrames)
  BY <1>1, Zenon DEF MuxInv, FramesInv
<1>3. o \in MuxEnds /\ o # e /\ OtherEnd(o) = e /\ \A x \in MuxEnds : x = e \/ x = o
  BY EndsApart, Zenon
<1>4. /\ pipe[e] # <<>> /\ pipe' = [pipe EXCEPT ![e] = Tail(@)] /\ asks' = asks
  BY Zenon DEF RouteInbound
<1>5. /\ f \in MuxFrames /\ FrameOk(demux, asks, e, f) /\ FramesOk(demux, asks, e, Tail(pipe[e]))
      /\ Tail(pipe[e]) \in Seq(MuxFrames)
  BY <1>2, <1>4, FramesJoin, TailNums, Zenon
<1>6. /\ pipe'[e] = Tail(pipe[e]) /\ \A x \in MuxEnds : x # e => pipe'[x] = pipe[x]
      /\ pipe' \in [MuxEnds -> Seq(MuxFrames)]
  BY <1>1, <1>4, <1>5
<1>7. ASSUME NEW id \in Ids
      PROVE  OrderOk(demux[Owner(id)].rx[id], pipe[Owner(id)],
                     surfaced[OtherEnd(Owner(id))], pipe[OtherEnd(Owner(id))], id)
  BY Zenon DEF MuxInv, OrderInv
<1>8. ASSUME NEW id \in Ids
      PROVE  Owner(id) = e \/ Owner(id) = o
  BY <1>3, EndsApart, Zenon
<1> HIDE DEF o
<1>9. CASE f.mux /\ f.id \in demux[e].streams
  <2> DEFINE bs == Append(demux[e].rx[f.id], f.body)
  <2>1. demux' = [demux EXCEPT ![e].rx[f.id] = Append(@, f.body)] /\ surfaced' = surfaced
    BY <1>9, Zenon DEF RouteInbound
  <2>2. f.id \in Ids /\ Owner(f.id) = e /\ demux[e].rx[f.id] \in Seq(MuxBodies)
    <3>1. EndInv(demux[e], asks, e)
      BY <1>1, Zenon
    <3>2. /\ demux[e].streams \in SUBSET Ids /\ \A i \in demux[e].streams : Owner(i) = e
          /\ demux[e].rx \in [Ids -> Seq(MuxBodies)]
      BY <3>1, Zenon DEF EndInv
    <3> QED
      BY <1>9, <3>2
  <2>3. f.body \in MuxBodies
    BY <1>5 DEF MuxFrames
  <2>4. BodyOk(demux[e].since[f.id], asks, e, f.id, f.body)
    BY <1>5, <1>9, <2>2, Zenon DEF FrameOk, BodyOk
  <2>5. BodiesOk(demux[e].since[f.id], asks, e, f.id, demux[e].rx[f.id])
    BY <2>2, Zenon DEF MuxInv, FramesInv
  <2>6. bs \in Seq(MuxBodies) /\ BodiesOk(demux[e].since[f.id], asks, e, f.id, bs)
    <3>1. bs \in Seq(MuxBodies)
      BY <2>2, <2>3, SMTT(40)
    <3> QED
      BY <1>1, <2>2, <2>3, <2>4, <2>5, <3>1, BodiesJoin, Zenon
  <2>7. Rechannels(e, f.id, bs)
    BY <2>1 DEF Rechannels
  <2> HIDE DEF bs
  <2>8. /\ \A x \in MuxEnds : EndInv(demux'[x], asks, x)
        /\ DOMAIN demux' = MuxEnds /\ Later(demux, demux')
        /\ \A x \in MuxEnds, i \in Ids : BodiesOk(demux'[x].since[i], asks, x, i, demux'[x].rx[i])
        /\ demux'[e].rx[f.id] = bs
        /\ \A i \in Ids : i # f.id => demux'[Owner(i)].rx[i] = demux[Owner(i)].rx[i]
    <3> HIDE DEF f
    <3>1. Rechannelled(e, f.id, bs)
      BY <2>2, <2>6, <2>7, ChannelKeeps, Zenon
    <3> QED
      BY <3>1, Zenon DEF Rechannelled
  <2>9. asks <= asks
    BY <1>1
  <2>10. ASSUME NEW x \in MuxEnds
         PROVE  FramesOk(demux', asks, x, pipe'[x]) /\ FramesOk(demux', asks, x, surfaced[x])
    <3>1. FramesOk(demux, asks, x, pipe'[x]) /\ pipe'[x] \in Seq(MuxFrames)
      BY <1>2, <1>5, <1>6, Zenon
    <3> QED
      BY <1>1, <1>2, <2>8, <2>9, <3>1, FramesLater, Zenon
  <2>11. ASSUME NEW id \in Ids
         PROVE  OrderOk(demux'[Owner(id)].rx[id], pipe'[Owner(id)],
                        surfaced[OtherEnd(Owner(id))], pipe'[OtherEnd(Owner(id))], id)
    <3>1. CASE id = f.id
      <4>1. OnStream(f, id)
        BY <1>9, <3>1, Zenon DEF OnStream
      <4>2. OrderOk(demux[e].rx[id], pipe[e], surfaced[o], pipe[o], id)
        BY <1>7, <2>2, <3>1, Zenon DEF o
      <4>3. OrderOk(bs, Tail(pipe[e]), surfaced[o], pipe[o], id)
        BY <1>2, <1>4, <2>2, <3>1, <4>1, <4>2, OrderDelivered, Zenon DEF bs
      <4> QED
        BY <1>3, <1>6, <2>2, <2>8, <3>1, <4>3, Zenon DEF o
    <3>2. CASE id # f.id /\ Owner(id) = e
      <4>2. OrderOk(demux[e].rx[id], pipe[e], surfaced[o], pipe[o], id)
        BY <1>7, <3>2, Zenon DEF o
      <4>3. OrderOk(demux[e].rx[id], Tail(pipe[e]), surfaced[o], pipe[o], id)
        BY <1>2, <1>3, <1>4, <4>2, OrderTaken, Zenon
      <4> QED
        BY <1>3, <1>6, <2>8, <3>2, <4>3, Zenon DEF o
    <3>3. CASE id # f.id /\ Owner(id) = o
      <4>1. ~ OnStream(f, id)
        BY <3>3, Zenon DEF OnStream
      <4>2. OrderOk(demux[o].rx[id], pipe[o], surfaced[e], pipe[e], id)
        BY <1>3, <1>7, <3>3, Zenon
      <4>3. OrderOk(demux[o].rx[id], pipe[o], surfaced[e], Tail(pipe[e]), id)
        <5>1. Nums(Tail(pipe[e]), id) \subseteq Nums(pipe[e], id)
              /\ Rising(Tail(pipe[e]), id)
          BY <1>2, <1>4, <4>2, TailNums, Zenon DEF OrderOk
        <5> QED
          BY <4>2, <5>1, Zenon DEF OrderOk, AllBelow
      <4> QED
        BY <1>3, <1>6, <2>8, <3>3, <4>3, Zenon
    <3> QED
      BY <1>3, <1>8, <2>2, <3>1, <3>2, <3>3, Zenon
  <2>12. MuxTypes'
    BY <1>1, <1>4, <1>6, <2>1, <2>8, Zenon DEF MuxTypes
  <2>13. FramesInv'
    BY <1>4, <2>1, <2>8, <2>10, ZenonT(40) DEF FramesInv
  <2>14. OrderInv'
    BY <2>1, <2>11, Zenon DEF OrderInv
  <2> QED
    BY <2>12, <2>13, <2>14, Zenon DEF MuxInv
<1>10. CASE ~ (f.mux /\ f.id \in demux[e].streams)
  <2>1. surfaced' = [surfaced EXCEPT ![e] = Append(@, f)] /\ demux' = demux
    BY <1>10, Zenon DEF RouteInbound
  <2>2. Append(surfaced[e], f) \in Seq(MuxFrames)
    <3> HIDE DEF f
    <3> QED
      BY <1>2, <1>5
  <2>3. /\ surfaced'[e] = Append(surfaced[e], f) /\ (\A x \in MuxEnds : x # e => surfaced'[x] = surfaced[x])
        /\ surfaced' \in [MuxEnds -> Seq(MuxFrames)]
    <3> HIDE DEF f
    <3> QED
      BY <1>1, <2>1, <2>2
  <2>4. FramesOk(demux, asks, e, Append(surfaced[e], f))
    <3> HIDE DEF f
    <3> QED
      BY <1>2, <1>5, FramesJoin, Zenon
  <2>5. MuxTypes'
    BY <1>1, <1>4, <1>6, <2>1, <2>3, Zenon DEF MuxTypes
  <2>6. FramesInv'
    <3>1. ASSUME NEW x \in MuxEnds
          PROVE  FramesOk(demux, asks, x, pipe'[x]) /\ FramesOk(demux, asks, x, surfaced'[x])
      BY <1>2, <1>5, <1>6, <2>3, <2>4, Zenon
    <3>2. ASSUME NEW x \in MuxEnds, NEW i \in Ids
          PROVE  BodiesOk(demux[x].since[i], asks, x, i, demux[x].rx[i])
      BY Zenon DEF MuxInv, FramesInv
    <3> QED
      BY <1>4, <2>1, <3>1, <3>2, Zenon DEF FramesInv
  <2>7. ASSUME NEW id \in Ids
        PROVE  OrderOk(demux[Owner(id)].rx[id], pipe'[Owner(id)],
                       surfaced'[OtherEnd(Owner(id))], pipe'[OtherEnd(Owner(id))], id)
    <3>1. CASE Owner(id) = e
      <4>2. OrderOk(demux[e].rx[id], pipe[e], surfaced[o], pipe[o], id)
        BY <1>7, <3>1, Zenon DEF o
      <4>3. OrderOk(demux[e].rx[id], Tail(pipe[e]), surfaced[o], pipe[o], id)
        BY <1>2, <1>3, <1>4, <4>2, OrderTaken, Zenon
      <4> QED
        BY <1>3, <1>6, <2>3, <3>1, <4>3, Zenon DEF o
    <3>2. CASE Owner(id) = o
      <4>2. OrderOk(demux[o].rx[id], pipe[o], surfaced[e], pipe[e], id)
        BY <1>3, <1>7, <3>2, Zenon
      <4>3. OrderOk(demux[o].rx[id], pipe[o], Append(surfaced[e], f), Tail(pipe[e]), id)
        BY <1>2, <1>4, <4>2, OrderSurfaced, Zenon
      <4> QED
        BY <1>3, <1>6, <2>3, <3>2, <4>3, Zenon
    <3> QED
      BY <1>8, <3>1, <3>2, Zenon
  <2>8. OrderInv'
    BY <2>1, <2>7, Zenon DEF OrderInv
  <2> QED
    BY <2>5, <2>6, <2>8, Zenon DEF MuxInv
<1> QED
  BY <1>9, <1>10

\* The control handler answers a request and passes over a late answer.
LEMMA ControlAnswersKeeps ==
    ASSUME MuxInv, NEW e \in MuxEnds, ControlAnswers(e)
    PROVE  MuxInv'
<1> DEFINE f == Head(surfaced[e])
           o == OtherEnd(e)
           b == [f.body EXCEPT !.answer = TRUE]
           g == EncodeMux(f.id, b)
<1>1. /\ asks \in Nat /\ DOMAIN demux = MuxEnds /\ \A x \in MuxEnds : EndInv(demux[x], asks, x)
      /\ pipe \in [MuxEnds -> Seq(MuxFrames)] /\ surfaced \in [MuxEnds -> Seq(MuxFrames)]
  BY Zenon DEF MuxInv, MuxTypes
<1>2. ASSUME NEW x \in MuxEnds
      PROVE  /\ FramesOk(demux, asks, x, pipe[x]) /\ FramesOk(demux, asks, x, surfaced[x])
             /\ pipe[x] \in Seq(MuxFrames) /\ surfaced[x] \in Seq(MuxFrames)
  BY <1>1, Zenon DEF MuxInv, FramesInv
<1>3. o \in MuxEnds /\ o # e /\ OtherEnd(o) = e /\ \A x \in MuxEnds : x = e \/ x = o
  BY EndsApart, Zenon
<1>4. /\ surfaced[e] # <<>> /\ surfaced' = [surfaced EXCEPT ![e] = Tail(@)]
      /\ demux' = demux /\ asks' = asks
      /\ f.body.answer => pipe' = pipe
      /\ ~ f.body.answer => pipe' = [pipe EXCEPT ![o] = Append(@, g)]
  BY Zenon DEF ControlAnswers
<1>5. /\ f \in MuxFrames /\ FrameOk(demux, asks, e, f)
      /\ FramesOk(demux, asks, e, Tail(surfaced[e])) /\ Tail(surfaced[e]) \in Seq(MuxFrames)
  BY <1>2, <1>4, FramesJoin, TailNums, Zenon
<1> HIDE DEF f, o
<1>6. /\ surfaced'[e] = Tail(surfaced[e]) /\ (\A x \in MuxEnds : x # e => surfaced'[x] = surfaced[x])
      /\ surfaced' \in [MuxEnds -> Seq(MuxFrames)]
  BY <1>1, <1>4, <1>5
<1>7. ASSUME NEW id \in Ids
      PROVE  OrderOk(demux[Owner(id)].rx[id], pipe[Owner(id)],
                     surfaced[OtherEnd(Owner(id))], pipe[OtherEnd(Owner(id))], id)
  BY Zenon DEF MuxInv, OrderInv
<1>8. ASSUME NEW id \in Ids
      PROVE  Owner(id) = e \/ Owner(id) = o
  BY <1>3, EndsApart, Zenon
<1>9. ASSUME NEW id \in Ids, Owner(id) = e
      PROVE  OrderOk(demux[e].rx[id], pipe[e], surfaced[o], pipe[o], id)
  BY <1>7, <1>9, Zenon DEF o
<1>10. ASSUME NEW id \in Ids, Owner(id) = o
       PROVE  OrderOk(demux[o].rx[id], pipe[o], surfaced[e], pipe[e], id)
  BY <1>3, <1>7, <1>10, Zenon
<1>11. /\ pipe' \in [MuxEnds -> Seq(MuxFrames)]
       /\ \A x \in MuxEnds : FramesOk(demux, asks, x, pipe'[x])
       /\ \A id \in Ids :
             /\ Owner(id) = e => OrderOk(demux[e].rx[id], pipe'[e], surfaced[o], pipe'[o], id)
             /\ Owner(id) = o
                  => OrderOk(demux[o].rx[id], pipe'[o], Tail(surfaced[e]), pipe'[e], id)
  <2>1. CASE f.body.answer
    <3>1. ASSUME NEW id \in Ids, Owner(id) = o
          PROVE  OrderOk(demux[o].rx[id], pipe[o], Tail(surfaced[e]), pipe[e], id)
      BY <1>2, <1>3, <1>4, <1>10, <3>1, OrderTaken, Zenon
    <3> QED
      BY <1>1, <1>2, <1>4, <1>9, <2>1, <3>1, Zenon
  <2>2. CASE ~ f.body.answer
    <3>1. /\ f.mux /\ Owner(f.id) # e /\ f.id \in Ids /\ f.body.asker = Owner(f.id)
          /\ f.id < demux[Owner(f.id)].next
          /\ demux[Owner(f.id)].since[f.id] < f.body.n /\ f.body.n <= asks
          /\ f.body.on = f.id
      BY <1>5, <2>2, Zenon DEF FrameOk
    <3>2. Owner(f.id) = o
      BY <1>8, <3>1, Zenon
    <3>3. f.id \in Nat /\ f.body \in MuxBodies
      BY <1>5 DEF MuxFrames
    <3>4. /\ b \in MuxBodies /\ b.answer /\ b.on = f.body.on /\ b.n = f.body.n
          /\ b.asker = f.body.asker
      BY <3>3, Zenon DEF MuxBodies
    <3> HIDE DEF b
    <3>5. g \in MuxFrames /\ g.mux /\ g.id = f.id /\ g.body = b
      BY <3>3, <3>4 DEF EncodeMux, MuxFrames
    <3> HIDE DEF g
    <3>6. FrameOk(demux, asks, o, g)
      BY <3>1, <3>2, <3>4, <3>5, Zenon DEF FrameOk
    <3>7. Append(pipe[o], g) \in Seq(MuxFrames)
      BY <1>2, <1>3, <3>5
    <3>8. /\ pipe'[o] = Append(pipe[o], g) /\ pipe'[e] = pipe[e]
          /\ pipe' \in [MuxEnds -> Seq(MuxFrames)]
      BY <1>1, <1>3, <1>4, <2>2, <3>7, Zenon
    <3>9. FramesOk(demux, asks, o, Append(pipe[o], g))
      BY <1>2, <1>3, <3>5, <3>6, FramesJoin, Zenon
    <3>10. ASSUME NEW id \in Ids, Owner(id) = e
           PROVE  OrderOk(demux[e].rx[id], pipe[e], surfaced[o], Append(pipe[o], g), id)
      <4>1. ~ OnStream(g, id)
        BY <1>3, <3>2, <3>5, <3>10, Zenon DEF OnStream
      <4> QED
        BY <1>2, <1>3, <1>9, <3>5, <3>10, <4>1, OrderAsked, Zenon
    <3>11. ASSUME NEW id \in Ids, Owner(id) = o
           PROVE  OrderOk(demux[o].rx[id], Append(pipe[o], g), Tail(surfaced[e]), pipe[e], id)
      BY <1>2, <1>3, <1>4, <1>10, <3>1, <3>4, <3>5, <3>11, OrderAnswered, Zenon DEF f
    <3> QED
      BY <1>2, <1>3, <3>8, <3>9, <3>10, <3>11, Zenon
  <2> QED
    BY <2>1, <2>2
<1>12. MuxTypes'
  BY <1>1, <1>4, <1>6, <1>11, Zenon DEF MuxTypes
<1>13. FramesInv'
  <2>1. ASSUME NEW x \in MuxEnds
        PROVE  FramesOk(demux, asks, x, surfaced'[x])
    BY <1>2, <1>5, <1>6, Zenon
  <2>2. ASSUME NEW x \in MuxEnds, NEW i \in Ids
        PROVE  BodiesOk(demux[x].since[i], asks, x, i, demux[x].rx[i])
    BY Zenon DEF MuxInv, FramesInv
  <2> QED
    BY <1>4, <1>11, <2>1, <2>2, Zenon DEF FramesInv
<1>14. OrderInv'
  <2> SUFFICES ASSUME NEW id \in Ids
               PROVE  OrderOk(demux[Owner(id)].rx[id], pipe'[Owner(id)],
                              surfaced'[OtherEnd(Owner(id))], pipe'[OtherEnd(Owner(id))], id)
    BY <1>4, Zenon DEF OrderInv
  <2>1. CASE Owner(id) = e
    BY <1>3, <1>6, <1>11, <2>1, Zenon DEF o
  <2>2. CASE Owner(id) = o
    BY <1>3, <1>6, <1>11, <2>2, Zenon
  <2> QED
    BY <1>8, <2>1, <2>2, Zenon
<1> QED
  BY <1>12, <1>13, <1>14, Zenon DEF MuxInv

\* StreamHandle::recv.
LEMMA RecvKeeps ==
    ASSUME MuxInv, NEW e \in MuxEnds, NEW id \in Ids, Recv(e, id)
    PROVE  MuxInv'
<1> DEFINE bs == demux[e].rx[id]
<1>1. /\ asks \in Nat /\ DOMAIN demux = MuxEnds /\ \A x \in MuxEnds : EndInv(demux[x], asks, x)
      /\ pipe \in [MuxEnds -> Seq(MuxFrames)] /\ surfaced \in [MuxEnds -> Seq(MuxFrames)]
  BY Zenon DEF MuxInv, MuxTypes
<1>2. ASSUME NEW x \in MuxEnds
      PROVE  /\ FramesOk(demux, asks, x, pipe[x]) /\ FramesOk(demux, asks, x, surfaced[x])
             /\ pipe[x] \in Seq(MuxFrames) /\ surfaced[x] \in Seq(MuxFrames)
  BY <1>1, Zenon DEF MuxInv, FramesInv
<1>3. /\ bs # <<>> /\ Rechannels(e, id, Tail(bs))
      /\ pipe' = pipe /\ surfaced' = surfaced /\ asks' = asks
  BY DEF Recv, Rechannels
<1>4. bs \in Seq(MuxBodies) /\ Owner(id) = e
  <2>1. EndInv(demux[e], asks, e)
    BY <1>1, Zenon
  <2>2. demux[e].rx \in [Ids -> Seq(MuxBodies)] /\ (Owner(id) # e => bs = <<>>)
    BY <2>1, Zenon DEF EndInv
  <2> QED
    BY <1>3, <2>2
<1>5. BodiesOk(demux[e].since[id], asks, e, id, bs)
  BY Zenon DEF MuxInv, FramesInv
<1> HIDE DEF bs
<1>6. Tail(bs) \in Seq(MuxBodies) /\ BodiesOk(demux[e].since[id], asks, e, id, Tail(bs))
  BY <1>1, <1>3, <1>4, <1>5, HandedRead, BodiesJoin, Zenon
<1>7. /\ \A x \in MuxEnds : EndInv(demux'[x], asks, x)
      /\ DOMAIN demux' = MuxEnds /\ Later(demux, demux')
      /\ \A x \in MuxEnds, i \in Ids : BodiesOk(demux'[x].since[i], asks, x, i, demux'[x].rx[i])
      /\ demux'[e].rx[id] = Tail(bs)
      /\ \A i \in Ids : i # id => demux'[Owner(i)].rx[i] = demux[Owner(i)].rx[i]
  <2>1. Rechannelled(e, id, Tail(bs))
    BY <1>3, <1>4, <1>6, ChannelKeeps, Zenon
  <2> QED
    BY <2>1, Zenon DEF Rechannelled
<1>8. asks <= asks
  BY <1>1
<1>9. ASSUME NEW x \in MuxEnds
      PROVE  FramesOk(demux', asks, x, pipe[x]) /\ FramesOk(demux', asks, x, surfaced[x])
  BY <1>1, <1>2, <1>7, <1>8, FramesLater, Zenon
<1>10. ASSUME NEW i \in Ids
       PROVE  OrderOk(demux'[Owner(i)].rx[i], pipe[Owner(i)],
                      surfaced[OtherEnd(Owner(i))], pipe[OtherEnd(Owner(i))], i)
  <2>1. OrderOk(demux[Owner(i)].rx[i], pipe[Owner(i)],
                surfaced[OtherEnd(Owner(i))], pipe[OtherEnd(Owner(i))], i)
    BY Zenon DEF MuxInv, OrderInv
  <2>2. CASE i # id
    BY <1>7, <2>1, <2>2, Zenon
  <2>3. CASE i = id
    <3>1. OrderOk(bs, pipe[e], surfaced[OtherEnd(e)], pipe[OtherEnd(e)], id)
      BY <1>4, <2>1, <2>3, Zenon DEF bs
    <3>2. OrderOk(Tail(bs), pipe[e], surfaced[OtherEnd(e)], pipe[OtherEnd(e)], id)
      BY <1>3, <1>4, <3>1, OrderRead, Zenon
    <3> QED
      BY <1>4, <1>7, <2>3, <3>2, Zenon
  <2> QED
    BY <2>2, <2>3
<1>11. MuxTypes'
  BY <1>1, <1>3, <1>7, Zenon DEF MuxTypes
<1>12. FramesInv'
  BY <1>3, <1>7, <1>9, Zenon DEF FramesInv
<1>13. OrderInv'
  BY <1>3, <1>10, Zenon DEF OrderInv
<1> QED
  BY <1>11, <1>12, <1>13, Zenon DEF MuxInv

\* A stream is closed: its number stays used.
LEMMA CloseStreamKeeps ==
    ASSUME MuxInv, NEW e \in MuxEnds, NEW id \in Ids, CloseStream(e, id)
    PROVE  MuxInv'
<1>1. /\ asks \in Nat /\ DOMAIN demux = MuxEnds /\ \A x \in MuxEnds : EndInv(demux[x], asks, x)
      /\ pipe \in [MuxEnds -> Seq(MuxFrames)] /\ surfaced \in [MuxEnds -> Seq(MuxFrames)]
  BY Zenon DEF MuxInv, MuxTypes
<1>2. ASSUME NEW x \in MuxEnds
      PROVE  /\ FramesOk(demux, asks, x, pipe[x]) /\ FramesOk(demux, asks, x, surfaced[x])
             /\ pipe[x] \in Seq(MuxFrames) /\ surfaced[x] \in Seq(MuxFrames)
  BY <1>1, Zenon DEF MuxInv, FramesInv
<1>3. /\ DOMAIN demux' = MuxEnds /\ demux'[e] = [demux[e] EXCEPT !.streams = @ \ {id}]
      /\ (\A x \in MuxEnds : x # e => demux'[x] = demux[x])
      /\ pipe' = pipe /\ surfaced' = surfaced /\ asks' = asks
  BY <1>1 DEF CloseStream
<1>4. EndInv(demux[e], asks, e)
  BY <1>1, Zenon
<1>5. /\ DOMAIN demux'[e] = {"streams", "next", "since", "rx"}
      /\ demux'[e].next = demux[e].next /\ demux'[e].streams = demux[e].streams \ {id}
      /\ demux'[e].since = demux[e].since /\ demux'[e].rx = demux[e].rx
  BY <1>3, <1>4 DEF EndInv
<1>6. /\ demux'[e].streams \in SUBSET Ids
      /\ \A i \in demux'[e].streams : Owner(i) = e /\ i < demux[e].next
  BY <1>4, <1>5 DEF EndInv
<1>7. EndInv(demux'[e], asks, e)
  BY <1>4, <1>5, <1>6, Zenon DEF EndInv
<1>8. \A x \in MuxEnds : EndInv(demux'[x], asks, x)
  BY <1>1, <1>3, <1>7, Zenon
<1>9. \A x \in MuxEnds : /\ demux'[x].next = demux[x].next /\ demux'[x].since = demux[x].since
                         /\ demux'[x].rx = demux[x].rx
  BY <1>3, <1>5, Zenon
<1>10. Later(demux, demux')
  BY <1>1, <1>9, SMTT(40) DEF Later, EndInv
<1>11. asks <= asks
  BY <1>1
<1>12. ASSUME NEW x \in MuxEnds
       PROVE  FramesOk(demux', asks, x, pipe[x]) /\ FramesOk(demux', asks, x, surfaced[x])
  BY <1>1, <1>2, <1>10, <1>11, FramesLater, Zenon
<1>13. MuxTypes'
  BY <1>1, <1>3, <1>8, Zenon DEF MuxTypes
<1>14. FramesInv'
  BY <1>3, <1>9, <1>12, Zenon DEF FramesInv, MuxInv
<1>15. OrderInv'
  BY <1>3, <1>9, EndsApart, Zenon DEF OrderInv, MuxInv
<1> QED
  BY <1>13, <1>14, <1>15, Zenon DEF MuxInv

\* Whatever the two ends open, send, close and read, and however late the other end answers,
\* every stream handle receives the answers to its own questions, in the order they were
\* asked (AnswersFindTheirStream), for any number of streams.
THEOREM StreamsGetTheirAnswers == MuxSpec => []AnswersFindTheirStream
<1>1. ASSUME MuxInv, MuxNext
      PROVE  MuxInv'
  <2>1. PICK e \in MuxEnds :
           \/ OpenStream(e) \/ Plain(e) \/ RouteInbound(e) \/ ControlAnswers(e)
           \/ \E id \in Ids : Ask_(e, id) \/ Recv(e, id) \/ CloseStream(e, id)
    BY <1>1, Zenon DEF MuxNext
  <2> QED
    BY <1>1, <2>1, OpenStreamKeeps, PlainKeeps, RouteInboundKeeps, ControlAnswersKeeps,
       AskKeeps, RecvKeeps, CloseStreamKeeps, Zenon
<1>2. ASSUME MuxInv, UNCHANGED muxVars
      PROVE  MuxInv'
  <2>1. demux' = demux /\ pipe' = pipe /\ surfaced' = surfaced /\ asks' = asks
    BY <1>2 DEF muxVars
  <2> QED
    BY <1>2, <2>1, Zenon DEF MuxInv, MuxTypes, FramesInv, OrderInv
<1>3. MuxInv => AnswersFindTheirStream
  <2> SUFFICES ASSUME MuxInv, NEW e \in MuxEnds, NEW id \in Ids
               PROVE  LET rx == demux[e].rx[id]
                      IN  /\ \A i \in DOMAIN rx : /\ rx[i].answer /\ rx[i].asker = e
                                                  /\ rx[i].on = id /\ rx[i].n > demux[e].since[id]
                          /\ \A i, j \in DOMAIN rx : i < j => rx[i].n < rx[j].n
    BY DEF AnswersFindTheirStream
  <2> DEFINE rx == demux[e].rx[id]
  <2>1. EndInv(demux[e], asks, e)
    BY Zenon DEF MuxInv, MuxTypes
  <2>2. /\ demux[e].rx \in [Ids -> Seq(MuxBodies)] /\ demux[e].since \in [Ids -> Nat]
        /\ (Owner(id) # e => rx = <<>>)
    BY <2>1, Zenon DEF EndInv
  <2>3. BodiesOk(demux[e].since[id], asks, e, id, rx)
    BY Zenon DEF MuxInv, FramesInv
  <2>4. Owner(id) = e => RisingHanded(rx)
    BY Zenon DEF MuxInv, OrderInv, OrderOk
  <2>5. rx \in Seq(MuxBodies) /\ DOMAIN rx = 1..Len(rx)
    BY <2>2
  <2>6. Owner(id) # e => RisingHanded(rx)
    BY <2>2 DEF RisingHanded
  <2> HIDE DEF rx
  <2>7. ASSUME NEW i \in DOMAIN rx
        PROVE  rx[i].answer /\ rx[i].asker = e /\ rx[i].on = id /\ rx[i].n > demux[e].since[id]
    <3>1. BodyOk(demux[e].since[id], asks, e, id, rx[i])
      BY <2>3, <2>5, Zenon DEF BodiesOk
    <3>2. rx[i] \in MuxBodies
      BY <2>5
    <3>3. rx[i].n \in Nat /\ demux[e].since[id] \in Nat
      BY <2>2, <3>2 DEF MuxBodies
    <3> QED
      BY <3>1, <3>3 DEF BodyOk
  <2>8. \A i, j \in DOMAIN rx : i < j => rx[i].n < rx[j].n
    BY <2>4, <2>5, <2>6, Zenon DEF RisingHanded
  <2> QED
    BY <2>7, <2>8, Zenon DEF rx
<1> QED
  BY MuxStarts, <1>1, <1>2, <1>3, PTL DEF MuxSpec

-----------------------------------------------------------------------------
(* The replay window. *)

\* What the bitmap and the position satisfy.
WindowInv ==
  /\ highest \in Nat /\ initialized \in BOOLEAN
  /\ bitmap \in [0..Words - 1 -> SUBSET Bits]
  /\ ~initialized => highest = 0 /\ bitmap = NoBits
  /\ \A o \in Nat : GetBit(bitmap, o) => o <= highest - Floor(highest)

\* What is assumed of the constants: the code's words have 64 bits and its sequence
\* numbers are u64.
WordsAssumed == WordBits \in Nat \ {0} /\ Seqs \subseteq Nat

-----------------------------------------------------------------------------
\* An offset into the bitmap is a word and a bit of it (offset / 64, offset % 64).
LEMMA OffsetSplits ==
  ASSUME WordsAssumed, NEW o \in Nat
  PROVE  /\ o \div WordBits \in Nat /\ o % WordBits \in Bits
         /\ o = WordBits * (o \div WordBits) + (o % WordBits)
BY SMT DEF WordsAssumed, Bits

\* The word and the bit of an offset are the only ones that make it up.
LEMMA OffsetUnique ==
  ASSUME WordsAssumed, NEW w \in Nat, NEW v \in Nat, NEW b \in Bits, NEW c \in Bits,
         WordBits * w + b = WordBits * v + c
  PROVE  w = v /\ b = c
<1>0. WordBits \in Nat \ {0} /\ b \in 0..WordBits - 1 /\ c \in 0..WordBits - 1
  BY DEF WordsAssumed, Bits
<1>1. w <= v
  <2> SUFFICES ASSUME w >= v + 1 PROVE FALSE BY SMT
  <2>1. WordBits * (w - v - 1) >= 0 BY <1>0, SMT
  <2>2. QED BY <2>1, <1>0, SMT
<1>2. v <= w
  <2> SUFFICES ASSUME v >= w + 1 PROVE FALSE BY SMT
  <2>1. WordBits * (v - w - 1) >= 0 BY <1>0, SMT
  <2>2. QED BY <2>1, <1>0, SMT
<1>3. QED BY <1>1, <1>2, <1>0, SMT

\* Made up from a word and a bit, an offset splits into them again.
LEMMA OffsetJoins ==
  ASSUME WordsAssumed, NEW w \in Nat, NEW b \in Bits
  PROVE  /\ WordBits * w + b \in Nat
         /\ (WordBits * w + b) \div WordBits = w /\ (WordBits * w + b) % WordBits = b
<1> DEFINE o == WordBits * w + b
<1>1. o \in Nat BY SMT DEF WordsAssumed, Bits
<1>2. QED BY <1>1, OffsetSplits, OffsetUnique

\* The bitmap has a word for every offset inside the window (div_ceil).
LEMMA WordsCoverWindow ==
  ASSUME WordsAssumed
  PROVE  /\ Words \in Nat \ {0}
         /\ \A o \in 0..Window - 1 : o \div WordBits < Words
<1>0. WordBits \in Nat \ {0} /\ Window \in Nat \ {0} BY WindowAssumption DEF WordsAssumed
<1> DEFINE t == Window + WordBits - 1
<1>1. t \in Nat BY <1>0
<1>2. /\ t \div WordBits \in Nat /\ t % WordBits \in 0..WordBits - 1
      /\ t = WordBits * (t \div WordBits) + (t % WordBits)
  BY <1>1, OffsetSplits DEF Bits
<1>3. Words = t \div WordBits BY DEF Words
<1>4. WordBits * Words >= Window BY <1>0, <1>2, <1>3, SMT
<1>5. Words # 0 BY <1>0, <1>2, <1>3, <1>4, SMT
<1>6. ASSUME NEW o \in 0..Window - 1 PROVE o \div WordBits < Words
  <2>1. /\ o \div WordBits \in Nat /\ o % WordBits \in 0..WordBits - 1
        /\ o = WordBits * (o \div WordBits) + (o % WordBits)
    BY OffsetSplits, <1>0 DEF Bits
  <2> DEFINE w == o \div WordBits
  <2> SUFFICES ASSUME w >= Words PROVE FALSE BY <2>1, <1>2, <1>3, SMT
  <2>2. WordBits * (w - Words) >= 0 BY <2>1, <1>0, <1>2, <1>3, SMT
  <2>3. WordBits * w >= Window BY <2>2, <2>1, <1>0, <1>2, <1>3, <1>4, SMT
  <2>4. QED BY <2>3, <2>1, <1>0, SMT
<1>7. QED BY <1>2, <1>3, <1>5, <1>6

-----------------------------------------------------------------------------
\* set_bit sets the bit of its offset and no other.
LEMMA SetBitSets ==
  ASSUME WordsAssumed, NEW bits \in [0..Words - 1 -> SUBSET Bits], NEW p \in 0..Window - 1
  PROVE  /\ SetBit(bits, p) \in [0..Words - 1 -> SUBSET Bits]
         /\ \A o \in Nat : GetBit(SetBit(bits, p), o) <=> GetBit(bits, o) \/ o = p
<1>0. p \in Nat /\ Words \in Nat BY WordsCoverWindow, WindowAssumption
<1>1. /\ p \div WordBits \in 0..Words - 1 /\ p % WordBits \in Bits
  BY <1>0, OffsetSplits, WordsCoverWindow
<1>2. SetBit(bits, p) = [bits EXCEPT ![p \div WordBits] = @ \cup {p % WordBits}]
  BY WordsCoverWindow DEF SetBit
<1>3. ASSUME NEW o \in Nat
      PROVE  GetBit(SetBit(bits, p), o) <=> GetBit(bits, o) \/ o = p
  <2>1. o \div WordBits \in Nat /\ o % WordBits \in Bits BY OffsetSplits
  <2>2. o \div WordBits = p \div WordBits /\ o % WordBits = p % WordBits <=> o = p
    BY OffsetSplits, <1>0
  <2>3. QED BY <1>0, <1>1, <1>2, <2>1, <2>2 DEF GetBit
<1>4. QED BY <1>1, <1>2, <1>3, Zenon

\* A shift by whole words moves every bit down by that many words.
LEMMA ShiftWordsMoves ==
  ASSUME WordsAssumed, NEW bits \in [0..Words - 1 -> SUBSET Bits], NEW q \in Nat
  PROVE  /\ ShiftWords(bits, q) \in [0..Words - 1 -> SUBSET Bits]
         /\ \A w \in Nat, b \in Bits :
              GetBit(ShiftWords(bits, q), WordBits * w + b) <=> GetBit(bits, WordBits * (w + q) + b)
<1>0. Words \in Nat BY WordsCoverWindow
<1>1. ASSUME NEW w \in Nat, NEW b \in Bits
      PROVE GetBit(ShiftWords(bits, q), WordBits * w + b) <=> GetBit(bits, WordBits * (w + q) + b)
  <2>1. /\ (WordBits * w + b) \div WordBits = w /\ (WordBits * w + b) % WordBits = b
        /\ (WordBits * (w + q) + b) \div WordBits = w + q
        /\ (WordBits * (w + q) + b) % WordBits = b
    BY OffsetJoins
  <2>2. QED BY <2>1, <1>0 DEF GetBit, ShiftWords
<1>2. QED BY <1>0, <1>1 DEF ShiftWords

\* A shift by less than a word moves every bit down, across words too.
LEMMA ShiftBitsMoves ==
  ASSUME WordsAssumed, NEW bits \in [0..Words - 1 -> SUBSET Bits], NEW k \in 1..WordBits - 1
  PROVE  /\ ShiftBits(bits, k) \in [0..Words - 1 -> SUBSET Bits]
         /\ \A w \in Nat, b \in Bits :
              GetBit(ShiftBits(bits, k), WordBits * w + b)
                <=> IF b + k < WordBits THEN GetBit(bits, WordBits * w + (b + k))
                    ELSE GetBit(bits, WordBits * (w + 1) + (b + k - WordBits))
<1>0. Words \in Nat /\ WordBits \in Nat \ {0} BY WordsCoverWindow DEF WordsAssumed
<1>1. ASSUME NEW w \in Nat, NEW b \in Bits
      PROVE  GetBit(ShiftBits(bits, k), WordBits * w + b)
                <=> IF b + k < WordBits THEN GetBit(bits, WordBits * w + (b + k))
                    ELSE GetBit(bits, WordBits * (w + 1) + (b + k - WordBits))
  <2>0. b \in 0..WordBits - 1 BY DEF Bits
  <2>1. (WordBits * w + b) \div WordBits = w /\ (WordBits * w + b) % WordBits = b
    BY OffsetJoins
  <2>2. GetBit(ShiftBits(bits, k), WordBits * w + b)
          <=> /\ w < Words
              /\ b + k \in bits[w] \/ (w + 1 < Words /\ b - (WordBits - k) \in bits[w + 1])
    BY <2>1, <1>0, SMTT(40) DEF GetBit, ShiftBits, ShiftRight, ShiftLeft
  <2>3. CASE b + k < WordBits
    <3>1. b + k \in Bits BY <2>0, <2>3, <1>0 DEF Bits
    <3>2. (WordBits * w + (b + k)) \div WordBits = w /\ (WordBits * w + (b + k)) % WordBits = b + k
      BY <3>1, OffsetJoins, Zenon
    <3>3. b - (WordBits - k) \notin Bits BY <2>0, <2>3, <1>0 DEF Bits
    <3>4. w + 1 < Words => b - (WordBits - k) \notin bits[w + 1] BY <3>3, <1>0
    <3>5. QED BY <2>2, <2>3, <3>2, <3>4 DEF GetBit
  <2>4. CASE ~(b + k < WordBits)
    <3>1. b + k - WordBits \in Bits /\ b + k \notin Bits BY <2>0, <2>4, <1>0 DEF Bits
    <3>2. /\ (WordBits * (w + 1) + (b + k - WordBits)) \div WordBits = w + 1
          /\ (WordBits * (w + 1) + (b + k - WordBits)) % WordBits = b + k - WordBits
      <4> DEFINE c == b + k - WordBits
      <4>1. c \in Bits /\ w + 1 \in Nat BY <3>1
      <4> HIDE DEF c
      <4>2. (WordBits * (w + 1) + c) \div WordBits = w + 1 /\ (WordBits * (w + 1) + c) % WordBits = c
        BY <4>1, OffsetJoins, Zenon
      <4>3. QED BY <4>2 DEF c
    <3>3. w < Words => b + k \notin bits[w] BY <3>1, <1>0
    <3>4. b - (WordBits - k) = b + k - WordBits BY <2>0, <1>0
    <3>5. w + 1 < Words => w < Words BY <1>0
    <3>6. QED BY <2>2, <2>4, <3>2, <3>3, <3>4, <3>5 DEF GetBit
  <2>5. QED BY <2>3, <2>4
<1>2. QED BY <1>0, <1>1, Zenon DEF ShiftBits, ShiftRight, ShiftLeft

\* advance: after a move of the window the bit of an offset is the one that stood
\* `shift' higher before, however the shift splits into words and bits.
LEMMA AdvanceMoves ==
  ASSUME WordsAssumed, NEW bits \in [0..Words - 1 -> SUBSET Bits], NEW s \in 0..Window - 1
  PROVE  /\ Advance(bits, s) \in [0..Words - 1 -> SUBSET Bits]
         /\ \A o \in Nat : GetBit(Advance(bits, s), o) <=> GetBit(bits, o + s)
<1> DEFINE q == s \div WordBits
           k == s % WordBits
           moved == ShiftWords(bits, q)
<1>0. WordBits \in Nat \ {0} /\ Window \in Nat \ {0} /\ s \in Nat
  BY WindowAssumption DEF WordsAssumed
<1>1. q \in Nat /\ k \in 0..WordBits - 1 /\ s = WordBits * q + k
  BY <1>0, OffsetSplits, Zenon DEF Bits
<1>2. Advance(bits, s) = IF k > 0 THEN ShiftBits(moved, k) ELSE moved
  BY <1>0 DEF Advance
<1>3. /\ moved \in [0..Words - 1 -> SUBSET Bits]
      /\ \A w \in Nat, b \in Bits :
           GetBit(moved, WordBits * w + b) <=> GetBit(bits, WordBits * (w + q) + b)
  BY <1>1, ShiftWordsMoves, Zenon
<1> HIDE DEF q, k, moved
<1>4. ASSUME NEW o \in Nat PROVE GetBit(Advance(bits, s), o) <=> GetBit(bits, o + s)
  <2> DEFINE w == o \div WordBits
             b == o % WordBits
  <2>1. w \in Nat /\ b \in Bits /\ b \in 0..WordBits - 1 /\ o = WordBits * w + b
    BY OffsetSplits, Zenon DEF Bits
  <2> HIDE DEF w, b
  <2>2. CASE k = 0
    <3>1. o + s = WordBits * (w + q) + b BY <1>0, <1>1, <2>1, <2>2, SMT
    <3>2. QED BY <3>1, <1>2, <1>3, <2>1, <2>2
  <2>3. CASE k > 0 /\ b + k < WordBits
    <3>1. o + s = WordBits * (w + q) + (b + k) BY <1>0, <1>1, <2>1, SMT
    <3>2. b + k \in Bits /\ k \in 1..WordBits - 1 BY <1>0, <1>1, <2>1, <2>3 DEF Bits
    <3>3. GetBit(Advance(bits, s), o) <=> GetBit(moved, WordBits * w + (b + k))
      BY <1>2, <1>3, <2>1, <2>3, <3>2, ShiftBitsMoves, Zenon
    <3>4. QED BY <3>1, <3>2, <3>3, <1>3, <2>1
  <2>4. CASE k > 0 /\ ~(b + k < WordBits)
    <3>1. o + s = WordBits * ((w + 1) + q) + (b + k - WordBits) BY <1>0, <1>1, <2>1, SMT
    <3>2. b + k - WordBits \in Bits /\ k \in 1..WordBits - 1 /\ w + 1 \in Nat
      BY <1>0, <1>1, <2>1, <2>4 DEF Bits
    <3>3. GetBit(Advance(bits, s), o) <=> GetBit(moved, WordBits * (w + 1) + (b + k - WordBits))
      BY <1>2, <1>3, <2>1, <2>4, <3>2, ShiftBitsMoves, Zenon
    <3>4. QED BY <3>1, <3>2, <3>3, <1>3
  <2>5. QED BY <1>0, <1>1, <2>2, <2>3, <2>4
<1>5. k > 0 => k \in 1..WordBits - 1 BY <1>0, <1>1
<1>6. QED BY <1>2, <1>3, <1>4, <1>5, ShiftBitsMoves, Zenon

-----------------------------------------------------------------------------
\* The numbers a bitmap stands for, one by one.
LEMMA RecentNumbers ==
  ASSUME NEW top \in Nat, NEW bits, NEW s
  PROVE  s \in Recent(top, bits)
           <=> /\ s \in Nat /\ s >= Floor(top) /\ s - Floor(top) <= Window - 1
               /\ GetBit(bits, s - Floor(top))
<1>0. Floor(top) \in Nat /\ Window \in Nat \ {0} BY WindowAssumption DEF Floor
<1>1. ASSUME s \in Recent(top, bits)
      PROVE  /\ s \in Nat /\ s >= Floor(top) /\ s - Floor(top) <= Window - 1
             /\ GetBit(bits, s - Floor(top))
  <2>1. PICK o \in 0..Window - 1 : GetBit(bits, o) /\ s = Floor(top) + o
    BY <1>1, Zenon DEF Recent
  <2>2. o = s - Floor(top) BY <1>0, <2>1
  <2>3. QED BY <1>0, <2>1, <2>2
<1>2. ASSUME s \in Nat, s >= Floor(top), s - Floor(top) <= Window - 1,
             GetBit(bits, s - Floor(top))
      PROVE  s \in Recent(top, bits)
  <2> DEFINE o == s - Floor(top)
  <2>1. o \in 0..Window - 1 /\ s = Floor(top) + o BY <1>0, <1>2
  <2>2. QED BY <2>1, <1>2, Zenon DEF Recent
<1>3. QED BY <1>1, <1>2

\* The window moved by the distance of its floors: what stays of the bitmap.
LEMMA MoveKeepsBits ==
  ASSUME WordsAssumed, WindowInv, NEW seq \in Nat, seq > highest
  PROVE  /\ Moved(Floor(seq) - Floor(highest)) \in [0..Words - 1 -> SUBSET Bits]
         /\ \A o \in Nat : GetBit(Moved(Floor(seq) - Floor(highest)), o)
                             <=> GetBit(bitmap, o + (Floor(seq) - Floor(highest)))
<1> DEFINE shift == Floor(seq) - Floor(highest)
           moved == Moved(shift)
<1>0. /\ shift \in Nat /\ Window \in Nat \ {0} /\ highest \in Nat
      /\ highest - Floor(highest) \in 0..Window - 1
  BY WindowAssumption DEF Floor, WindowInv
<1>1. bitmap \in [0..Words - 1 -> SUBSET Bits] BY DEF WindowInv
<1>2. CASE shift = 0
  <2>1. moved = bitmap BY <1>2 DEF Moved
  <2>2. \A o \in Nat : o + shift = o BY <1>2
  <2>3. QED BY <2>1, <2>2, <1>1
<1>3. CASE shift > 0 /\ shift < Window
  <2>1. moved = Advance(bitmap, shift) /\ shift \in 0..Window - 1 BY <1>0, <1>3 DEF Moved
  <2>2. QED BY <2>1, <1>1, AdvanceMoves, Zenon
<1>4. CASE shift > 0 /\ shift >= Window
  <2>1. moved = NoBits BY <1>4 DEF Moved, Advance
  <2>2. Words \in Nat BY WordsCoverWindow
  <2>3. \A o \in Nat : o \div WordBits \in Nat BY OffsetSplits
  <2>4. ASSUME NEW o \in Nat PROVE ~GetBit(moved, o)
    <3>1. o \div WordBits < Words => NoBits[o \div WordBits] = {} BY <2>2, <2>3 DEF NoBits
    <3>2. QED BY <2>1, <3>1, Zenon DEF GetBit
  <2>5. ASSUME NEW o \in Nat PROVE ~GetBit(bitmap, o + shift)
    <3>1. o + shift \in Nat /\ o + shift > highest - Floor(highest) BY <1>0, <1>4
    <3>2. Floor(highest) \in Nat BY WindowAssumption, <1>0 DEF Floor
    <3>3. QED BY <3>1, <3>2, <1>0 DEF WindowInv
  <2>6. moved \in [0..Words - 1 -> SUBSET Bits] BY <2>1 DEF NoBits
  <2>7. QED BY <2>4, <2>5, <2>6
<1>5. shift = 0 \/ (shift > 0 /\ shift < Window) \/ (shift > 0 /\ shift >= Window) BY <1>0
<1>6. QED BY <1>2, <1>3, <1>4, <1>5

-----------------------------------------------------------------------------
\* An accepted number's offset lies in the window it leads to.
LEMMA OffsetInWindow ==
  ASSUME NEW seq \in Nat
  PROVE  /\ Floor(seq) \in Nat /\ Floor(seq) <= seq
         /\ seq - Floor(seq) \in 0..Window - 1
BY WindowAssumption DEF Floor

\* Marking a number: a bitmap that holds the old bits, moved, and the number's own
\* stands for the numbers that stay in the window and the new one.
LEMMA MarkingMatches ==
  ASSUME NEW top \in Nat, NEW bits, NEW top2 \in Nat, NEW bits2, NEW seq \in Nat,
         Floor(top2) >= Floor(top), seq >= Floor(top2), seq - Floor(top2) <= Window - 1,
         \A o \in Nat : GetBit(bits, o) => o <= top - Floor(top),
         \A o \in Nat : GetBit(bits2, o)
            <=> GetBit(bits, o + (Floor(top2) - Floor(top))) \/ o = seq - Floor(top2)
  PROVE  Recent(top2, bits2) = {s \in Recent(top, bits) \cup {seq} : s >= Floor(top2)}
<1>0. /\ Window \in Nat \ {0} /\ Floor(top) \in Nat /\ Floor(top2) \in Nat
      /\ top - Floor(top) <= Window - 1
  BY OffsetInWindow, WindowAssumption
<1>1. ASSUME NEW s
      PROVE  s \in Recent(top2, bits2) <=> (s \in Recent(top, bits) \/ s = seq) /\ s >= Floor(top2)
  <2>1. s \in Recent(top2, bits2)
          <=> /\ s \in Nat /\ s >= Floor(top2) /\ s - Floor(top2) <= Window - 1
              /\ GetBit(bits2, s - Floor(top2))
    BY RecentNumbers
  <2>2. s \in Recent(top, bits)
          <=> /\ s \in Nat /\ s >= Floor(top) /\ s - Floor(top) <= Window - 1
              /\ GetBit(bits, s - Floor(top))
    BY RecentNumbers
  <2>3. CASE s \in Nat /\ s >= Floor(top2)
    <3>1. /\ s - Floor(top2) \in Nat /\ s >= Floor(top) /\ s - Floor(top) \in Nat
          /\ (s - Floor(top2)) + (Floor(top2) - Floor(top)) = s - Floor(top)
          /\ s - Floor(top2) = seq - Floor(top2) <=> s = seq
          /\ s - Floor(top) <= Window - 1 => s - Floor(top2) <= Window - 1
      BY <1>0, <2>3
    <3>2. GetBit(bits2, s - Floor(top2)) <=> GetBit(bits, s - Floor(top)) \/ s = seq
      BY <3>1
    <3>3. GetBit(bits, s - Floor(top)) => s - Floor(top) <= Window - 1
      BY <1>0, <3>1
    <3>4. QED BY <2>1, <2>2, <2>3, <3>1, <3>2, <3>3
  <2>4. CASE ~(s \in Nat /\ s >= Floor(top2))
    BY <2>1, <2>2, <2>4
  <2>5. QED BY <2>3, <2>4
<1>2. QED BY <1>1

-----------------------------------------------------------------------------
\* A bitmap of zeroes has no bit set.
LEMMA NoBitsAreClear ==
  ASSUME WordsAssumed
  PROVE  /\ NoBits \in [0..Words - 1 -> SUBSET Bits]
         /\ \A o \in Nat : ~GetBit(NoBits, o)
<1>0. Words \in Nat \ {0} BY WordsCoverWindow
<1>1. ASSUME NEW o \in Nat PROVE ~GetBit(NoBits, o)
  <2>1. o \div WordBits \in Nat BY OffsetSplits
  <2>2. o \div WordBits < Words => NoBits[o \div WordBits] = {} BY <2>1, <1>0 DEF NoBits
  <2>3. QED BY <2>2, Zenon DEF GetBit
<1>2. QED BY <1>1, Zenon DEF NoBits

\* A new window has nothing accepted (ReplayWindow::new).
LEMMA WindowInitial ==
  ASSUME WordsAssumed, WindowInit
  PROVE  WindowInv /\ Abstract!Init
<1>0. Window \in Nat \ {0} BY WindowAssumption
<1>1. WindowInv BY NoBitsAreClear, Zenon DEF WindowInit, WindowInv
<1>2. \A s : s \notin Recent(highest, bitmap)
  <2> SUFFICES ASSUME NEW s, s \in Recent(highest, bitmap) PROVE FALSE OBVIOUS
  <2>1. highest = 0 /\ Floor(highest) = 0 BY <1>0 DEF WindowInit, Floor
  <2>2. s \in Nat /\ GetBit(bitmap, s - Floor(highest)) BY <2>1, RecentNumbers
  <2>3. s - Floor(highest) = s BY <2>1, <2>2
  <2>4. QED BY <2>2, <2>3, NoBitsAreClear DEF WindowInit
<1>3. QED
  BY <1>1, <1>2, Zenon DEF WindowInit, Abstract!Init, Abstract!EmptyWindow, Abstract!NoAnswer

\* accept on a new window.
LEMMA FirstRefines ==
  ASSUME WordsAssumed, WindowInv, NEW seq \in Nat, AcceptFirst(seq)
  PROVE  WindowInv' /\ Abstract!Accept(seq)
<1>0. /\ ~initialized /\ initialized' = TRUE /\ highest' = seq /\ highest = 0 /\ bitmap = NoBits
      /\ bitmap' = SetBit(bitmap, seq - Floor(seq))
      /\ answer' = [seq |-> seq, ok |-> TRUE]
  BY DEF AcceptFirst, WindowInv, Answer
<1>1. /\ bitmap' \in [0..Words - 1 -> SUBSET Bits]
      /\ \A o \in Nat : GetBit(bitmap', o) <=> o = seq - Floor(seq)
  BY <1>0, NoBitsAreClear, SetBitSets, OffsetInWindow, Zenon
<1>2. WindowInv'
  <2>1. \A o \in Nat : GetBit(bitmap', o) => o <= highest' - Floor(highest') BY <1>0, <1>1
  <2>2. QED BY <2>1, <1>0, <1>1 DEF WindowInv
<1>3. Recent(highest', bitmap') = {seq}
  <2>1. ASSUME NEW s PROVE s \in Recent(highest', bitmap') <=> s = seq
    <3>1. s \in Recent(seq, bitmap')
            <=> /\ s \in Nat /\ s >= Floor(seq) /\ s - Floor(seq) <= Window - 1
                /\ GetBit(bitmap', s - Floor(seq))
      BY RecentNumbers
    <3>2. /\ Floor(seq) \in Nat /\ Floor(seq) <= seq /\ seq - Floor(seq) <= Window - 1
          /\ seq - Floor(seq) \in Nat
      BY OffsetInWindow, WindowAssumption
    <3>3. s \in Nat /\ s >= Floor(seq) =>
            /\ s - Floor(seq) \in Nat
            /\ s - Floor(seq) = seq - Floor(seq) <=> s = seq
      BY <3>2
    <3>4. CASE s \in Nat /\ s >= Floor(seq)
      <4>1. GetBit(bitmap', s - Floor(seq)) <=> s = seq BY <3>3, <3>4, <1>1
      <4>2. QED BY <4>1, <3>1, <3>2, <3>4, <1>0
    <3>5. CASE ~(s \in Nat /\ s >= Floor(seq)) BY <3>1, <3>2, <3>5, <1>0
    <3>6. QED BY <3>4, <3>5
  <2>2. QED BY <2>1
<1>4. Recent(highest, bitmap) = {}
  <2>1. \A s : s \notin Recent(highest, bitmap)
    <3> SUFFICES ASSUME NEW s, s \in Recent(0, NoBits) PROVE FALSE BY <1>0
    <3>1. Floor(0) = 0 BY WindowAssumption DEF Floor
    <3>2. s \in Nat /\ GetBit(NoBits, s - 0) BY <3>1, RecentNumbers
    <3>3. QED BY <3>2, NoBitsAreClear
  <2>2. QED BY <2>1
<1>5. {s \in {} \cup {seq} : s >= Floor(seq)} = {seq} BY OffsetInWindow
<1>6. Abstract!Accept(seq)
  BY <1>0, <1>3, <1>4, <1>5, Zenon DEF Abstract!Accept, Abstract!Accepts, Abstract!Marked, Abstract!Floor, Floor
<1>7. QED BY <1>2, <1>6

\* accept of a number below the window.
LEMMA BelowRefines ==
  ASSUME WordsAssumed, WindowInv, NEW seq \in Nat, AcceptBelow(seq)
  PROVE  WindowInv' /\ Abstract!Accept(seq)
<1>0. /\ initialized /\ UNCHANGED <<highest, bitmap, initialized>> /\ seq < Floor(highest)
      /\ answer' = [seq |-> seq, ok |-> FALSE] /\ highest \in Nat
  BY DEF AcceptBelow, Answer, WindowInv
<1>1. WindowInv' BY <1>0 DEF WindowInv
<1>2. ~(seq >= Floor(highest)) BY <1>0, OffsetInWindow
<1>3. Abstract!Accept(seq)
  BY <1>0, <1>2, Zenon DEF Abstract!Accept, Abstract!Accepts, Abstract!Floor, Floor
<1>4. QED BY <1>1, <1>3

\* accept of a number above the highest one: it is never found marked, since no bit
\* stands for a number above the highest, and the bits that stay keep their meaning.
LEMMA AheadRefines ==
  ASSUME WordsAssumed, WindowInv, NEW seq \in Nat, AcceptAhead(seq)
  PROVE  WindowInv' /\ Abstract!Accept(seq)
<1> DEFINE shift == Floor(seq) - Floor(highest)
           moved == Moved(shift)
           offset == seq - Floor(seq)
<1>0. /\ initialized /\ initialized' = initialized /\ highest' = seq /\ seq > highest
      /\ bitmap' = IF GetBit(moved, offset) THEN moved ELSE SetBit(moved, offset)
      /\ answer' = [seq |-> seq, ok |-> ~GetBit(moved, offset)] /\ highest \in Nat
      /\ \A o \in Nat : GetBit(bitmap, o) => o <= highest - Floor(highest)
  BY DEF AcceptAhead, Answer, WindowInv
<1>1. /\ offset \in 0..Window - 1 /\ offset \in Nat /\ shift \in Nat
      /\ Floor(highest) \in Nat /\ Floor(seq) \in Nat /\ Floor(seq) <= seq
      /\ offset + shift = seq - Floor(highest) /\ seq - Floor(highest) \in Nat
      /\ highest - Floor(highest) \in 0..Window - 1 /\ Window \in Nat \ {0}
  BY <1>0, WindowAssumption DEF Floor
<1>2. /\ moved \in [0..Words - 1 -> SUBSET Bits]
      /\ \A o \in Nat : GetBit(moved, o) <=> GetBit(bitmap, o + shift)
  BY <1>0, MoveKeepsBits
<1>3. ~GetBit(bitmap, seq - Floor(highest)) BY <1>0, <1>1
<1>4. ~GetBit(moved, offset) BY <1>1, <1>2, <1>3
<1> HIDE DEF moved
<1>5. bitmap' = SetBit(moved, offset) /\ answer' = [seq |-> seq, ok |-> TRUE] BY <1>0, <1>4, Zenon
<1>6. /\ bitmap' \in [0..Words - 1 -> SUBSET Bits]
      /\ \A o \in Nat : GetBit(bitmap', o) <=> GetBit(moved, o) \/ o = offset
  BY <1>1, <1>2, <1>5, SetBitSets, Zenon
<1>7. \A o \in Nat : GetBit(bitmap', o) <=> GetBit(bitmap, o + shift) \/ o = offset
  BY <1>2, <1>6
<1>8. WindowInv'
  <2>1. ASSUME NEW o \in Nat, GetBit(bitmap', o) PROVE o <= highest' - Floor(highest')
    <3>1. CASE o = offset BY <3>1, <1>0, <1>1
    <3>2. CASE GetBit(bitmap, o + shift)
      <4>1. o + shift \in Nat BY <1>1
      <4>2. o + shift <= highest - Floor(highest) BY <3>2, <4>1, <1>0
      <4>3. QED BY <4>2, <1>0, <1>1
    <3>3. QED BY <2>1, <3>1, <3>2, <1>7
  <2>2. QED BY <2>1, <1>0, <1>6 DEF WindowInv
<1>9. seq >= Floor(highest) /\ seq \notin Recent(highest, bitmap)
  BY <1>0, <1>1, <1>3, RecentNumbers
<1>10. Recent(highest', bitmap') = {s \in Recent(highest, bitmap) \cup {seq} : s >= Floor(highest')}
  <2>1. Recent(seq, bitmap') = {s \in Recent(highest, bitmap) \cup {seq} : s >= Floor(seq)}
    BY <1>0, <1>1, <1>7, MarkingMatches, SMTT(40)
  <2>2. QED BY <2>1, <1>0
<1>11. ~(highest >= seq) BY <1>0
<1>12. Abstract!Accept(seq)
  BY <1>0, <1>5, <1>9, <1>10, <1>11, Zenon
     DEF Abstract!Accept, Abstract!Accepts, Abstract!Marked, Abstract!Floor, Floor
<1>13. QED BY <1>8, <1>12

\* accept of a number inside the window: refused exactly when its bit is set.
LEMMA WithinRefines ==
  ASSUME WordsAssumed, WindowInv, NEW seq \in Nat, AcceptWithin(seq)
  PROVE  WindowInv' /\ Abstract!Accept(seq)
<1> DEFINE offset == seq - Floor(highest)
<1>0. /\ initialized /\ initialized' = initialized /\ highest' = highest
      /\ seq \in Floor(highest)..highest /\ highest \in Nat
      /\ bitmap' = IF offset < Window /\ ~GetBit(bitmap, offset) THEN SetBit(bitmap, offset) ELSE bitmap
      /\ answer' = [seq |-> seq, ok |-> offset < Window /\ ~GetBit(bitmap, offset)]
      /\ bitmap \in [0..Words - 1 -> SUBSET Bits]
      /\ \A o \in Nat : GetBit(bitmap, o) => o <= highest - Floor(highest)
  BY DEF AcceptWithin, Answer, WindowInv
<1>1. /\ Window \in Nat \ {0} /\ Floor(highest) \in Nat /\ highest - Floor(highest) \in 0..Window - 1
  BY <1>0, OffsetInWindow, WindowAssumption
<1>2. offset \in 0..Window - 1 /\ offset \in Nat /\ offset < Window /\ offset <= highest - Floor(highest)
      /\ seq >= Floor(highest) /\ highest >= seq
  BY <1>0, <1>1
<1>3. seq \in Recent(highest, bitmap) <=> GetBit(bitmap, offset)
  BY <1>0, <1>1, <1>2, RecentNumbers, SMTT(40)
<1>4. CASE GetBit(bitmap, offset)
  <2>1. UNCHANGED <<highest, bitmap, initialized>> /\ answer' = [seq |-> seq, ok |-> FALSE]
    BY <1>0, <1>4, Zenon
  <2>2. WindowInv' BY <2>1 DEF WindowInv
  <2>3. Abstract!Accept(seq)
    BY <2>1, <1>0, <1>3, <1>4, Zenon DEF Abstract!Accept, Abstract!Accepts, Abstract!Floor, Floor
  <2>4. QED BY <2>2, <2>3
<1>5. CASE ~GetBit(bitmap, offset)
  <2>1. bitmap' = SetBit(bitmap, offset) /\ answer' = [seq |-> seq, ok |-> TRUE]
    BY <1>0, <1>2, <1>5, Zenon
  <2>2. /\ bitmap' \in [0..Words - 1 -> SUBSET Bits]
        /\ \A o \in Nat : GetBit(bitmap', o) <=> GetBit(bitmap, o) \/ o = offset
    BY <1>0, <1>2, <2>1, SetBitSets
  <2>3. WindowInv'
    <3>1. \A o \in Nat : GetBit(bitmap', o) => o <= highest' - Floor(highest') BY <1>0, <1>2, <2>2
    <3>2. QED BY <3>1, <1>0, <2>2 DEF WindowInv
  <2>4. Recent(highest', bitmap') = {s \in Recent(highest, bitmap) \cup {seq} : s >= Floor(highest')}
    <3>1. \A o \in Nat : o + (Floor(highest) - Floor(highest)) = o BY <1>1
    <3>2. \A o \in Nat : GetBit(bitmap', o)
            <=> GetBit(bitmap, o + (Floor(highest) - Floor(highest))) \/ o = seq - Floor(highest)
      BY <2>2, <3>1
    <3>3. Recent(highest, bitmap') = {s \in Recent(highest, bitmap) \cup {seq} : s >= Floor(highest)}
      <4>1. /\ Floor(highest) >= Floor(highest) /\ seq >= Floor(highest)
            /\ seq - Floor(highest) <= Window - 1 /\ highest \in Nat
        BY <1>0, <1>1, <1>2
      <4>2. \A o \in Nat : GetBit(bitmap, o) => o <= highest - Floor(highest) BY <1>0, ZenonT(40)
      <4>3. QED BY <4>1, <4>2, <3>2, MarkingMatches
    <3>4. QED BY <3>3, <1>0
  <2>5. Abstract!Accept(seq)
    BY <1>0, <1>2, <1>3, <1>5, <2>1, <2>4, Zenon
       DEF Abstract!Accept, Abstract!Accepts, Abstract!Marked, Abstract!Floor, Floor
  <2>6. QED BY <2>3, <2>5
<1>6. QED BY <1>4, <1>5

\* The replay window of the code implements the sliding window.
THEOREM ReplayWindowRefines == WindowSpec => ImplementsSlidingWindow
<1>0. WordsAssumed BY WordsAssumption DEF WordsAssumed
<1>1. WindowInit => WindowInv /\ Abstract!Init BY <1>0, WindowInitial
<1>2. WindowInv /\ [WindowNext]_windowVars => WindowInv' /\ [Abstract!Next]_Abstract!vars
  <2> SUFFICES ASSUME WindowInv, [WindowNext]_windowVars PROVE WindowInv' /\ [Abstract!Next]_Abstract!vars
    OBVIOUS
  <2>1. CASE UNCHANGED windowVars BY <2>1 DEF windowVars, WindowInv, Abstract!vars
  <2>2. ASSUME NEW seq \in Seqs, Accept(seq) PROVE WindowInv' /\ Abstract!Accept(seq)
    <3>1. seq \in Nat BY WordsAssumption
    <3>2. QED BY <1>0, <2>2, <3>1, FirstRefines, BelowRefines, AheadRefines, WithinRefines DEF Accept
  <2>3. QED BY <2>1, <2>2 DEF WindowNext, Abstract!Next
<1>3. QED BY <1>1, <1>2, PTL DEF WindowSpec, ImplementsSlidingWindow, Abstract!Spec
=============================================================================
