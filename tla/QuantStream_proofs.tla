------------------------- MODULE QuantStream_proofs -------------------------
(***************************************************************************)
(* Whatever the order in which the streams run, the kernels of the default *)
(* stream read what they were launched for, and a quantization follows the *)
(* attention of its own step, for every number of layers, requests, blocks *)
(* and steps.                                                              *)
(***************************************************************************)
EXTENDS QuantStream, SequenceTheorems, TLAPS

-----------------------------------------------------------------------------
(* What a queue makes certain *)

Kinds == {"project", "attend", "quantize", "grow", "score", "wait"}

\* An item of stream s writes blocks of the pool of s, each one content; a wait writes
\* nothing.
ItemsOf(s) ==
  {it \in [kind : Kinds, reads : SUBSET (Blocks \X Contents),
           writes : SUBSET (Blocks \X Contents), on : Streams, upto : Nat] :
     /\ \A x \in it.writes : x[1][1] = s
     /\ \A x, y \in it.writes : x[1] = y[1] => x = y
     /\ it.kind = "wait" => it.writes = {}}

Writes(it, b) == \E c \in Contents : <<b, c>> \in it.writes

\* Some item before item i of q waits for item n of stream s.
Awaited(q, i, s, n) ==
  \E j \in 1 .. i - 1 : q[j].kind = "wait" /\ q[j].on = s /\ q[j].upto >= n

\* Of the items before item i of q the last one that writes b writes c.
LastWrite(q, i, b, c) ==
  \E j \in 1 .. i - 1 : /\ <<b, c>> \in q[j].writes
                        /\ \A h \in j + 1 .. i - 1 : ~Writes(q[h], b)

\* Block b, which holds m now, holds c when item i of q comes to run, if only q writes it.
Holds(q, i, b, c, m) ==
  LastWrite(q, i, b, c) \/ (m = c /\ \A h \in 1 .. i - 1 : ~Writes(q[h], b))

\* The same for item i of the default stream's queue d, behind n items that have run, and a
\* block that the queue q of layer l writes, behind nl items: the item that writes c is waited
\* for, and whatever of q writes the block afterwards waits for item i.
HoldsAcross(d, n, q, nl, l, i, b, c, m) ==
  \/ \E p \in 1 .. Len(q) :
       /\ <<b, c>> \in q[p].writes
       /\ Awaited(d, i, l, nl + p)
       /\ \A h \in p + 1 .. Len(q) : Writes(q[h], b) => Awaited(q, h, Default, n + i)
  \/ /\ m = c
     /\ \A h \in 1 .. Len(q) : Writes(q[h], b) => Awaited(q, h, Default, n + i)

-----------------------------------------------------------------------------
(* The inductive invariant *)

StreamType ==
  /\ TypeOK
  /\ layer \in Layers => step >= 1
  /\ DOMAIN queue = Streams
  /\ \A s \in Streams : queue[s] \in Seq(ItemsOf(s))

\* Item i of the default stream's queue d finds x, qs being the queues of the layers.
Certain(d, qs, i, x) ==
  IF x[1][1] = Default THEN Holds(d, i, x[1], x[2], mem[x[1]])
  ELSE HoldsAcross(d, done[Default], qs[x[1][1]], done[x[1][1]], x[1][1], i, x[1], x[2],
                   mem[x[1]])

ReadsHold(d, qs) == \A i \in 1 .. Len(d) : \A x \in d[i].reads : Certain(d, qs, i, x)

\* Metadata that a request holds is in a block of the default stream or of its own layer's,
\* and will be there once all that is launched on that stream has run.
MetaHolds ==
  \A l \in Layers, r \in Reqs : meta[l][r] # NoBlock =>
    LET b == meta[l][r]
        q == queue[b[1]]
    IN  /\ l \in streamOf
        /\ b[1] \in {Default, l}
        /\ Holds(q, Len(q) + 1, b, Meta(l, r), mem[b])

\* Item it reads the keys of a forward() before that of layer ly in step st.
ReadsEarlierKeys(it, st, ly) ==
  \E k \in Blocks, s \in 1 .. MaxSteps, m \in Layers :
    it.reads = {<<k, Keys(s, m)>>} /\ (s < st \/ (s = st /\ m < ly))

\* Item i of q waits for whatever attends to the keys it reads, in queue d behind n items.
WaitsForAttend(q, i, d, n) ==
  \A j \in 1 .. Len(d) :
    d[j].kind = "attend" /\ d[j].reads = q[i].reads => Awaited(q, i, Default, n + j)

\* A quantization is of keys whose forward() is over, and waits for its attention.
QuantizeWaits ==
  \A l \in Layers : \A i \in 1 .. Len(queue[l]) : queue[l][i].kind = "quantize" =>
    /\ ReadsEarlierKeys(queue[l][i], step, layer)
    /\ WaitsForAttend(queue[l], i, queue[Default], done[Default])

StreamInv ==
  StreamType /\ ReadsHold(queue[Default], queue) /\ MetaHolds /\ QuantizeWaits

-----------------------------------------------------------------------------
(* Queues that grow *)

\* Elements of a sequence that was extended.
LEMMA Extended ==
  ASSUME NEW S, NEW q \in Seq(S), NEW e \in Seq(S)
  PROVE  /\ q \o e \in Seq(S) /\ Len(q \o e) = Len(q) + Len(e)
         /\ Len(q) \in Nat /\ Len(e) \in Nat
         /\ \A i \in 1 .. Len(q) : (q \o e)[i] = q[i]
         /\ \A i \in 1 .. Len(e) : (q \o e)[Len(q) + i] = e[i]
  BY ConcatProperties, LenProperties

\* Two items are two single ones.
LEMMA ExtendedTwice ==
  ASSUME NEW S, NEW q \in Seq(S), NEW a \in S, NEW b \in S
  PROVE  q \o <<a, b>> = (q \o <<a>>) \o <<b>>
  <1>1. <<a, b>> \in Seq(S) /\ <<a>> \in Seq(S) /\ <<b>> \in Seq(S)
    OBVIOUS
  <1>2. <<a, b>> = <<a>> \o <<b>>
    <2> DEFINE t == <<a>> \o <<b>>
    <2>1. t \in Seq(S) /\ Len(t) = 2 /\ t[1] = a /\ t[2] = b
      BY <1>1, Extended
    <2> HIDE DEF t
    <2>2. <<a, b>> = t
      BY <1>1, <2>1, SeqEqual
    <2> QED
      BY <2>2 DEF t
  <1> QED
    BY <1>1, <1>2, ConcatAssociative

\* The second of at most two items.
LEMMA SecondOfTwo ==
  ASSUME NEW n \in Nat, NEW m \in Nat, m = 1 \/ m = 2, NEW h \in n + 1 .. n + m, h # n + 1
  PROVE  h = n + 2 /\ m = 2
  OBVIOUS

\* What waits, or is certain, before an item of q is so whatever is launched behind it.
LEMMA ExtendedKeeps ==
  ASSUME NEW S, NEW q \in Seq(S), NEW e \in Seq(S), NEW i \in 1 .. Len(q) + 1,
         NEW s, NEW n, NEW b, NEW c, NEW m
  PROVE  /\ Awaited(q, i, s, n) => Awaited(q \o e, i, s, n)
         /\ LastWrite(q, i, b, c) => LastWrite(q \o e, i, b, c)
         /\ Holds(q, i, b, c, m) => Holds(q \o e, i, b, c, m)
  <1>1. Len(q) \in Nat /\ \A j \in 1 .. i - 1 : (q \o e)[j] = q[j]
    BY Extended
  <1>2. Awaited(q, i, s, n) => Awaited(q \o e, i, s, n)
    BY <1>1 DEF Awaited
  <1>3. LastWrite(q, i, b, c) => LastWrite(q \o e, i, b, c)
    BY <1>1 DEF LastWrite
  <1> QED
    BY <1>1, <1>2, <1>3 DEF Holds

\* A block that the later items do not write keeps its content.
LEMMA HoldsLonger ==
  ASSUME NEW q, NEW i \in Nat, NEW k \in Nat, i <= k, NEW b, NEW c, NEW m,
         Holds(q, i, b, c, m), \A h \in i .. k - 1 : ~Writes(q[h], b)
  PROVE  Holds(q, k, b, c, m)
  BY DEF Holds, LastWrite

\* The content the last item writes.
LEMMA HoldsLast ==
  ASSUME NEW q, NEW i \in Nat \ {0}, NEW b, NEW c, NEW m, <<b, c>> \in q[i].writes
  PROVE  Holds(q, i + 1, b, c, m)
  BY DEF Holds, LastWrite

\* A read of a layer's block stays certain when the default stream's queue grows,
LEMMA AcrossDefaultGrows ==
  ASSUME NEW S, NEW d \in Seq(S), NEW e \in Seq(S), NEW i \in 1 .. Len(d) + 1,
         NEW n, NEW q, NEW nl, NEW l, NEW b, NEW c, NEW m,
         HoldsAcross(d, n, q, nl, l, i, b, c, m)
  PROVE  HoldsAcross(d \o e, n, q, nl, l, i, b, c, m)
  BY ExtendedKeeps DEF HoldsAcross

\* and when the layer's queue grows by items that wait for the reader.
LEMMA AcrossLayerGrows ==
  ASSUME NEW S, NEW q \in Seq(S), NEW e \in Seq(S),
         NEW d, NEW n, NEW nl, NEW l, NEW i, NEW b, NEW c, NEW m,
         HoldsAcross(d, n, q, nl, l, i, b, c, m),
         \A h \in Len(q) + 1 .. Len(q) + Len(e) :
           Writes((q \o e)[h], b) => Awaited(q \o e, h, Default, n + i)
  PROVE  HoldsAcross(d, n, q \o e, nl, l, i, b, c, m)
  <1> DEFINE f == q \o e
  <1>1. /\ Len(f) = Len(q) + Len(e) /\ Len(q) \in Nat /\ Len(e) \in Nat
        /\ \A h \in 1 .. Len(q) : f[h] = q[h]
    BY Extended
  <1>2. \A h \in 1 .. Len(q) : Awaited(q, h, Default, n + i) => Awaited(f, h, Default, n + i)
    BY <1>1, ExtendedKeeps
  <1> HIDE DEF f
  <1>3. \A h \in Len(q) + 1 .. Len(f) : Writes(f[h], b) => Awaited(f, h, Default, n + i)
    BY <1>1 DEF f
  <1>4. ASSUME NEW p \in 0 .. Len(q),
               \A h \in p + 1 .. Len(q) : Writes(q[h], b) => Awaited(q, h, Default, n + i)
        PROVE  \A h \in p + 1 .. Len(f) : Writes(f[h], b) => Awaited(f, h, Default, n + i)
    BY <1>1, <1>2, <1>3, <1>4
  <1>5. CASE \E p \in 1 .. Len(q) :
               /\ <<b, c>> \in q[p].writes
               /\ Awaited(d, i, l, nl + p)
               /\ \A h \in p + 1 .. Len(q) : Writes(q[h], b) => Awaited(q, h, Default, n + i)
    <2>1. PICK p \in 1 .. Len(q) :
               /\ <<b, c>> \in q[p].writes
               /\ Awaited(d, i, l, nl + p)
               /\ \A h \in p + 1 .. Len(q) : Writes(q[h], b) => Awaited(q, h, Default, n + i)
      BY <1>5
    <2>2. p \in 1 .. Len(f) /\ f[p] = q[p]
      BY <1>1
    <2>3. \A h \in p + 1 .. Len(f) : Writes(f[h], b) => Awaited(f, h, Default, n + i)
      BY <1>1, <1>4, <2>1
    <2> QED
      BY <2>1, <2>2, <2>3 DEF HoldsAcross, f
  <1>6. CASE /\ m = c
             /\ \A h \in 1 .. Len(q) : Writes(q[h], b) => Awaited(q, h, Default, n + i)
    <2>1. \A h \in 0 + 1 .. Len(f) : Writes(f[h], b) => Awaited(f, h, Default, n + i)
      BY <1>1, <1>4, <1>6
    <2> QED
      BY <1>6, <2>1 DEF HoldsAcross, f
  <1> QED
    BY <1>5, <1>6 DEF HoldsAcross

\* A block that will hold c when the layer's queue has run, read behind a wait for all of it.
LEMMA AcrossWait ==
  ASSUME NEW S, NEW q \in Seq(S), NEW d, NEW n, NEW nl \in Nat, NEW l, NEW i \in Nat,
         NEW b, NEW c, NEW m,
         Holds(q, Len(q) + 1, b, c, m), Awaited(d, i, l, nl + Len(q)),
         \A j \in 1 .. i - 1 : d[j].upto \in Nat
  PROVE  HoldsAcross(d, n, q, nl, l, i, b, c, m)
  <1>1. Len(q) \in Nat
    BY LenProperties
  <1>2. \A p \in 1 .. Len(q) : Awaited(d, i, l, nl + p)
    BY <1>1 DEF Awaited
  <1>3. CASE LastWrite(q, Len(q) + 1, b, c)
    <2>1. PICK p \in 1 .. Len(q) : /\ <<b, c>> \in q[p].writes
                                   /\ \A h \in p + 1 .. Len(q) : ~Writes(q[h], b)
      BY <1>1, <1>3 DEF LastWrite
    <2> QED
      BY <1>2, <2>1 DEF HoldsAcross
  <1>4. CASE m = c /\ \A h \in 1 .. Len(q) : ~Writes(q[h], b)
    BY <1>4 DEF HoldsAcross
  <1> QED
    BY <1>1, <1>3, <1>4 DEF Holds

-----------------------------------------------------------------------------
(* Queues that run *)

\* What a block that held m holds after an item.
After(it, b, m) ==
  IF Writes(it, b) THEN CHOOSE c \in Contents : <<b, c>> \in it.writes ELSE m

\* An item leaves what it writes, and the other blocks as they were.
LEMMA AfterFacts ==
  ASSUME NEW s, NEW it \in ItemsOf(s), NEW b, NEW m
  PROVE  /\ \A c : <<b, c>> \in it.writes => Writes(it, b) /\ After(it, b, m) = c
         /\ ~Writes(it, b) => After(it, b, m) = m
         /\ b[1] # s => ~Writes(it, b)
  <1>1. ASSUME NEW c, <<b, c>> \in it.writes
        PROVE  c \in Contents /\ \A e : <<b, e>> \in it.writes => e = c
    <2>1. <<b, c>> \in Blocks \X Contents
      BY <1>1 DEF ItemsOf
    <2>2. ASSUME NEW e, <<b, e>> \in it.writes PROVE e = c
      <3>1. <<b, e>> = <<b, c>>
        BY <1>1, <2>2 DEF ItemsOf
      <3> QED
        BY <3>1
    <2> QED
      BY <2>1, <2>2
  <1>2. ASSUME NEW c, <<b, c>> \in it.writes PROVE Writes(it, b) /\ After(it, b, m) = c
    <2>1. Writes(it, b)
      BY <1>1, <1>2 DEF Writes
    <2>2. \A e \in Contents : <<b, e>> \in it.writes <=> e = c
      BY <1>1, <1>2
    <2> QED
      BY <1>1, <1>2, <2>1, <2>2 DEF After
  <1>3. ASSUME NEW c, <<b, c>> \in it.writes PROVE b[1] = s
    BY <1>3 DEF ItemsOf
  <1> QED
    BY <1>2, <1>3 DEF After, Writes

\* A queue without its first item.
LEMMA Shrunk ==
  ASSUME NEW S, NEW q \in Seq(S), q # <<>>
  PROVE  /\ Tail(q) \in Seq(S) /\ Len(q) \in Nat \ {0} /\ Len(Tail(q)) = Len(q) - 1
         /\ Head(q) = q[1] /\ q[1] \in S
         /\ \A i \in 1 .. Len(q) - 1 : Tail(q)[i] = q[i + 1]
  BY HeadTailProperties, EmptySeq

\* A wait that is not the one that has just run is still there.
LEMMA AwaitedShrinks ==
  ASSUME NEW S, NEW q \in Seq(S), q # <<>>, NEW i \in 1 .. Len(q) + 1, NEW s, NEW n,
         Awaited(q, i, s, n), ~(q[1].kind = "wait" /\ q[1].on = s /\ q[1].upto >= n)
  PROVE  i >= 2 /\ Awaited(Tail(q), i - 1, s, n)
  <1>1. PICK j \in 1 .. i - 1 : q[j].kind = "wait" /\ q[j].on = s /\ q[j].upto >= n
    BY DEF Awaited
  <1>2. j # 1 /\ j - 1 \in 1 .. (i - 1) - 1 /\ j - 1 \in 1 .. Len(q) - 1
    BY <1>1, Shrunk
  <1> DEFINE t == Tail(q)
  <1>3. t[j - 1] = q[j]
    BY <1>2, Shrunk
  <1> HIDE DEF t
  <1>4. i >= 2
    BY <1>2
  <1>5. Awaited(t, i - 1, s, n)
    BY <1>1, <1>2, <1>3 DEF Awaited
  <1> QED
    BY <1>4, <1>5 DEF t

\* What is certain for item i is so once the item before all of them has run.
LEMMA HoldsShrinks ==
  ASSUME NEW s, NEW q \in Seq(ItemsOf(s)), q # <<>>, NEW i \in 2 .. Len(q) + 1,
         NEW b, NEW c, NEW m, Holds(q, i, b, c, m)
  PROVE  Holds(Tail(q), i - 1, b, c, After(q[1], b, m))
  <1> DEFINE t == Tail(q)
             a == After(q[1], b, m)
  <1>1. /\ Len(q) \in Nat \ {0} /\ q[1] \in ItemsOf(s)
        /\ \A h \in 1 .. Len(q) - 1 : t[h] = q[h + 1]
    BY Shrunk
  <1>2. /\ \A e : <<b, e>> \in q[1].writes => Writes(q[1], b) /\ a = e
        /\ ~Writes(q[1], b) => a = m
    <2> DEFINE it == q[1]
    <2>1. it \in ItemsOf(s)
      BY <1>1
    <2> HIDE DEF it
    <2>2. /\ \A e : <<b, e>> \in it.writes => Writes(it, b) /\ After(it, b, m) = e
          /\ ~Writes(it, b) => After(it, b, m) = m
      <3>1. ASSUME NEW e, <<b, e>> \in it.writes PROVE Writes(it, b) /\ After(it, b, m) = e
        BY <2>1, <3>1, AfterFacts
      <3>2. ~Writes(it, b) => After(it, b, m) = m
        BY DEF After
      <3> QED
        BY <3>1, <3>2
    <2> QED
      BY <2>2 DEF it
  <1> HIDE DEF t, a
  <1>3. CASE LastWrite(q, i, b, c)
    <2>1. PICK j \in 1 .. i - 1 : /\ <<b, c>> \in q[j].writes
                                  /\ \A h \in j + 1 .. i - 1 : ~Writes(q[h], b)
      BY <1>3 DEF LastWrite
    <2>2. ASSUME NEW h \in j .. (i - 1) - 1, h >= 1 PROVE ~Writes(t[h], b)
      <3>1. h + 1 \in j + 1 .. i - 1 /\ t[h] = q[h + 1]
        BY <1>1, <2>2
      <3> QED
        BY <2>1, <3>1
    <2>3. CASE j = 1
      <3>1. a = c /\ \A h \in 1 .. (i - 1) - 1 : ~Writes(t[h], b)
        BY <1>2, <2>1, <2>2, <2>3
      <3> QED
        BY <3>1 DEF Holds, t, a
    <2>4. CASE j # 1
      <3>1. j - 1 \in 1 .. (i - 1) - 1 /\ t[j - 1] = q[j]
        BY <1>1, <2>4
      <3>2. \A h \in (j - 1) + 1 .. (i - 1) - 1 : ~Writes(t[h], b)
        BY <2>2
      <3> QED
        BY <2>1, <3>1, <3>2 DEF Holds, LastWrite, t, a
    <2> QED
      BY <2>3, <2>4
  <1>4. CASE m = c /\ \A h \in 1 .. i - 1 : ~Writes(q[h], b)
    <2>1. a = c
      BY <1>2, <1>4
    <2>2. ASSUME NEW h \in 1 .. (i - 1) - 1 PROVE ~Writes(t[h], b)
      <3>1. h + 1 \in 1 .. i - 1 /\ t[h] = q[h + 1]
        BY <1>1
      <3> QED
        BY <1>4, <3>1
    <2> QED
      BY <2>1, <2>2 DEF Holds, t, a
  <1> QED
    BY <1>3, <1>4 DEF Holds

\* Across streams: the default stream runs an item; a wait of its runs only when what it waits
\* for has run.
LEMMA AcrossDefaultRuns ==
  ASSUME NEW S, NEW d \in Seq(S), d # <<>>, NEW T, NEW q \in Seq(T), NEW n \in Nat,
         NEW nl \in Nat, NEW l,
         NEW i \in 2 .. Len(d), NEW b, NEW c, NEW m, HoldsAcross(d, n, q, nl, l, i, b, c, m),
         d[1].kind = "wait" /\ d[1].on = l => nl >= d[1].upto, d[1].upto \in Nat
  PROVE  HoldsAcross(Tail(d), n + 1, q, nl, l, i - 1, b, c, m)
  <1>1. (n + 1) + (i - 1) = n + i /\ i \in 1 .. Len(d) + 1 /\ Len(q) \in Nat
    BY Shrunk, LenProperties
  <1>2. \A p \in 1 .. Len(q) : Awaited(d, i, l, nl + p) => Awaited(Tail(d), i - 1, l, nl + p)
    <2> TAKE p \in 1 .. Len(q)
    <2>1. ~(d[1].kind = "wait" /\ d[1].on = l /\ d[1].upto >= nl + p)
      BY <1>1
    <2> QED
      BY <1>1, <2>1, AwaitedShrinks
  <1> QED
    BY <1>1, <1>2 DEF HoldsAcross

\* Or the layer's stream does.
LEMMA AcrossLayerRuns ==
  ASSUME NEW s, NEW q \in Seq(ItemsOf(s)), q # <<>>, NEW d, NEW n \in Nat, NEW nl \in Nat,
         NEW l, NEW i \in Nat \ {0}, NEW b, NEW c, NEW m, HoldsAcross(d, n, q, nl, l, i, b, c, m),
         q[1].kind = "wait" /\ q[1].on = Default => n >= q[1].upto
  PROVE  HoldsAcross(d, n, Tail(q), nl + 1, l, i, b, c, After(q[1], b, m))
  <1> DEFINE t == Tail(q)
             a == After(q[1], b, m)
  <1>1. /\ Len(q) \in Nat \ {0} /\ q[1] \in ItemsOf(s) /\ Len(t) = Len(q) - 1
        /\ \A h \in 1 .. Len(q) - 1 : t[h] = q[h + 1]
    BY Shrunk
  <1>2. /\ \A e : <<b, e>> \in q[1].writes => Writes(q[1], b) /\ a = e
        /\ ~Writes(q[1], b) => a = m
    <2> DEFINE it == q[1]
    <2>1. it \in ItemsOf(s)
      BY <1>1
    <2> HIDE DEF it
    <2>2. /\ \A e : <<b, e>> \in it.writes => Writes(it, b) /\ After(it, b, m) = e
          /\ ~Writes(it, b) => After(it, b, m) = m
      <3>1. ASSUME NEW e, <<b, e>> \in it.writes PROVE Writes(it, b) /\ After(it, b, m) = e
        BY <2>1, <3>1, AfterFacts
      <3>2. ~Writes(it, b) => After(it, b, m) = m
        BY DEF After
      <3> QED
        BY <3>1, <3>2
    <2> QED
      BY <2>2 DEF it
  <1>3. q[1].upto \in Nat
    BY <1>1 DEF ItemsOf
  <1>4. \A h \in 1 .. Len(q) :
          Awaited(q, h, Default, n + i) => h >= 2 /\ Awaited(t, h - 1, Default, n + i)
    <2> TAKE h \in 1 .. Len(q)
    <2>1. ~(q[1].kind = "wait" /\ q[1].on = Default /\ q[1].upto >= n + i)
      BY <1>3
    <2> QED
      BY <1>1, <2>1, AwaitedShrinks
  <1> HIDE DEF t, a
  <1>5. ASSUME NEW p \in 0 .. Len(q) - 1,
               \A h \in p + 2 .. Len(q) : Writes(q[h], b) => Awaited(q, h, Default, n + i)
        PROVE  \A h \in p + 1 .. Len(t) : Writes(t[h], b) => Awaited(t, h, Default, n + i)
    <2> TAKE h \in p + 1 .. Len(t)
    <2>1. h + 1 \in p + 2 .. Len(q) /\ t[h] = q[h + 1] /\ h + 1 \in 1 .. Len(q) /\ (h + 1) - 1 = h
      BY <1>1
    <2> QED
      BY <1>4, <1>5, <2>1
  <1>6. CASE \E p \in 1 .. Len(q) :
               /\ <<b, c>> \in q[p].writes
               /\ Awaited(d, i, l, nl + p)
               /\ \A h \in p + 1 .. Len(q) : Writes(q[h], b) => Awaited(q, h, Default, n + i)
    <2>1. PICK p \in 1 .. Len(q) :
               /\ <<b, c>> \in q[p].writes
               /\ Awaited(d, i, l, nl + p)
               /\ \A h \in p + 1 .. Len(q) : Writes(q[h], b) => Awaited(q, h, Default, n + i)
      BY <1>6
    <2>2. /\ p - 1 \in 0 .. Len(q) - 1 /\ (p - 1) + 1 = p
          /\ \A h \in (p - 1) + 2 .. Len(q) : Writes(q[h], b) => Awaited(q, h, Default, n + i)
      BY <1>1, <2>1
    <2>3. \A h \in p .. Len(t) : Writes(t[h], b) => Awaited(t, h, Default, n + i)
      BY <1>5, <2>2
    <2>4. CASE p = 1
      <3>1. a = c
        BY <1>2, <2>1, <2>4
      <3> QED
        BY <2>3, <2>4, <3>1 DEF HoldsAcross, t, a
    <2>5. CASE p # 1
      <3>1. p - 1 \in 1 .. Len(t) /\ t[p - 1] = q[p] /\ (nl + 1) + (p - 1) = nl + p
        BY <1>1, <2>5
      <3>2. /\ <<b, c>> \in t[p - 1].writes
            /\ Awaited(d, i, l, (nl + 1) + (p - 1))
            /\ \A h \in (p - 1) + 1 .. Len(t) : Writes(t[h], b) => Awaited(t, h, Default, n + i)
        BY <2>1, <2>2, <2>3, <3>1
      <3> QED
        BY <3>1, <3>2 DEF HoldsAcross, t, a
    <2> QED
      BY <2>4, <2>5
  <1>7. CASE /\ m = c
             /\ \A h \in 1 .. Len(q) : Writes(q[h], b) => Awaited(q, h, Default, n + i)
    <2>1. ~Writes(q[1], b)
      BY <1>1, <1>4, <1>7
    <2>2. a = c
      BY <1>2, <1>7, <2>1
    <2>0. 0 \in 0 .. Len(q) - 1 /\ 0 + 2 \in 1 .. Len(q) + 1
      BY <1>1
    <2>3. \A h \in 0 + 1 .. Len(t) : Writes(t[h], b) => Awaited(t, h, Default, n + i)
      <3>1. \A h \in 0 + 2 .. Len(q) : Writes(q[h], b) => Awaited(q, h, Default, n + i)
        BY <1>1, <1>7
      <3> QED
        BY <1>5, <2>0, <3>1
    <2> QED
      BY <2>2, <2>3 DEF HoldsAcross, t, a
  <1> QED
    BY <1>6, <1>7 DEF HoldsAcross

\* What is certain for the item that runs next is there.
LEMMA HoldsNow ==
  ASSUME NEW d, NEW n, NEW q, NEW nl, NEW l, NEW b, NEW c, NEW m
  PROVE  /\ Holds(d, 1, b, c, m) => m = c
         /\ HoldsAcross(d, n, q, nl, l, 1, b, c, m) => m = c
  BY DEF Holds, LastWrite, HoldsAcross, Awaited

-----------------------------------------------------------------------------
(* The items the host launches *)

\* Streams and the blocks of their pools.
LEMMA StreamFacts ==
  /\ \A b \in Blocks : b[1] \in Streams
  /\ NoBlock \notin Blocks
  /\ Default \in Streams /\ Default \notin Layers /\ Layers \subseteq Streams
  /\ \A s \in Streams : s # Default => s \in Layers
  BY StreamAssumption DEF Blocks, Streams, NoBlock, Default, Layers

\* Contents are those the host asks for.
LEMMA ContentFacts ==
  /\ \A s \in 1 .. MaxSteps, l \in Layers : Keys(s, l) \in Contents
  /\ \A l \in Layers, r \in Reqs : Meta(l, r) \in Contents
  /\ \A s, t, l, m : Keys(s, l) = Keys(t, m) => s = t /\ l = m
  BY DEF Contents, Keys, Meta

\* A kernel that stays within the pool of its stream.
LEMMA KernelItem ==
  ASSUME NEW s, NEW name \in Kinds \ {"wait"}, NEW rd, rd \subseteq Blocks \X Contents,
         NEW wr, wr \subseteq Blocks \X Contents,
         \A x \in wr : x[1][1] = s, \A x, y \in wr : x[1] = y[1] => x = y
  PROVE  /\ Kernel(name, rd, wr) \in ItemsOf(s)
         /\ Kernel(name, rd, wr).kind = name
         /\ Kernel(name, rd, wr).reads = rd /\ Kernel(name, rd, wr).writes = wr
  BY StreamFacts DEF Kernel, ItemsOf

\* A wait.
LEMMA WaitItem ==
  ASSUME NEW t, NEW s \in Streams, NEW n, Launched(s) + n \in Nat
  PROVE  /\ WaitStream(s, n) \in ItemsOf(t)
         /\ WaitStream(s, n).kind = "wait" /\ WaitStream(s, n).on = s
         /\ WaitStream(s, n).upto = Launched(s) + n
         /\ WaitStream(s, n).reads = {} /\ WaitStream(s, n).writes = {}
  BY DEF WaitStream, ItemsOf, Kinds

\* The first kernels of forward(), whose keys are in block k.
LEMMA ProjectAttend ==
  ASSUME NEW k \in Free(Default), step \in 1 .. MaxSteps, layer \in Layers
  PROVE  /\ k \in Blocks /\ k[1] = Default
         /\ Project(k) \in ItemsOf(Default) /\ Project(k).kind = "project"
         /\ Project(k).reads = {} /\ Project(k).writes = {<<k, Keys(step, layer)>>}
         /\ Attend(k) \in ItemsOf(Default) /\ Attend(k).kind = "attend"
         /\ Attend(k).reads = {<<k, Keys(step, layer)>>} /\ Attend(k).writes = {}
  <1>1. k \in Blocks /\ k[1] = Default /\ Keys(step, layer) \in Contents
    BY ContentFacts DEF Free
  <1> DEFINE w == {<<k, Keys(step, layer)>>}
  <1>2. /\ w \subseteq Blocks \X Contents /\ \A x \in w : x[1][1] = Default
        /\ \A x, y \in w : x[1] = y[1] => x = y
    BY <1>1
  <1> HIDE DEF w
  <1>3. /\ Kernel("project", {}, w) \in ItemsOf(Default)
        /\ Kernel("project", {}, w).kind = "project"
        /\ Kernel("project", {}, w).reads = {} /\ Kernel("project", {}, w).writes = w
    BY <1>2, KernelItem, SMTT(30) DEF Kinds
  <1>4. /\ Kernel("attend", w, {}) \in ItemsOf(Default)
        /\ Kernel("attend", w, {}).kind = "attend"
        /\ Kernel("attend", w, {}).reads = w /\ Kernel("attend", w, {}).writes = {}
    BY <1>2, KernelItem DEF Kinds
  <1> QED
    BY <1>1, <1>3, <1>4 DEF Project, Attend, w

\* A held block keeps its content when a queue grows by items that do not write it.
LEMMA HeldKept ==
  ASSUME NEW S, NEW q \in Seq(S), NEW e \in Seq(S), NEW b, NEW c, NEW m,
         Holds(q, Len(q) + 1, b, c, m), \A h \in 1 .. Len(e) : ~Writes(e[h], b)
  PROVE  Holds(q \o e, Len(q \o e) + 1, b, c, m)
  <1> DEFINE f == q \o e
  <1>1. /\ Len(f) = Len(q) + Len(e) /\ Len(q) \in Nat /\ Len(e) \in Nat
        /\ \A h \in 1 .. Len(e) : f[Len(q) + h] = e[h]
    BY Extended
  <1>2. Holds(f, Len(q) + 1, b, c, m)
    BY <1>1, ExtendedKeeps, SMTT(30)
  <1> HIDE DEF f
  <1>3. ASSUME NEW h \in Len(q) + 1 .. (Len(f) + 1) - 1 PROVE ~Writes(f[h], b)
    <2>1. h - Len(q) \in 1 .. Len(e) /\ f[Len(q) + (h - Len(q))] = e[h - Len(q)]
      BY <1>1
    <2> QED
      BY <1>1, <2>1
  <1>4. Len(q) + 1 \in Nat /\ Len(f) + 1 \in Nat /\ Len(q) + 1 <= Len(f) + 1
    BY <1>1
  <1>5. Holds(f, Len(f) + 1, b, c, m)
    BY <1>2, <1>3, <1>4, HoldsLonger
  <1> QED
    BY <1>5 DEF f

\* One more item on the default stream: its own reads are all there is to look at.
LEMMA ReadsExtended ==
  ASSUME NEW d \in Seq(ItemsOf(Default)), NEW y \in ItemsOf(Default), NEW qs,
         ReadsHold(d, qs),
         \A x \in y.reads : Certain(d, qs, Len(d) + 1, x)
  PROVE  ReadsHold(d \o <<y>>, qs)
  <1> DEFINE f == d \o <<y>>
             S == ItemsOf(Default)
  <1> HIDE DEF S
  <1>0. <<y>> \in Seq(S) /\ d \in Seq(S)
    BY DEF S
  <1>1. /\ Len(f) = Len(d) + 1 /\ Len(d) \in Nat
        /\ \A h \in 1 .. Len(d) : f[h] = d[h]
        /\ f[Len(d) + 1] = y
    BY <1>0
  <1>2. SUFFICES ASSUME NEW i \in 1 .. Len(f), NEW x \in f[i].reads
                 PROVE  Certain(f, qs, i, x)
    BY DEF ReadsHold
  <1>3. Certain(d, qs, i, x)
    <2> HIDE DEF f
    <2>1. CASE i \in 1 .. Len(d)
      BY <1>1, <1>2, <2>1 DEF ReadsHold
    <2>2. CASE i = Len(d) + 1
      BY <1>1, <1>2, <2>2
    <2> QED
      BY <1>1, <2>1, <2>2
  <1>4. i \in 1 .. Len(d) + 1
    BY <1>1
  <1>5. CASE x[1][1] = Default
    BY <1>0, <1>3, <1>4, <1>5, ExtendedKeeps DEF Certain
  <1>6. CASE x[1][1] # Default
    BY <1>0, <1>3, <1>4, <1>6, AcrossDefaultGrows DEF Certain
  <1> QED
    BY <1>5, <1>6

-----------------------------------------------------------------------------
(* The steps *)

\* Nothing is launched at first.
LEMMA InitStream == Init => StreamInv
  <1> SUFFICES ASSUME Init PROVE StreamInv
    OBVIOUS
  <1>1. \A s \in Streams : queue[s] = <<>> /\ Len(queue[s]) = 0
    BY DEF Init
  <1>2. TypeOK
    <2>1. \A b \in Blocks : mem[b] \in Contents
      BY DEF Init, Contents
    <2> QED
      BY <1>1, <2>1, StreamAssumption DEF Init, TypeOK, Layers
  <1>3. StreamType
    <2>1. DOMAIN queue = Streams
      BY DEF Init
    <2>2. layer \notin Layers
      BY StreamAssumption DEF Init, Layers
    <2> QED
      BY <1>1, <1>2, <2>1, <2>2, EmptySeq DEF StreamType
  <1>4. Default \in Streams /\ Layers \subseteq Streams
    BY StreamFacts
  <1> QED
    BY <1>1, <1>3, <1>4 DEF Init, StreamInv, ReadsHold, MetaHolds, QuantizeWaits

\* A step starts: nothing is launched yet.
LEMMA StartInv ==
  ASSUME StreamInv, NEW p \in BOOLEAN, NEW rs \in SUBSET Reqs,
         StartStep([prefill |-> p, reqs |-> rs])
  PROVE  StreamInv'
  <1>1. StreamType'
    BY StreamAssumption DEF StreamInv, StreamType, TypeOK, StartStep, Layers
  <1>2. ReadsHold(queue[Default], queue)' /\ MetaHolds'
    BY DEF StreamInv, ReadsHold, Certain, MetaHolds, StartStep
  <1>3. QuantizeWaits'
    <2>1. step \in Int /\ step' = step + 1 /\ queue' = queue /\ done' = done
      BY DEF StreamInv, StreamType, TypeOK, StartStep
    <2>2. ASSUME NEW l \in Layers, NEW i \in 1 .. Len(queue[l]), queue[l][i].kind = "quantize"
          PROVE  ReadsEarlierKeys(queue[l][i], step', layer')
      <3>1. PICK k \in Blocks, s \in 1 .. MaxSteps, m \in Layers :
                   /\ queue[l][i].reads = {<<k, Keys(s, m)>>}
                   /\ s < step \/ (s = step /\ m < layer)
        BY <2>2 DEF StreamInv, QuantizeWaits, ReadsEarlierKeys
      <3>2. s < step'
        BY <2>1, <3>1
      <3> QED
        BY <3>1, <3>2 DEF ReadsEarlierKeys
    <2> QED
      BY <2>1, <2>2 DEF StreamInv, QuantizeWaits
  <1> QED
    BY <1>1, <1>2, <1>3 DEF StreamInv

\* The item that quantizes the keys in k for the requests of D.
QuantizeOf(z, k, into, D) ==
  /\ z \in ItemsOf(layer) /\ z.kind = "quantize"
  /\ z.reads = {<<k, Keys(step, layer)>>}
  /\ z.writes = {<<into[r], Meta(layer, r)>> : r \in D}

\* The quantization of a forward(), launched behind a wait.
LEMMA QuantizeItems ==
  ASSUME NEW k \in Free(Default), step \in 1 .. MaxSteps, layer \in Layers,
         NEW D, D \subseteq Reqs, NEW into \in [D -> Free(layer)], Injective(into)
  PROVE  /\ Quantize(k, into) \in Seq(ItemsOf(layer))
         /\ D = {} => Quantize(k, into) = <<>>
         /\ D # {} => \E z : Quantize(k, into) = <<z>> /\ QuantizeOf(z, k, into, D)
  <1> DEFINE rd == {<<k, Keys(step, layer)>>}
             wr == {<<into[r], Meta(layer, r)>> : r \in D}
             z == Kernel("quantize", rd, wr)
  <1>1. DOMAIN into = D /\ \A r \in D : into[r] \in Blocks /\ into[r][1] = layer
    BY DEF Free
  <1>2. rd \subseteq Blocks \X Contents
    BY ContentFacts DEF Free
  <1>3. wr \subseteq Blocks \X Contents
    BY <1>1, ContentFacts
  <1>4. \A x \in wr : x[1][1] = layer
    BY <1>1
  <1>5. ASSUME NEW x \in wr, NEW y \in wr, x[1] = y[1] PROVE x = y
    <2>1. PICK r \in D : x = <<into[r], Meta(layer, r)>>
      OBVIOUS
    <2>2. PICK u \in D : y = <<into[u], Meta(layer, u)>>
      OBVIOUS
    <2>3. r = u
      BY <1>1, <1>5, <2>1, <2>2 DEF Injective
    <2> QED
      BY <2>1, <2>2, <2>3
  <1> HIDE DEF rd, wr
  <1>6. z \in ItemsOf(layer) /\ z.kind = "quantize" /\ z.reads = rd /\ z.writes = wr
    BY <1>2, <1>3, <1>4, <1>5, KernelItem DEF Kinds
  <1>7. Quantize(k, into) = IF D = {} THEN <<>> ELSE <<z>>
    BY <1>1 DEF Quantize, rd, wr
  <1> HIDE DEF z
  <1>8. CASE D = {}
    <2>1. Quantize(k, into) = <<>>
      BY <1>7, <1>8
    <2> QED
      BY <1>8, <2>1, EmptySeq
  <1>9. CASE D # {}
    <2> DEFINE S == ItemsOf(layer)
    <2>1. Quantize(k, into) = <<z>>
      BY <1>7, <1>9
    <2> HIDE DEF S
    <2>2. z \in S
      BY <1>6 DEF S
    <2>3. <<z>> \in Seq(S)
      BY <2>2
    <2> QED
      BY <1>6, <1>9, <2>1, <2>3 DEF rd, wr, S, QuantizeOf
  <1> QED
    BY <1>8, <1>9

\* forward() with a prefill: the keys are read at once on the default stream, and the
\* quantization is launched behind a wait for it.
LEMMA PrefillInv ==
  ASSUME StreamInv, NEW k \in Free(Default), ForwardPrefill(k)
  PROVE  StreamInv'
  <1>1. PICK into \in [batch.reqs \ Prepared(layer) -> Free(layer)] :
          /\ Injective(into)
          /\ queue' = [queue EXCEPT
               ![Default] = @ \o <<Project(k), Attend(k)>>,
               ![layer] = @ \o <<WaitStream(Default, 2)>> \o Quantize(k, into)]
          /\ meta' = [meta EXCEPT ![layer] =
               [r \in Reqs |-> IF r \in DOMAIN into THEN into[r] ELSE @[r]]]
    BY DEF ForwardPrefill
  <1>2. /\ layer \in Layers /\ step \in 1 .. MaxSteps /\ layer \in Nat
        /\ batch.reqs \subseteq Reqs
        /\ done \in [Streams -> Nat] /\ mem \in [Blocks -> Contents]
        /\ meta \in [Layers -> [Reqs -> Blocks \cup {NoBlock}]]
        /\ \A s \in Streams : queue[s] \in Seq(ItemsOf(s)) /\ Len(queue[s]) \in Nat
        /\ DOMAIN queue = Streams /\ queue[Default] \in Seq(ItemsOf(Default))
        /\ Len(queue[Default]) \in Nat
    BY StreamAssumption, StreamFacts, LenProperties, SMTT(30)
       DEF StreamInv, StreamType, TypeOK, ForwardPrefill, Layers
  <1>3. /\ step' = step /\ layer' = layer + 1 /\ batch' = batch /\ done' = done /\ mem' = mem
        /\ streamOf' = streamOf \cup {layer}
    BY DEF ForwardPrefill
  <1> DEFINE D == batch.reqs \ Prepared(layer)
             P == Project(k)
             A == Attend(k)
             W == WaitStream(Default, 2)
             Z == Quantize(k, into)
             d == queue[Default]
             q == queue[layer]
             e == <<W>> \o Z
             Key == <<k, Keys(step, layer)>>
  <1>4. /\ k \in Blocks /\ k[1] = Default
        /\ P \in ItemsOf(Default) /\ P.kind = "project" /\ P.reads = {} /\ P.writes = {Key}
        /\ A \in ItemsOf(Default) /\ A.kind = "attend" /\ A.reads = {Key} /\ A.writes = {}
    BY <1>2, ProjectAttend
  <1>5. /\ W \in ItemsOf(layer) /\ W.kind = "wait" /\ W.on = Default /\ W.writes = {}
        /\ W.upto = done[Default] + Len(d) + 2
    <2>1. Launched(Default) + 2 \in Nat
      BY <1>2, StreamFacts DEF Launched
    <2> QED
      BY <1>2, <2>1, WaitItem, StreamFacts DEF Launched
  <1>6. /\ D \subseteq Reqs /\ into \in [D -> Free(layer)] /\ DOMAIN into = D
        /\ Injective(into)
    BY <1>1, <1>2
  <1> HIDE DEF D
  <1>7. /\ Z \in Seq(ItemsOf(layer))
        /\ D = {} => Z = <<>>
        /\ D # {} => \E z : Z = <<z>> /\ QuantizeOf(z, k, into, D)
    BY <1>2, <1>6, QuantizeItems
  <1>8. layer \in Streams /\ layer # Default /\ Default \in Streams
    BY <1>2, StreamFacts
  <1> HIDE DEF P, A, W, Z, D, Key
  \* The layer's queue grows by the wait and, if anything is to be quantized, one item.
  <1>9. /\ e \in Seq(ItemsOf(layer)) /\ Len(e) \in {1, 2} /\ e[1] = W
        /\ (Len(e) = 2) <=> (D # {})
        /\ D # {} => QuantizeOf(e[2], k, into, D)
        /\ (q \o <<W>>) \o Z = q \o e
    <2> DEFINE S == ItemsOf(layer)
    <2>1. W \in S /\ Z \in Seq(S) /\ q \in Seq(S)
      BY <1>2, <1>5, <1>7, <1>8
    <2> HIDE DEF S, q
    <2>2. <<W>> \in Seq(S) /\ Len(<<W>>) = 1
      BY <2>1
    <2>3. /\ e \in Seq(S) /\ Len(e) = 1 + Len(Z) /\ e[1] = W
          /\ \A i \in 1 .. Len(Z) : e[1 + i] = Z[i]
      BY <2>1, <2>2, Extended
    <2>4. (q \o <<W>>) \o Z = q \o e
      BY <2>1, <2>2, ConcatAssociative
    <2>5. CASE D = {}
      BY <1>7, <2>3, <2>4, <2>5, EmptySeq DEF S, q
    <2>6. CASE D # {}
      <3>1. PICK z : Z = <<z>> /\ QuantizeOf(z, k, into, D)
        BY <1>7, <2>6
      <3>2. Len(Z) = 1 /\ Z[1] = z
        BY <3>1
      <3>3. Len(e) = 2 /\ e[2] = z
        BY <2>3, <3>2
      <3> QED
        BY <2>3, <2>4, <2>6, <3>1, <3>3 DEF S, q
    <2> QED
      BY <2>5, <2>6
  <1> HIDE DEF e
  <1> DEFINE d1 == d \o <<P>>
             d2 == d1 \o <<A>>
  <1>10. /\ d1 \in Seq(ItemsOf(Default)) /\ Len(d1) = Len(d) + 1 /\ d1[Len(d) + 1] = P
         /\ d2 \in Seq(ItemsOf(Default)) /\ Len(d2) = Len(d) + 2
         /\ \A i \in 1 .. Len(d) : d2[i] = d[i]
         /\ d2[Len(d) + 1] = P /\ d2[Len(d) + 2] = A
         /\ d \o <<P, A>> = d2
    <2> DEFINE S == ItemsOf(Default)
    <2>1. P \in S /\ A \in S /\ d \in Seq(S)
      BY <1>2, <1>4
    <2> HIDE DEF S, d
    <2>3. d \o <<P, A>> = d2
      BY <2>1, ExtendedTwice
    <2>4. d1 \in Seq(S) /\ Len(d1) = Len(d) + 1 /\ d1[Len(d) + 1] = P
          /\ \A i \in 1 .. Len(d) : d1[i] = d[i]
      BY <2>1
    <2> HIDE DEF d1
    <2>5. d2 \in Seq(S) /\ Len(d2) = Len(d1) + 1 /\ d2[Len(d1) + 1] = A
          /\ \A i \in 1 .. Len(d1) : d2[i] = d1[i]
      BY <2>1, <2>4
    <2> HIDE DEF d2
    <2>6. Len(d) \in Nat
      BY <2>1
    <2> QED
      BY <2>3, <2>4, <2>5, <2>6 DEF S
  <1>11. /\ queue'[Default] = d2 /\ queue'[layer] = q \o e /\ DOMAIN queue' = Streams
         /\ \A s \in Streams \ {Default, layer} : queue'[s] = queue[s]
    BY <1>1, <1>2, <1>8, <1>9, <1>10 DEF P, A, W, Z
  <1> HIDE DEF d1, d2
  <1>12. /\ Len(q) \in Nat /\ Len(q \o e) = Len(q) + Len(e)
         /\ q \o e \in Seq(ItemsOf(layer))
         /\ \A i \in 1 .. Len(q) : (q \o e)[i] = q[i]
         /\ (q \o e)[Len(q) + 1] = W
         /\ D # {} => (q \o e)[Len(q) + 2] = e[2]
    <2> DEFINE S == ItemsOf(layer)
    <2>1. q \in Seq(S) /\ e \in Seq(S)
      BY <1>2, <1>8, <1>9
    <2> HIDE DEF S, q
    <2>2. /\ Len(q) \in Nat /\ Len(q \o e) = Len(q) + Len(e) /\ q \o e \in Seq(S)
          /\ \A i \in 1 .. Len(q) : (q \o e)[i] = q[i]
          /\ \A i \in 1 .. Len(e) : (q \o e)[Len(q) + i] = e[i]
      BY <2>1, Extended
    <2> QED
      BY <1>9, <2>2 DEF S
  \* What is launched on the layer's stream waits for the whole default stream.
  <1>13. \A i \in 1 .. Len(d) + 2 :
           Awaited(q \o e, Len(q) + 2, Default, done[Default] + i)
    <2> TAKE i \in 1 .. Len(d) + 2
    <2> DEFINE n == done[Default]
               f == q \o e
    <2>0. n \in Nat /\ Len(d) \in Nat /\ Len(q) \in Nat /\ f[Len(q) + 1] = W
      BY <1>2, <1>8, <1>12
    <2>1. W.upto = n + Len(d) + 2
      BY <1>5
    <2> HIDE DEF n, d, q, f
    <2>2. W.upto >= n + i /\ Len(q) + 1 \in 1 .. (Len(q) + 2) - 1
      BY <2>0, <2>1
    <2>3. Awaited(f, Len(q) + 2, Default, n + i)
      BY <1>5, <2>0, <2>2 DEF Awaited
    <2> QED
      BY <2>3 DEF n, f, q
  <1>14. StreamType'
    <2>1. \A s \in Streams : queue'[s] \in Seq(ItemsOf(s))
      BY <1>2, <1>10, <1>11, <1>12
    <2>2. \A s \in Streams : \A i \in DOMAIN queue'[s] : queue'[s][i].kind \in Kinds
      <3> TAKE s \in Streams
      <3> DEFINE S == ItemsOf(s)
      <3>1. queue'[s] \in Seq(S) /\ \A x \in S : x.kind \in Kinds
        BY <2>1 DEF ItemsOf
      <3> HIDE DEF S
      <3> QED
        BY <3>1
    <2>3. meta' \in [Layers -> [Reqs -> Blocks \cup {NoBlock}]]
      BY <1>1, <1>2, <1>6 DEF Free
    <2>4. layer' \in 1 .. NumLayers + 1 /\ streamOf' \in SUBSET Layers
      BY <1>2, <1>3, StreamAssumption DEF Layers, StreamInv, StreamType, TypeOK
    <2> QED
      BY <1>2, <1>3, <1>11, <2>1, <2>2, <2>3, <2>4
         DEF StreamInv, StreamType, TypeOK, Kinds
  <1>15. ReadsHold(d, queue')
    <2> SUFFICES ASSUME NEW i \in 1 .. Len(d), NEW x \in d[i].reads
                 PROVE  IF x[1][1] = Default THEN Holds(d, i, x[1], x[2], mem[x[1]])
                        ELSE HoldsAcross(d, done[Default], queue'[x[1][1]], done[x[1][1]],
                                         x[1][1], i, x[1], x[2], mem[x[1]])
      BY DEF ReadsHold, Certain
    <2>1. IF x[1][1] = Default THEN Holds(d, i, x[1], x[2], mem[x[1]])
          ELSE HoldsAcross(d, done[Default], queue[x[1][1]], done[x[1][1]],
                           x[1][1], i, x[1], x[2], mem[x[1]])
      BY DEF StreamInv, ReadsHold, Certain
    <2>2. x[1][1] \in Streams
      <3>1. d[i] \in ItemsOf(Default)
        BY <1>2, ElementOfSeq
      <3>2. x \in Blocks \X Contents
        BY <3>1 DEF ItemsOf
      <3> QED
        BY <3>2, StreamFacts
    <2>3. CASE x[1][1] # layer
      BY <1>11, <2>1, <2>2, <2>3
    <2>4. CASE x[1][1] = layer
      <3> DEFINE n == done[Default]
                 S == ItemsOf(layer)
      <3>1. HoldsAcross(d, n, q, done[layer], layer, i, x[1], x[2], mem[x[1]])
        BY <1>8, <2>1, <2>4
      <3>2. ASSUME NEW h \in Len(q) + 1 .. Len(q) + Len(e), Writes((q \o e)[h], x[1])
            PROVE  Awaited(q \o e, h, Default, n + i)
        <4>1. h # Len(q) + 1
          BY <1>5, <1>12, <3>2 DEF Writes
        <4>2. h = Len(q) + 2
          <5>1. Len(q) \in Nat /\ (Len(e) = 1 \/ Len(e) = 2)
            BY <1>9, <1>12
          <5> HIDE DEF q
          <5>2. h \in Len(q) + 1 .. Len(q) + Len(e) /\ Len(e) \in Nat
            BY <5>1
          <5> QED
            BY <4>1, <5>1, <5>2, SecondOfTwo
        <4>3. i \in 1 .. Len(d) + 2
          BY <1>2
        <4> QED
          BY <1>13, <4>2, <4>3
      <3>3. q \in Seq(S) /\ e \in Seq(S)
        BY <1>2, <1>8, <1>9
      <3> HIDE DEF n, S, q, d
      <3>4. HoldsAcross(d, n, q \o e, done[layer], layer, i, x[1], x[2], mem[x[1]])
        BY <3>1, <3>2, <3>3, AcrossLayerGrows
      <3> QED
        BY <1>8, <1>11, <2>4, <3>4 DEF n, q, d
    <2> QED
      BY <2>3, <2>4
  <1>16. ReadsHold(queue[Default], queue)'
    <2>1. ReadsHold(d1, queue')
      <3>1. \A x \in P.reads : FALSE
        BY <1>4
      <3> HIDE DEF d
      <3> QED
        BY <1>2, <1>4, <1>15, <3>1, ReadsExtended DEF d, d1
    <2>2. Holds(d1, Len(d1) + 1, k, Keys(step, layer), mem[k])
      <3>1. Len(d1) \in Nat \ {0} /\ <<k, Keys(step, layer)>> \in d1[Len(d1)].writes
        BY <1>2, <1>4, <1>10 DEF Key
      <3> QED
        BY <3>1, HoldsLast
    <2>3. \A x \in A.reads : x[1] = k /\ x[2] = Keys(step, layer) /\ x[1][1] = Default
      BY <1>4 DEF Key
    <2>4. ReadsHold(d2, queue')
      BY <1>4, <1>10, <2>1, <2>2, <2>3, ReadsExtended DEF d2, Certain
    <2> QED
      BY <1>3, <1>11, <2>4 DEF ReadsHold, Certain
  <1>17. MetaHolds'
    <2> SUFFICES ASSUME NEW l \in Layers, NEW r \in Reqs, meta'[l][r] # NoBlock,
                        NEW b, b = meta'[l][r]
                 PROVE  /\ l \in streamOf'
                        /\ b[1] \in {Default, l}
                        /\ Holds(queue'[b[1]], Len(queue'[b[1]]) + 1, b, Meta(l, r), mem[b])
      BY <1>3 DEF MetaHolds
    <2>1. CASE l = layer /\ r \in D
      <3>1. b = into[r] /\ b \in Free(layer) /\ D # {}
        BY <1>1, <1>2, <1>6, <2>1
      <3>2. b[1] = layer /\ l \in streamOf'
        BY <1>3, <2>1, <3>1 DEF Free
      <3>3. <<b, Meta(layer, r)>> \in (q \o e)[Len(q) + 2].writes /\ Len(q \o e) = Len(q) + 2
        BY <1>9, <1>12, <2>1, <3>1 DEF QuantizeOf
      <3> DEFINE f == q \o e
      <3>4. Len(q) + 2 \in Nat \ {0}
        BY <1>12
      <3> HIDE DEF f, q
      <3>5. Holds(f, Len(f) + 1, b, Meta(layer, r), mem[b])
        BY <3>3, <3>4, HoldsLast DEF f
      <3> QED
        BY <1>11, <2>1, <3>2, <3>5 DEF f, q
    <2>2. CASE ~(l = layer /\ r \in D)
      <3>1. b = meta[l][r] /\ b # NoBlock
        BY <1>1, <1>2, <1>6, <2>2
      <3>2. /\ l \in streamOf /\ b[1] \in {Default, l}
            /\ Holds(queue[b[1]], Len(queue[b[1]]) + 1, b, Meta(l, r), mem[b])
        BY <3>1 DEF StreamInv, MetaHolds
      <3>3. b # k /\ \A u \in D : into[u] # b
        BY <1>6, <3>1 DEF Free
      <3>4. CASE b[1] = Default
        <4> DEFINE S == ItemsOf(Default)
                   g == <<P, A>>
        <4>1. d \in Seq(S) /\ g \in Seq(S) /\ Len(g) = 2 /\ g[1] = P /\ g[2] = A
          <5>1. P \in S /\ A \in S
            BY <1>4
          <5> HIDE DEF S
          <5>2. g \in Seq(S) /\ Len(g) = 2 /\ g[1] = P /\ g[2] = A
            BY <5>1
          <5> QED
            BY <1>2, <5>2 DEF S
        <4>2. ~Writes(P, b) /\ ~Writes(A, b)
          BY <1>4, <3>3 DEF Writes, Key
        <4>3. \A h \in 1 .. Len(g) : ~Writes(g[h], b)
          BY <4>1, <4>2
        <4> HIDE DEF S, g
        <4>4. Holds(d \o g, Len(d \o g) + 1, b, Meta(l, r), mem[b])
          BY <3>2, <3>4, <4>1, <4>3, HeldKept
        <4> QED
          BY <1>3, <1>10, <1>11, <3>2, <3>4, <4>4 DEF g
      <3>5. CASE b[1] = l /\ l = layer
        <4> DEFINE S == ItemsOf(layer)
        <4>1. q \in Seq(S) /\ e \in Seq(S)
          BY <1>2, <1>8, <1>9
        <4>2. ASSUME NEW h \in 1 .. Len(e) PROVE ~Writes(e[h], b)
          <5>1. CASE h = 1
            BY <1>5, <1>9, <5>1 DEF Writes
          <5>2. CASE h = 2
            <6>1. \A x \in e[2].writes : \E u \in D : x = <<into[u], Meta(layer, u)>>
              BY <1>9, <4>2, <5>2 DEF QuantizeOf
            <6> QED
              BY <3>3, <5>2, <6>1 DEF Writes
          <5> QED
            BY <1>9, <5>1, <5>2
        <4> HIDE DEF S
        <4>3. Holds(q \o e, Len(q \o e) + 1, b, Meta(l, r), mem[b])
          BY <3>2, <3>5, <4>1, <4>2, HeldKept
        <4> QED
          BY <1>3, <1>11, <3>2, <3>5, <4>3
      <3>6. CASE b[1] = l /\ l # layer
        <4>1. l \in Streams \ {Default, layer}
          BY <3>6, StreamFacts
        <4> QED
          BY <1>3, <1>11, <3>2, <3>6, <4>1
      <3> QED
        BY <3>2, <3>4, <3>5, <3>6
    <2> QED
      BY <2>1, <2>2
  <1>18. QuantizeWaits'
    <2> SUFFICES ASSUME NEW l \in Layers, NEW i \in 1 .. Len(queue'[l]),
                        queue'[l][i].kind = "quantize"
                 PROVE  /\ ReadsEarlierKeys(queue'[l][i], step, layer + 1)
                        /\ WaitsForAttend(queue'[l], i, d2, done[Default])
      BY <1>3, <1>11 DEF QuantizeWaits
    <2>1. CASE l # layer \/ i <= Len(q)
      <3>1. /\ i \in 1 .. Len(queue[l]) /\ queue'[l][i] = queue[l][i]
            /\ \A n : Awaited(queue[l], i, Default, n) => Awaited(queue'[l], i, Default, n)
        <4>1. CASE l # layer
          <5>1. queue'[l] = queue[l]
            BY <1>11, <4>1, StreamFacts
          <5> QED
            BY <5>1
        <4>2. CASE l = layer /\ i <= Len(q)
          <5> DEFINE S == ItemsOf(layer)
          <5>1. q \in Seq(S) /\ e \in Seq(S)
            BY <1>2, <1>8, <1>9
          <5>2. i \in 1 .. Len(q) /\ i \in 1 .. Len(q) + 1
            BY <1>12, <4>2
          <5> HIDE DEF S
          <5>3. \A n : Awaited(q, i, Default, n) => Awaited(q \o e, i, Default, n)
            BY <5>1, <5>2, ExtendedKeeps
          <5> QED
            BY <1>11, <1>12, <4>2, <5>2, <5>3
        <4> QED
          BY <2>1, <4>1, <4>2
      <3>2. PICK u \in Blocks, s \in 1 .. MaxSteps, m \in Layers :
              /\ queue[l][i].reads = {<<u, Keys(s, m)>>}
              /\ s < step \/ (s = step /\ m < layer)
        BY <3>1 DEF StreamInv, QuantizeWaits, ReadsEarlierKeys
      <3>3. s < step \/ (s = step /\ m < layer + 1)
        BY <1>2, <3>2 DEF Layers
      <3>4. ASSUME NEW j \in 1 .. Len(d2),
                   d2[j].kind = "attend", d2[j].reads = queue'[l][i].reads
            PROVE  Awaited(queue'[l], i, Default, done[Default] + j)
        <4>1. j # Len(d) + 1
          BY <1>4, <1>10, <3>4
        <4>2. j # Len(d) + 2
          <5>1. ASSUME j = Len(d) + 2 PROVE FALSE
            <6>1. {Key} = {<<u, Keys(s, m)>>}
              BY <1>4, <1>10, <3>1, <3>2, <3>4, <5>1
            <6>2. Keys(step, layer) = Keys(s, m)
              <7>1. <<k, Keys(step, layer)>> = <<u, Keys(s, m)>>
                BY <6>1 DEF Key
              <7> QED
                BY <7>1
            <6>3. step = s /\ layer = m
              BY <6>2, ContentFacts
            <6> QED
              BY <1>2, <3>2, <6>3
          <5> QED
            BY <5>1
        <4>3. j \in 1 .. Len(d) /\ d2[j] = d[j]
          <5>1. Len(d) \in Nat /\ j \in 1 .. Len(d) + 2
            BY <1>2, <1>10
          <5>2. j \in 1 .. Len(d)
            <6> HIDE DEF d
            <6> QED
              BY <4>1, <4>2, <5>1
          <5> QED
            BY <1>10, <5>2
        <4>4. Awaited(queue[l], i, Default, done[Default] + j)
          BY <3>1, <3>4, <4>3 DEF StreamInv, QuantizeWaits, WaitsForAttend
        <4> QED
          BY <3>1, <4>4
      <3> QED
        BY <3>1, <3>2, <3>3, <3>4 DEF ReadsEarlierKeys, WaitsForAttend
    <2>2. CASE l = layer /\ i > Len(q)
      <3>1. i # Len(q) + 1
        BY <1>5, <1>11, <1>12, <2>2
      <3>2. D # {} /\ i = Len(q) + 2 /\ queue'[l][i] = e[2]
        <4>1. /\ Len(q) \in Nat /\ (Len(e) = 1 \/ Len(e) = 2)
              /\ i \in 1 .. Len(q) + Len(e)
          BY <1>9, <1>11, <1>12, <2>2
        <4>2. i = Len(q) + 2 /\ Len(e) = 2
          <5> HIDE DEF q
          <5>1. i \in Len(q) + 1 .. Len(q) + Len(e) /\ Len(e) \in Nat
            BY <2>2, <4>1
          <5> QED
            BY <3>1, <4>1, <5>1, SecondOfTwo
        <4> QED
          BY <1>9, <1>11, <1>12, <2>2, <4>2
      <3>3. queue'[l][i].reads = {<<k, Keys(step, layer)>>}
        BY <1>9, <3>2 DEF QuantizeOf
      <3>4. \A j \in 1 .. Len(d2) : Awaited(queue'[l], i, Default, done[Default] + j)
        BY <1>10, <1>11, <1>13, <2>2, <3>2
      <3>5. step = step /\ layer < layer + 1
        BY <1>2
      <3> QED
        BY <1>2, <1>4, <3>3, <3>4, <3>5 DEF ReadsEarlierKeys, WaitsForAttend
    <2> QED
      BY <1>12, <2>1, <2>2
  <1> QED
    BY <1>14, <1>16, <1>17, <1>18 DEF StreamInv

-----------------------------------------------------------------------------
(* forward() on single tokens, item by item *)

\* Queue d of the default stream leaves the metadata in its own blocks,
HeldIn(d) ==
  \A l \in Layers, r \in Reqs : meta[l][r] # NoBlock /\ meta[l][r][1] = Default =>
    Holds(d, Len(d) + 1, meta[l][r], Meta(l, r), mem[meta[l][r]])

\* and has waited for the quantizations of this layer.
HasWaited(d) ==
  layer \in streamOf => Awaited(d, Len(d) + 1, layer, done[layer] + Len(queue[layer]))

\* Both go on to be true behind kernels that write no block of metadata.
LEMMA MoreItems ==
  ASSUME NEW S, NEW d \in Seq(S), NEW e \in Seq(S),
         \A h \in 1 .. Len(e) : \A l \in Layers, r \in Reqs :
           meta[l][r] # NoBlock => ~Writes(e[h], meta[l][r])
  PROVE  /\ HeldIn(d) => HeldIn(d \o e)
         /\ HasWaited(d) => HasWaited(d \o e)
  <1>1. ASSUME HeldIn(d) PROVE HeldIn(d \o e)
    <2> SUFFICES ASSUME NEW l \in Layers, NEW r \in Reqs, meta[l][r] # NoBlock,
                        meta[l][r][1] = Default, NEW b, b = meta[l][r]
                 PROVE  Holds(d \o e, Len(d \o e) + 1, b, Meta(l, r), mem[b])
      BY DEF HeldIn
    <2>1. Holds(d, Len(d) + 1, b, Meta(l, r), mem[b]) /\ \A h \in 1 .. Len(e) : ~Writes(e[h], b)
      BY <1>1 DEF HeldIn
    <2> QED
      BY <2>1, HeldKept
  <1>2. ASSUME NEW n, Awaited(d, Len(d) + 1, layer, n)
        PROVE  Awaited(d \o e, Len(d \o e) + 1, layer, n)
    <2> DEFINE f == d \o e
    <2>1. Len(f) = Len(d) + Len(e) /\ Len(d) \in Nat /\ Len(e) \in Nat
      BY Extended
    <2>2. Awaited(f, Len(d) + 1, layer, n)
      BY <1>2, <2>1, ExtendedKeeps
    <2> HIDE DEF f
    <2>3. Awaited(f, Len(f) + 1, layer, n)
      BY <2>1, <2>2 DEF Awaited
    <2> QED
      BY <2>3 DEF f
  <1> QED
    BY <1>1, <1>2 DEF HasWaited

\* Then a read of this layer's metadata is certain.
LEMMA MetaCertain ==
  ASSUME StreamInv, NEW d \in Seq(ItemsOf(Default)), HeldIn(d), HasWaited(d),
         layer \in Layers, NEW r \in Reqs, meta[layer][r] # NoBlock
  PROVE  Certain(d, queue, Len(d) + 1, <<meta[layer][r], Meta(layer, r)>>)
  <1> DEFINE b == meta[layer][r]
  <1>1. /\ layer \in streamOf /\ b[1] \in {Default, layer}
        /\ Holds(queue[b[1]], Len(queue[b[1]]) + 1, b, Meta(layer, r), mem[b])
    BY DEF StreamInv, MetaHolds
  <1>2. CASE b[1] = Default
    BY <1>2 DEF HeldIn, Certain
  <1>3. CASE b[1] = layer
    <2> DEFINE q == queue[layer]
               n == done[layer]
    <2>1. q \in Seq(ItemsOf(layer)) /\ n \in Nat /\ layer # Default /\ layer \in Streams
      BY StreamFacts DEF StreamInv, StreamType, TypeOK
    <2>2. Holds(q, Len(q) + 1, b, Meta(layer, r), mem[b])
      BY <1>1, <1>3
    <2>3. Awaited(d, Len(d) + 1, layer, n + Len(q)) /\ Len(d) + 1 \in Nat
      BY <1>1, LenProperties DEF HasWaited
    <2>4. ASSUME NEW j \in 1 .. (Len(d) + 1) - 1 PROVE d[j].upto \in Nat
      <3>1. d[j] \in ItemsOf(Default)
        BY <2>3, ElementOfSeq
      <3> QED
        BY <3>1 DEF ItemsOf
    <2> HIDE DEF q, n, b
    <2>5. HoldsAcross(d, done[Default], q, n, layer, Len(d) + 1, b, Meta(layer, r), mem[b])
      BY <2>1, <2>2, <2>3, <2>4, AcrossWait
    <2> QED
      BY <1>3, <2>1, <2>5 DEF Certain, q, n, b
  <1> QED
    BY <1>1, <1>2, <1>3

\* The kernel that moves a request's metadata to block to, and the one that reads that of the
\* requests rs.
LEMMA GrowItem ==
  ASSUME StreamInv, layer \in Layers, NEW r \in Reqs, meta[layer][r] # NoBlock,
         NEW to \in Free(Default)
  PROVE  /\ Grow(r, to) \in ItemsOf(Default) /\ Grow(r, to).kind = "grow"
         /\ Grow(r, to).reads = {<<meta[layer][r], Meta(layer, r)>>}
         /\ Grow(r, to).writes = {<<to, Meta(layer, r)>>}
  <1> DEFINE rd == {<<meta[layer][r], Meta(layer, r)>>}
             wr == {<<to, Meta(layer, r)>>}
  <1>1. meta[layer][r] \in Blocks /\ to \in Blocks /\ to[1] = Default /\ Meta(layer, r) \in Contents
    BY ContentFacts DEF StreamInv, StreamType, TypeOK, Free
  <1>2. rd \subseteq Blocks \X Contents /\ wr \subseteq Blocks \X Contents
    BY <1>1
  <1>3. (\A x \in wr : x[1][1] = Default) /\ \A x, y \in wr : x[1] = y[1] => x = y
    BY <1>1
  <1> HIDE DEF rd, wr
  <1>0. "grow" \in Kinds \ {"wait"}
    BY DEF Kinds
  <1>4. /\ Kernel("grow", rd, wr) \in ItemsOf(Default) /\ Kernel("grow", rd, wr).kind = "grow"
        /\ Kernel("grow", rd, wr).reads = rd /\ Kernel("grow", rd, wr).writes = wr
    <2>1. Kernel("grow", rd, wr) \in ItemsOf(Default)
      BY <1>0, <1>2, <1>3, KernelItem
    <2> QED
      BY <2>1 DEF Kernel
  <1> QED
    BY <1>4 DEF Grow, rd, wr

\* Kernel y reads the metadata of the requests rs, which is in the blocks at.
ScoreOf(y, at, rs) ==
  /\ y \in ItemsOf(Default) /\ y.kind = "score" /\ y.writes = {}
  /\ \A x \in y.reads : \E r \in rs : x = <<at[r], Meta(layer, r)>>

\* The kernel that scores.
LEMMA ScoreItem ==
  ASSUME layer \in Layers, NEW rs, rs \subseteq Reqs, NEW at \in [rs -> Blocks]
  PROVE  ScoreOf(Score(at, rs), at, rs)
  <1> DEFINE rd == {<<at[r], Meta(layer, r)>> : r \in rs}
  <1>1. rd \subseteq Blocks \X Contents /\ \A x \in rd : \E r \in rs : x = <<at[r], Meta(layer, r)>>
    <2>1. \A r \in rs : at[r] \in Blocks /\ Meta(layer, r) \in Contents
      <3> TAKE r \in rs
      <3>1. r \in Reqs
        OBVIOUS
      <3> QED
        BY <3>1, ContentFacts
    <2>2. ASSUME NEW x \in rd
          PROVE  x \in Blocks \X Contents /\ \E r \in rs : x = <<at[r], Meta(layer, r)>>
      <3>1. PICK r \in rs : x = <<at[r], Meta(layer, r)>>
        OBVIOUS
      <3> QED
        BY <2>1, <3>1
    <2> QED
      BY <2>2
  <1> HIDE DEF rd
  <1>2. /\ Kernel("score", rd, {}) \in ItemsOf(Default) /\ Kernel("score", rd, {}).kind = "score"
        /\ Kernel("score", rd, {}).reads = rd /\ Kernel("score", rd, {}).writes = {}
    BY <1>1, KernelItem DEF Kinds
  <1>3. Score(at, rs) = Kernel("score", rd, {})
    BY DEF Score, rd
  <1> QED
    BY <1>1, <1>2, <1>3 DEF ScoreOf

Joins(S, a) == \A b, e \in Seq(S) : b \o e \in Seq(S) /\ (a \o b) \o e = a \o (b \o e)

\* Concatenation is associative.
LEMMA Joined ==
  ASSUME NEW S, NEW a \in Seq(S)
  PROVE  Joins(S, a)
  <1> SUFFICES ASSUME NEW b \in Seq(S), NEW e \in Seq(S)
               PROVE  b \o e \in Seq(S) /\ (a \o b) \o e = a \o (b \o e)
    BY DEF Joins
  <1>1. b \o e \in Seq(S)
    BY ConcatProperties
  <1>2. (a \o b) \o e = a \o (b \o e)
    BY ConcatAssociative
  <1> QED
    BY <1>1, <1>2

OneByOne(a, p, w, t, g, c) ==
  ((((a \o p) \o w) \o t) \o g) \o c = a \o ((((p \o w) \o t) \o g) \o c)

\* Five parts appended one by one.
LEMMA FiveParts ==
  ASSUME NEW S, NEW a \in Seq(S), NEW p \in Seq(S), NEW w \in Seq(S), NEW t \in Seq(S),
         NEW g \in Seq(S), NEW c \in Seq(S)
  PROVE  OneByOne(a, p, w, t, g, c)
  <1>1. \A b, e \in Seq(S) : b \o e \in Seq(S) /\ (a \o b) \o e = a \o (b \o e)
    <2>1. Joins(S, a)
      BY Joined
    <2> QED
      BY <2>1 DEF Joins
  <1>2. PICK x \in Seq(S) : x = p \o w /\ (a \o p) \o w = a \o x
    BY <1>1, ZenonT(60)
  <1>3. PICK y \in Seq(S) : y = x \o t /\ (a \o x) \o t = a \o y
    BY <1>1, ZenonT(60)
  <1>4. PICK z \in Seq(S) : z = y \o g /\ (a \o y) \o g = a \o z
    BY <1>1, ZenonT(60)
  <1>5. (a \o z) \o c = a \o (z \o c)
    BY <1>1, Zenon
  <1> QED
    BY <1>2, <1>3, <1>4, <1>5 DEF OneByOne

\* The attentions of queue d that are not in d0 are of this forward(), with the keys in k.
NewAttends(d0, d, k) ==
  \A j \in 1 .. Len(d) : d[j].kind = "attend" =>
    \/ j \in 1 .. Len(d0) /\ d[j] = d0[j]
    \/ d[j].reads = {<<k, Keys(step, layer)>>}

\* A kernel this forward() may launch behind d.
Launchable(d, y, k) ==
  /\ y \in ItemsOf(Default)
  /\ \A x \in y.reads : Certain(d, queue, Len(d) + 1, x)
  /\ \A l \in Layers, r \in Reqs : meta[l][r] # NoBlock => ~Writes(y, meta[l][r])
  /\ y.kind = "attend" => y.reads = {<<k, Keys(step, layer)>>}

\* What is true of the default stream's queue while forward() adds to it.
Growing(d0, d, k) ==
  /\ d \in Seq(ItemsOf(Default)) /\ ReadsHold(d, queue) /\ HeldIn(d) /\ NewAttends(d0, d, k)

\* forward() may launch such a kernel, or none.
LEMMA OneMoreItem ==
  ASSUME NEW d0, NEW d, NEW k, Growing(d0, d, k), NEW e,
         e = <<>> \/ \E y : e = <<y>> /\ Launchable(d, y, k)
  PROVE  /\ e \in Seq(ItemsOf(Default))
         /\ Growing(d0, d \o e, k)
         /\ HasWaited(d) => HasWaited(d \o e)
  <1> DEFINE S == ItemsOf(Default)
  <1>1. CASE e = <<>>
    <2>1. d \o e = d /\ e \in Seq(S)
      BY <1>1, ConcatEmptySeq, EmptySeq DEF Growing
    <2> QED
      BY <2>1
  <1>2. CASE \E y : e = <<y>> /\ Launchable(d, y, k)
    <2>1. PICK y : e = <<y>> /\ Launchable(d, y, k)
      BY <1>2
    <2>2. y \in S /\ d \in Seq(S)
      BY <2>1 DEF Growing, Launchable
    <2> HIDE DEF S
    <2>3. e \in Seq(S) /\ Len(e) = 1 /\ e[1] = y
      BY <2>1, <2>2
    <2> DEFINE f == d \o e
    <2>4. f \in Seq(S) /\ Len(f) = Len(d) + 1 /\ Len(d) \in Nat
          /\ (\A j \in 1 .. Len(d) : f[j] = d[j]) /\ f[Len(d) + 1] = y
      BY <2>2, <2>3, Extended
    <2>5. ReadsHold(f, queue)
      BY <2>1, ReadsExtended DEF Growing, Launchable
    <2>6. (HeldIn(d) => HeldIn(f)) /\ (HasWaited(d) => HasWaited(f))
      <3>1. \A h \in 1 .. Len(e) : \A l \in Layers, r \in Reqs :
              meta[l][r] # NoBlock => ~Writes(e[h], meta[l][r])
        BY <2>1, <2>3 DEF Launchable
      <3> QED
        BY <2>2, <2>3, <3>1, MoreItems
    <2> HIDE DEF f
    <2>7. NewAttends(d0, f, k)
      <3> SUFFICES ASSUME NEW j \in 1 .. Len(f), f[j].kind = "attend"
                   PROVE  \/ j \in 1 .. Len(d0) /\ f[j] = d0[j]
                          \/ f[j].reads = {<<k, Keys(step, layer)>>}
        BY DEF NewAttends
      <3>1. CASE j = Len(d) + 1
        BY <2>1, <2>4, <3>1 DEF Launchable
      <3>2. CASE j \in 1 .. Len(d)
        BY <2>4, <3>2 DEF Growing, NewAttends
      <3> QED
        BY <2>4, <3>1, <3>2
    <2> QED
      BY <2>3, <2>4, <2>5, <2>6, <2>7 DEF Growing, f, S
  <1> QED
    BY <1>1, <1>2

\* forward() on single tokens: what it reads of the quantize_stream's work it has waited for.
LEMMA DecodeInv ==
  ASSUME StreamInv, NEW k \in Free(Default), NEW grow, NEW to, ForwardDecode(k, grow, to),
         grow = {} \/ \E r \in Reqs : grow = {r} /\ to \in Free(Default) \ {k}
  PROVE  StreamInv'
  <1> DEFINE I == ItemsOf(Default)
             d == queue[Default]
             rs == batch.reqs \cap Prepared(layer)
             at == [r \in rs |-> IF grow = {r} THEN to ELSE meta[layer][r]]
             P == <<Project(k)>>
             W == IF layer \in streamOf THEN <<WaitStream(layer, 0)>> ELSE <<>>
             A == <<Attend(k)>>
             G == IF grow = {} THEN <<>> ELSE <<Grow(CHOOSE r \in grow : TRUE, to)>>
             C == IF rs = {} THEN <<>> ELSE <<Score(at, rs)>>
             d1 == d \o P
             d2 == d1 \o W
             d3 == d2 \o A
             d4 == d3 \o G
             d5 == d4 \o C
             Key == <<k, Keys(step, layer)>>
  <1>1. /\ layer \in Layers /\ step \in 1 .. MaxSteps /\ layer \in Nat
        /\ done \in [Streams -> Nat] /\ mem \in [Blocks -> Contents]
        /\ meta \in [Layers -> [Reqs -> Blocks \cup {NoBlock}]]
        /\ \A s \in Streams : queue[s] \in Seq(ItemsOf(s))
        /\ DOMAIN queue = Streams /\ d \in Seq(I)
        /\ layer \in Streams /\ layer # Default /\ Default \in Streams
        /\ rs \subseteq Reqs /\ \A r \in rs : meta[layer][r] \in Blocks
    BY StreamAssumption, StreamFacts
       DEF StreamInv, StreamType, TypeOK, ForwardDecode, Layers, Prepared
  <1>2. /\ step' = step /\ layer' = layer + 1 /\ batch' = batch /\ done' = done /\ mem' = mem
        /\ streamOf' = streamOf
        /\ queue' = [queue EXCEPT ![Default] = @ \o DecodeItems(k, W, grow, to)]
        /\ meta' = [meta EXCEPT ![layer] = [r \in Reqs |-> IF grow = {r} THEN to ELSE @[r]]]
        /\ grow \subseteq rs
    BY DEF ForwardDecode
  <1>3. /\ k \in Blocks /\ k[1] = Default
        /\ Project(k) \in I /\ Project(k).kind = "project"
        /\ Project(k).reads = {} /\ Project(k).writes = {Key}
        /\ Attend(k) \in I /\ Attend(k).kind = "attend"
        /\ Attend(k).reads = {Key} /\ Attend(k).writes = {}
    BY <1>1, ProjectAttend
  <1>4. \A l \in Layers, r \in Reqs : meta[l][r] # k /\ (grow # {} => meta[l][r] # to)
    BY DEF Free
  <1>5. DecodeItems(k, W, grow, to) = (((P \o W) \o A) \o G) \o C
    BY DEF DecodeItems
  <1> HIDE DEF I, rs, at, W, G, C
  \* Project
  <1>6. Growing(d, d, k)
    <2>1. HeldIn(d)
      BY DEF StreamInv, MetaHolds, HeldIn
    <2>2. NewAttends(d, d, k)
      BY DEF NewAttends
    <2> QED
      BY <1>1, <2>1, <2>2 DEF Growing, StreamInv, I
  <1>7. P \in Seq(I) /\ Growing(d, d1, k)
    <2>1. Launchable(d, Project(k), k)
      <3>1. ASSUME NEW l \in Layers, NEW r \in Reqs PROVE ~Writes(Project(k), meta[l][r])
        BY <1>3, <1>4 DEF Writes
      <3> QED
        BY <1>3, <3>1 DEF Launchable, I
    <2> QED
      BY <1>6, <2>1, OneMoreItem DEF I
  \* The wait
  <1>8. W \in Seq(I) /\ Growing(d, d2, k) /\ HasWaited(d2)
    <2>1. CASE layer \notin streamOf
      <3>1. W = <<>>
        BY <2>1 DEF W
      <3> QED
        BY <1>7, <2>1, <3>1, OneMoreItem DEF HasWaited, I
    <2>2. CASE layer \in streamOf
      <3> DEFINE w == WaitStream(layer, 0)
                 n == done[layer] + Len(queue[layer])
      <3>1. n \in Nat /\ Launched(layer) + 0 = n
        BY <1>1, LenProperties DEF Launched
      <3>2. /\ w \in I /\ w.kind = "wait" /\ w.on = layer /\ w.upto = n
            /\ w.reads = {} /\ w.writes = {}
        BY <1>1, <3>1, WaitItem DEF I
      <3> HIDE DEF w, n
      <3>3. W = <<w>>
        BY <2>2 DEF W, w
      <3>4. Launchable(d1, w, k)
        BY <3>2 DEF Launchable, Writes, I
      <3>5. W \in Seq(I) /\ Growing(d, d2, k)
        BY <1>7, <3>3, <3>4, OneMoreItem DEF I
      <3>6. Awaited(d2, Len(d2) + 1, layer, n)
        <4> DEFINE b == d \o P
                   c == b \o W
        <4>1. b \in Seq(I) /\ w \in I
          BY <1>7, <3>2 DEF Growing, I
        <4> HIDE DEF b
        <4>2. c \in Seq(I) /\ Len(b) \in Nat /\ Len(c) = Len(b) + 1 /\ c[Len(b) + 1] = w
          BY <3>3, <4>1
        <4> HIDE DEF c
        <4>3. Len(b) + 1 \in 1 .. (Len(c) + 1) - 1 /\ w.upto >= n
          BY <3>1, <3>2, <4>2
        <4>4. Awaited(c, Len(c) + 1, layer, n)
          BY <3>2, <4>2, <4>3 DEF Awaited
        <4> QED
          BY <4>4 DEF c, b
      <3> QED
        BY <3>5, <3>6 DEF HasWaited, n
    <2> QED
      BY <2>1, <2>2
  \* Attend
  <1>9. A \in Seq(I) /\ Growing(d, d3, k) /\ HasWaited(d3)
    <2>1. Holds(d1, Len(d1) + 1, k, Keys(step, layer), mem[k])
      <3> DEFINE p == Project(k)
                 b == d \o <<p>>
      <3>1. p \in I /\ d \in Seq(I) /\ Key \in p.writes
        BY <1>1, <1>3
      <3> HIDE DEF p, d
      <3>2. b \in Seq(I) /\ Len(b) = Len(d) + 1 /\ b[Len(d) + 1] = p /\ Len(d) \in Nat
        BY <3>1
      <3> HIDE DEF b
      <3>3. Len(b) \in Nat \ {0} /\ Key \in b[Len(b)].writes
        BY <3>1, <3>2
      <3>4. Holds(b, Len(b) + 1, k, Keys(step, layer), mem[k])
        BY <3>3, HoldsLast
      <3> QED
        BY <3>4 DEF b, p, d
    <2>2. Holds(d2, Len(d2) + 1, k, Keys(step, layer), mem[k])
      <3>1. \A h \in 1 .. Len(W) : ~Writes(W[h], k)
        <4>1. CASE layer \notin streamOf
          <5>1. Len(W) = 0
            BY <4>1 DEF W
          <5> QED
            BY <5>1
        <4>2. CASE layer \in streamOf
          <5>1. Len(W) = 1 /\ W[1] = WaitStream(layer, 0)
            BY <4>2 DEF W
          <5>2. WaitStream(layer, 0).writes = {}
            BY DEF WaitStream
          <5>3. ~Writes(W[1], k)
            BY <5>1, <5>2 DEF Writes
          <5> QED
            BY <5>1, <5>3
        <4> QED
          BY <4>1, <4>2
      <3>2. d1 \in Seq(I) /\ W \in Seq(I)
        BY <1>7, <1>8 DEF Growing, I
      <3> HIDE DEF d1
      <3> QED
        BY <2>1, <3>1, <3>2, HeldKept
    <2>3. Launchable(d2, Attend(k), k)
      <3>1. \A x \in Attend(k).reads : Certain(d2, queue, Len(d2) + 1, x)
        <4> TAKE x \in Attend(k).reads
        <4>1. x[1] = k /\ x[2] = Keys(step, layer)
          BY <1>3
        <4> QED
          BY <1>3, <2>2, <4>1 DEF Certain
      <3>2. ASSUME NEW b PROVE ~Writes(Attend(k), b)
        BY <1>3 DEF Writes
      <3> QED
        BY <1>3, <3>1, <3>2 DEF Launchable, I
    <2> QED
      BY <1>8, <2>3, OneMoreItem DEF I
  \* Grow
  <1>10. /\ G \in Seq(I) /\ Growing(d, d4, k) /\ HasWaited(d4)
         /\ \A r \in Reqs : grow = {r} => Holds(d4, Len(d4) + 1, to, Meta(layer, r), mem[to])
    <2>1. CASE grow = {}
      <3>1. G = <<>> /\ \A r : grow # {r}
        BY <2>1 DEF G
      <3> QED
        BY <1>9, <3>1, OneMoreItem DEF I
    <2>2. CASE grow # {}
      <3>1. PICK r \in Reqs : grow = {r} /\ to \in Free(Default) \ {k}
        BY <2>2
      <3>2. meta[layer][r] # NoBlock /\ meta[layer][r] \in Blocks
        BY <1>1, <1>2, <3>1, StreamFacts
      <3> DEFINE g == Grow(r, to)
                 u == <<meta[layer][r], Meta(layer, r)>>
      <3>3. (CHOOSE x \in grow : TRUE) = r
        BY <3>1
      <3>4. G = <<g>>
        BY <2>2, <3>3 DEF G
      <3>5. g \in I /\ g.kind = "grow" /\ g.reads = {u} /\ g.writes = {<<to, Meta(layer, r)>>}
        BY <1>1, <3>1, <3>2, GrowItem DEF I
      <3>6. Certain(d3, queue, Len(d3) + 1, u)
        BY <1>1, <1>9, <3>2, MetaCertain DEF Growing
      <3> HIDE DEF g, u
      <3>7. ASSUME NEW l \in Layers, NEW v \in Reqs PROVE ~Writes(g, meta[l][v])
        BY <1>4, <2>2, <3>5 DEF Writes
      <3>8. Launchable(d3, g, k)
        BY <3>5, <3>6, <3>7 DEF Launchable, I
      <3>9. G \in Seq(I) /\ Growing(d, d4, k) /\ HasWaited(d4)
        BY <1>9, <3>4, <3>8, OneMoreItem DEF I
      <3>10. Holds(d4, Len(d4) + 1, to, Meta(layer, r), mem[to])
        <4> DEFINE b == d3
                   c == b \o <<g>>
        <4>1. b \in Seq(I) /\ g \in I
          BY <1>9, <3>5 DEF Growing, I
        <4> HIDE DEF b
        <4>2. c \in Seq(I) /\ Len(c) = Len(b) + 1 /\ c[Len(b) + 1] = g /\ Len(b) \in Nat
          BY <4>1
        <4> HIDE DEF c
        <4>3. Len(c) \in Nat \ {0} /\ <<to, Meta(layer, r)>> \in c[Len(c)].writes
          BY <3>5, <4>2
        <4>4. Holds(c, Len(c) + 1, to, Meta(layer, r), mem[to])
          BY <4>3, HoldsLast
        <4> QED
          BY <3>4, <4>4 DEF c, b
      <3>11. \A v : grow = {v} => v = r
        BY <3>1
      <3> QED
        BY <3>9, <3>10, <3>11
    <2> QED
      BY <2>1, <2>2
  <1> HIDE DEF d4
  \* Score
  <1>11. /\ C \in Seq(I) /\ Growing(d, d5, k)
         /\ \A r \in Reqs : grow = {r} => Holds(d5, Len(d5) + 1, to, Meta(layer, r), mem[to])
    <2>1. CASE rs = {}
      <3>1. C = <<>>
        BY <2>1 DEF C
      <3>2. C \in Seq(I) /\ Growing(d, d5, k)
        BY <1>10, <3>1, OneMoreItem DEF I
      <3>3. \A r \in Reqs : grow # {r}
        BY <1>2, <2>1
      <3> QED
        BY <3>2, <3>3
    <2>2. CASE rs # {}
      <3> DEFINE c == Score(at, rs)
      <3>1. C = <<c>>
        BY <2>2 DEF C
      <3>2. at \in [rs -> Blocks] /\ \A r \in rs : at[r] = IF grow = {r} THEN to ELSE meta[layer][r]
        <4>1. ASSUME NEW r \in rs, grow = {r} PROVE to \in Blocks
          BY <4>1 DEF Free
        <4> QED
          BY <1>1, <4>1 DEF at
      <3>3. /\ c \in I /\ c.kind = "score" /\ c.writes = {}
            /\ \A x \in c.reads : \E r \in rs : x = <<at[r], Meta(layer, r)>>
        <4>1. ScoreOf(c, at, rs)
          BY <1>1, <3>2, ScoreItem
        <4> HIDE DEF c
        <4> QED
          BY <4>1 DEF ScoreOf, I
      <3> HIDE DEF c
      <3>4. ASSUME NEW x \in c.reads PROVE Certain(d4, queue, Len(d4) + 1, x)
        <4>1. PICK r \in rs : x = <<at[r], Meta(layer, r)>>
          BY <3>3
        <4>2. r \in Reqs /\ meta[layer][r] # NoBlock
          BY <1>1, StreamFacts
        <4>3. CASE grow = {r}
          <5>1. x[1] = to /\ x[2] = Meta(layer, r) /\ to[1] = Default
            BY <3>2, <4>1, <4>3 DEF Free
          <5>2. Holds(d4, Len(d4) + 1, to, Meta(layer, r), mem[to])
            BY <1>10, <4>2, <4>3
          <5> QED
            BY <5>1, <5>2 DEF Certain
        <4>4. CASE grow # {r}
          <5>1. x = <<meta[layer][r], Meta(layer, r)>>
            BY <3>2, <4>1, <4>4
          <5>2. Certain(d4, queue, Len(d4) + 1, <<meta[layer][r], Meta(layer, r)>>)
            BY <1>1, <1>10, <4>2, MetaCertain DEF Growing
          <5> QED
            BY <5>1, <5>2
        <4> QED
          BY <4>3, <4>4
      <3>5. ASSUME NEW b PROVE ~Writes(c, b)
        BY <3>3 DEF Writes
      <3>6. Launchable(d4, c, k)
        BY <3>3, <3>4, <3>5 DEF Launchable, I
      <3>7. C \in Seq(I) /\ Growing(d, d5, k)
        BY <1>10, <3>1, <3>6, OneMoreItem DEF I
      <3>8. Len(C) = 1 /\ C[1] = c
        BY <3>1
      <3>9. d4 \in Seq(I) /\ \A h \in 1 .. Len(C) : \A b : ~Writes(C[h], b)
        BY <1>10, <3>5, <3>8 DEF Growing, I
      <3>10. ASSUME NEW r \in Reqs, grow = {r}
             PROVE  Holds(d5, Len(d5) + 1, to, Meta(layer, r), mem[to])
        <4>1. Holds(d4, Len(d4) + 1, to, Meta(layer, r), mem[to])
          BY <1>10, <3>10
        <4> QED
          BY <3>7, <3>9, <4>1, HeldKept
      <3> QED
        BY <3>7, <3>10
    <2> QED
      BY <2>1, <2>2
  <1>12. d5 = d \o DecodeItems(k, W, grow, to)
    <2> DEFINE a == d
    <2>1. a \in Seq(I) /\ P \in Seq(I) /\ W \in Seq(I) /\ A \in Seq(I) /\ G \in Seq(I) /\ C \in Seq(I)
      BY <1>1, <1>7, <1>8, <1>9, <1>10, <1>11
    <2> HIDE DEF a, P, A
    <2>6. OneByOne(a, P, W, A, G, C)
      BY <2>1, FiveParts, Zenon
    <2> QED
      BY <1>5, <2>6 DEF a, d4, P, A, OneByOne
  <1> HIDE DEF d5
  <1>13. /\ queue'[Default] = d5 /\ DOMAIN queue' = Streams
         /\ \A s \in Streams \ {Default} : queue'[s] = queue[s]
    BY <1>1, <1>2, <1>12
  <1>14. d5 \in Seq(I) /\ ReadsHold(d5, queue) /\ HeldIn(d5) /\ NewAttends(d, d5, k)
    BY <1>11 DEF Growing, I
  <1>15. StreamType'
    <2>1. \A s \in Streams : queue'[s] \in Seq(ItemsOf(s))
      BY <1>1, <1>13, <1>14 DEF I
    <2>2. \A s \in Streams : \A i \in DOMAIN queue'[s] : queue'[s][i].kind \in Kinds
      <3> TAKE s \in Streams
      <3> DEFINE S == ItemsOf(s)
      <3>1. queue'[s] \in Seq(S) /\ \A x \in S : x.kind \in Kinds
        BY <2>1 DEF ItemsOf
      <3> HIDE DEF S
      <3> QED
        BY <3>1
    <2>3. meta' \in [Layers -> [Reqs -> Blocks \cup {NoBlock}]]
      <3>1. \A r \in Reqs : grow = {r} => to \in Blocks
        BY DEF Free
      <3> QED
        BY <1>1, <1>2, <3>1
    <2>4. layer' \in 1 .. NumLayers + 1
      BY <1>1, <1>2, StreamAssumption DEF Layers
    <2> QED
      BY <1>1, <1>2, <1>13, <2>1, <2>2, <2>3, <2>4
         DEF StreamInv, StreamType, TypeOK, Kinds
  <1>16. ReadsHold(queue[Default], queue)'
    <2> SUFFICES ASSUME NEW i \in 1 .. Len(d5), NEW x \in d5[i].reads
                 PROVE  IF x[1][1] = Default THEN Holds(d5, i, x[1], x[2], mem[x[1]])
                        ELSE HoldsAcross(d5, done[Default], queue'[x[1][1]], done[x[1][1]],
                                         x[1][1], i, x[1], x[2], mem[x[1]])
      BY <1>2, <1>13 DEF ReadsHold, Certain
    <2>1. IF x[1][1] = Default THEN Holds(d5, i, x[1], x[2], mem[x[1]])
          ELSE HoldsAcross(d5, done[Default], queue[x[1][1]], done[x[1][1]],
                           x[1][1], i, x[1], x[2], mem[x[1]])
      BY <1>14 DEF ReadsHold, Certain
    <2>2. x[1][1] \in Streams
      <3>1. d5[i] \in ItemsOf(Default)
        BY <1>14, ElementOfSeq DEF I
      <3>2. x \in Blocks \X Contents
        BY <3>1 DEF ItemsOf
      <3> QED
        BY <3>2, StreamFacts
    <2>3. CASE x[1][1] = Default
      BY <2>1, <2>3
    <2>4. CASE x[1][1] # Default
      BY <1>13, <2>1, <2>2, <2>4
    <2> QED
      BY <2>3, <2>4
  <1>17. MetaHolds'
    <2> SUFFICES ASSUME NEW l \in Layers, NEW r \in Reqs, meta'[l][r] # NoBlock,
                        NEW b, b = meta'[l][r]
                 PROVE  /\ l \in streamOf
                        /\ b[1] \in {Default, l}
                        /\ Holds(queue'[b[1]], Len(queue'[b[1]]) + 1, b, Meta(l, r), mem[b])
      BY <1>2 DEF MetaHolds
    <2>1. CASE l = layer /\ grow = {r}
      <3>1. b = to /\ b[1] = Default
        BY <1>1, <1>2, <2>1 DEF Free
      <3>2. meta[layer][r] # NoBlock
        BY <1>1, <1>2, <2>1, StreamFacts
      <3>3. l \in streamOf
        BY <2>1, <3>2 DEF StreamInv, MetaHolds
      <3> QED
        BY <1>11, <1>13, <2>1, <3>1, <3>3
    <2>2. CASE ~(l = layer /\ grow = {r})
      <3>1. b = meta[l][r] /\ b # NoBlock
        BY <1>1, <1>2, <2>2
      <3>2. /\ l \in streamOf /\ b[1] \in {Default, l}
            /\ Holds(queue[b[1]], Len(queue[b[1]]) + 1, b, Meta(l, r), mem[b])
        BY <3>1 DEF StreamInv, MetaHolds
      <3>3. CASE b[1] = Default
        BY <1>13, <1>14, <3>1, <3>2, <3>3 DEF HeldIn
      <3>4. CASE b[1] = l
        BY <1>13, <3>2, <3>4, StreamFacts
      <3> QED
        BY <3>2, <3>3, <3>4
    <2> QED
      BY <2>1, <2>2
  <1>18. QuantizeWaits'
    <2> SUFFICES ASSUME NEW l \in Layers, NEW i \in 1 .. Len(queue[l]),
                        queue[l][i].kind = "quantize"
                 PROVE  /\ ReadsEarlierKeys(queue[l][i], step, layer + 1)
                        /\ WaitsForAttend(queue[l], i, d5, done[Default])
      <3>1. \A l \in Layers : queue'[l] = queue[l]
        BY <1>13, StreamFacts
      <3> QED
        BY <1>2, <1>13, <3>1 DEF QuantizeWaits
    <2>1. PICK u \in Blocks, s \in 1 .. MaxSteps, m \in Layers :
            /\ queue[l][i].reads = {<<u, Keys(s, m)>>}
            /\ s < step \/ (s = step /\ m < layer)
      BY DEF StreamInv, QuantizeWaits, ReadsEarlierKeys
    <2>2. s < step \/ (s = step /\ m < layer + 1)
      BY <1>1, <2>1 DEF Layers
    <2>3. ASSUME NEW j \in 1 .. Len(d5), d5[j].kind = "attend", d5[j].reads = queue[l][i].reads
          PROVE  Awaited(queue[l], i, Default, done[Default] + j)
      <3>1. CASE d5[j].reads = {Key}
        <4>1. {Key} = {<<u, Keys(s, m)>>}
          BY <2>1, <2>3, <3>1
        <4>2. Keys(step, layer) = Keys(s, m)
          <5>1. <<k, Keys(step, layer)>> = <<u, Keys(s, m)>>
            BY <4>1
          <5> QED
            BY <5>1
        <4>3. step = s /\ layer = m
          BY <4>2, ContentFacts
        <4> QED
          BY <1>1, <2>1, <4>3
      <3>2. CASE j \in 1 .. Len(d) /\ d5[j] = d[j]
        BY <2>3, <3>2 DEF StreamInv, QuantizeWaits, WaitsForAttend
      <3> QED
        BY <1>14, <2>3, <3>1, <3>2 DEF NewAttends
    <2> QED
      BY <2>1, <2>2, <2>3 DEF ReadsEarlierKeys, WaitsForAttend
  <1> QED
    BY <1>15, <1>16, <1>17, <1>18 DEF StreamInv
-----------------------------------------------------------------------------
(* The GPU *)

\* What it takes for stream s, whose queue is q, to run item it, and what is different then.
Runs(s, q, it) ==
  /\ q = queue[s] /\ q \in Seq(ItemsOf(s)) /\ q # <<>> /\ it = q[1] /\ it \in ItemsOf(s)
  /\ it.kind = "wait" => done[it.on] >= it.upto
  /\ queue'[s] = Tail(q) /\ \A t \in Streams \ {s} : queue'[t] = queue[t]
  /\ done'[s] = done[s] + 1 /\ \A t \in Streams \ {s} : done'[t] = done[t]
  /\ \A b \in Blocks : mem'[b] = After(it, b, mem[b]) /\ (b[1] # s => mem'[b] = mem[b])
  /\ step' = step /\ layer' = layer /\ batch' = batch /\ streamOf' = streamOf /\ meta' = meta

\* A stream runs the first item of its queue.
LEMMA RunItem ==
  ASSUME StreamInv, NEW s \in Streams, Run(s)
  PROVE  StreamType' /\ \E q, it : Runs(s, q, it)
  <1> DEFINE q == queue[s]
             it == q[1]
  <1>1. /\ \A t \in Streams : queue[t] \in Seq(ItemsOf(t))
        /\ DOMAIN queue = Streams /\ done \in [Streams -> Nat] /\ mem \in [Blocks -> Contents]
        /\ q # <<>>
    BY DEF StreamInv, StreamType, TypeOK, Run, CanRun
  <1>2. /\ Tail(q) \in Seq(ItemsOf(s)) /\ Head(q) = it /\ it \in ItemsOf(s)
    <2> DEFINE S == ItemsOf(s)
    <2>1. q \in Seq(S)
      BY <1>1
    <2> HIDE DEF S
    <2> QED
      BY <1>1, <2>1, Shrunk DEF S
  <1>3. it.kind = "wait" => done[it.on] >= it.upto
    BY <1>2 DEF Run, CanRun
  <1>4. /\ queue' = [queue EXCEPT ![s] = Tail(@)] /\ done' = [done EXCEPT ![s] = @ + 1]
        /\ mem' = [b \in Blocks |-> After(it, b, mem[b])]
        /\ step' = step /\ layer' = layer /\ batch' = batch /\ streamOf' = streamOf /\ meta' = meta
    BY <1>2 DEF Run, After, Writes
  <1> HIDE DEF it
  <1>5. /\ queue'[s] = Tail(q) /\ \A t \in Streams \ {s} : queue'[t] = queue[t]
        /\ DOMAIN queue' = Streams
        /\ done'[s] = done[s] + 1 /\ \A t \in Streams \ {s} : done'[t] = done[t]
        /\ done' \in [Streams -> Nat]
    BY <1>1, <1>4
  <1>6. \A b \in Blocks : mem'[b] = After(it, b, mem[b]) /\ (b[1] # s => mem'[b] = mem[b])
    <2> TAKE b \in Blocks
    <2>1. mem'[b] = After(it, b, mem[b])
      BY <1>4
    <2>2. b[1] # s => ~Writes(it, b)
      BY <1>2, AfterFacts
    <2> QED
      BY <2>1, <2>2 DEF After
  <1>7. mem' \in [Blocks -> Contents]
    <2>1. ASSUME NEW b \in Blocks PROVE After(it, b, mem[b]) \in Contents
      BY <1>1 DEF After, Writes
    <2> QED
      BY <1>4, <2>1
  <1>8. \A t \in Streams : queue'[t] \in Seq(ItemsOf(t))
    BY <1>1, <1>2, <1>5
  <1>9. \A t \in Streams : \A i \in DOMAIN queue'[t] : queue'[t][i].kind \in Kinds
    <2> TAKE t \in Streams
    <2> DEFINE S == ItemsOf(t)
    <2>1. queue'[t] \in Seq(S) /\ \A x \in S : x.kind \in Kinds
      BY <1>8 DEF ItemsOf
    <2> HIDE DEF S
    <2> QED
      BY <2>1
  <1>10. StreamType'
    BY <1>4, <1>5, <1>7, <1>8, <1>9 DEF StreamInv, StreamType, TypeOK, Kinds
  <1>11. Runs(s, q, it)
    BY <1>1, <1>2, <1>3, <1>4, <1>5, <1>6 DEF Runs, it
  <1> QED
    BY <1>10, <1>11

\* The reads of the default stream's items are of blocks.
LEMMA ReadsBlocks ==
  ASSUME NEW d \in Seq(ItemsOf(Default)), NEW i \in 1 .. Len(d), NEW x \in d[i].reads
  PROVE  x[1] \in Blocks /\ x[1][1] \in Streams
  <1>1. d[i] \in ItemsOf(Default)
    BY ElementOfSeq
  <1>2. x \in Blocks \X Contents
    BY <1>1 DEF ItemsOf
  <1> QED
    BY <1>2, StreamFacts

\* Metadata stays where it is when a stream runs.
LEMMA MetaRuns ==
  ASSUME StreamInv, NEW s \in Streams, NEW q, NEW it, Runs(s, q, it)
  PROVE  MetaHolds'
  <1> SUFFICES ASSUME NEW l \in Layers, NEW r \in Reqs, meta[l][r] # NoBlock,
                      NEW b, b = meta[l][r]
               PROVE  /\ l \in streamOf
                      /\ b[1] \in {Default, l}
                      /\ Holds(queue'[b[1]], Len(queue'[b[1]]) + 1, b, Meta(l, r), mem'[b])
    BY DEF MetaHolds, Runs
  <1>1. /\ l \in streamOf /\ b[1] \in {Default, l}
        /\ Holds(queue[b[1]], Len(queue[b[1]]) + 1, b, Meta(l, r), mem[b])
    BY DEF StreamInv, MetaHolds
  <1>2. b \in Blocks /\ b[1] \in Streams
    BY <1>1, StreamFacts DEF StreamInv, StreamType, TypeOK
  <1>3. CASE b[1] # s
    BY <1>1, <1>2, <1>3 DEF Runs
  <1>4. CASE b[1] = s
    <2>1. /\ Holds(q, Len(q) + 1, b, Meta(l, r), mem[b]) /\ q \in Seq(ItemsOf(s)) /\ q # <<>>
          /\ queue'[s] = Tail(q) /\ mem'[b] = After(q[1], b, mem[b])
      BY <1>1, <1>2, <1>4 DEF Runs
    <2>2. Len(q) \in Nat \ {0} /\ Len(Tail(q)) = Len(q) - 1
      BY <2>1, Shrunk
    <2>3. Len(q) + 1 \in 2 .. Len(q) + 1 /\ (Len(q) + 1) - 1 = Len(Tail(q)) + 1
      BY <2>2
    <2>4. Holds(Tail(q), (Len(q) + 1) - 1, b, Meta(l, r), After(q[1], b, mem[b]))
      BY <2>1, <2>3, HoldsShrinks
    <2> QED
      BY <1>1, <1>4, <2>1, <2>3, <2>4
  <1> QED
    BY <1>3, <1>4

\* The default stream runs an item.
LEMMA RunDefaultInv ==
  ASSUME StreamInv, Run(Default)
  PROVE  StreamInv'
  <1>1. StreamType' /\ Default \in Streams
    BY RunItem, StreamFacts
  <1>2. PICK d, it : Runs(Default, d, it)
    BY <1>1, RunItem
  <1>3. /\ d = queue[Default] /\ d \in Seq(ItemsOf(Default)) /\ d # <<>>
        /\ it = d[1] /\ it \in ItemsOf(Default) /\ queue'[Default] = Tail(d)
        /\ done'[Default] = done[Default] + 1
        /\ \A l \in Layers : queue'[l] = queue[l] /\ done'[l] = done[l]
        /\ step' = step /\ layer' = layer
    BY <1>2, StreamFacts DEF Runs
  <1>4. done \in [Streams -> Nat] /\ \A l \in Layers : queue[l] \in Seq(ItemsOf(l))
    BY StreamFacts DEF StreamInv, StreamType, TypeOK
  <1> DEFINE t == Tail(d)
             n == done[Default]
  <1>5. /\ Len(d) \in Nat \ {0} /\ Len(t) = Len(d) - 1 /\ n \in Nat
        /\ \A i \in 1 .. Len(t) :
             i + 1 \in 1 .. Len(d) /\ t[i] = d[i + 1] /\ (i + 1) - 1 = i /\ i + 1 \in 2 .. Len(d)
    <2>1. /\ Len(d) \in Nat \ {0} /\ Len(t) = Len(d) - 1 /\ n \in Nat
          /\ \A i \in 1 .. Len(d) - 1 : t[i] = d[i + 1]
      BY <1>1, <1>3, <1>4, Shrunk
    <2> HIDE DEF t
    <2> QED
      BY <2>1
  <1>6. MetaHolds'
    BY <1>1, <1>2, MetaRuns
  <1>7. ReadsHold(queue[Default], queue)'
    <2> SUFFICES ASSUME NEW i \in 1 .. Len(t), NEW x \in t[i].reads
                 PROVE  IF x[1][1] = Default THEN Holds(t, i, x[1], x[2], mem'[x[1]])
                        ELSE HoldsAcross(t, n + 1, queue'[x[1][1]], done'[x[1][1]],
                                         x[1][1], i, x[1], x[2], mem'[x[1]])
      BY <1>3 DEF ReadsHold, Certain
    <2>1. PICK b, c, j : b = x[1] /\ c = x[2] /\ j = i + 1
      OBVIOUS
    <2>2. /\ j \in 1 .. Len(d) /\ x \in d[j].reads /\ j - 1 = i /\ j \in 2 .. Len(d)
          /\ j \in 2 .. Len(d) + 1
      BY <1>5, <2>1
    <2>3. IF b[1] = Default THEN Holds(d, j, b, c, mem[b])
          ELSE HoldsAcross(d, n, queue[b[1]], done[b[1]], b[1], j, b, c, mem[b])
      BY <1>3, <2>1, <2>2 DEF StreamInv, ReadsHold, Certain
    <2>4. b \in Blocks /\ b[1] \in Streams
      BY <1>3, <2>1, <2>2, ReadsBlocks
    <2> HIDE DEF t
    <2>5. CASE b[1] = Default
      <3>1. mem'[b] = After(d[1], b, mem[b])
        BY <1>2, <2>4 DEF Runs
      <3>2. Holds(t, i, b, c, mem'[b])
        BY <1>3, <2>2, <2>3, <2>5, <3>1, HoldsShrinks DEF t
      <3> QED
        BY <2>1, <2>5, <3>2
    <2>6. CASE b[1] # Default
      <3> DEFINE l == b[1]
                 q == queue[l]
                 nl == done[l]
      <3>1. l \in Layers /\ mem'[b] = mem[b]
        BY <1>2, <2>4, <2>6, StreamFacts DEF Runs
      <3>2. q \in Seq(ItemsOf(l)) /\ nl \in Nat /\ queue'[l] = q /\ done'[l] = nl
        BY <1>3, <1>4, <3>1, StreamFacts
      <3>3. (d[1].kind = "wait" /\ d[1].on = l => nl >= d[1].upto) /\ d[1].upto \in Nat
        <4>1. it.kind = "wait" => done[it.on] >= it.upto
          BY <1>2 DEF Runs
        <4>2. it.upto \in Nat
          BY <1>3 DEF ItemsOf
        <4> QED
          BY <1>3, <4>1, <4>2
      <3>4. HoldsAcross(d, n, q, nl, l, j, b, c, mem[b])
        BY <2>3, <2>6
      <3> HIDE DEF l, q, nl, n
      <3>5. HoldsAcross(t, n + 1, q, nl, l, i, b, c, mem[b])
        BY <1>3, <1>5, <2>2, <3>2, <3>3, <3>4, AcrossDefaultRuns DEF t
      <3> QED
        BY <2>1, <2>6, <3>1, <3>2, <3>5 DEF l, q, nl, n
    <2> QED
      BY <2>5, <2>6
  <1>8. QuantizeWaits'
    <2> SUFFICES ASSUME NEW l \in Layers, NEW i \in 1 .. Len(queue[l]),
                        queue[l][i].kind = "quantize"
                 PROVE  /\ ReadsEarlierKeys(queue[l][i], step, layer)
                        /\ WaitsForAttend(queue[l], i, t, n + 1)
      BY <1>3 DEF QuantizeWaits
    <2>1. ReadsEarlierKeys(queue[l][i], step, layer) /\ WaitsForAttend(queue[l], i, d, n)
      BY <1>3 DEF StreamInv, QuantizeWaits
    <2>2. ASSUME NEW j \in 1 .. Len(t), t[j].kind = "attend", t[j].reads = queue[l][i].reads
          PROVE  Awaited(queue[l], i, Default, (n + 1) + j)
      <3> HIDE DEF t, n
      <3>1. n + (j + 1) = (n + 1) + j
        BY <1>5
      <3> QED
        BY <1>5, <2>1, <2>2, <3>1 DEF WaitsForAttend
    <2> QED
      BY <2>1, <2>2 DEF WaitsForAttend
  <1> QED
    BY <1>1, <1>6, <1>7, <1>8 DEF StreamInv

\* The stream of a layer runs an item.
LEMMA RunLayerInv ==
  ASSUME StreamInv, NEW s \in Layers, Run(s)
  PROVE  StreamInv'
  <1>1. StreamType' /\ s \in Streams /\ s # Default /\ Default \in Streams
    BY RunItem, StreamFacts
  <1>2. PICK q, it : Runs(s, q, it)
    BY <1>1, RunItem
  <1> DEFINE d == queue[Default]
             n == done[Default]
             t == Tail(q)
  <1>3. /\ q = queue[s] /\ q \in Seq(ItemsOf(s)) /\ q # <<>>
        /\ it = q[1] /\ it \in ItemsOf(s) /\ queue'[s] = t
        /\ it.kind = "wait" => done[it.on] >= it.upto
        /\ queue'[Default] = d /\ done'[Default] = n
        /\ done'[s] = done[s] + 1
        /\ \A l \in Layers \ {s} : queue'[l] = queue[l] /\ done'[l] = done[l]
        /\ step' = step /\ layer' = layer
    BY <1>1, <1>2, StreamFacts DEF Runs
  <1>4. /\ done \in [Streams -> Nat] /\ n \in Nat /\ d \in Seq(ItemsOf(Default))
        /\ Len(d) \in Nat /\ it.upto \in Nat
    BY <1>1, <1>3, LenProperties DEF StreamInv, StreamType, TypeOK, ItemsOf
  <1>5. /\ Len(q) \in Nat \ {0} /\ Len(t) = Len(q) - 1
        /\ \A i \in 1 .. Len(t) : i + 1 \in 1 .. Len(q) /\ t[i] = q[i + 1] /\ (i + 1) - 1 = i
    <2>1. /\ Len(q) \in Nat \ {0} /\ Len(t) = Len(q) - 1
          /\ \A i \in 1 .. Len(q) - 1 : t[i] = q[i + 1]
      BY <1>3, Shrunk
    <2> HIDE DEF t
    <2> QED
      BY <2>1
  <1>6. MetaHolds'
    BY <1>1, <1>2, MetaRuns
  <1>7. ReadsHold(queue[Default], queue)'
    <2> SUFFICES ASSUME NEW i \in 1 .. Len(d), NEW x \in d[i].reads
                 PROVE  IF x[1][1] = Default THEN Holds(d, i, x[1], x[2], mem'[x[1]])
                        ELSE HoldsAcross(d, n, queue'[x[1][1]], done'[x[1][1]],
                                         x[1][1], i, x[1], x[2], mem'[x[1]])
      BY <1>3 DEF ReadsHold, Certain
    <2>1. PICK b, c : b = x[1] /\ c = x[2]
      OBVIOUS
    <2>2. IF b[1] = Default THEN Holds(d, i, b, c, mem[b])
          ELSE HoldsAcross(d, n, queue[b[1]], done[b[1]], b[1], i, b, c, mem[b])
      BY <2>1 DEF StreamInv, ReadsHold, Certain
    <2>3. b \in Blocks /\ b[1] \in Streams
      BY <1>4, <2>1, ReadsBlocks
    <2> HIDE DEF d, n
    <2>4. CASE b[1] # s
      <3>1. mem'[b] = mem[b]
        BY <1>2, <2>3, <2>4 DEF Runs
      <3>2. b[1] # Default => queue'[b[1]] = queue[b[1]] /\ done'[b[1]] = done[b[1]]
        BY <1>3, <2>3, <2>4, StreamFacts
      <3> QED
        BY <2>1, <2>2, <3>1, <3>2
    <2>5. CASE b[1] = s
      <3> DEFINE nl == done[s]
      <3>1. mem'[b] = After(q[1], b, mem[b])
        BY <1>2, <2>3 DEF Runs
      <3>2. HoldsAcross(d, n, q, nl, s, i, b, c, mem[b]) /\ nl \in Nat
        BY <1>1, <1>3, <1>4, <2>2, <2>5
      <3>3. (q[1].kind = "wait" /\ q[1].on = Default => n >= q[1].upto) /\ i \in Nat \ {0}
        BY <1>3, <1>4 DEF n
      <3> HIDE DEF nl
      <3>4. HoldsAcross(d, n, t, nl + 1, s, i, b, c, After(q[1], b, mem[b]))
        BY <1>3, <1>4, <3>2, <3>3, AcrossLayerRuns
      <3> QED
        BY <1>1, <1>3, <2>1, <2>5, <3>1, <3>4 DEF nl
    <2> QED
      BY <2>4, <2>5
  <1>8. QuantizeWaits'
    <2> SUFFICES ASSUME NEW l \in Layers, NEW i \in 1 .. Len(queue'[l]),
                        queue'[l][i].kind = "quantize"
                 PROVE  /\ ReadsEarlierKeys(queue'[l][i], step, layer)
                        /\ WaitsForAttend(queue'[l], i, d, n)
      BY <1>3 DEF QuantizeWaits
    <2>1. CASE l # s
      BY <1>3, <2>1 DEF StreamInv, QuantizeWaits
    <2>2. CASE l = s
      <3>1. i \in 1 .. Len(t) /\ queue'[l] = t /\ t[i].kind = "quantize"
        BY <1>3, <2>2
      <3>2. i + 1 \in 1 .. Len(q) /\ t[i] = q[i + 1] /\ (i + 1) - 1 = i
        BY <1>5, <3>1
      <3>3. ReadsEarlierKeys(q[i + 1], step, layer) /\ WaitsForAttend(q, i + 1, d, n)
        BY <1>3, <3>1, <3>2 DEF StreamInv, QuantizeWaits
      <3>4. ASSUME NEW j \in 1 .. Len(d), d[j].kind = "attend", d[j].reads = t[i].reads
            PROVE  Awaited(t, i, Default, n + j)
        <4>1. Awaited(q, i + 1, Default, n + j)
          BY <3>2, <3>3, <3>4 DEF WaitsForAttend
        <4>2. ~(q[1].kind = "wait" /\ q[1].on = Default /\ q[1].upto >= n + j)
          <5>1. it.kind = "wait" /\ it.on = Default => n >= it.upto
            BY <1>3
          <5> HIDE DEF n, d
          <5>2. j \in Nat \ {0} /\ n \in Nat /\ it.upto \in Nat
            BY <1>4
          <5> QED
            BY <1>3, <5>1, <5>2
        <4>3. i + 1 \in 1 .. Len(q) + 1
          BY <1>5, <3>2
        <4> HIDE DEF n, d
        <4> QED
          BY <1>3, <3>2, <4>1, <4>2, <4>3, AwaitedShrinks
      <3> QED
        BY <3>1, <3>2, <3>3, <3>4 DEF WaitsForAttend
    <2> QED
      BY <2>1, <2>2
  <1> QED
    BY <1>1, <1>6, <1>7, <1>8 DEF StreamInv

-----------------------------------------------------------------------------
(* The theorems *)

\* The invariant holds in every state.
LEMMA StreamInvHolds == Spec => []StreamInv
  <1>1. Init => StreamInv
    BY InitStream
  <1>2. StreamInv /\ [Next]_vars => StreamInv'
    <2> SUFFICES ASSUME StreamInv, [Next]_vars PROVE StreamInv'
      OBVIOUS
    <2>1. ASSUME NEW p \in BOOLEAN, NEW rs \in (SUBSET Reqs) \ {{}},
                 StartStep([prefill |-> p, reqs |-> rs])
          PROVE  StreamInv'
      BY <2>1, StartInv
    <2>2. ASSUME NEW k \in Free(Default), ForwardPrefill(k) PROVE StreamInv'
      BY <2>2, PrefillInv
    <2>3. ASSUME NEW k \in Free(Default), ForwardDecode(k, {}, NoBlock) PROVE StreamInv'
      BY <2>3, DecodeInv
    <2>4. ASSUME NEW k \in Free(Default), NEW r \in Reqs, NEW to \in Free(Default) \ {k},
                 ForwardDecode(k, {r}, to)
          PROVE  StreamInv'
      BY <2>4, DecodeInv
    <2>5. ASSUME NEW s \in Streams, Run(s) PROVE StreamInv'
      BY <2>5, RunDefaultInv, RunLayerInv, StreamFacts
    <2>6. CASE UNCHANGED vars
      BY <2>6 DEF vars, StreamInv, StreamType, TypeOK, ReadsHold, Certain, MetaHolds,
                  QuantizeWaits
    <2> QED
      BY <2>1, <2>2, <2>3, <2>4, <2>5, <2>6 DEF Next
  <1> QED
    BY <1>1, <1>2, PTL DEF Spec

\* Types: of the host's records, the queues' kernels, and the memory.
THEOREM StreamTypeCorrect == Spec => []TypeOK
  <1>1. StreamInv => TypeOK
    BY DEF StreamInv, StreamType
  <1> QED
    BY <1>1, StreamInvHolds, PTL

\* DefaultReadsAreFresh: whatever the order in which the streams run and whichever freed
\* blocks the allocator hands out, a kernel of the default stream (attention, scoring, or the
\* copies of a reallocation in _quantize_pending_keys) finds the contents it was launched for.
THEOREM ReadsFresh == Spec => []DefaultReadsAreFresh
  <1>1. StreamInv => DefaultReadsAreFresh
    <2> SUFFICES ASSUME StreamInv, CanRun(Default), NEW x \in Head(queue[Default]).reads
                 PROVE  mem[x[1]] = x[2]
      BY DEF DefaultReadsAreFresh, Finds
    <2> DEFINE d == queue[Default]
    <2>1. d \in Seq(ItemsOf(Default)) /\ d # <<>>
      BY StreamFacts DEF StreamInv, StreamType, CanRun
    <2>2. Head(d) = d[1] /\ 1 \in 1 .. Len(d)
      BY <2>1, Shrunk
    <2>3. Certain(d, queue, 1, x)
      BY <2>2 DEF StreamInv, ReadsHold
    <2> QED
      BY <2>3, HoldsNow DEF Certain
  <1> QED
    BY <1>1, StreamInvHolds, PTL

\* AttentionFirst: when a quantization may run, the attention of its own forward(), which
\* quantize_stream.wait_stream was called for, has run.
THEOREM AttentionBeforeQuantization == Spec => []AttentionFirst
  <1>1. StreamInv => AttentionFirst
    <2> SUFFICES ASSUME StreamInv, NEW l \in Layers, CanRun(l), Head(queue[l]).kind = "quantize",
                        NEW i \in DOMAIN queue[Default], queue[Default][i].kind = "attend",
                        queue[Default][i].reads = Head(queue[l]).reads
                 PROVE  FALSE
      BY DEF AttentionFirst
    <2> DEFINE d == queue[Default]
               q == queue[l]
    <2>1. d \in Seq(ItemsOf(Default)) /\ q \in Seq(ItemsOf(l)) /\ q # <<>>
      BY StreamFacts DEF StreamInv, StreamType, CanRun
    <2>2. Head(q) = q[1] /\ 1 \in 1 .. Len(q)
      BY <2>1, Shrunk
    <2>3. i \in 1 .. Len(d)
      BY <2>1, LenProperties
    <2>4. Awaited(q, 1, Default, done[Default] + i)
      BY <2>2, <2>3 DEF StreamInv, QuantizeWaits, WaitsForAttend
    <2> QED
      BY <2>4 DEF Awaited
  <1> QED
    BY <1>1, StreamInvHolds, PTL
=============================================================================
