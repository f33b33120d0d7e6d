-------------------------- MODULE Executor_proofs --------------------------
(***************************************************************************)
(* The ring between executor and workers works for every number of readers *)
(* and of chunks, and answers are late by exactly the ones left behind.    *)
(***************************************************************************)
EXTENDS Executor, FiniteSetTheorems, SequenceTheorems, TLAPS

-----------------------------------------------------------------------------
(* The inductive invariant of the ring.  Message m is in chunk (m - 1) % MaxChunks. *)

ChunkOf(m) == (m - 1) % MaxChunks

\* Chunks that reader r has released.
Released(r) == IF rpc[r] = "recv" THEN Len(got[r]) + 1 ELSE Len(got[r])

\* The writer has taken the chunk of its next message and not yet published it.
Writing == wpc \in {"head", "body", "clear", "mark"}

RingType ==
  /\ QueueTypeOK
  /\ chunk \in [Chunks -> [head : {0, 1}, body : Nat]]
  /\ clearing \in Nat \ {0} /\ msg \in Nat /\ (wpc # "idle" => msg > 0)
  /\ sock \in [Readers -> Seq(Nat)] /\ got \in [Readers -> Seq(Nat)]
  /\ over \in [Readers -> BOOLEAN] /\ obj \in [Readers -> Nat]

\* Indices and counters: nobody is ahead of the writer, and the writer is never in a chunk
\* that somebody has still to read.
Distances ==
  /\ widx = Published % MaxChunks
  /\ \A r \in Readers :
       /\ ridx[r] = Released(r) % MaxChunks
       /\ Released(r) <= Published
       /\ Published <= Released(r) + MaxChunks
       /\ Writing => Published < Released(r) + MaxChunks

\* Chunk c holds message m.
HoldsMessage(c, m) ==
  /\ chunk[c].head = (IF m \in Large THEN 1 ELSE 0)
  /\ m \notin Large => chunk[c].body = m

\* The last MaxChunks messages are in the ring, but for the one being overwritten; a
\* reader's flag tells whether it has released the message.
InRing(m) == /\ m \in 1 .. Published /\ Published < m + MaxChunks
             /\ Writing => Published + 1 < m + MaxChunks

MessagesHeld ==
  \A m \in 1 .. Published : InRing(m) =>
    /\ written[ChunkOf(m)] = 1
    /\ HoldsMessage(ChunkOf(m), m)
    /\ \A r \in Readers : flag[ChunkOf(m)][r] = IF Released(r) >= m THEN 1 ELSE 0

\* The chunk the writer is in, and those it has not reached yet.
WriterAt ==
  /\ Writing => written[widx] = 0
  /\ \A c \in Chunks : c >= Published => written[c] = 0
  /\ wpc \in {"body", "clear", "mark"} => chunk[widx].head = (IF msg \in Large THEN 1 ELSE 0)
  /\ wpc = "body" => msg \notin Large /\ clearing = 1
  /\ wpc \in {"clear", "mark"} => HoldsMessage(widx, msg)
  /\ wpc = "clear" => clearing <= NumReaders /\ \A r \in Readers : r < clearing => flag[widx][r] = 0
  /\ wpc = "mark" => \A r \in Readers : flag[widx][r] = 0
  /\ wpc = "send" => msg \in Large

ReaderAt ==
  \A r \in Readers :
    /\ rpc[r] = "look" => flag[ridx[r]][r] = 0
    /\ rpc[r] \in {"read", "release"} => Released(r) < Published
    /\ rpc[r] = "release" =>
         /\ over[r] <=> Released(r) + 1 \in Large
         /\ ~over[r] => obj[r] = Released(r) + 1
    /\ rpc[r] = "recv" => Len(got[r]) + 1 \in Large

\* Everybody has got the first messages, in order.
InOrder == \A r \in Readers : \A i \in 1 .. Len(got[r]) : got[r][i] = i

\* The large messages a socket still holds: those sent and not received, in order.
SentUpTo == IF wpc = "send" THEN msg - 1 ELSE Published

PendingLarge(s, from, upto) ==
  /\ from <= upto
  /\ \A i \in 1 .. Len(s) : s[i] \in Large /\ from < s[i] /\ s[i] <= upto
  /\ \A i, j \in 1 .. Len(s) : i < j => s[i] < s[j]
  /\ \A m \in from + 1 .. upto : m \in Large => \E i \in 1 .. Len(s) : s[i] = m

SocketOf(r, upto) == PendingLarge(sock[r], Len(got[r]), upto)

Sockets == \A r \in Readers : SocketOf(r, SentUpTo)

RingInv ==
  RingType /\ Distances /\ MessagesHeld /\ WriterAt /\ ReaderAt /\ InOrder /\ Sockets

RingNext == Enqueue \/ WriterStep \/ (\E r \in Readers : ReaderStep(r))

-----------------------------------------------------------------------------
(* Remainders *)

\* A remainder is below the modulus,
LEMMA ModRange ==
  ASSUME NEW M \in Nat \ {0}, NEW n \in Nat
  PROVE  n % M \in 0 .. M - 1
  OBVIOUS

\* a number below the modulus is its own,
LEMMA ModSmall ==
  ASSUME NEW M \in Nat \ {0}, NEW n \in Nat, n < M
  PROVE  n % M = n
  OBVIOUS

\* and no remainder exceeds its number.
LEMMA ModAtMost ==
  ASSUME NEW M \in Nat \ {0}, NEW n \in Nat
  PROVE  n % M <= n
  <1>1. n % M \in 0 .. M - 1
    OBVIOUS
  <1>2. CASE n < M
    BY <1>2, ModSmall
  <1> QED
    BY <1>1, <1>2

\* The only multiple of M strictly between -M and M is 0.
LEMMA SmallMultiple ==
  ASSUME NEW M \in Nat \ {0}, NEW d \in Int, -M < M * d, M * d < M
  PROVE  d = 0
  <1>1. d >= 1 => M * d >= M
    OBVIOUS
  <1>2. d <= -1 => M * d <= -M
    OBVIOUS
  <1> QED
    BY <1>1, <1>2

\* The remainder is determined by its range.
LEMMA ModUnique ==
  ASSUME NEW M \in Nat \ {0}, NEW n \in Nat, NEW q \in Int, NEW k \in 0 .. M - 1,
         n = q * M + k
  PROVE  n % M = k
  <1>1. n = M * (n \div M) + (n % M) /\ n % M \in 0 .. M - 1 /\ n \div M \in Int
    OBVIOUS
  <1> DEFINE d == q - (n \div M)
  <1>2. d \in Int /\ M * d = (n % M) - k
    BY <1>1
  <1>3. -M < M * d /\ M * d < M
    BY <1>1, <1>2
  <1> HIDE DEF d
  <1>4. d = 0
    BY <1>2, <1>3, SmallMultiple
  <1> QED
    BY <1>1, <1>2, <1>4

\* Going on by one.
LEMMA ModNext ==
  ASSUME NEW M \in Nat \ {0}, NEW n \in Nat
  PROVE  (n + 1) % M = ((n % M) + 1) % M
  <1> DEFINE q == n \div M
             k == n % M
  <1>1. n = M * q + k /\ k \in 0 .. M - 1 /\ q \in Int
    OBVIOUS
  <1> HIDE DEF q, k
  <1>2. CASE k + 1 < M
    <2>1. (n + 1) % M = k + 1
      BY <1>1, <1>2, ModUnique
    <2> QED
      BY <1>1, <1>2, <2>1, ModSmall, SMTT(30) DEF k
  <1>3. CASE k + 1 = M
    <2>1. n + 1 = (q + 1) * M + 0
      BY <1>1, <1>3
    <2>2. (n + 1) % M = 0
      BY <1>1, <2>1, ModUnique
    <2>3. (k + 1) % M = 0
      BY <1>3, ModUnique, M = 1 * M + 0
    <2> QED
      BY <2>2, <2>3 DEF k
  <1> QED
    BY <1>1, <1>2, <1>3

\* Once round the ring.
LEMMA ModRound ==
  ASSUME NEW M \in Nat \ {0}, NEW n \in Nat, n >= M
  PROVE  (n - M) % M = n % M
  <1>1. n = M * (n \div M) + (n % M) /\ n % M \in 0 .. M - 1 /\ n \div M \in Int
    OBVIOUS
  <1> DEFINE q == (n \div M) - 1
  <1>2. q \in Int /\ n - M \in Nat /\ n - M = q * M + (n % M)
    BY <1>1
  <1> HIDE DEF q
  <1> QED
    BY <1>1, <1>2, ModUnique

\* Two numbers less than a round apart have different places.
LEMMA ModApart ==
  ASSUME NEW M \in Nat \ {0}, NEW a \in Nat, NEW b \in Nat, a < b, b < a + M
  PROVE  a % M # b % M
  <1> SUFFICES ASSUME a % M = b % M PROVE FALSE
    OBVIOUS
  <1>1. /\ a = M * (a \div M) + (a % M) /\ a \div M \in Int
        /\ b = M * (b \div M) + (b % M) /\ b \div M \in Int /\ b % M \in Int
    OBVIOUS
  <1> DEFINE d == (b \div M) - (a \div M)
  <1>2. d \in Int /\ M * d = b - a
    BY <1>1
  <1> HIDE DEF d
  <1>3. d = 0
    BY <1>2, SmallMultiple
  <1> QED
    BY <1>2, <1>3

-----------------------------------------------------------------------------
(* Consequences of the invariant *)

\* Numbers of messages and the chunks they are in.
LEMMA RingNumbers ==
  ASSUME RingInv
  PROVE  /\ Published \in Nat /\ widx \in Chunks /\ MaxChunks \in Nat \ {0}
         /\ \A r \in Readers : Released(r) \in Nat /\ ridx[r] \in Chunks
         /\ \A m \in 1 .. Published : ChunkOf(m) \in Chunks
  <1>1. MaxChunks \in Nat \ {0}
    BY QueueAssumption
  <1>2. Published \in Nat /\ widx \in Chunks
    BY DEF RingInv, RingType, Published, QueueTypeOK
  <1>3. \A r \in Readers : Released(r) \in Nat /\ ridx[r] \in Chunks
    BY DEF RingInv, RingType, Released, QueueTypeOK
  <1>4. \A m \in 1 .. Published : ChunkOf(m) \in Chunks
    <2> TAKE m \in 1 .. Published
    <2>1. m - 1 \in Nat
      BY <1>2
    <2> QED
      BY <1>1, <2>1, ModRange DEF ChunkOf, Chunks
  <1> QED
    BY <1>1, <1>2, <1>3, <1>4

\* While the writer is in its chunk, the messages in the ring are in others.
LEMMA WriterApart ==
  ASSUME RingInv, NEW m \in 1 .. Published, InRing(m), Writing
  PROVE  ChunkOf(m) # widx
  <1>1. /\ MaxChunks \in Nat \ {0} /\ Published \in Nat /\ m - 1 \in Nat
        /\ m - 1 < Published /\ Published < (m - 1) + MaxChunks
    BY RingNumbers DEF InRing
  <1> QED
    BY <1>1, ModApart DEF ChunkOf, RingInv, Distances

\* The next message of a reader, if it is published, is in the chunk the reader looks at.
LEMMA NextInRing ==
  ASSUME RingInv, NEW r \in Readers, Released(r) < Published
  PROVE  /\ InRing(Released(r) + 1) /\ Released(r) + 1 \in 1 .. Published
         /\ ChunkOf(Released(r) + 1) = ridx[r]
         /\ written[ridx[r]] = 1
         /\ HoldsMessage(ridx[r], Released(r) + 1)
         /\ flag[ridx[r]][r] = 0
  <1>1. /\ Published \in Nat /\ Released(r) \in Nat /\ MaxChunks \in Nat \ {0}
        /\ Published <= Released(r) + MaxChunks
        /\ Writing => Published < Released(r) + MaxChunks
        /\ ridx[r] = Released(r) % MaxChunks
    BY RingNumbers DEF RingInv, Distances
  <1>2. Released(r) + 1 \in 1 .. Published /\ InRing(Released(r) + 1)
    BY <1>1 DEF InRing
  <1>3. ChunkOf(Released(r) + 1) = ridx[r]
    BY <1>1 DEF ChunkOf
  <1>4. /\ written[ridx[r]] = 1 /\ HoldsMessage(ridx[r], Released(r) + 1)
        /\ flag[ridx[r]][r] = IF Released(r) >= Released(r) + 1 THEN 1 ELSE 0
    BY <1>2, <1>3 DEF RingInv, MessagesHeld
  <1> QED
    BY <1>1, <1>2, <1>3, <1>4

\* After the first round, the writer's next chunk holds the oldest message of the ring.
LEMMA OldestInRing ==
  ASSUME RingInv, ~Writing, Published >= MaxChunks,
         NEW m, m = Published - MaxChunks + 1
  PROVE  m \in 1 .. Published /\ InRing(m) /\ ChunkOf(m) = widx
  <1>1. Published \in Nat /\ MaxChunks \in Nat \ {0} /\ widx = Published % MaxChunks
    BY RingNumbers DEF RingInv, Distances
  <1>2. m \in 1 .. Published /\ InRing(m)
    BY <1>1 DEF InRing
  <1>3. m - 1 = Published - MaxChunks
    BY <1>1
  <1> QED
    BY <1>1, <1>2, <1>3, ModRound DEF ChunkOf

\* A chunk that is written and whose flag the reader has not set holds its next message.
LEMMA ReadableIsPublished ==
  ASSUME RingInv, NEW r \in Readers, flag[ridx[r]][r] = 0, written[ridx[r]] = 1
  PROVE  Released(r) < Published
  <1>1. /\ Published \in Nat /\ Released(r) \in Nat /\ MaxChunks \in Nat \ {0}
        /\ Released(r) <= Published /\ ridx[r] = Released(r) % MaxChunks
        /\ widx = Published % MaxChunks /\ ridx[r] \in Chunks
    BY RingNumbers DEF RingInv, Distances
  <1> SUFFICES ASSUME Released(r) = Published PROVE FALSE
    BY <1>1
  <1>2. ridx[r] = widx /\ ~Writing
    BY <1>1 DEF RingInv, WriterAt
  <1>3. CASE Published < MaxChunks
    BY <1>1, <1>2, <1>3, ModSmall DEF RingInv, WriterAt
  <1>4. CASE Published >= MaxChunks
    <2> DEFINE m == Published - MaxChunks + 1
    <2>1. Released(r) >= m
      BY <1>1
    <2>2. m \in 1 .. Published /\ InRing(m) /\ ChunkOf(m) = widx
      BY <1>2, <1>4, OldestInRing
    <2> HIDE DEF m
    <2>3. flag[widx][r] = 1
      BY <2>1, <2>2 DEF RingInv, MessagesHeld
    <2> QED
      BY <1>2, <2>3
  <1> QED
    BY <1>1, <1>3, <1>4

\* The properties of the runs follow.
LEMMA RingSafe == RingInv => QueueTypeOK /\ ChunkIsNextMessage
  <1> SUFFICES ASSUME RingInv PROVE QueueTypeOK /\ ChunkIsNextMessage
    OBVIOUS
  <1>1. QueueTypeOK
    BY DEF RingInv, RingType
  <1>2. ASSUME NEW r \in Readers, rpc[r] \in {"read", "release"}
        PROVE  /\ written[ridx[r]] = 1
               /\ HoldsMessage(ridx[r], Len(got[r]) + 1)
    <2>1. Released(r) < Published /\ Released(r) = Len(got[r])
      BY <1>2 DEF RingInv, ReaderAt, Released
    <2> QED
      BY <2>1, NextInRing
  <1> QED
    BY <1>1, <1>2 DEF ChunkIsNextMessage, HoldsMessage

-----------------------------------------------------------------------------
(* The writer *)

\* The ring is empty at first.
LEMMA InitRing == InitQueue => RingInv
  <1> SUFFICES ASSUME InitQueue PROVE RingInv
    OBVIOUS
  <1> USE QueueAssumption DEF InitQueue
  <1>1. RingType
    BY DEF RingType, QueueTypeOK, Chunks, Readers
  <1>2. Published = 0 /\ SentUpTo = 0 /\ ~Writing /\ \A r \in Readers : Released(r) = 0
    BY DEF Published, SentUpTo, Writing, Released
  <1>3. Distances
    BY <1>2, ModSmall DEF Distances
  <1>4. MessagesHeld
    BY <1>2 DEF MessagesHeld
  <1>5. WriterAt /\ ReaderAt /\ InOrder /\ Sockets
    BY <1>2 DEF WriterAt, ReaderAt, InOrder, Sockets, SocketOf, PendingLarge, Writing
  <1> QED
    BY <1>1, <1>3, <1>4, <1>5 DEF RingInv

\* The writer is given a message: the ring and its readers are left alone.
LEMMA EnqueueStep == RingInv /\ Enqueue => RingInv'
  <1> SUFFICES ASSUME RingInv, Enqueue PROVE RingInv'
    OBVIOUS
  <1>1. /\ wpc = "idle" /\ wpc' = "acquire" /\ msg' = msg + 1
        /\ UNCHANGED <<widx, clearing, written, flag, chunk, sock, rpc, ridx, over, obj, got>>
    BY DEF Enqueue, memory, readers
  <1>2. /\ Published' = Published /\ SentUpTo' = SentUpTo /\ ~Writing /\ ~Writing'
        /\ \A r \in Readers : Released(r)' = Released(r)
    BY <1>1 DEF RingInv, RingType, Published, SentUpTo, Writing, Released
  <1>3. RingType'
    BY <1>1 DEF RingInv, RingType, QueueTypeOK
  <1>4. Distances'
    BY <1>1, <1>2 DEF RingInv, Distances
  <1>5. MessagesHeld'
    BY <1>1, <1>2 DEF RingInv, MessagesHeld, InRing, HoldsMessage
  <1>6. WriterAt'
    BY <1>1, <1>2 DEF RingInv, WriterAt
  <1>7. ReaderAt' /\ InOrder' /\ Sockets'
    BY <1>1, <1>2 DEF RingInv, ReaderAt, InOrder, Sockets, SocketOf
  <1> QED
    BY <1>3, <1>4, <1>5, <1>6, <1>7 DEF RingInv

\* Taking a chunk: it was never used, or everybody has released its message.
LEMMA AcquireWriteStep == RingInv /\ AcquireWrite => RingInv'
  <1> SUFFICES ASSUME RingInv, AcquireWrite PROVE RingInv'
    OBVIOUS
  <1>1. /\ wpc = "acquire" /\ wpc' = "head" /\ MayWrite(widx)
        /\ written' = [written EXCEPT ![widx] = 0]
        /\ UNCHANGED <<widx, clearing, msg, flag, chunk, sock, rpc, ridx, over, obj, got>>
    BY DEF AcquireWrite, readers
  <1>2. /\ Published' = Published /\ SentUpTo' = SentUpTo /\ ~Writing /\ Writing'
        /\ \A r \in Readers : Released(r)' = Released(r)
    BY <1>1 DEF Published, SentUpTo, Writing, Released
  <1>n. /\ Published \in Nat /\ widx \in Chunks /\ MaxChunks \in Nat \ {0}
        /\ written \in [Chunks -> {0, 1}]
    BY RingNumbers DEF RingInv, RingType, QueueTypeOK
  <1>3. RingType'
    BY <1>1, <1>n DEF RingInv, RingType, QueueTypeOK
  <1>4. ASSUME NEW r \in Readers PROVE Published < Released(r) + MaxChunks
    <2>1. Released(r) \in Nat
      BY RingNumbers
    <2>2. CASE Published < MaxChunks
      BY <1>n, <2>1, <2>2
    <2>3. CASE Published >= MaxChunks
      <3> DEFINE m == Published - MaxChunks + 1
      <3>1. m \in 1 .. Published /\ InRing(m) /\ ChunkOf(m) = widx
        BY <1>2, <2>3, OldestInRing
      <3>2. /\ written[widx] = 1
            /\ flag[widx][r] = IF Released(r) >= m THEN 1 ELSE 0
        BY <3>1 DEF RingInv, MessagesHeld
      <3>3. Released(r) >= m
        BY <1>1, <3>2 DEF MayWrite
      <3> QED
        BY <1>n, <2>1, <3>3
    <2> QED
      BY <1>n, <2>2, <2>3
  <1>5. Distances'
    BY <1>1, <1>2, <1>4 DEF RingInv, Distances
  <1>6. MessagesHeld'
    <2> SUFFICES ASSUME NEW m \in 1 .. Published, InRing(m)'
                 PROVE  /\ InRing(m) /\ written'[ChunkOf(m)] = written[ChunkOf(m)]
      BY <1>1, <1>2 DEF RingInv, MessagesHeld, HoldsMessage
    <2>1. InRing(m) /\ m - 1 < Published /\ Published < (m - 1) + MaxChunks /\ m - 1 \in Nat
      BY <1>2, <1>n DEF InRing
    <2>2. ChunkOf(m) # widx
      BY <2>1, <1>n, ModApart DEF ChunkOf, RingInv, Distances
    <2> QED
      BY <1>1, <1>n, <2>1, <2>2, RingNumbers
  <1>7. WriterAt'
    BY <1>1, <1>2, <1>n DEF RingInv, WriterAt
  <1>8. ReaderAt' /\ InOrder' /\ Sockets'
    BY <1>1, <1>2 DEF RingInv, ReaderAt, InOrder, Sockets, SocketOf
  <1> QED
    BY <1>3, <1>5, <1>6, <1>7, <1>8 DEF RingInv

\* What the writer does to its own chunk leaves the messages in the ring alone.
LEMMA WritingKeepsMessages ==
  ASSUME RingInv, Writing, Writing', Published' = Published,
         \A r \in Readers : Released(r)' = Released(r),
         \A c \in Chunks : c # widx => /\ written'[c] = written[c]
                                       /\ chunk'[c] = chunk[c]
                                       /\ flag'[c] = flag[c]
  PROVE  MessagesHeld'
  <1> SUFFICES ASSUME NEW m \in 1 .. Published, InRing(m)'
               PROVE  /\ written'[ChunkOf(m)] = 1
                      /\ HoldsMessage(ChunkOf(m), m)'
                      /\ \A r \in Readers :
                           flag'[ChunkOf(m)][r] = IF Released(r) >= m THEN 1 ELSE 0
    BY DEF MessagesHeld
  <1>1. InRing(m)
    BY DEF InRing
  <1>2. ChunkOf(m) # widx /\ ChunkOf(m) \in Chunks
    BY <1>1, WriterApart, RingNumbers
  <1> QED
    BY <1>1, <1>2 DEF RingInv, MessagesHeld, HoldsMessage

\* The first byte of the chunk: whether the message overflows it.
LEMMA WriteHeadStep == RingInv /\ WriteHead => RingInv'
  <1> SUFFICES ASSUME RingInv, WriteHead PROVE RingInv'
    OBVIOUS
  <1>1. /\ wpc = "head" /\ wpc' = (IF msg \in Large THEN "clear" ELSE "body") /\ clearing' = 1
        /\ chunk' = [chunk EXCEPT ![widx].head = IF msg \in Large THEN 1 ELSE 0]
        /\ UNCHANGED <<widx, msg, written, flag, sock, rpc, ridx, over, obj, got>>
    BY DEF WriteHead, readers
  <1>2. /\ Published' = Published /\ SentUpTo' = SentUpTo /\ Writing /\ Writing'
        /\ \A r \in Readers : Released(r)' = Released(r)
    BY <1>1 DEF Published, SentUpTo, Writing, Released
  <1>n. widx \in Chunks /\ chunk \in [Chunks -> [head : {0, 1}, body : Nat]]
    BY RingNumbers DEF RingInv, RingType
  <1>3. RingType'
    <2>1. chunk' \in [Chunks -> [head : {0, 1}, body : Nat]]
      BY <1>1, <1>n
    <2> QED
      BY <1>1, <2>1 DEF RingInv, RingType, QueueTypeOK
  <1>4. Distances'
    BY <1>1, <1>2 DEF RingInv, Distances
  <1>5. MessagesHeld'
    BY <1>1, <1>2, <1>n, WritingKeepsMessages
  <1>6. WriterAt'
    BY <1>1, <1>2, <1>n, QueueAssumption DEF RingInv, WriterAt, HoldsMessage, Readers
  <1>7. ReaderAt' /\ InOrder' /\ Sockets'
    BY <1>1, <1>2 DEF RingInv, ReaderAt, InOrder, Sockets, SocketOf
  <1> QED
    BY <1>3, <1>4, <1>5, <1>6, <1>7 DEF RingInv

\* The rest of the payload is written.
LEMMA WriteBodyStep == RingInv /\ WriteBody => RingInv'
  <1> SUFFICES ASSUME RingInv, WriteBody PROVE RingInv'
    OBVIOUS
  <1>1. /\ wpc = "body" /\ wpc' = "clear"
        /\ chunk' = [chunk EXCEPT ![widx].body = msg]
        /\ UNCHANGED <<widx, clearing, msg, written, flag, sock, rpc, ridx, over, obj, got>>
    BY DEF WriteBody, readers
  <1>2. /\ Published' = Published /\ SentUpTo' = SentUpTo /\ Writing /\ Writing'
        /\ \A r \in Readers : Released(r)' = Released(r)
    BY <1>1 DEF Published, SentUpTo, Writing, Released
  <1>n. /\ widx \in Chunks /\ chunk \in [Chunks -> [head : {0, 1}, body : Nat]] /\ msg \in Nat
        /\ clearing = 1
    BY <1>1, RingNumbers DEF RingInv, RingType, WriterAt
  <1>3. RingType'
    <2>1. chunk' \in [Chunks -> [head : {0, 1}, body : Nat]]
      BY <1>1, <1>n
    <2> QED
      BY <1>1, <2>1 DEF RingInv, RingType, QueueTypeOK
  <1>4. Distances'
    BY <1>1, <1>2 DEF RingInv, Distances
  <1>5. MessagesHeld'
    BY <1>1, <1>2, <1>n, WritingKeepsMessages
  <1>6. WriterAt'
    BY <1>1, <1>2, <1>n, QueueAssumption DEF RingInv, WriterAt, HoldsMessage, Readers
  <1>7. ReaderAt' /\ InOrder' /\ Sockets'
    BY <1>1, <1>2 DEF RingInv, ReaderAt, InOrder, Sockets, SocketOf
  <1> QED
    BY <1>3, <1>4, <1>5, <1>6, <1>7 DEF RingInv

\* A read flag of the chunk is cleared.
LEMMA ClearFlagStep == RingInv /\ ClearFlag => RingInv'
  <1> SUFFICES ASSUME RingInv, ClearFlag PROVE RingInv'
    OBVIOUS
  <1>1. /\ wpc = "clear" /\ wpc' = (IF clearing = NumReaders THEN "mark" ELSE "clear")
        /\ flag' = [flag EXCEPT ![widx][clearing] = 0] /\ clearing' = clearing + 1
        /\ UNCHANGED <<widx, msg, written, chunk, sock, rpc, ridx, over, obj, got>>
    BY DEF ClearFlag, readers
  <1>2. /\ Published' = Published /\ SentUpTo' = SentUpTo /\ Writing /\ Writing'
        /\ \A r \in Readers : Released(r)' = Released(r)
    BY <1>1 DEF Published, SentUpTo, Writing, Released
  <1>m. NumReaders \in Nat /\ clearing \in Nat \ {0} /\ clearing <= NumReaders
    BY <1>1, QueueAssumption DEF RingInv, RingType, WriterAt
  <1>n. /\ widx \in Chunks /\ flag \in [Chunks -> [Readers -> {0, 1}]]
        /\ clearing \in Readers /\ NumReaders \in Nat /\ clearing \in Nat \ {0}
        /\ ridx \in [Readers -> Chunks]
    BY <1>m, RingNumbers, SMTT(30) DEF RingInv, RingType, QueueTypeOK, Readers
  <1>3. RingType'
    BY <1>1, <1>n DEF RingInv, RingType, QueueTypeOK
  <1>4. Distances'
    BY <1>1, <1>2 DEF RingInv, Distances
  <1>5. MessagesHeld'
    BY <1>1, <1>2, <1>n, WritingKeepsMessages
  <1>6. WriterAt'
    <2>1. \A r \in Readers : r < clearing' => flag'[widx][r] = 0
      BY <1>1, <1>n DEF RingInv, WriterAt, Readers
    <2>2. wpc' = "mark" => \A r \in Readers : flag'[widx][r] = 0
      BY <1>1, <1>n, <2>1 DEF Readers
    <2>3. wpc' = "clear" => clearing' <= NumReaders
      BY <1>1, <1>n DEF Readers
    <2> QED
      BY <1>1, <1>2, <2>1, <2>2, <2>3 DEF RingInv, WriterAt, HoldsMessage
  <1>7. ReaderAt'
    BY <1>1, <1>2, <1>n DEF RingInv, ReaderAt
  <1>8. InOrder' /\ Sockets'
    BY <1>1, <1>2 DEF RingInv, InOrder, Sockets, SocketOf
  <1> QED
    BY <1>3, <1>4, <1>5, <1>6, <1>7, <1>8 DEF RingInv

\* Publishing: the message counts as sent, and the writer moves on.
LEMMA MarkWrittenStep == RingInv /\ MarkWritten => RingInv'
  <1> SUFFICES ASSUME RingInv, MarkWritten PROVE RingInv'
    OBVIOUS
  <1>1. /\ wpc = "mark" /\ wpc' = (IF msg \in Large THEN "send" ELSE "idle")
        /\ written' = [written EXCEPT ![widx] = 1] /\ widx' = (widx + 1) % MaxChunks
        /\ UNCHANGED <<clearing, msg, flag, chunk, sock, rpc, ridx, over, obj, got>>
    BY DEF MarkWritten, readers
  <1>n. /\ widx \in Chunks /\ written \in [Chunks -> {0, 1}] /\ MaxChunks \in Nat \ {0}
        /\ Published \in Nat /\ \A r \in Readers : Released(r) \in Nat
    BY RingNumbers DEF RingInv, RingType, QueueTypeOK
  <1>2. /\ Published' = Published + 1 /\ msg = Published + 1 /\ Writing /\ ~Writing'
        /\ SentUpTo = Published /\ SentUpTo' = (IF msg \in Large THEN Published ELSE Published + 1)
        /\ \A r \in Readers : Released(r)' = Released(r)
    BY <1>1 DEF RingInv, RingType, Published, SentUpTo, Writing, Released
  <1>3. widx' = Published' % MaxChunks /\ widx' \in Chunks
    <2>1. widx' = (Published + 1) % MaxChunks
      BY <1>1, <1>n, ModNext DEF RingInv, Distances
    <2> QED
      BY <1>2, <1>n, <2>1, ModRange DEF Chunks
  <1>4. RingType'
    BY <1>1, <1>n, <1>3 DEF RingInv, RingType, QueueTypeOK
  <1>5. Distances'
    BY <1>1, <1>2, <1>3, <1>n DEF RingInv, Distances
  <1>6. MessagesHeld'
    <2> SUFFICES ASSUME NEW m \in 1 .. Published + 1, InRing(m)'
                 PROVE  /\ written'[ChunkOf(m)] = 1
                        /\ HoldsMessage(ChunkOf(m), m)'
                        /\ \A r \in Readers :
                             flag'[ChunkOf(m)][r] = IF Released(r) >= m THEN 1 ELSE 0
      BY <1>2 DEF MessagesHeld
    <2>1. CASE m = Published + 1
      <3>1. ChunkOf(m) = widx
        BY <1>n, <2>1 DEF ChunkOf, RingInv, Distances
      <3>2. /\ chunk'[widx].head = (IF m \in Large THEN 1 ELSE 0)
            /\ m \notin Large => chunk'[widx].body = m
            /\ \A r \in Readers : flag'[widx][r] = 0
        BY <1>1, <1>2, <2>1 DEF RingInv, WriterAt, HoldsMessage
      <3>3. \A r \in Readers : ~(Released(r) >= m)
        BY <1>n, <2>1 DEF RingInv, Distances
      <3> QED
        BY <1>1, <1>n, <3>1, <3>2, <3>3 DEF HoldsMessage
    <2>2. CASE m \in 1 .. Published
      <3>1. InRing(m)
        BY <1>2, <1>n, <2>2 DEF InRing
      <3>2. ChunkOf(m) # widx /\ ChunkOf(m) \in Chunks
        BY <1>2, <2>2, <3>1, WriterApart, RingNumbers
      <3> QED
        BY <1>1, <1>n, <2>2, <3>1, <3>2 DEF RingInv, MessagesHeld, HoldsMessage
    <2> QED
      BY <1>n, <2>1, <2>2
  <1>7. WriterAt'
    <2>1. ASSUME NEW c \in Chunks, c >= Published + 1 PROVE written'[c] = 0
      <3>1. widx <= Published
        BY <1>n, ModAtMost DEF RingInv, Distances
      <3>2. c # widx /\ c >= Published
        BY <1>n, <2>1, <3>1 DEF Chunks
      <3> QED
        BY <1>1, <1>n, <3>2 DEF RingInv, WriterAt
    <2> QED
      BY <1>1, <1>2, <2>1 DEF WriterAt
  <1>8. ReaderAt' /\ InOrder'
    BY <1>1, <1>2, <1>n DEF RingInv, ReaderAt, InOrder
  <1>9. Sockets'
    BY <1>1, <1>2, <1>n, SMTT(30) DEF RingInv, RingType, Sockets, SocketOf, PendingLarge
  <1> QED
    BY <1>4, <1>5, <1>6, <1>7, <1>8, <1>9 DEF RingInv

\* A message sent behind those that wait in a socket keeps them in order.
LEMMA AppendLarge ==
  ASSUME NEW s \in Seq(Nat), NEW from \in Nat, NEW m \in Nat, m \in Large,
         PendingLarge(s, from, m - 1)
  PROVE  PendingLarge(Append(s, m), from, m)
  <1> DEFINE t == Append(s, m)
  <1>1. /\ Len(t) = Len(s) + 1 /\ t[Len(s) + 1] = m /\ Len(s) \in Nat
        /\ \A i \in 1 .. Len(s) : t[i] = s[i] /\ s[i] \in Nat
    OBVIOUS
  <1> HIDE DEF t
  <1>2. \A i \in 1 .. Len(t) : i \in 1 .. Len(s) \/ i = Len(s) + 1
    BY <1>1
  <1>p. /\ from <= m - 1
        /\ \A i \in 1 .. Len(s) : s[i] \in Large /\ from < s[i] /\ s[i] <= m - 1
        /\ \A i, j \in 1 .. Len(s) : i < j => s[i] < s[j]
        /\ \A k \in from + 1 .. m - 1 : k \in Large => \E i \in 1 .. Len(s) : s[i] = k
    BY DEF PendingLarge
  <1>3. from <= m
    BY <1>p
  <1>4. ASSUME NEW i \in 1 .. Len(t) PROVE t[i] \in Large /\ from < t[i] /\ t[i] <= m
    <2>1. CASE i = Len(s) + 1
      BY <1>1, <1>p, <2>1
    <2>2. CASE i \in 1 .. Len(s)
      <3>1. t[i] = s[i] /\ s[i] \in Nat /\ s[i] \in Large /\ from < s[i] /\ s[i] <= m - 1
        BY <1>1, <1>p, <2>2
      <3> QED
        BY <3>1
    <2> QED
      BY <1>2, <2>1, <2>2
  <1>5. ASSUME NEW i \in 1 .. Len(t), NEW j \in 1 .. Len(t), i < j PROVE t[i] < t[j]
    <2>1. i \in 1 .. Len(s) /\ t[i] = s[i] /\ s[i] \in Nat /\ s[i] <= m - 1
      <3>1. i \in 1 .. Len(s)
        BY <1>1, <1>5
      <3> QED
        BY <1>1, <1>p, <3>1
    <2>2. CASE j = Len(s) + 1
      BY <1>1, <2>1, <2>2
    <2>3. CASE j \in 1 .. Len(s)
      BY <1>1, <1>p, <1>5, <2>1, <2>3
    <2> QED
      BY <1>2, <2>2, <2>3
  <1>6. ASSUME NEW k \in from + 1 .. m, k \in Large PROVE \E i \in 1 .. Len(t) : t[i] = k
    <2>1. CASE k = m
      BY <1>1, <2>1
    <2>2. CASE k \in from + 1 .. m - 1
      <3>1. PICK i \in 1 .. Len(s) : s[i] = k
        BY <1>p, <1>6, <2>2
      <3> QED
        BY <1>1, <3>1
    <2> QED
      BY <2>1, <2>2
  <1> QED
    BY <1>3, <1>4, <1>5, <1>6 DEF t, PendingLarge

\* A message that overflows its chunk goes through the sockets.
LEMMA SendLargeStep == RingInv /\ SendLarge => RingInv'
  <1> SUFFICES ASSUME RingInv, SendLarge PROVE RingInv'
    OBVIOUS
  <1>1. /\ wpc = "send" /\ wpc' = "idle"
        /\ sock' = [r \in Readers |-> Append(sock[r], msg)]
        /\ UNCHANGED <<widx, clearing, msg, written, flag, chunk, rpc, ridx, over, obj, got>>
    BY DEF SendLarge, readers
  <1>n. msg \in Nat \ {0} /\ sock \in [Readers -> Seq(Nat)] /\ got \in [Readers -> Seq(Nat)]
    BY <1>1 DEF RingInv, RingType
  <1>2. /\ Published' = Published /\ SentUpTo = msg - 1 /\ SentUpTo' = msg /\ ~Writing /\ ~Writing'
        /\ \A r \in Readers : Released(r)' = Released(r)
    BY <1>1 DEF Published, SentUpTo, Writing, Released
  <1>3. RingType'
    BY <1>1, <1>n DEF RingInv, RingType, QueueTypeOK
  <1>4. Distances'
    BY <1>1, <1>2 DEF RingInv, Distances
  <1>5. MessagesHeld'
    BY <1>1, <1>2 DEF RingInv, MessagesHeld, InRing, HoldsMessage
  <1>6. WriterAt'
    BY <1>1, <1>2 DEF RingInv, WriterAt
  <1>7. ReaderAt' /\ InOrder'
    BY <1>1, <1>2 DEF RingInv, ReaderAt, InOrder
  <1>8. Sockets'
    <2> SUFFICES ASSUME NEW r \in Readers PROVE SocketOf(r, msg)'
      BY <1>1, <1>2 DEF Sockets
    <2>1. /\ sock'[r] = Append(sock[r], msg) /\ sock[r] \in Seq(Nat) /\ Len(got[r]) \in Nat
          /\ got' = got /\ msg' = msg
      BY <1>1, <1>n
    <2>2. SocketOf(r, msg - 1) /\ msg \in Large
      BY <1>1, <1>2 DEF RingInv, Sockets, WriterAt
    <2> QED
      BY <1>n, <2>1, <2>2, AppendLarge DEF SocketOf
  <1> QED
    BY <1>3, <1>4, <1>5, <1>6, <1>7, <1>8 DEF RingInv

-----------------------------------------------------------------------------
(* The readers *)

\* A reader that only looks changes nothing but its own place.
LEMMA LookStep ==
  ASSUME RingInv, NEW r \in Readers, LookFlag(r) \/ LookWritten(r) \/ ReadChunk(r)
  PROVE  RingInv'
  <1>1. /\ rpc[r] \in {"idle", "look", "read"}
        /\ \E x \in {"idle", "look", "read", "release"} : rpc' = [rpc EXCEPT ![r] = x]
        /\ UNCHANGED <<wpc, widx, clearing, msg, written, flag, chunk, sock, ridx, got>>
    BY DEF LookFlag, LookWritten, ReadChunk, memory, writer
  <1>n. /\ rpc \in [Readers -> {"idle", "look", "read", "release", "recv"}]
        /\ over \in [Readers -> BOOLEAN] /\ obj \in [Readers -> Nat]
        /\ ridx \in [Readers -> Chunks]
        /\ chunk \in [Chunks -> [head : {0, 1}, body : Nat]]
    BY DEF RingInv, RingType, QueueTypeOK
  <1>2. /\ Published' = Published /\ SentUpTo' = SentUpTo /\ Writing' = Writing
        /\ \A q \in Readers : Released(q)' = Released(q)
    BY <1>1, <1>n DEF Published, SentUpTo, Writing, Released
  <1>3. RingType'
    <2>1. rpc' \in [Readers -> {"idle", "look", "read", "release", "recv"}]
      BY <1>1, <1>n
    <2>2. over' \in [Readers -> BOOLEAN] /\ obj' \in [Readers -> Nat]
      BY <1>n DEF LookFlag, LookWritten, ReadChunk
    <2> QED
      BY <1>1, <2>1, <2>2 DEF RingInv, RingType, QueueTypeOK
  <1>4. Distances' /\ WriterAt' /\ InOrder' /\ Sockets'
    BY <1>1, <1>2 DEF RingInv, Distances, WriterAt, HoldsMessage, InOrder, Sockets, SocketOf
  <1>5. MessagesHeld'
    BY <1>1, <1>2 DEF RingInv, MessagesHeld, InRing, HoldsMessage
  <1>6. ReaderAt'
    <2>1. ASSUME NEW q \in Readers, q # r
          PROVE  rpc'[q] = rpc[q] /\ over'[q] = over[q] /\ obj'[q] = obj[q]
      BY <1>n, <2>1 DEF LookFlag, LookWritten, ReadChunk
    <2>2. rpc'[r] = "look" => flag[ridx[r]][r] = 0
      BY <1>n DEF LookFlag, LookWritten, ReadChunk
    <2>3. rpc'[r] \in {"read", "release"} => Released(r) < Published
      <3>1. CASE LookFlag(r)
        BY <1>n, <3>1 DEF LookFlag
      <3>2. CASE LookWritten(r)
        <4>1. rpc'[r] \in {"read", "release"} => written[ridx[r]] = 1 /\ flag[ridx[r]][r] = 0
          BY <1>n, <3>2 DEF LookWritten, RingInv, ReaderAt
        <4> QED
          BY <4>1, ReadableIsPublished
      <3>3. CASE ReadChunk(r)
        BY <3>3 DEF ReadChunk, RingInv, ReaderAt
      <3> QED
        BY <3>1, <3>2, <3>3
    <2>4. rpc'[r] = "release" =>
            /\ over'[r] <=> Released(r) + 1 \in Large
            /\ ~over'[r] => obj'[r] = Released(r) + 1
      <3> SUFFICES ASSUME rpc'[r] = "release"
                   PROVE  /\ over'[r] <=> Released(r) + 1 \in Large
                          /\ ~over'[r] => obj'[r] = Released(r) + 1
        OBVIOUS
      <3>1. ReadChunk(r)
        BY <1>n DEF LookFlag, LookWritten
      <3>2. HoldsMessage(ridx[r], Released(r) + 1)
        BY <2>3, NextInRing
      <3>3. (over'[r] <=> chunk[ridx[r]].head = 1) /\ obj'[r] = chunk[ridx[r]].body
        BY <1>n, <3>1 DEF ReadChunk
      <3> QED
        BY <3>2, <3>3 DEF HoldsMessage
    <2>5. rpc'[r] # "recv"
      BY <1>1, <1>n
    <2> QED
      BY <1>1, <1>2, <2>1, <2>2, <2>3, <2>4, <2>5 DEF RingInv, ReaderAt
  <1> QED
    BY <1>3, <1>4, <1>5, <1>6 DEF RingInv

\* A reader that releases a chunk has read the message next in its order.
LEMMA ReleaseStep ==
  ASSUME RingInv, NEW r \in Readers, Release(r)
  PROVE  RingInv'
  <1> DEFINE n == Released(r) + 1
  <1>1. /\ rpc[r] = "release"
        /\ flag' = [flag EXCEPT ![ridx[r]][r] = 1]
        /\ ridx' = [ridx EXCEPT ![r] = (@ + 1) % MaxChunks]
        /\ rpc' = [rpc EXCEPT ![r] = IF over[r] THEN "recv" ELSE "idle"]
        /\ got' = IF over[r] THEN got ELSE [got EXCEPT ![r] = Append(@, obj[r])]
        /\ over' = [over EXCEPT ![r] = FALSE] /\ obj' = [obj EXCEPT ![r] = 0]
        /\ UNCHANGED <<written, chunk, sock, wpc, widx, clearing, msg>>
    BY DEF Release, writer
  <1>t. /\ rpc \in [Readers -> {"idle", "look", "read", "release", "recv"}]
        /\ over \in [Readers -> BOOLEAN] /\ obj \in [Readers -> Nat]
        /\ ridx \in [Readers -> Chunks] /\ got \in [Readers -> Seq(Nat)]
        /\ flag \in [Chunks -> [Readers -> {0, 1}]]
    BY DEF RingInv, RingType, QueueTypeOK
  <1>n. /\ MaxChunks \in Nat \ {0} /\ Published \in Nat /\ ridx[r] \in Chunks
        /\ \A q \in Readers : Released(q) \in Nat
    BY RingNumbers
  <1>2. /\ Released(r) < Published /\ Released(r) = Len(got[r])
        /\ over[r] <=> n \in Large
        /\ ~over[r] => obj[r] = n
    BY <1>1 DEF RingInv, ReaderAt, Released
  <1>3. /\ InRing(n) /\ n \in 1 .. Published /\ ChunkOf(n) = ridx[r]
    BY <1>2, NextInRing
  <1>4. /\ Published' = Published /\ SentUpTo' = SentUpTo /\ Writing' = Writing
    BY <1>1 DEF Published, SentUpTo, Writing
  <1>5. /\ \A q \in Readers : q # r => /\ Released(q)' = Released(q) /\ rpc'[q] = rpc[q]
                                       /\ ridx'[q] = ridx[q] /\ got'[q] = got[q]
                                       /\ over'[q] = over[q] /\ obj'[q] = obj[q]
        /\ Released(r)' = n
    <2>1. \A q \in Readers : q # r => /\ rpc'[q] = rpc[q]
                                      /\ ridx'[q] = ridx[q] /\ got'[q] = got[q]
                                      /\ over'[q] = over[q] /\ obj'[q] = obj[q]
      BY <1>1, <1>t
    <2>2. CASE over[r]
      BY <1>1, <1>t, <1>2, <2>2 DEF Released
    <2>3. CASE ~over[r]
      <3>1. got'[r] = Append(got[r], obj[r]) /\ rpc'[r] = "idle"
        BY <1>1, <1>t, <2>3
      <3>2. Len(got'[r]) = Len(got[r]) + 1
        BY <1>t, <3>1
      <3> QED
        BY <1>2, <2>1, <3>1, <3>2 DEF Released
    <2> QED
      BY <2>1, <2>2, <2>3 DEF Released
  <1> HIDE DEF n
  <1>6. /\ n \in Nat \ {0} /\ Released(r) = n - 1 /\ Len(got[r]) = n - 1
    BY <1>2, <1>n DEF n
  <1>7. RingType'
    <2>1. flag' \in [Chunks -> [Readers -> {0, 1}]] /\ over' \in [Readers -> BOOLEAN]
      BY <1>1, <1>t, <1>n
    <2>2. rpc' \in [Readers -> {"idle", "look", "read", "release", "recv"}]
      BY <1>1, <1>t
    <2>3. ridx' \in [Readers -> Chunks]
      <3>1. (ridx[r] + 1) % MaxChunks \in Chunks
        BY <1>n, ModRange, SMTT(30) DEF Chunks
      <3> QED
        BY <1>1, <1>t, <3>1
    <2>4. got' \in [Readers -> Seq(Nat)] /\ obj' \in [Readers -> Nat]
      BY <1>1, <1>t
    <2> QED
      BY <1>1, <2>1, <2>2, <2>3, <2>4 DEF RingInv, RingType, QueueTypeOK
  <1>8. Distances'
    <2>1. ridx'[r] = n % MaxChunks
      <3>1. ridx[r] = (n - 1) % MaxChunks /\ n - 1 \in Nat
        BY <1>6 DEF RingInv, Distances
      <3>2. ((n - 1) + 1) % MaxChunks = (ridx[r] + 1) % MaxChunks
        BY <1>n, <3>1, ModNext
      <3> QED
        BY <1>1, <1>t, <1>6, <3>2
    <2>2. n <= Published /\ Published <= n + MaxChunks /\ (Writing => Published < n + MaxChunks)
      BY <1>2, <1>6, <1>n DEF RingInv, Distances
    <2> QED
      BY <1>1, <1>4, <1>5, <2>1, <2>2 DEF RingInv, Distances
  <1>9. MessagesHeld'
    <2> SUFFICES ASSUME NEW m \in 1 .. Published, InRing(m)
                 PROVE  \A q \in Readers :
                          flag'[ChunkOf(m)][q] = IF Released(q)' >= m THEN 1 ELSE 0
      BY <1>1, <1>4 DEF RingInv, MessagesHeld, InRing, HoldsMessage
    <2>0. /\ ChunkOf(m) \in Chunks
          /\ \A q \in Readers : flag[ChunkOf(m)][q] = IF Released(q) >= m THEN 1 ELSE 0
      BY RingNumbers DEF RingInv, MessagesHeld
    <2>1. CASE m = n
      BY <1>1, <1>t, <1>n, <1>3, <1>5, <1>6, <2>0, <2>1
    <2>2. CASE m # n
      <3>1. ChunkOf(m) # ChunkOf(n)
        <4>1. /\ m - 1 \in Nat /\ n - 1 \in Nat
              /\ m - 1 < n - 1 => n - 1 < (m - 1) + MaxChunks
              /\ n - 1 < m - 1 => m - 1 < (n - 1) + MaxChunks
              /\ m - 1 < n - 1 \/ n - 1 < m - 1
          BY <1>n, <1>3, <2>2 DEF InRing
        <4> QED
          BY <1>n, <4>1, ModApart DEF ChunkOf
      <3>2. Released(r) >= m <=> n >= m
        BY <1>n, <1>6, <2>2
      <3> QED
        BY <1>1, <1>t, <1>n, <1>3, <1>5, <2>0, <3>1, <3>2, ZenonT(30)
    <2> QED
      BY <2>1, <2>2
  <1>10. WriterAt'
    <2>1. Writing => \A q \in Readers : flag'[widx][q] = flag[widx][q]
      <3> SUFFICES ASSUME Writing PROVE \A q \in Readers : flag'[widx][q] = flag[widx][q]
        OBVIOUS
      <3>1. ridx[r] # widx /\ widx \in Chunks
        BY <1>3, WriterApart, RingNumbers
      <3> QED
        BY <1>1, <1>t, <1>n, <3>1
    <2> QED
      BY <1>1, <1>4, <2>1 DEF RingInv, WriterAt, HoldsMessage, Writing
  <1>11. ReaderAt'
    <2>1. ASSUME NEW q \in Readers, q # r
          PROVE  flag'[ridx[q]][q] = flag[ridx[q]][q]
      BY <1>1, <1>t, <1>n, <2>1
    <2>2. /\ rpc'[r] \in {"idle", "recv"}
          /\ rpc'[r] = "recv" => Len(got'[r]) + 1 \in Large
      BY <1>1, <1>t, <1>2, <1>6
    <2> QED
      BY <1>4, <1>5, <2>1, <2>2 DEF RingInv, ReaderAt
  <1>12. InOrder'
    <2>1. CASE over[r]
      BY <1>1, <2>1 DEF RingInv, InOrder
    <2>2. CASE ~over[r]
      <3>1. got'[r] = Append(got[r], n) /\ got[r] \in Seq(Nat)
        BY <1>1, <1>t, <1>2, <2>2
      <3>2. \A i \in 1 .. Len(got'[r]) : got'[r][i] = i
        BY <1>6, <3>1 DEF RingInv, InOrder
      <3> QED
        BY <1>5, <3>2 DEF RingInv, InOrder
    <2> QED
      BY <2>1, <2>2
  <1>13. Sockets'
    <2>1. CASE over[r]
      BY <1>1, <1>4, <2>1 DEF RingInv, Sockets, SocketOf
    <2>2. CASE ~over[r]
      <3>1. Len(got'[r]) = n
        BY <1>1, <1>t, <1>2, <1>6, <2>2
      <3>2. PendingLarge(sock[r], n - 1, SentUpTo) /\ sock[r] \in Seq(Nat) /\ SentUpTo \in Int
        BY <1>1, <1>6, <1>n DEF RingInv, RingType, Sockets, SocketOf, SentUpTo
      <3>3. n \notin Large
        BY <1>2, <2>2
      <3>4. n <= SentUpTo
        <4>1. n <= Published /\ msg \in Nat
          BY <1>3, <1>6, <1>n DEF RingInv, RingType
        <4>2. CASE wpc = "send"
          <5>1. SentUpTo = msg - 1 /\ Published = msg
            BY <4>2 DEF SentUpTo, Published
          <5>2. n # msg
            BY <3>3, <4>2 DEF RingInv, WriterAt
          <5> QED
            BY <1>6, <4>1, <5>1, <5>2
        <4>3. CASE wpc # "send"
          BY <4>1, <4>3 DEF SentUpTo
        <4> QED
          BY <4>2, <4>3
      <3>5. PendingLarge(sock[r], n, SentUpTo)
        <4> DEFINE s == sock[r]
        <4>1. \A i \in 1 .. Len(s) : s[i] \in Large /\ n - 1 < s[i] /\ s[i] <= SentUpTo /\ s[i] \in Nat
          BY <3>2 DEF PendingLarge
        <4>2. \A i \in 1 .. Len(s) : n < s[i]
          BY <1>6, <3>3, <4>1
        <4>3. \A m \in n + 1 .. SentUpTo : m \in (n - 1) + 1 .. SentUpTo
          BY <1>6, <3>2
        <4> QED
          BY <3>2, <3>4, <4>1, <4>2, <4>3 DEF PendingLarge
      <3> QED
        BY <1>1, <1>4, <1>5, <3>1, <3>5 DEF RingInv, Sockets, SocketOf
    <2> QED
      BY <2>1, <2>2
  <1> QED
    BY <1>7, <1>8, <1>9, <1>10, <1>11, <1>12, <1>13 DEF RingInv

\* When the next message of a reader is large, it is the first its socket holds.
LEMMA TakeLarge ==
  ASSUME NEW s \in Seq(Nat), NEW n \in Nat \ {0}, NEW upto \in Int, s # <<>>,
         n \in Large, PendingLarge(s, n - 1, upto)
  PROVE  Head(s) = n /\ n <= upto /\ PendingLarge(Tail(s), n, upto)
  <1>1. Len(s) \in Nat \ {0} /\ \A i \in 1 .. Len(s) : s[i] \in Nat
    OBVIOUS
  <1>2. s[1] \in Large /\ n - 1 < s[1] /\ s[1] <= upto
    BY <1>1 DEF PendingLarge
  <1>3. n <= upto
    BY <1>1, <1>2
  <1>4. PICK i \in 1 .. Len(s) : s[i] = n
    BY <1>3 DEF PendingLarge
  <1>5. i = 1
    <2> SUFFICES ASSUME i # 1 PROVE FALSE
      OBVIOUS
    <2>1. 1 \in 1 .. Len(s) /\ 1 < i
      BY <1>1
    <2>2. s[1] < n
      BY <1>4, <2>1 DEF PendingLarge
    <2>3. s[1] \in Nat
      BY <1>1, <2>1
    <2> QED
      BY <1>2, <2>2, <2>3
  <1>6. /\ Len(Tail(s)) = Len(s) - 1
        /\ \A j \in 1 .. Len(s) - 1 : Tail(s)[j] = s[j + 1]
    BY <1>1
  <1>7. \A j \in 1 .. Len(s) - 1 : Tail(s)[j] \in Large /\ n < Tail(s)[j] /\ Tail(s)[j] <= upto
    <2> TAKE j \in 1 .. Len(s) - 1
    <2>1. j + 1 \in 1 .. Len(s) /\ 1 \in 1 .. Len(s) /\ 1 < j + 1
      BY <1>1
    <2>2. s[j + 1] \in Large /\ s[j + 1] <= upto /\ s[1] < s[j + 1]
      BY <2>1 DEF PendingLarge
    <2> QED
      BY <1>4, <1>5, <1>6, <2>2
  <1>8. \A j, k \in 1 .. Len(s) - 1 : j < k => Tail(s)[j] < Tail(s)[k]
    <2> TAKE j, k \in 1 .. Len(s) - 1
    <2> HAVE j < k
    <2>1. j + 1 \in 1 .. Len(s) /\ k + 1 \in 1 .. Len(s) /\ j + 1 < k + 1
      BY <1>1
    <2>2. s[j + 1] < s[k + 1]
      BY <2>1 DEF PendingLarge
    <2> QED
      BY <1>6, <2>2
  <1>9. ASSUME NEW m \in n + 1 .. upto, m \in Large
        PROVE  \E j \in 1 .. Len(s) - 1 : Tail(s)[j] = m
    <2>1. m \in (n - 1) + 1 .. upto
      OBVIOUS
    <2>2. PICK j \in 1 .. Len(s) : s[j] = m
      BY <1>9, <2>1 DEF PendingLarge
    <2>3. s[1] = n /\ m # n
      BY <1>4, <1>5
    <2>4. j - 1 \in 1 .. Len(s) - 1 /\ (j - 1) + 1 = j
      BY <1>1, <2>2, <2>3
    <2>5. Tail(s)[j - 1] = m
      BY <1>6, <2>2, <2>4
    <2> QED
      BY <2>4, <2>5
  <1> QED
    BY <1>1, <1>3, <1>4, <1>5, <1>6, <1>7, <1>8, <1>9 DEF PendingLarge

\* A large message that a reader takes from its socket is the next in its order.
LEMMA RecvStep ==
  ASSUME RingInv, NEW r \in Readers, Recv(r)
  PROVE  RingInv'
  <1> DEFINE n == Len(got[r]) + 1
  <1>1. /\ rpc[r] = "recv" /\ sock[r] # <<>>
        /\ got' = [got EXCEPT ![r] = Append(@, Head(sock[r]))]
        /\ sock' = [sock EXCEPT ![r] = Tail(@)]
        /\ rpc' = [rpc EXCEPT ![r] = "idle"]
        /\ UNCHANGED <<ridx, over, obj, written, flag, chunk, wpc, widx, clearing, msg>>
    BY DEF Recv, writer
  <1>t. /\ rpc \in [Readers -> {"idle", "look", "read", "release", "recv"}]
        /\ got \in [Readers -> Seq(Nat)] /\ sock \in [Readers -> Seq(Nat)]
        /\ got[r] \in Seq(Nat) /\ sock[r] \in Seq(Nat) /\ Len(sock[r]) \in Nat \ {0}
    BY <1>1 DEF RingInv, RingType, QueueTypeOK
  <1>2. n \in Nat \ {0} /\ n \in Large /\ Released(r) = n
    BY <1>1, <1>t DEF RingInv, ReaderAt, Released
  <1>3. PendingLarge(sock[r], n - 1, SentUpTo) /\ SentUpTo \in Int
    BY <1>t DEF RingInv, RingType, Sockets, SocketOf, SentUpTo, Published
  <1>4. Head(sock[r]) = n /\ n <= SentUpTo /\ PendingLarge(Tail(sock[r]), n, SentUpTo)
    BY <1>t, <1>2, <1>3, TakeLarge
  <1>5. /\ Published' = Published /\ SentUpTo' = SentUpTo /\ Writing' = Writing
    BY <1>1 DEF Published, SentUpTo, Writing
  <1>6. got'[r] = Append(got[r], n) /\ Len(got'[r]) = n /\ rpc'[r] = "idle"
    BY <1>1, <1>t, <1>2, <1>4
  <1>7. \A q \in Readers : q # r => rpc'[q] = rpc[q] /\ got'[q] = got[q] /\ sock'[q] = sock[q]
    BY <1>1, <1>t
  <1>8. \A q \in Readers : Released(q)' = Released(q)
    BY <1>2, <1>6, <1>7 DEF Released
  <1> HIDE DEF n
  <1>9. RingType'
    <2>1. got' \in [Readers -> Seq(Nat)] /\ sock' \in [Readers -> Seq(Nat)]
      BY <1>1, <1>t, <1>2, <1>4
    <2>2. rpc' \in [Readers -> {"idle", "look", "read", "release", "recv"}]
      BY <1>1, <1>t
    <2> QED
      BY <1>1, <2>1, <2>2 DEF RingInv, RingType, QueueTypeOK
  <1>10. Distances' /\ WriterAt'
    BY <1>1, <1>5, <1>8 DEF RingInv, Distances, WriterAt, HoldsMessage
  <1>11. MessagesHeld'
    BY <1>1, <1>5, <1>8 DEF RingInv, MessagesHeld, InRing, HoldsMessage
  <1>12. ReaderAt'
    BY <1>1, <1>5, <1>6, <1>7, <1>8 DEF RingInv, ReaderAt
  <1>13. InOrder'
    <2>1. \A i \in 1 .. Len(got'[r]) : got'[r][i] = i
      BY <1>t, <1>2, <1>6 DEF RingInv, InOrder, n
    <2> QED
      BY <1>7, <2>1 DEF RingInv, InOrder
  <1>14. Sockets'
    <2>1. sock'[r] = Tail(sock[r])
      BY <1>1, <1>t
    <2> QED
      BY <1>4, <1>5, <1>6, <1>7, <2>1 DEF RingInv, Sockets, SocketOf
  <1> QED
    BY <1>9, <1>10, <1>11, <1>12, <1>13, <1>14 DEF RingInv

-----------------------------------------------------------------------------
(* The queue *)

\* Every step of writer or reader preserves the invariant.
LEMMA RingStep == RingInv /\ (RingNext \/ UNCHANGED ring) => RingInv'
  <1> SUFFICES ASSUME RingInv, RingNext \/ UNCHANGED ring PROVE RingInv'
    OBVIOUS
  <1>1. CASE Enqueue
    BY <1>1, EnqueueStep
  <1>2. CASE WriterStep
    BY <1>2, AcquireWriteStep, WriteHeadStep, WriteBodyStep, ClearFlagStep, MarkWrittenStep,
       SendLargeStep DEF WriterStep
  <1>3. ASSUME NEW r \in Readers, ReaderStep(r) PROVE RingInv'
    BY <1>3, LookStep, ReleaseStep, RecvStep DEF ReaderStep
  <1>4. CASE UNCHANGED ring
    BY <1>4 DEF ring, RingInv, RingType, QueueTypeOK, Distances, MessagesHeld, InRing,
       HoldsMessage, WriterAt, ReaderAt, InOrder, Sockets, SocketOf, SentUpTo, Published,
       Released, Writing
  <1> QED
    BY <1>1, <1>2, <1>3, <1>4 DEF RingNext

\* The executor moves the queue by the queue's own steps.
LEMMA ExecutorMovesRing == [Next]_vars => RingNext \/ UNCHANGED ring
  <1> SUFFICES ASSUME Next PROVE RingNext \/ UNCHANGED ring
    BY DEF vars
  <1>1. ASSUME NEW kind \in {"model", "utility"}, Call(kind) PROVE RingNext
    BY <1>1 DEF Call, RingNext
  <1>2. CASE Broadcast
    BY <1>2 DEF Broadcast, RingNext
  <1>3. CASE Submit \/ Pop \/ Result \/ GetResponse \/ Receive \/ TimeOut \/ Monitor \/ Stop
    BY <1>3 DEF Submit, Pop, Result, GetResponse, Receive, TimeOut, Monitor, Stop
  <1>4. ASSUME NEW w \in Readers, Dequeue(w) PROVE RingNext
    BY <1>4 DEF Dequeue, RingNext
  <1>5. ASSUME NEW w \in Readers, Run(w) \/ SendAnswer(w) \/ Die(w) PROVE UNCHANGED ring
    BY <1>5 DEF Run, SendAnswer, Die
  <1> QED
    BY <1>1, <1>2, <1>3, <1>4, <1>5 DEF Next

\* The invariant of the ring holds for every number of readers and of chunks.
LEMMA RingAlways == Spec => []RingInv
  <1>1. Init => RingInv
    BY InitRing DEF Init
  <1>2. RingInv /\ [Next]_vars => RingInv'
    BY RingStep, ExecutorMovesRing
  <1> QED
    BY <1>1, <1>2, PTL DEF Spec

\* Positions and flags of acquire_write and acquire_read have their types.
THEOREM QueueTypeCorrect == Spec => []QueueTypeOK
  BY RingAlways, RingSafe, PTL

\* A chunk that acquire_read has found readable is not written again, and holds the reader's
\* next message, until the reader sets its flag.
THEOREM ChunkCorrect == Spec => []ChunkIsNextMessage
  BY RingAlways, RingSafe, PTL

-----------------------------------------------------------------------------
(* The queue implements the log *)

\* The log of the messages that are published.
LEMMA SentIsSequence ==
  ASSUME NEW n \in Nat
  PROVE  LET s == [i \in 1 .. n |-> i]
             t == [i \in 1 .. n + 1 |-> i]
         IN  /\ s \in Seq(Nat) /\ Len(s) = n /\ \A i \in 1 .. n : s[i] = i
             /\ Len(t) = n + 1 /\ SubSeq(t, 1, n) = s
  <1> DEFINE s == [i \in 1 .. n |-> i]
             t == [i \in 1 .. n + 1 |-> i]
  <1>1. s \in Seq(Nat) /\ Len(s) = n /\ \A i \in 1 .. n : s[i] = i
    OBVIOUS
  <1>2. t \in Seq(Nat) /\ Len(t) = n + 1 /\ \A i \in 1 .. n + 1 : t[i] = i
    OBVIOUS
  <1> HIDE DEF s, t
  <1>3. SubSeq(t, 1, n) \in Seq(Nat) /\ Len(SubSeq(t, 1, n)) = n
    BY <1>2
  <1>4. \A i \in 1 .. n : SubSeq(t, 1, n)[i] = t[i]
    BY <1>2
  <1>5. SubSeq(t, 1, n) = s
    <2>1. \A i \in 1 .. n : SubSeq(t, 1, n)[i] = s[i]
      BY <1>1, <1>2, <1>4
    <2> QED
      BY <1>1, <1>3, <2>1, SeqEqual
  <1> QED
    BY <1>1, <1>2, <1>5 DEF s, t

\* mark_written publishes one message when the log has room for it.
LEMMA MarkWrittenSends == RingInv /\ MarkWritten => Log!Send
  <1> SUFFICES ASSUME RingInv, MarkWritten PROVE Log!Send
    OBVIOUS
  <1>1. /\ wpc = "mark" /\ msg' = msg /\ got' = got
        /\ wpc' \in {"send", "idle"}
    BY DEF MarkWritten, readers
  <1>2. msg \in Nat /\ Published = msg - 1 /\ Published' = Published + 1 /\ Writing
    BY <1>1 DEF RingInv, RingType, Published, Writing
  <1>3. Published \in Nat /\ MaxChunks \in Nat \ {0}
    BY RingNumbers
  <1>4. ASSUME NEW r \in Readers PROVE Published - Len(got[r]) < MaxChunks + 1
    <2>1. Published < Released(r) + MaxChunks /\ Released(r) \in Nat
      BY <1>2, RingNumbers DEF RingInv, Distances
    <2>2. Len(got[r]) \in Nat
      BY DEF RingInv, RingType
    <2>3. Released(r) <= Len(got[r]) + 1
      BY <2>2 DEF Released
    <2> QED
      BY <1>3, <2>1, <2>2, <2>3
  <1> QED
    BY <1>1, <1>2, <1>3, <1>4, SentIsSequence DEF Log!Send

\* A dequeue that returns receives the next message of the log.
LEMMA ReturnReceives ==
  ASSUME RingInv, NEW r \in Readers, UNCHANGED <<wpc, msg>>,
         Len(got[r]) + 1 <= Published,
         got' = [got EXCEPT ![r] = Append(@, Len(got[r]) + 1)]
  PROVE  Log!Receive(r)
  <1> DEFINE n == Len(got[r]) + 1
  <1>1. Published \in Nat /\ Published' = Published /\ n \in 1 .. Published
    BY RingNumbers DEF Published, RingInv, RingType
  <1> HIDE DEF n
  <1>2. [i \in 1 .. Published |-> i][n] = n
    BY <1>1
  <1>3. Len([i \in 1 .. Published |-> i]) = Published
    BY <1>1, SentIsSequence
  <1>4. got' = [got EXCEPT ![r] = Append(@, [i \in 1 .. Published |-> i][Len(@) + 1])]
    BY <1>1, <1>2 DEF n
  <1>5. Len(got[r]) < Published
    BY <1>1 DEF RingInv, RingType, n
  <1> QED
    BY <1>1, <1>3, <1>4, <1>5 DEF Log!Receive

\* Every step of the queue is one of the log, or invisible in it.
LEMMA RingImplementsLog == RingInv /\ (RingNext \/ UNCHANGED ring) => [Log!Next]_(Log!vars)
  <1> SUFFICES ASSUME RingInv, RingNext \/ UNCHANGED ring PROVE [Log!Next]_(Log!vars)
    OBVIOUS
  <1>1. CASE MarkWritten
    BY <1>1, MarkWrittenSends DEF Log!Next
  <1>2. CASE Enqueue \/ AcquireWrite \/ WriteHead \/ WriteBody \/ ClearFlag \/ SendLarge
    <2>1. msg \in Nat /\ got' = got
      BY <1>2 DEF RingInv, RingType, Enqueue, AcquireWrite, WriteHead, WriteBody, ClearFlag,
         SendLarge, readers
    <2>2. Published' = Published
      BY <1>2, <2>1 DEF Published, Enqueue, AcquireWrite, WriteHead, WriteBody, ClearFlag, SendLarge
    <2> QED
      BY <2>1, <2>2 DEF Log!vars
  <1>3. ASSUME NEW r \in Readers, LookFlag(r) \/ LookWritten(r) \/ ReadChunk(r)
        PROVE  UNCHANGED Log!vars
    BY <1>3 DEF LookFlag, LookWritten, ReadChunk, writer, Published, Log!vars
  <1>4. ASSUME NEW r \in Readers, Release(r)
        PROVE  Log!Receive(r) \/ UNCHANGED Log!vars
    <2>1. CASE over[r]
      BY <1>4, <2>1 DEF Release, writer, Published, Log!vars
    <2>2. CASE ~over[r]
      <3>1. rpc[r] = "release" /\ Released(r) = Len(got[r])
        BY <1>4 DEF Release, Released
      <3>2. Released(r) < Published /\ obj[r] = Len(got[r]) + 1
        BY <2>2, <3>1 DEF RingInv, ReaderAt
      <3>3. UNCHANGED <<wpc, msg>> /\ got' = [got EXCEPT ![r] = Append(@, Len(got[r]) + 1)]
        BY <1>4, <2>2, <3>2 DEF Release, writer
      <3>4. Len(got[r]) + 1 <= Published
        BY <3>1, <3>2, RingNumbers
      <3> QED
        BY <3>3, <3>4, ReturnReceives
    <2> QED
      BY <2>1, <2>2
  <1>5. ASSUME NEW r \in Readers, Recv(r)
        PROVE  Log!Receive(r)
    <2>1. /\ rpc[r] = "recv" /\ sock[r] # <<>> /\ UNCHANGED <<wpc, msg>>
          /\ got' = [got EXCEPT ![r] = Append(@, Head(sock[r]))]
      BY <1>5 DEF Recv, writer
    <2>2. /\ Released(r) = Len(got[r]) + 1 /\ Len(got[r]) + 1 \in Nat \ {0}
          /\ Len(got[r]) + 1 \in Large /\ sock[r] \in Seq(Nat) /\ SentUpTo \in Int
          /\ Released(r) <= Published
      BY <2>1 DEF RingInv, RingType, ReaderAt, Released, Distances, SentUpTo, Published
    <2>3. PendingLarge(sock[r], (Len(got[r]) + 1) - 1, SentUpTo)
      BY <2>2 DEF RingInv, RingType, Sockets, SocketOf
    <2>4. Head(sock[r]) = Len(got[r]) + 1
      BY <2>1, <2>2, <2>3, TakeLarge
    <2>5. Len(got[r]) + 1 <= Published /\ got' = [got EXCEPT ![r] = Append(@, Len(got[r]) + 1)]
      BY <2>1, <2>2, <2>4
    <2> QED
      BY <2>1, <2>5, ReturnReceives
  <1>6. CASE UNCHANGED ring
    BY <1>6 DEF ring, Published, Log!vars
  <1> QED
    BY <1>1, <1>2, <1>3, <1>4, <1>5, <1>6 DEF RingNext, WriterStep, ReaderStep, Log!Next

\* Chunks, flags and sockets implement the log: every reader gets all messages, once and in
\* order, and is never further behind than the ring is long.
THEOREM QueueImplementsLog == Spec => LogSpec
  <1>1. Init => Log!Init
    <2> SUFFICES ASSUME Init PROVE Log!Init
      OBVIOUS
    <2>1. Published = 0 /\ got = [r \in Readers |-> <<>>]
      BY DEF Init, InitQueue, Published
    <2>2. [i \in 1 .. 0 |-> i] = <<>>
      OBVIOUS
    <2> QED
      BY <2>1, <2>2 DEF Log!Init
  <1>2. RingInv /\ [Next]_vars => [Log!Next]_(Log!vars)
    BY ExecutorMovesRing, RingImplementsLog
  <1> QED
    BY <1>1, <1>2, RingAlways, PTL DEF Spec, LogSpec, Log!Spec

-----------------------------------------------------------------------------
(* Calls and answers.  The inductive invariant counts, for every worker, the answers it was  *)
(* asked for, those that were taken, those left behind, and those still waited for; and it   *)
(* says which large answers are in the socket beside the chunks.                             *)

\* How many of the first n calls of c ask worker w for an answer; Place, without its state.
Asked(c, n, w) == Cardinality({i \in 1 .. n : c[i] = "model" => w = OutputRank})

\* Chunks of w that no ended read has taken; first the one whose large answer is waited for.
Queue(w) == IF receiving # 0 /\ Head(reads).worker = w THEN <<receiving>> \o resp[w] ELSE resp[w]

\* Answers of w that were taken or left behind.
Past(w) == Asked(calls, done[w], w) - Len(Queue(w)) + skipped[w]

\* The read of the utility call that the engine thread is in is under way: it is the last one.
Reading == todo # <<>> /\ reads # <<>> /\ reads[Len(reads)].call = blocked

\* Reads that calls of execute_model have left to the IO thread.
Earlier == IF Reading THEN Len(reads) - 1 ELSE Len(reads)

CallType ==
  /\ calls \in Seq({"model", "utility"}) /\ msg = Len(calls)
  /\ reads \in Seq([call : Nat \ {0}, worker : Readers]) /\ todo \in Seq(Readers)
  /\ done \in [Readers -> Nat] /\ skipped \in [Readers -> Nat]
  /\ resp \in [Readers -> Seq(Nat)] /\ receiving \in Nat
  /\ receiving # 0 => reads # <<>>

SocketType ==
  /\ resp_sock \in [Readers -> Seq(Nat)] /\ sending \in [Readers -> Nat]
  /\ failed \in [Readers -> SUBSET Nat] /\ lost \in [Readers -> Nat]

\* The chunks q of worker w, which has run d calls, are its last answers, in order.
QueueAt(c, q, d, w) ==
  \A j \in 1 .. Len(q) :
    q[j] \in 1 .. d /\ Asked(c, q[j], w) = Asked(c, d, w) - Len(q) + j

\* A worker runs the calls in turn, and its queue holds its answers in that order.
WorkerAt ==
  \A w \in Readers :
    /\ done[w] <= Len(got[w]) /\ Len(got[w]) <= done[w] + 1
    /\ QueueAt(calls, Queue(w), done[w], w)

\* The engine thread is in the last call, for the workers it has still to read.
WaitsFor ==
  /\ todo # <<>> => blocked = Len(calls) /\ blocked # 0
  /\ todo # <<>> /\ calls[blocked] = "model" => todo = <<OutputRank>>
  /\ \A i, j \in 1 .. Len(todo) : i < j => todo[i] # todo[j]
  /\ Reading => reads[Len(reads)].worker = Head(todo) /\ calls[blocked] = "utility"

\* The other reads are of execute_model, in the order of the calls.
EarlierReads ==
  \A i \in 1 .. Earlier :
    /\ reads[i].call \in 1 .. Len(calls)
    /\ calls[reads[i].call] = "model" /\ reads[i].worker = OutputRank
    /\ Asked(calls, reads[i].call, OutputRank) = Past(OutputRank) + i

\* Every answer asked for was taken, was left behind, or is waited for.
Owed(w) == (IF \E i \in 1 .. Len(todo) : todo[i] = w THEN 1 ELSE 0)
           + (IF w = OutputRank THEN Earlier ELSE 0)

AllAnswers ==
  \A w \in Readers : Asked(calls, Len(calls), w) = Past(w) + Owed(w)

CallInv == CallType /\ WorkerAt /\ WaitsFor /\ EarlierReads /\ AllAnswers

Increasing(s) == \A i, j \in 1 .. Len(s) : i < j => s[i] < s[j]

Has(s, x) == \E i \in 1 .. Len(s) : s[i] = x

\* The socket holds s: the large answers announced by the chunks q, but for the one that is
\* still to be sent, snd; fl are the calls that failed.
Stream(q, s, snd, fl) ==
  /\ Increasing(q) /\ Increasing(s)
  /\ \A x \in Nat : Has(s, x) <=> Has(q, x) /\ x \in LargeAnswers \ fl /\ x # snd
  /\ snd # 0 => Has(q, snd) /\ snd \in LargeAnswers \ fl /\ \A i \in 1 .. Len(q) : q[i] <= snd

\* As long as no read has timed out between a chunk of w and its large answer.
Streams ==
  \A w \in Readers :
    /\ sending[w] # 0 => sending[w] = done[w] /\ done[w] = Len(got[w])
    /\ \A n \in failed[w] : n <= done[w]
    /\ lost[w] = 0 => Stream(Queue(w), resp_sock[w], sending[w], failed[w])

Announced == receiving # 0 => IsLarge(receiving, Head(reads).worker)

SocketInv == SocketType /\ Streams /\ Announced

AnswersInv ==
  \A a \in answers :
    /\ a[1] \in 1 .. Len(calls) /\ a[2] \in Readers /\ a[3] \in 1 .. Len(calls) /\ a[5] \in Nat
    /\ Asked(calls, a[3], a[2]) + a[5] = Asked(calls, a[1], a[2])
    /\ a[6] = 0 => a[4] = a[3]

ExecutorInv == CallInv /\ SocketInv /\ AnswersInv

\* One more call asks the worker once more, or not.
LEMMA AskedNext ==
  ASSUME NEW c, NEW n \in Nat, NEW w
  PROVE  /\ Asked(c, n, w) \in Nat
         /\ Asked(c, n + 1, w) =
              Asked(c, n, w) + (IF c[n + 1] = "model" => w = OutputRank THEN 1 ELSE 0)
  <1> DEFINE A(k) == {i \in 1 .. k : c[i] = "model" => w = OutputRank}
  <1>1. IsFiniteSet(1 .. n) /\ A(n) \subseteq 1 .. n
    BY FS_Interval
  <1>2. IsFiniteSet(A(n)) /\ Cardinality(A(n)) \in Nat
    BY <1>1, FS_Subset, FS_CardinalityType
  <1>3. n + 1 \notin A(n)
    OBVIOUS
  <1>4. 1 .. n + 1 = (1 .. n) \cup {n + 1}
    OBVIOUS
  <1>5. CASE c[n + 1] = "model" => w = OutputRank
    <2>1. A(n + 1) = A(n) \cup {n + 1}
      BY <1>4, <1>5
    <2> HIDE DEF A
    <2>2. Cardinality(A(n + 1)) = Cardinality(A(n)) + 1
      BY <1>2, <1>3, <2>1, FS_AddElement
    <2> QED
      BY <1>2, <1>5, <2>2 DEF A, Asked
  <1>6. CASE ~(c[n + 1] = "model" => w = OutputRank)
    <2>1. A(n + 1) = A(n)
      BY <1>4, <1>6
    <2> QED
      BY <1>2, <1>6, <2>1 DEF Asked
  <1> QED
    BY <1>5, <1>6

\* Later calls do not change what the earlier ones asked for.
LEMMA AskedAppend ==
  ASSUME NEW S, NEW c \in Seq(S), NEW k \in S, NEW n \in 0 .. Len(c), NEW w
  PROVE  Asked(Append(c, k), n, w) = Asked(c, n, w)
  <1>1. \A i \in 1 .. n : Append(c, k)[i] = c[i]
    OBVIOUS
  <1> QED
    BY <1>1 DEF Asked

\* Place counts the same calls.
LEMMA PlaceIsAsked == \A n, w : Place(n, w) = Asked(calls, n, w)
  BY DEF Place, Addressed, Asked

-----------------------------------------------------------------------------
-----------------------------------------------------------------------------
(* Sequences, and the chunks of a queue *)

\* Head and tail of a sequence.
LEMMA TailFacts ==
  ASSUME NEW S, NEW s \in Seq(S), s # <<>>
  PROVE  /\ Len(s) \in Nat \ {0} /\ Head(s) = s[1]
         /\ Tail(s) \in Seq(S) /\ Len(Tail(s)) = Len(s) - 1
         /\ \A i \in 1 .. Len(s) - 1 : Tail(s)[i] = s[i + 1]
  <1>1. Len(s) \in Nat \ {0}
    BY EmptySeq
  <1> QED
    BY <1>1

\* What is left of a sequence of one.
LEMMA TailOfOne ==
  ASSUME NEW S, NEW s \in Seq(S), Len(s) = 1
  PROVE  Tail(s) = <<>>
  <1>1. s # <<>>
    OBVIOUS
  <1>2. Tail(s) \in Seq(S) /\ Len(Tail(s)) = 0
    BY <1>1
  <1> QED
    BY <1>2, EmptySeq

\* One element in front of a sequence.
LEMMA InFront ==
  ASSUME NEW x \in Nat, NEW s \in Seq(Nat)
  PROVE  /\ <<x>> \o s \in Seq(Nat) /\ Len(<<x>> \o s) = Len(s) + 1 /\ <<x>> \o s # <<>>
         /\ (<<x>> \o s)[1] = x /\ Head(<<x>> \o s) = x /\ Tail(<<x>> \o s) = s
         /\ \A y \in Nat : <<x>> \o Append(s, y) = Append(<<x>> \o s, y)
  <1>1. <<x>> \in Seq(Nat) /\ Len(<<x>>) = 1
    OBVIOUS
  <1>2. <<x>> \o s \in Seq(Nat) /\ Len(<<x>> \o s) = Len(s) + 1 /\ Len(s) \in Nat
    BY <1>1
  <1>3. <<x>> \o s # <<>> /\ (<<x>> \o s)[1] = x
    BY <1>1, <1>2
  <1>4. Head(<<x>> \o s) = x /\ Tail(<<x>> \o s) = s
    BY <1>1, <1>2, <1>3, SMTT(30)
  <1>5. ASSUME NEW y \in Nat
        PROVE  <<x>> \o Append(s, y) = Append(<<x>> \o s, y)
    BY <1>1
  <1> QED
    BY <1>2, <1>3, <1>4, <1>5

\* Taking the first chunk leaves the others in their places.
LEMMA QueueTail ==
  ASSUME NEW c, NEW w, NEW d \in Nat, NEW q \in Seq(Nat), q # <<>>, QueueAt(c, q, d, w)
  PROVE  /\ QueueAt(c, Tail(q), d, w)
         /\ q[1] \in 1 .. d /\ Asked(c, q[1], w) = Asked(c, d, w) - Len(q) + 1
  <1>1. /\ Len(q) \in Nat \ {0} /\ Tail(q) \in Seq(Nat) /\ Len(Tail(q)) = Len(q) - 1
        /\ \A i \in 1 .. Len(q) - 1 : Tail(q)[i] = q[i + 1]
    BY TailFacts
  <1>2. PICK A : A = Asked(c, d, w)
    OBVIOUS
  <1>3. A \in Nat
    BY <1>2, AskedNext
  <1>4. ASSUME NEW j \in 1 .. Len(Tail(q))
        PROVE  Tail(q)[j] \in 1 .. d /\ Asked(c, Tail(q)[j], w) = A - Len(Tail(q)) + j
    <2>1. j \in 1 .. Len(q) - 1 /\ j + 1 \in 1 .. Len(q)
      BY <1>1
    <2>2. q[j + 1] \in 1 .. d /\ Asked(c, q[j + 1], w) = A - Len(q) + (j + 1)
      BY <1>2, <2>1 DEF QueueAt
    <2>3. A - Len(q) + (j + 1) = A - Len(Tail(q)) + j
      BY <1>1, <1>3, <2>1
    <2> QED
      BY <1>1, <2>1, <2>2, <2>3
  <1>5. 1 \in 1 .. Len(q)
    BY <1>1
  <1> QED
    BY <1>2, <1>4, <1>5 DEF QueueAt

\* The answer to the next call goes behind the others.
LEMMA QueueRun ==
  ASSUME NEW c, NEW w, NEW d \in Nat, NEW q \in Seq(Nat), QueueAt(c, q, d, w)
  PROVE  IF c[d + 1] = "model" => w = OutputRank THEN QueueAt(c, Append(q, d + 1), d + 1, w)
         ELSE QueueAt(c, q, d + 1, w)
  <1>1. PICK A, B : A = Asked(c, d, w) /\ B = Asked(c, d + 1, w)
    OBVIOUS
  <1>2. A \in Nat /\ B = A + (IF c[d + 1] = "model" => w = OutputRank THEN 1 ELSE 0)
    BY <1>1, AskedNext
  <1>3. \A j \in 1 .. Len(q) : q[j] \in 1 .. d /\ Asked(c, q[j], w) = A - Len(q) + j
    BY <1>1 DEF QueueAt
  <1>4. Len(q) \in Nat
    OBVIOUS
  <1>5. CASE c[d + 1] = "model" => w = OutputRank
    <2>1. B = A + 1
      BY <1>2, <1>5
    <2>2. PICK p : p = Append(q, d + 1)
      OBVIOUS
    <2>3. Len(p) = Len(q) + 1 /\ p[Len(q) + 1] = d + 1 /\ \A j \in 1 .. Len(q) : p[j] = q[j]
      BY <2>2
    <2>4. ASSUME NEW j \in 1 .. Len(p)
          PROVE  p[j] \in 1 .. d + 1 /\ Asked(c, p[j], w) = B - Len(p) + j
      <3>1. CASE j = Len(q) + 1
        BY <1>1, <1>2, <1>4, <2>1, <2>3, <3>1
      <3>2. CASE j # Len(q) + 1
        <4>1. j \in 1 .. Len(q)
          BY <1>4, <2>3, <3>2
        <4>2. q[j] \in 1 .. d + 1 /\ A - Len(q) + j = B - Len(p) + j
          BY <1>2, <1>3, <1>4, <2>1, <2>3, <4>1
        <4> QED
          BY <1>3, <2>3, <4>1, <4>2
      <3> QED
        BY <3>1, <3>2
    <2> QED
      BY <1>1, <1>5, <2>2, <2>4 DEF QueueAt
  <1>6. CASE ~(c[d + 1] = "model" => w = OutputRank)
    <2>1. B = A
      BY <1>2, <1>6
    <2>2. \A j \in 1 .. Len(q) : q[j] \in 1 .. d + 1
      BY <1>3
    <2> QED
      BY <1>1, <1>3, <1>6, <2>1, <2>2 DEF QueueAt
  <1> QED
    BY <1>5, <1>6

\* A new call moves no answer.
LEMMA QueueCall ==
  ASSUME NEW S, NEW c \in Seq(S), NEW k \in S, NEW d \in 0 .. Len(c), NEW w,
         NEW q \in Seq(Nat), QueueAt(c, q, d, w)
  PROVE  QueueAt(Append(c, k), q, d, w)
  <1>1. \A n \in 0 .. Len(c) : Asked(Append(c, k), n, w) = Asked(c, n, w)
    BY AskedAppend
  <1>2. \A j \in 1 .. Len(q) : q[j] \in 1 .. d /\ q[j] \in 0 .. Len(c)
    BY DEF QueueAt
  <1> QED
    BY <1>1, <1>2 DEF QueueAt

-----------------------------------------------------------------------------
(* Chunks and large answers *)

\* What remains of an increasing sequence lacks its first element only.
LEMMA IncreasingTail ==
  ASSUME NEW s \in Seq(Nat), s # <<>>, Increasing(s)
  PROVE  /\ Increasing(Tail(s)) /\ Has(s, s[1])
         /\ \A x : Has(s, x) => x = s[1] \/ s[1] < x
         /\ \A x : Has(Tail(s), x) <=> Has(s, x) /\ x # s[1]
  <1>1. /\ Len(s) \in Nat \ {0} /\ Tail(s) \in Seq(Nat) /\ Len(Tail(s)) = Len(s) - 1
        /\ \A i \in 1 .. Len(s) - 1 : Tail(s)[i] = s[i + 1]
    BY TailFacts
  <1>n. \A i \in 1 .. Len(s) : s[i] \in Nat
    OBVIOUS
  <1>2. 1 \in 1 .. Len(s)
    BY <1>1
  <1>3. Has(s, s[1])
    BY <1>2 DEF Has
  <1>4. ASSUME NEW x, Has(s, x) PROVE x = s[1] \/ s[1] < x
    <2>1. PICK i \in 1 .. Len(s) : s[i] = x
      BY <1>4 DEF Has
    <2>2. i = 1 \/ 1 < i
      BY <1>1, <2>1
    <2> QED
      BY <1>2, <2>1, <2>2 DEF Increasing
  <1>5. Increasing(Tail(s))
    <2> SUFFICES ASSUME NEW i \in 1 .. Len(Tail(s)), NEW j \in 1 .. Len(Tail(s)), i < j
                 PROVE  Tail(s)[i] < Tail(s)[j]
      BY DEF Increasing
    <2>1. /\ i + 1 \in 1 .. Len(s) /\ j + 1 \in 1 .. Len(s) /\ i + 1 < j + 1
          /\ i \in 1 .. Len(s) - 1 /\ j \in 1 .. Len(s) - 1
      BY <1>1
    <2> QED
      BY <1>1, <2>1 DEF Increasing
  <1>6. ASSUME NEW x PROVE Has(Tail(s), x) <=> Has(s, x) /\ x # s[1]
    <2>1. ASSUME NEW i \in 1 .. Len(Tail(s)), Tail(s)[i] = x PROVE Has(s, x) /\ x # s[1]
      <3>1. i + 1 \in 1 .. Len(s) /\ i \in 1 .. Len(s) - 1 /\ 1 < i + 1
        BY <1>1
      <3>2. s[i + 1] = x /\ s[1] < s[i + 1]
        BY <1>1, <1>2, <2>1, <3>1 DEF Increasing
      <3>3. s[1] \in Nat /\ s[i + 1] \in Nat
        BY <1>n, <1>2, <3>1
      <3>4. x # s[1]
        BY <3>2, <3>3
      <3> QED
        BY <3>1, <3>2, <3>4 DEF Has
    <2>2. ASSUME NEW i \in 1 .. Len(s), s[i] = x, x # s[1] PROVE Has(Tail(s), x)
      <3>1. i # 1
        BY <2>2
      <3>2. i - 1 \in 1 .. Len(s) - 1 /\ (i - 1) + 1 = i
        BY <1>1, <3>1
      <3>3. Tail(s)[i - 1] = x
        BY <1>1, <2>2, <3>2
      <3> QED
        BY <1>1, <3>2, <3>3 DEF Has
    <2> QED
      BY <2>1, <2>2 DEF Has
  <1> QED
    BY <1>3, <1>4, <1>5, <1>6

\* A sequence that grows by a greater element.
LEMMA IncreasingAppend ==
  ASSUME NEW s \in Seq(Nat), NEW y \in Nat
  PROVE  /\ Increasing(s) /\ (\A x : Has(s, x) => x < y) => Increasing(Append(s, y))
         /\ \A x : Has(Append(s, y), x) <=> Has(s, x) \/ x = y
  <1>1. Len(s) \in Nat
    OBVIOUS
  <1>2. PICK t : t = Append(s, y)
    OBVIOUS
  <1>3. Len(t) = Len(s) + 1 /\ t[Len(s) + 1] = y /\ \A i \in 1 .. Len(s) : t[i] = s[i]
    BY <1>2
  <1>4. ASSUME Increasing(s), \A x : Has(s, x) => x < y,
               NEW i \in 1 .. Len(t), NEW j \in 1 .. Len(t), i < j
        PROVE  t[i] < t[j]
    <2>1. i \in 1 .. Len(s)
      BY <1>1, <1>3, <1>4
    <2>2. CASE j = Len(s) + 1
      BY <1>3, <1>4, <2>1, <2>2 DEF Has
    <2>3. CASE j # Len(s) + 1
      <3>1. j \in 1 .. Len(s)
        BY <1>1, <1>3, <2>3
      <3> QED
        BY <1>3, <1>4, <2>1, <3>1 DEF Increasing
    <2> QED
      BY <2>2, <2>3
  <1>5. ASSUME NEW x PROVE Has(t, x) <=> Has(s, x) \/ x = y
    <2>1. Len(s) + 1 \in 1 .. Len(t) /\ \A i \in 1 .. Len(s) : i \in 1 .. Len(t)
      BY <1>1, <1>3
    <2>2. \A i \in 1 .. Len(t) : i \in 1 .. Len(s) \/ i = Len(s) + 1
      BY <1>1, <1>3
    <2> QED
      BY <1>3, <2>1, <2>2 DEF Has
  <1>6. Increasing(s) /\ (\A x : Has(s, x) => x < y) => Increasing(t)
    BY <1>4 DEF Increasing
  <1> QED
    BY <1>2, <1>5, <1>6

\* A small answer is taken.
LEMMA StreamSmall ==
  ASSUME NEW q \in Seq(Nat), NEW s \in Seq(Nat), NEW snd \in Nat, NEW fl,
         q # <<>>, q[1] \notin LargeAnswers \ fl, Stream(q, s, snd, fl)
  PROVE  Stream(Tail(q), s, snd, fl)
  <1>1. /\ Increasing(Tail(q)) /\ \A x : Has(Tail(q), x) <=> Has(q, x) /\ x # q[1]
    BY IncreasingTail DEF Stream
  <1>2. Increasing(s) /\ \A x \in Nat : Has(s, x) <=> Has(q, x) /\ x \in LargeAnswers \ fl /\ x # snd
    BY DEF Stream
  <1>3. \A x \in Nat : Has(s, x) <=> Has(Tail(q), x) /\ x \in LargeAnswers \ fl /\ x # snd
    BY <1>1, <1>2
  <1>4. ASSUME snd # 0
        PROVE  /\ Has(Tail(q), snd) /\ snd \in LargeAnswers \ fl
               /\ \A i \in 1 .. Len(Tail(q)) : Tail(q)[i] <= snd
    <2>1. Has(q, snd) /\ snd \in LargeAnswers \ fl /\ \A i \in 1 .. Len(q) : q[i] <= snd
      BY <1>4 DEF Stream
    <2>2. Has(Tail(q), snd)
      BY <1>1, <2>1
    <2>3. ASSUME NEW i \in 1 .. Len(Tail(q)) PROVE Tail(q)[i] <= snd
      <3>1. Has(q, Tail(q)[i])
        BY <1>1 DEF Has
      <3> QED
        BY <2>1, <3>1 DEF Has
    <2> QED
      BY <2>1, <2>2, <2>3
  <1> QED
    BY <1>1, <1>2, <1>3, <1>4 DEF Stream

\* A large answer is received: it is the one that the chunk announced.
LEMMA StreamReceive ==
  ASSUME NEW q \in Seq(Nat), NEW s \in Seq(Nat), NEW snd \in Nat, NEW fl,
         q # <<>>, s # <<>>, q[1] # 0, q[1] \in LargeAnswers \ fl, Stream(q, s, snd, fl)
  PROVE  s[1] = q[1] /\ Stream(Tail(q), Tail(s), snd, fl)
  <1>1. /\ Increasing(Tail(q)) /\ Has(q, q[1])
        /\ \A x : Has(q, x) => x = q[1] \/ q[1] < x
        /\ \A x : Has(Tail(q), x) <=> Has(q, x) /\ x # q[1]
    BY IncreasingTail DEF Stream
  <1>2. /\ Increasing(Tail(s)) /\ Has(s, s[1])
        /\ \A x : Has(s, x) => x = s[1] \/ s[1] < x
        /\ \A x : Has(Tail(s), x) <=> Has(s, x) /\ x # s[1]
    BY IncreasingTail DEF Stream
  <1>3. \A x \in Nat : Has(s, x) <=> Has(q, x) /\ x \in LargeAnswers \ fl /\ x # snd
    BY DEF Stream
  <1>4. q[1] \in Nat /\ s[1] \in Nat
    <2>1. 1 \in 1 .. Len(q) /\ 1 \in 1 .. Len(s)
      BY TailFacts
    <2> QED
      BY <2>1
  <1>5. Has(q, s[1]) /\ s[1] # snd
    BY <1>2, <1>3, <1>4
  <1>6. q[1] # snd
    <2> SUFFICES ASSUME q[1] = snd PROVE FALSE
      OBVIOUS
    <2>1. s[1] = q[1] \/ q[1] < s[1]
      BY <1>1, <1>5
    <2>2. \A i \in 1 .. Len(q) : q[i] <= snd
      BY DEF Stream
    <2>3. s[1] <= snd
      BY <1>5, <2>2 DEF Has
    <2> QED
      BY <1>4, <1>5, <2>1, <2>3
  <1>7. Has(s, q[1])
    BY <1>1, <1>3, <1>4, <1>6
  <1>8. s[1] = q[1]
    <2>1. s[1] = q[1] \/ q[1] < s[1]
      BY <1>1, <1>5
    <2>2. q[1] = s[1] \/ s[1] < q[1]
      BY <1>2, <1>7
    <2> QED
      BY <1>4, <2>1, <2>2
  <1>9. \A x \in Nat : Has(Tail(s), x) <=> Has(Tail(q), x) /\ x \in LargeAnswers \ fl /\ x # snd
    BY <1>1, <1>2, <1>3, <1>8
  <1>10. ASSUME snd # 0
         PROVE  /\ Has(Tail(q), snd) /\ snd \in LargeAnswers \ fl
                /\ \A i \in 1 .. Len(Tail(q)) : Tail(q)[i] <= snd
    <2>1. Has(q, snd) /\ snd \in LargeAnswers \ fl /\ \A i \in 1 .. Len(q) : q[i] <= snd
      BY <1>10 DEF Stream
    <2>2. Has(Tail(q), snd)
      BY <1>1, <1>6, <2>1
    <2>3. ASSUME NEW i \in 1 .. Len(Tail(q)) PROVE Tail(q)[i] <= snd
      <3>1. Has(q, Tail(q)[i])
        BY <1>1 DEF Has
      <3> QED
        BY <2>1, <3>1 DEF Has
    <2> QED
      BY <2>1, <2>2, <2>3
  <1> QED
    BY <1>1, <1>2, <1>8, <1>9, <1>10 DEF Stream

\* A call is run: its answer, if there is one, is the last, and a large one is still to be sent.
LEMMA StreamRun ==
  ASSUME NEW q \in Seq(Nat), NEW s \in Seq(Nat), NEW fl, NEW n \in Nat \ {0},
         ~Has(q, 0), Stream(q, s, 0, fl), \A i \in 1 .. Len(q) : q[i] < n, \A x \in fl : x < n
  PROVE  /\ Stream(q, s, 0, fl \cup {n}) /\ Stream(Append(q, n), s, 0, fl \cup {n})
         /\ n \in LargeAnswers => Stream(Append(q, n), s, n, fl)
         /\ n \notin LargeAnswers => Stream(Append(q, n), s, 0, fl)
  <1>1. /\ Increasing(q) /\ Increasing(s)
        /\ \A x \in Nat : Has(s, x) <=> Has(q, x) /\ x \in LargeAnswers \ fl /\ x # 0
    BY DEF Stream
  <1>2. \A x : Has(q, x) => x < n /\ x \in Nat
    BY DEF Has
  <1>3. ~Has(q, n)
    BY <1>2
  <1>4. PICK p : p = Append(q, n)
    OBVIOUS
  <1>5. p \in Seq(Nat) /\ Increasing(p) /\ \A x : Has(p, x) <=> Has(q, x) \/ x = n
    BY <1>1, <1>2, <1>4, IncreasingAppend
  <1>6. Stream(q, s, 0, fl \cup {n})
    BY <1>1, <1>3 DEF Stream
  <1>7. Stream(p, s, 0, fl \cup {n})
    BY <1>1, <1>3, <1>5 DEF Stream
  <1>8. ASSUME n \in LargeAnswers PROVE Stream(p, s, n, fl)
    <2>1. n \notin fl
      OBVIOUS
    <2>2. \A i \in 1 .. Len(p) : p[i] <= n
      <3> TAKE i \in 1 .. Len(p)
      <3>1. Has(p, p[i])
        BY DEF Has
      <3>2. p[i] = n \/ (p[i] < n /\ p[i] \in Nat)
        BY <1>2, <1>5, <3>1
      <3> QED
        BY <3>2
    <2>3. \A x \in Nat : Has(s, x) <=> Has(p, x) /\ x \in LargeAnswers \ fl /\ x # n
      <3> TAKE x \in Nat
      <3>1. CASE x = 0
        <4>1. ~Has(s, x)
          BY <1>1, <3>1
        <4> QED
          BY <1>5, <3>1, <4>1
      <3>2. CASE x # 0
        BY <1>1, <1>3, <1>5, <3>2
      <3> QED
        BY <3>1, <3>2
    <2> QED
      BY <1>1, <1>5, <1>8, <2>1, <2>2, <2>3 DEF Stream
  <1>9. ASSUME n \notin LargeAnswers PROVE Stream(p, s, 0, fl)
    BY <1>1, <1>5, <1>9 DEF Stream
  <1> QED
    BY <1>4, <1>6, <1>7, <1>8, <1>9

\* The large answer goes behind those in the socket.
LEMMA StreamSend ==
  ASSUME NEW q \in Seq(Nat), NEW s \in Seq(Nat), NEW snd \in Nat \ {0}, NEW fl,
         ~Has(q, 0), Stream(q, s, snd, fl)
  PROVE  Stream(q, Append(s, snd), 0, fl)
  <1>1. /\ Increasing(q) /\ Increasing(s)
        /\ \A x \in Nat : Has(s, x) <=> Has(q, x) /\ x \in LargeAnswers \ fl /\ x # snd
        /\ Has(q, snd) /\ snd \in LargeAnswers \ fl /\ \A i \in 1 .. Len(q) : q[i] <= snd
    BY DEF Stream
  <1>2. \A x : Has(s, x) => x < snd
    <2> TAKE x
    <2> HAVE Has(s, x)
    <2>1. x \in Nat
      BY DEF Has
    <2>2. Has(q, x) /\ x # snd
      BY <1>1, <2>1
    <2>3. x <= snd
      BY <1>1, <2>2 DEF Has
    <2> QED
      BY <2>1, <2>2, <2>3
  <1>3. PICK t : t = Append(s, snd)
    OBVIOUS
  <1>4. Increasing(t) /\ \A x : Has(t, x) <=> Has(s, x) \/ x = snd
    BY <1>1, <1>2, <1>3, IncreasingAppend
  <1>5. \A x \in Nat : Has(t, x) <=> Has(q, x) /\ x \in LargeAnswers \ fl /\ x # 0
    BY <1>1, <1>4
  <1> QED
    BY <1>1, <1>3, <1>4, <1>5 DEF Stream

-----------------------------------------------------------------------------
(* Every action preserves the invariant *)

\* The chunks of a worker are a sequence.
LEMMA QueueTyped ==
  ASSUME CallType, NEW w \in Readers
  PROVE  /\ Queue(w) \in Seq(Nat) /\ Len(Queue(w)) \in Nat
         /\ resp[w] \in Seq(Nat) /\ receiving \in Nat
  <1>1. resp[w] \in Seq(Nat) /\ receiving \in Nat
    BY DEF CallType
  <1>2. <<receiving>> \o resp[w] \in Seq(Nat)
    BY <1>1, InFront
  <1> QED
    BY <1>1, <1>2 DEF Queue

\* No worker has got, or run, more calls than were made.
LEMMA CallNumbers ==
  ASSUME RingInv, CallInv
  PROVE  /\ Len(calls) \in Nat
         /\ \A w \in Readers :
              /\ Len(got[w]) \in Nat /\ Len(got[w]) <= Len(calls)
              /\ done[w] \in 0 .. Len(calls) /\ done[w] \in Nat /\ Len(Queue(w)) \in Nat
              /\ Asked(calls, done[w], w) \in Nat /\ skipped[w] \in Nat
              /\ Past(w) \in Int
  <1>1. Len(calls) \in Nat /\ Published <= Len(calls)
    BY DEF CallInv, CallType, Published, RingInv, RingType
  <1> SUFFICES ASSUME NEW w \in Readers
               PROVE  /\ Len(got[w]) \in Nat /\ Len(got[w]) <= Len(calls)
                      /\ done[w] \in 0 .. Len(calls) /\ done[w] \in Nat /\ Len(Queue(w)) \in Nat
                      /\ Asked(calls, done[w], w) \in Nat /\ skipped[w] \in Nat
                      /\ Past(w) \in Int
    BY <1>1
  <1>2. Len(got[w]) \in Nat /\ done[w] \in Nat /\ skipped[w] \in Nat /\ Len(Queue(w)) \in Nat
    BY QueueTyped DEF CallInv, CallType, RingInv, RingType
  <1>3. Len(got[w]) <= Released(w)
    BY <1>2 DEF Released
  <1>4. Released(w) <= Published /\ Released(w) \in Nat /\ Published \in Nat
    BY RingNumbers DEF RingInv, Distances
  <1>5. Asked(calls, done[w], w) \in Nat
    BY <1>2, AskedNext
  <1>6. done[w] <= Len(got[w])
    BY DEF CallInv, WorkerAt
  <1>7. Len(got[w]) <= Len(calls) /\ done[w] \in 0 .. Len(calls)
    <2>1. Len(got[w]) <= Published
      BY <1>2, <1>3, <1>4
    <2>2. Len(got[w]) <= Len(calls)
      BY <1>1, <1>2, <1>4, <2>1
    <2> QED
      BY <1>1, <1>2, <1>6, <2>2
  <1>8. Past(w) \in Int
    BY <1>2, <1>5 DEF Past
  <1> QED
    BY <1>2, <1>5, <1>7, <1>8

\* Nothing has been asked of the workers at first.
LEMMA InitExecutor == Init => ExecutorInv
  <1> SUFFICES ASSUME Init PROVE ExecutorInv
    OBVIOUS
  <1>1. /\ calls = <<>> /\ reads = <<>> /\ receiving = 0 /\ blocked = 0 /\ todo = <<>> /\ msg = 0
        /\ done = [w \in Readers |-> 0] /\ resp = [w \in Readers |-> <<>>]
        /\ skipped = [w \in Readers |-> 0] /\ answers = {}
        /\ got = [w \in Readers |-> <<>>]
    BY DEF Init, InitQueue
  <1>s. /\ sending = [w \in Readers |-> 0] /\ resp_sock = [w \in Readers |-> <<>>]
        /\ failed = [w \in Readers |-> {}] /\ lost = [w \in Readers |-> 0]
    BY DEF Init
  <1>2. CallType
    BY <1>1 DEF CallType
  <1>3. Earlier = 0 /\ ~Reading
    BY <1>1 DEF Earlier, Reading
  <1>4. \A w \in Readers : /\ done[w] = 0 /\ Queue(w) = <<>> /\ skipped[w] = 0 /\ got[w] = <<>>
                           /\ sending[w] = 0 /\ failed[w] = {} /\ resp_sock[w] = <<>>
    BY <1>1, <1>s DEF Queue
  <1>5. WorkerAt /\ WaitsFor /\ EarlierReads
    BY <1>1, <1>3, <1>4 DEF WorkerAt, QueueAt, WaitsFor, EarlierReads
  <1>6. AllAnswers
    <2> SUFFICES ASSUME NEW w \in Readers
                 PROVE  Asked(calls, 0, w) = Past(w) + Owed(w)
      BY <1>1 DEF AllAnswers
    <2>1. Owed(w) = 0
      BY <1>1, <1>3 DEF Owed
    <2>2. Asked(calls, 0, w) \in Nat
      BY AskedNext
    <2>3. Past(w) = Asked(calls, 0, w)
      BY <1>4, <2>2 DEF Past
    <2> QED
      BY <2>1, <2>2, <2>3
  <1>7. SocketType /\ Announced
    BY <1>1, <1>s DEF SocketType, Announced
  <1>8. Streams
    <2>1. Stream(<<>>, <<>>, 0, {})
      BY DEF Stream, Increasing, Has
    <2> QED
      BY <1>4, <2>1 DEF Streams
  <1> QED
    BY <1>1, <1>2, <1>5, <1>6, <1>7, <1>8 DEF ExecutorInv, CallInv, SocketInv, AnswersInv

\* Steps that leave calls, reads and answers alone.
LEMMA QuietStep ==
  ASSUME ExecutorInv,
         UNCHANGED <<calls, reads, receiving, todo, done, resp, skipped, msg, answers>>,
         UNCHANGED <<resp_sock, sending, failed, lost>>,
         todo # <<>> => blocked' = blocked,
         \A w \in Readers : /\ done[w] <= Len(got'[w]) /\ Len(got'[w]) <= done[w] + 1
                            /\ sending[w] # 0 => done[w] = Len(got'[w])
  PROVE  ExecutorInv'
  <1>1. CallInv /\ SocketInv /\ AnswersInv
    BY DEF ExecutorInv
  <1>2. CallType'
    BY <1>1 DEF CallInv, CallType
  <1>3. \A w \in Readers : Queue(w)' = Queue(w)
    BY DEF Queue
  <1>4. \A w \in Readers : Past(w)' = Past(w)
    BY <1>3 DEF Past
  <1>5. (Reading' <=> Reading) /\ Earlier' = Earlier
    BY DEF Reading, Earlier
  <1>6. WorkerAt'
    BY <1>1, <1>3 DEF CallInv, WorkerAt
  <1>7. WaitsFor'
    <2>1. CASE todo = <<>>
      BY <2>1 DEF WaitsFor, Reading
    <2>2. CASE todo # <<>>
      BY <1>1, <1>5, <2>2 DEF CallInv, WaitsFor
    <2> QED
      BY <2>1, <2>2
  <1>8. EarlierReads'
    BY <1>1, <1>4, <1>5, ExecutorAssumption DEF CallInv, EarlierReads
  <1>9. \A w \in Readers : Owed(w)' = Owed(w)
    BY <1>5 DEF Owed
  <1>10. AllAnswers'
    BY <1>1, <1>4, <1>9 DEF CallInv, AllAnswers
  <1>11. SocketType' /\ Announced'
    BY <1>1 DEF SocketInv, SocketType, Announced, IsLarge
  <1>12. Streams'
    BY <1>1, <1>3 DEF SocketInv, Streams
  <1>13. AnswersInv'
    BY <1>1 DEF AnswersInv
  <1> QED
    BY <1>2, <1>6, <1>7, <1>8, <1>10, <1>11, <1>12, <1>13 DEF ExecutorInv, CallInv, SocketInv

\* Steps of the queue, of the monitor, and of an engine that waits for a batch.
LEMMA OtherSteps ==
  ASSUME RingInv, ExecutorInv,
         \/ Broadcast \/ Pop \/ Result \/ Monitor \/ Stop
         \/ (\E w \in Readers : Die(w)) \/ UNCHANGED vars
  PROVE  ExecutorInv'
  <1>1. /\ UNCHANGED <<calls, reads, receiving, todo, done, resp, skipped, answers>>
        /\ UNCHANGED <<resp_sock, sending, failed, lost>>
    <2>1. CASE Broadcast \/ Monitor \/ Stop
      BY <2>1 DEF Broadcast, Monitor, Stop, engine, worker, waits, ghosts
    <2>2. CASE Pop \/ Result
      BY <2>2 DEF Pop, Result, worker, ghosts
    <2>3. CASE (\E w \in Readers : Die(w)) \/ UNCHANGED vars
      BY <2>3 DEF Die, vars, engine, worker, waits, ghosts
    <2> QED
      BY <2>1, <2>2, <2>3
  <1>2. msg' = msg /\ got' = got
    <2>1. CASE Broadcast
      BY <2>1 DEF Broadcast, WriterStep, AcquireWrite, WriteHead, WriteBody, ClearFlag,
         MarkWritten, SendLarge, readers
    <2>2. CASE Pop \/ Result \/ Monitor \/ Stop \/ (\E w \in Readers : Die(w)) \/ UNCHANGED vars
      BY <2>2 DEF Pop, Result, Monitor, Stop, Die, vars, ring
    <2> QED
      BY <2>1, <2>2
  <1>3. CallInv /\ SocketInv
    BY DEF ExecutorInv
  <1>4. todo # <<>> => blocked' = blocked
    <2> SUFFICES ASSUME todo # <<>> PROVE blocked' = blocked
      OBVIOUS
    <2>1. blocked # 0
      BY <1>3 DEF CallInv, WaitsFor
    <2>2. ~Pop /\ ~Result
      BY <2>1 DEF Pop, Result
    <2> QED
      BY <2>2 DEF Broadcast, Monitor, Stop, Die, vars, engine, waits
  <1>5. \A w \in Readers : /\ done[w] <= Len(got'[w]) /\ Len(got'[w]) <= done[w] + 1
                           /\ sending[w] # 0 => done[w] = Len(got'[w])
    BY <1>2, <1>3 DEF CallInv, WorkerAt, SocketInv, Streams
  <1> QED
    BY <1>1, <1>2, <1>4, <1>5, QuietStep

\* A worker takes the next call out of the queue when it is done with the one before.
LEMMA DequeueStep ==
  ASSUME RingInv, ExecutorInv, NEW w \in Readers, Dequeue(w)
  PROVE  ExecutorInv'
  <1>1. /\ UNCHANGED <<calls, reads, receiving, todo, done, resp, skipped, answers>>
        /\ UNCHANGED <<resp_sock, sending, failed, lost>>
        /\ blocked' = blocked /\ done[w] = Len(got[w]) /\ sending[w] = 0
    BY DEF Dequeue, engine, worker, waits, ghosts
  <1>2. msg' = msg
    BY DEF Dequeue, ReaderStep, LookFlag, LookWritten, ReadChunk, Release, Recv, writer
  <1>3. CallInv /\ SocketInv
    BY DEF ExecutorInv
  <1>4. got \in [Readers -> Seq(Nat)]
    BY DEF RingInv, RingType
  <1>5. \A v \in Readers : /\ done[v] \in Nat /\ done[v] <= Len(got[v]) /\ Len(got[v]) <= done[v] + 1
                           /\ sending[v] # 0 => done[v] = Len(got[v])
    BY <1>3 DEF CallInv, CallType, WorkerAt, SocketInv, Streams
  <1>6. got' = got \/ \E m \in Nat : got' = [got EXCEPT ![w] = Append(@, m)]
    <2>1. obj[w] \in Nat /\ sock[w] \in Seq(Nat)
      BY DEF RingInv, RingType
    <2>2. CASE LookFlag(w) \/ LookWritten(w) \/ ReadChunk(w)
      BY <2>2 DEF LookFlag, LookWritten, ReadChunk
    <2>3. CASE Release(w)
      BY <2>1, <2>3 DEF Release
    <2>4. CASE Recv(w)
      <3>1. Head(sock[w]) \in Nat
        BY <2>1, <2>4 DEF Recv
      <3> QED
        BY <2>4, <3>1 DEF Recv
    <2> QED
      BY <2>2, <2>3, <2>4 DEF Dequeue, ReaderStep
  <1>7. \A v \in Readers : /\ done[v] <= Len(got'[v]) /\ Len(got'[v]) <= done[v] + 1
                           /\ sending[v] # 0 => done[v] = Len(got'[v])
    <2>1. CASE got' = got
      BY <1>5, <2>1
    <2>2. ASSUME NEW m \in Nat, got' = [got EXCEPT ![w] = Append(@, m)]
          PROVE  \A v \in Readers : /\ done[v] <= Len(got'[v]) /\ Len(got'[v]) <= done[v] + 1
                                    /\ sending[v] # 0 => done[v] = Len(got'[v])
      <3>1. Len(got'[w]) = Len(got[w]) + 1
        BY <1>4, <2>2
      <3>2. \A v \in Readers : v # w => got'[v] = got[v]
        BY <1>4, <2>2
      <3>3. done[w] <= Len(got'[w]) /\ Len(got'[w]) <= done[w] + 1
        BY <1>1, <1>5, <3>1
      <3> QED
        BY <1>1, <1>5, <3>2, <3>3
    <2> QED
      BY <1>6, <2>1, <2>2
  <1> QED
    BY <1>1, <1>2, <1>7, QuietStep

\* Reads name calls and workers.
LEMMA ReadsTyped ==
  CallType => /\ Len(reads) \in Nat /\ Len(todo) \in Nat
              /\ \A i \in 1 .. Len(reads) : reads[i].call \in Nat \ {0} /\ reads[i].worker \in Readers
              /\ \A i \in 1 .. Len(todo) : todo[i] \in Readers
  <1> DEFINE R == [call : Nat \ {0}, worker : Readers]
  <1>1. \A x \in R : x.call \in Nat \ {0} /\ x.worker \in Readers
    OBVIOUS
  <1>2. CallType => reads \in Seq(R) /\ todo \in Seq(Readers)
    BY DEF CallType
  <1> HIDE DEF R
  <1>3. \A s \in Seq(R) : Len(s) \in Nat /\ \A i \in 1 .. Len(s) : s[i] \in R
    OBVIOUS
  <1>4. \A s \in Seq(Readers) : Len(s) \in Nat /\ \A i \in 1 .. Len(s) : s[i] \in Readers
    OBVIOUS
  <1> QED
    BY <1>1, <1>2, <1>3, <1>4

\* A new call asks those workers that it is then to read.
LEMMA CallStep ==
  ASSUME RingInv, ExecutorInv, NEW kind \in {"model", "utility"}, Call(kind)
  PROVE  ExecutorInv'
  <1> DEFINE N == Len(calls)
             Asks(w) == kind = "model" => w = OutputRank
  <1>1. /\ blocked = 0 /\ Enqueue
        /\ calls' = Append(calls, kind) /\ blocked' = N + 1
        /\ todo' = IF kind = "model" THEN <<OutputRank>> ELSE [w \in Readers |-> w]
        /\ UNCHANGED <<reads, receiving, skipped, answers, done, resp>>
        /\ UNCHANGED <<resp_sock, sending, failed, lost>>
    BY DEF Call, worker, ghosts
  <1>2. msg' = msg + 1 /\ got' = got
    BY <1>1 DEF Enqueue, readers
  <1>3. CallInv /\ SocketInv /\ AnswersInv
    BY DEF ExecutorInv
  <1>4. calls \in Seq({"model", "utility"}) /\ N \in Nat /\ msg = N
    BY <1>3 DEF CallInv, CallType
  <1>5. Len(calls') = N + 1 /\ calls'[N + 1] = kind /\ \A n \in 1 .. N : calls'[n] = calls[n]
    BY <1>1, <1>4
  <1>6. calls' \in Seq({"model", "utility"})
    BY <1>1, <1>4
  <1>7. \A w : \A n \in 0 .. N : Asked(calls', n, w) = Asked(calls, n, w)
    BY <1>1, <1>4, AskedAppend
  <1>n. \A w \in Readers : done[w] \in 0 .. N /\ Past(w) \in Int
    BY <1>3, CallNumbers
  <1>q. \A w \in Readers : Queue(w)' = Queue(w)
    BY <1>1 DEF Queue
  <1>8. \A w \in Readers : Past(w)' = Past(w)
    BY <1>1, <1>7, <1>n, <1>q DEF Past
  <1>9. /\ NumReaders \in Nat \ {0} /\ OutputRank \in Readers
        /\ todo' \in Seq(Readers) /\ todo' # <<>>
        /\ \A i, j \in 1 .. Len(todo') : i < j => todo'[i] # todo'[j]
        /\ \A w \in Readers : (\E i \in 1 .. Len(todo') : todo'[i] = w) <=> Asks(w)
    <2>1. NumReaders \in Nat \ {0} /\ OutputRank \in Readers
      BY QueueAssumption, ExecutorAssumption
    <2>2. CASE kind = "model"
      BY <1>1, <2>1, <2>2
    <2>3. CASE kind = "utility"
      <3>1. todo' = [w \in 1 .. NumReaders |-> w]
        BY <1>1, <2>3 DEF Readers
      <3>2. todo' \in Seq(Readers) /\ Len(todo') = NumReaders
        BY <2>1, <3>1 DEF Readers
      <3>3. \A i \in 1 .. NumReaders : todo'[i] = i
        BY <3>1
      <3> QED
        BY <2>1, <2>3, <3>2, <3>3 DEF Readers
    <2> QED
      BY <2>2, <2>3
  <1>t. todo = <<>>
    BY <1>1, <1>3 DEF CallInv, WaitsFor
  <1>10. Len(reads) \in Nat
    BY <1>3, ReadsTyped DEF CallInv
  <1>11. ~Reading /\ Earlier = Len(reads)
    BY <1>t DEF Reading, Earlier
  <1>12. ~Reading' /\ Earlier' = Earlier
    <2>1. reads # <<>> => reads[Len(reads)].call \in 1 .. N
      BY <1>3, <1>10, <1>11 DEF CallInv, CallType, EarlierReads
    <2>2. ~Reading'
      BY <1>1, <1>4, <2>1 DEF Reading
    <2> QED
      BY <1>1, <1>11, <2>2 DEF Earlier
  <1>13. CallType'
    BY <1>1, <1>2, <1>3, <1>4, <1>5, <1>6, <1>9 DEF CallInv, CallType
  <1>14. WorkerAt'
    <2> SUFFICES ASSUME NEW w \in Readers PROVE QueueAt(calls', Queue(w), done[w], w)
      BY <1>1, <1>2, <1>3, <1>q DEF CallInv, WorkerAt
    <2>1. QueueAt(calls, Queue(w), done[w], w) /\ Queue(w) \in Seq(Nat)
      BY <1>3, QueueTyped DEF CallInv, WorkerAt
    <2> QED
      BY <1>1, <1>4, <1>n, <2>1, QueueCall
  <1>15. WaitsFor'
    BY <1>1, <1>4, <1>5, <1>9, <1>12 DEF WaitsFor
  <1>16. EarlierReads'
    <2> SUFFICES ASSUME NEW i \in 1 .. Earlier
                 PROVE  /\ reads[i].call \in 1 .. N + 1
                        /\ calls'[reads[i].call] = "model" /\ reads[i].worker = OutputRank
                        /\ Asked(calls', reads[i].call, OutputRank) = Past(OutputRank) + i
      BY <1>1, <1>5, <1>8, <1>9, <1>12 DEF EarlierReads
    <2>1. /\ reads[i].call \in 1 .. N
          /\ calls[reads[i].call] = "model" /\ reads[i].worker = OutputRank
          /\ Asked(calls, reads[i].call, OutputRank) = Past(OutputRank) + i
      BY <1>3 DEF CallInv, EarlierReads
    <2> QED
      BY <1>4, <1>5, <1>7, <2>1
  <1>17. AllAnswers'
    <2> SUFFICES ASSUME NEW w \in Readers
                 PROVE  Asked(calls', N + 1, w) = Past(w) + Owed(w)'
      BY <1>1, <1>5, <1>8 DEF AllAnswers
    <2>1. Owed(w) = IF w = OutputRank THEN Earlier ELSE 0
      BY <1>t, <1>10, <1>11 DEF Owed
    <2>2. Owed(w)' = (IF Asks(w) THEN 1 ELSE 0) + (IF w = OutputRank THEN Earlier ELSE 0)
      BY <1>9, <1>12 DEF Owed
    <2>3. Asked(calls, N, w) = Past(w) + Owed(w)
      BY <1>3 DEF CallInv, AllAnswers
    <2>4. Asked(calls', N + 1, w) = Asked(calls', N, w) + (IF calls'[N + 1] = "model" => w = OutputRank THEN 1 ELSE 0)
      BY <1>4, AskedNext
    <2>5. Asked(calls', N, w) = Asked(calls, N, w)
      BY <1>4, <1>7
    <2>6. Asked(calls', N + 1, w) = Asked(calls, N, w) + (IF Asks(w) THEN 1 ELSE 0)
      BY <1>5, <2>4, <2>5
    <2>7. Owed(w) \in Nat
      BY <1>10, <1>11, <2>1
    <2>8. CASE Asks(w)
      <3>1. Owed(w)' = 1 + Owed(w)
        BY <2>1, <2>2, <2>8
      <3>2. Asked(calls', N + 1, w) = Asked(calls, N, w) + 1
        BY <2>6, <2>8
      <3> QED
        BY <1>n, <2>3, <2>7, <3>1, <3>2
    <2>9. CASE ~Asks(w)
      BY <1>n, <2>1, <2>2, <2>3, <2>6, <2>7, <2>9
    <2> QED
      BY <2>8, <2>9
  <1>18. AnswersInv'
    <2> SUFFICES ASSUME NEW a \in answers
                 PROVE  /\ a[1] \in 1 .. N + 1 /\ a[2] \in Readers /\ a[3] \in 1 .. N + 1
                        /\ a[5] \in Nat
                        /\ Asked(calls', a[3], a[2]) + a[5] = Asked(calls', a[1], a[2])
                        /\ a[6] = 0 => a[4] = a[3]
      BY <1>1, <1>5 DEF AnswersInv
    <2>1. /\ a[1] \in 1 .. N /\ a[2] \in Readers /\ a[3] \in 1 .. N /\ a[5] \in Nat
          /\ Asked(calls, a[3], a[2]) + a[5] = Asked(calls, a[1], a[2])
          /\ a[6] = 0 => a[4] = a[3]
      BY <1>3 DEF AnswersInv
    <2>2. a[1] \in 0 .. N /\ a[3] \in 0 .. N
      BY <1>4, <2>1
    <2> QED
      BY <1>4, <1>7, <2>1, <2>2
  <1>19. SocketInv'
    <2>1. SocketType' /\ Announced'
      BY <1>1, <1>3 DEF SocketInv, SocketType, Announced, IsLarge
    <2>2. Streams'
      BY <1>1, <1>2, <1>3, <1>q DEF SocketInv, Streams
    <2> QED
      BY <2>1, <2>2 DEF SocketInv
  <1> QED
    BY <1>13, <1>14, <1>15, <1>16, <1>17, <1>18, <1>19 DEF ExecutorInv, CallInv

\* What is waited for does not change with the worker that runs or sends.
LEMMA WaitsUnmoved ==
  ASSUME CallInv, AnswersInv, UNCHANGED <<calls, reads, blocked, todo, skipped, answers>>,
         \A w \in Readers : Past(w)' = Past(w)
  PROVE  WaitsFor' /\ EarlierReads' /\ AllAnswers' /\ AnswersInv'
  <1>1. (Reading' <=> Reading) /\ Earlier' = Earlier
    BY DEF Reading, Earlier
  <1>2. WaitsFor'
    BY <1>1 DEF CallInv, WaitsFor
  <1>3. \A w \in Readers : Owed(w)' = Owed(w)
    BY <1>1 DEF Owed
  <1>4. AllAnswers'
    BY <1>3 DEF CallInv, AllAnswers
  <1>5. EarlierReads'
    BY <1>1, ExecutorAssumption DEF CallInv, EarlierReads
  <1> QED
    BY <1>2, <1>4, <1>5 DEF AnswersInv

\* A worker runs the call after the last one, and its answer goes behind the others.
LEMMA RunStep ==
  ASSUME RingInv, ExecutorInv, NEW w \in Readers, Run(w)
  PROVE  ExecutorInv'
  <1> DEFINE n == done[w] + 1
             asks == calls[n] = "model" => w = OutputRank
  <1>1. CallInv /\ SocketInv /\ AnswersInv
    BY DEF ExecutorInv
  <1>2. /\ done[w] \in Nat /\ Len(got[w]) = n /\ got[w][Len(got[w])] = n
    <2>1. done[w] \in Nat /\ Len(got[w]) \in Nat /\ done[w] <= Len(got[w]) /\ Len(got[w]) <= done[w] + 1
      BY <1>1, CallNumbers DEF CallInv, WorkerAt
    <2>2. Len(got[w]) = n /\ Len(got[w]) \in 1 .. Len(got[w])
      BY <2>1 DEF Run
    <2> QED
      BY <2>1, <2>2 DEF RingInv, InOrder
  <1>3. /\ resp' = IF asks THEN [resp EXCEPT ![w] = Append(@, n)] ELSE resp
        /\ done' = [done EXCEPT ![w] = @ + 1]
        /\ UNCHANGED <<calls, reads, receiving, blocked, todo, skipped, lost, answers>>
        /\ UNCHANGED <<resp_sock, msg, got>>
    BY <1>2 DEF Run, Addressed, engine, waits, ghosts, ring
  <1>f. \/ /\ sending' = [sending EXCEPT ![w] = IF asks /\ n \in LargeAnswers THEN n ELSE 0]
           /\ failed' = failed
        \/ /\ failed' = [failed EXCEPT ![w] = @ \cup {n}]
           /\ sending' = sending
    BY <1>2 DEF Run, Addressed
  <1>4. /\ done \in [Readers -> Nat] /\ resp \in [Readers -> Seq(Nat)]
        /\ resp[w] \in Seq(Nat) /\ n \in Nat \ {0}
    BY <1>1, <1>2 DEF CallInv, CallType
  <1>t. /\ sending \in [Readers -> Nat] /\ failed \in [Readers -> SUBSET Nat]
        /\ resp_sock \in [Readers -> Seq(Nat)] /\ lost \in [Readers -> Nat]
    BY <1>1 DEF SocketInv, SocketType
  <1>5. /\ Asked(calls, done[w], w) \in Nat
        /\ Asked(calls, n, w) = Asked(calls, done[w], w) + (IF asks THEN 1 ELSE 0)
    BY <1>2, AskedNext
  <1>6. done'[w] = n /\ \A v \in Readers : v # w => done'[v] = done[v] /\ resp'[v] = resp[v]
    BY <1>3, <1>4
  <1>7. resp'[w] = IF asks THEN Append(resp[w], n) ELSE resp[w]
    BY <1>3, <1>4
  <1>8. \A v \in Readers : v # w => Queue(v)' = Queue(v)
    BY <1>3, <1>6 DEF Queue
  <1>9. Queue(w)' = IF asks THEN Append(Queue(w), n) ELSE Queue(w)
    <2>1. receiving \in Nat
      BY <1>1 DEF CallInv, CallType
    <2>2. <<receiving>> \o Append(resp[w], n) = Append(<<receiving>> \o resp[w], n)
      BY <1>4, <2>1, InFront
    <2> QED
      BY <1>3, <1>7, <2>2 DEF Queue
  <1>10. PICK q \in Seq(Nat) : q = Queue(w)
    BY <1>1, QueueTyped DEF CallInv
  <1>11. QueueAt(calls, q, done[w], w)
    BY <1>1, <1>10 DEF CallInv, WorkerAt
  <1>12. \A v \in Readers : Past(v)' = Past(v)
    <2>1. \A v \in Readers : v # w => Past(v)' = Past(v)
      BY <1>3, <1>6, <1>8 DEF Past
    <2>2. Len(q) \in Nat /\ skipped[w] \in Nat
      BY <1>1, <1>10, CallNumbers
    <2>3. PICK A, B : A = Asked(calls, done[w], w) /\ B = Asked(calls, n, w)
      OBVIOUS
    <2>4. PICK l : l = Len(Queue(w)')
      OBVIOUS
    <2>5. B - l = A - Len(q)
      <3>1. CASE asks
        <4>1. l = Len(q) + 1
          BY <1>4, <1>9, <1>10, <2>4, <3>1
        <4>2. B = A + 1 /\ A \in Nat
          BY <1>5, <2>3, <3>1
        <4> QED
          BY <2>2, <4>1, <4>2
      <3>2. CASE ~asks
        BY <1>5, <1>9, <1>10, <2>2, <2>3, <2>4, <3>2
      <3> QED
        BY <3>1, <3>2
    <2>6. Past(w)' = B - l + skipped[w] /\ Past(w) = A - Len(q) + skipped[w]
      BY <1>3, <1>6, <1>10, <2>3, <2>4 DEF Past
    <2> QED
      BY <2>1, <2>5, <2>6
  <1>13. CallType'
    BY <1>1, <1>2, <1>3, <1>4 DEF CallInv, CallType
  <1>14. WorkerAt'
    <2>1. QueueAt(calls, Queue(w)', n, w)
      <3>1. PICK d \in Nat : d = done[w]
        BY <1>2
      <3>2. IF calls[d + 1] = "model" => w = OutputRank THEN QueueAt(calls, Append(q, d + 1), d + 1, w)
            ELSE QueueAt(calls, q, d + 1, w)
        BY <1>11, <3>1, QueueRun
      <3>3. CASE asks
        BY <1>9, <1>10, <3>1, <3>2, <3>3
      <3>4. CASE ~asks
        BY <1>9, <1>10, <3>1, <3>2, <3>4
      <3> QED
        BY <3>3, <3>4
    <2>2. done'[w] <= Len(got'[w]) /\ Len(got'[w]) <= done'[w] + 1
      BY <1>2, <1>3, <1>6
    <2>3. ASSUME NEW v \in Readers, v # w
          PROVE  /\ done'[v] <= Len(got'[v]) /\ Len(got'[v]) <= done'[v] + 1
                 /\ QueueAt(calls', Queue(v)', done'[v], v)
      BY <1>1, <1>3, <1>6, <1>8, <2>3 DEF CallInv, WorkerAt
    <2> QED
      BY <1>3, <1>6, <2>1, <2>2, <2>3 DEF WorkerAt
  <1>15. WaitsFor' /\ EarlierReads' /\ AllAnswers' /\ AnswersInv'
    BY <1>1, <1>3, <1>12, WaitsUnmoved
  <1>16. sending[w] = 0
    <2>1. Len(got[w]) # done[w]
      BY <1>2
    <2> QED
      BY <1>1, <2>1 DEF SocketInv, Streams
  <1>17. \A x \in failed[w] : x <= done[w] /\ x \in Nat
    BY <1>1, <1>t DEF SocketInv, Streams
  <1>18. SocketType'
    <2>1. sending' \in [Readers -> Nat]
      <3>1. PICK x \in Nat : x = IF asks /\ n \in LargeAnswers THEN n ELSE 0
        BY <1>4
      <3> QED
        BY <1>f, <1>t, <3>1
    <2>2. failed' \in [Readers -> SUBSET Nat]
      <3>1. failed[w] \cup {n} \in SUBSET Nat
        BY <1>t, <1>4
      <3> QED
        BY <1>f, <1>t, <3>1
    <2> QED
      BY <1>3, <1>t, <2>1, <2>2 DEF SocketType
  <1>19. ASSUME lost[w] = 0
         PROVE  Stream(Queue(w)', resp_sock[w], sending'[w], failed'[w])
    <2>1. Stream(q, resp_sock[w], 0, failed[w]) /\ resp_sock[w] \in Seq(Nat)
      BY <1>1, <1>t, <1>10, <1>16, <1>19 DEF SocketInv, Streams
    <2>2. /\ \A i \in 1 .. Len(q) : q[i] < n
          /\ ~Has(q, 0)
      BY <1>2, <1>11 DEF QueueAt, Has
    <2>3. \A x \in failed[w] : x < n
      BY <1>2, <1>17
    <2>4. /\ Stream(q, resp_sock[w], 0, failed[w] \cup {n})
          /\ Stream(Append(q, n), resp_sock[w], 0, failed[w] \cup {n})
          /\ n \in LargeAnswers => Stream(Append(q, n), resp_sock[w], n, failed[w])
          /\ n \notin LargeAnswers => Stream(Append(q, n), resp_sock[w], 0, failed[w])
      <3> HIDE DEF n
      <3> QED
        BY <1>4, <2>1, <2>2, <2>3, StreamRun
    <2>5. CASE failed' = failed /\ sending'[w] = (IF asks /\ n \in LargeAnswers THEN n ELSE 0)
      BY <1>9, <1>10, <2>1, <2>4, <2>5
    <2>6. CASE failed'[w] = failed[w] \cup {n} /\ sending' = sending
      BY <1>9, <1>10, <1>16, <2>4, <2>6
    <2>7. \/ failed' = failed /\ sending'[w] = (IF asks /\ n \in LargeAnswers THEN n ELSE 0)
          \/ failed'[w] = failed[w] \cup {n} /\ sending' = sending
      BY <1>f, <1>t
    <2> QED
      BY <2>5, <2>6, <2>7
  <1>20. Streams'
    <2>1. \A v \in Readers : v # w => failed'[v] = failed[v] /\ sending'[v] = sending[v]
      BY <1>f, <1>t
    <2>2. ASSUME NEW v \in Readers, v # w
          PROVE  /\ sending'[v] # 0 => sending'[v] = done'[v] /\ done'[v] = Len(got'[v])
                 /\ \A x \in failed'[v] : x <= done'[v]
                 /\ lost'[v] = 0 => Stream(Queue(v)', resp_sock'[v], sending'[v], failed'[v])
      BY <1>1, <1>3, <1>6, <1>8, <2>1, <2>2 DEF SocketInv, Streams
    <2>3. sending'[w] \in {0, n} /\ failed'[w] \subseteq failed[w] \cup {n}
      BY <1>f, <1>t, <1>16
    <2>4. \A x \in failed'[w] : x <= n
      BY <1>2, <1>17, <2>3
    <2> QED
      BY <1>2, <1>3, <1>6, <1>19, <2>2, <2>3, <2>4 DEF Streams
  <1>21. Announced'
    <2> SUFFICES ASSUME receiving # 0 PROVE IsLarge(receiving, Head(reads).worker)'
      BY <1>3 DEF Announced
    <2>1. PICK v : v = Head(reads).worker
      OBVIOUS
    <2>2. receiving \in LargeAnswers /\ receiving \notin failed[v]
      BY <1>1, <2>1 DEF SocketInv, Announced, IsLarge
    <2>3. v \in Readers
      <3>1. reads # <<>> /\ Len(reads) \in Nat /\ \A i \in 1 .. Len(reads) : reads[i].worker \in Readers
        BY <1>1, ReadsTyped DEF CallInv, CallType
      <3>2. Head(reads) = reads[1] /\ 1 \in 1 .. Len(reads)
        BY <1>1, <3>1, TailFacts DEF CallInv, CallType
      <3> QED
        BY <2>1, <3>1, <3>2
    <2>4. receiving \notin failed'[v]
      <3>1. CASE v # w
        BY <1>f, <1>t, <2>2, <2>3, <3>1
      <3>2. CASE v = w
        <4>1. q[1] = receiving /\ 1 \in 1 .. Len(q)
          <5>1. receiving \in Nat
            BY <1>1 DEF CallInv, CallType
          <5> QED
            BY <1>4, <1>10, <2>1, <3>2, <5>1, InFront DEF Queue
        <4>2. receiving \in 1 .. done[w]
          BY <1>11, <4>1 DEF QueueAt
        <4>3. receiving # n
          BY <1>2, <4>2
        <4> QED
          BY <1>f, <1>t, <2>2, <3>2, <4>3
      <3> QED
        BY <3>1, <3>2
    <2> QED
      BY <1>3, <2>1, <2>2, <2>4 DEF IsLarge
  <1> QED
    BY <1>13, <1>14, <1>15, <1>18, <1>20, <1>21 DEF ExecutorInv, CallInv, SocketInv

\* The large answer follows its chunk.
LEMMA SendAnswerStep ==
  ASSUME RingInv, ExecutorInv, NEW w \in Readers, SendAnswer(w)
  PROVE  ExecutorInv'
  <1>1. CallInv /\ SocketInv /\ AnswersInv
    BY DEF ExecutorInv
  <1>2. /\ sending[w] # 0
        /\ resp_sock' = [resp_sock EXCEPT ![w] = Append(@, sending[w])]
        /\ sending' = [sending EXCEPT ![w] = 0]
        /\ UNCHANGED <<calls, reads, receiving, blocked, todo, skipped, lost, answers>>
        /\ UNCHANGED <<done, resp, failed, msg, got>>
    BY DEF SendAnswer, engine, waits, ghosts, ring
  <1>3. /\ sending \in [Readers -> Nat] /\ failed \in [Readers -> SUBSET Nat]
        /\ resp_sock \in [Readers -> Seq(Nat)] /\ lost \in [Readers -> Nat]
    BY <1>1 DEF SocketInv, SocketType
  <1>4. \A v \in Readers : Queue(v)' = Queue(v)
    BY <1>2 DEF Queue
  <1>5. \A v \in Readers : Past(v)' = Past(v)
    BY <1>2, <1>4 DEF Past
  <1>6. WaitsFor' /\ EarlierReads' /\ AllAnswers' /\ AnswersInv'
    BY <1>1, <1>2, <1>5, WaitsUnmoved
  <1>7. CallType'
    BY <1>1, <1>2 DEF CallInv, CallType
  <1>8. WorkerAt'
    BY <1>1, <1>2, <1>4 DEF CallInv, WorkerAt
  <1>9. SocketType' /\ Announced'
    <2>1. SocketType'
      BY <1>2, <1>3 DEF SocketType
    <2> QED
      BY <1>1, <1>2, <2>1 DEF SocketInv, Announced, IsLarge
  <1>10. ASSUME lost[w] = 0
         PROVE  Stream(Queue(w), resp_sock'[w], 0, failed[w])
    <2>1. PICK q \in Seq(Nat) : q = Queue(w)
      BY <1>1, QueueTyped DEF CallInv
    <2>2. ~Has(q, 0)
      BY <1>1, <2>1 DEF CallInv, WorkerAt, QueueAt, Has
    <2>3. Stream(q, resp_sock[w], sending[w], failed[w])
      BY <1>1, <1>10, <2>1 DEF SocketInv, Streams
    <2>4. resp_sock[w] \in Seq(Nat) /\ sending[w] \in Nat \ {0}
      BY <1>2, <1>3
    <2>5. resp_sock'[w] = Append(resp_sock[w], sending[w])
      BY <1>2, <1>3
    <2> QED
      BY <2>1, <2>2, <2>3, <2>4, <2>5, StreamSend
  <1>11. Streams'
    <2>1. sending'[w] = 0
      BY <1>2, <1>3
    <2>2. ASSUME NEW v \in Readers, v # w
          PROVE  /\ sending'[v] # 0 => sending'[v] = done'[v] /\ done'[v] = Len(got'[v])
                 /\ \A x \in failed'[v] : x <= done'[v]
                 /\ lost'[v] = 0 => Stream(Queue(v)', resp_sock'[v], sending'[v], failed'[v])
      <3>1. sending'[v] = sending[v] /\ resp_sock'[v] = resp_sock[v]
        BY <1>2, <1>3, <2>2
      <3> QED
        BY <1>1, <1>2, <1>4, <3>1 DEF SocketInv, Streams
    <2>3. /\ sending'[w] # 0 => sending'[w] = done'[w] /\ done'[w] = Len(got'[w])
          /\ \A x \in failed'[w] : x <= done'[w]
          /\ lost'[w] = 0 => Stream(Queue(w)', resp_sock'[w], sending'[w], failed'[w])
      BY <1>1, <1>2, <1>4, <1>10, <2>1 DEF SocketInv, Streams
    <2> QED
      BY <2>2, <2>3 DEF Streams
  <1> QED
    BY <1>6, <1>7, <1>8, <1>9, <1>11 DEF ExecutorInv, CallInv, SocketInv

\* The read of an answer goes behind the reads of earlier calls.
LEMMA SubmitStep ==
  ASSUME RingInv, ExecutorInv, Submit
  PROVE  ExecutorInv'
  <1> DEFINE model == calls[blocked] # "utility"
             N == Len(reads)
             R == [call : Nat \ {0}, worker : Readers]
  <1>1. CallInv /\ SocketInv /\ AnswersInv
    BY DEF ExecutorInv
  <1>2. /\ N \in Nat /\ reads \in Seq(R)
        /\ todo \in Seq(Readers) /\ Len(calls) \in Nat /\ OutputRank \in Readers
        /\ calls \in Seq({"model", "utility"})
    BY <1>1, ReadsTyped, ExecutorAssumption DEF CallInv, CallType
  <1>3. /\ todo # <<>> /\ ~UnderWay(blocked)
        /\ ~model => blocked' = blocked /\ todo' = todo
        /\ model => todo' = <<>>
        /\ UNCHANGED <<calls, receiving, skipped, lost, answers>>
        /\ UNCHANGED <<done, resp, resp_sock, sending, failed, msg, got>>
    BY DEF Submit, ring, worker, ghosts
  <1>4. blocked = Len(calls) /\ blocked \in Nat \ {0}
    BY <1>1, <1>2, <1>3 DEF CallInv, WaitsFor
  <1>5. PICK r \in R : /\ r.call = blocked /\ r.worker = Head(todo) /\ reads' = Append(reads, r)
    <2>1. Head(todo) \in Readers
      BY <1>2, <1>3
    <2>2. reads' = Append(reads, [call |-> blocked, worker |-> Head(todo)])
      BY DEF Submit
    <2> QED
      BY <1>4, <2>1, <2>2
  <1>6. ~Reading /\ Earlier = N
    <2>1. reads # <<>> => Len(reads) \in DOMAIN reads
      BY <1>2
    <2> QED
      BY <1>3, <2>1 DEF Reading, Earlier, UnderWay
  <1> HIDE DEF R
  <1>7. /\ Len(reads') = N + 1 /\ reads'[N + 1] = r /\ \A i \in 1 .. N : reads'[i] = reads[i]
        /\ reads' \in Seq(R) /\ reads' # <<>>
    BY <1>2, <1>5
  <1>8. reads # <<>> => Head(reads') = Head(reads)
    <2> SUFFICES ASSUME reads # <<>> PROVE Head(reads') = Head(reads)
      OBVIOUS
    <2>1. Head(reads) = reads[1] /\ Head(reads') = reads'[1] /\ N \in Nat \ {0}
      BY <1>2, <1>7, TailFacts
    <2> QED
      BY <1>7, <2>1
  <1>9. \A w \in Readers : Queue(w)' = Queue(w)
    <2>1. CASE reads = <<>>
      <3>1. receiving = 0
        BY <1>1, <2>1 DEF CallInv, CallType
      <3> QED
        BY <1>3, <3>1 DEF Queue
    <2>2. CASE reads # <<>>
      BY <1>3, <1>8, <2>2 DEF Queue
    <2> QED
      BY <2>1, <2>2
  <1>10. \A w \in Readers : Past(w)' = Past(w) /\ Past(w) \in Int
    BY <1>1, <1>3, <1>9, CallNumbers DEF Past
  <1>11. CallType'
    <2>1. todo' \in Seq(Readers)
      <3>1. todo \in Seq(Readers) /\ <<>> \in Seq(Readers)
        BY <1>2
      <3>2. todo' = todo \/ todo' = <<>>
        BY <1>3
      <3> QED
        BY <3>1, <3>2
    <2> QED
      BY <1>1, <1>3, <1>7, <2>1 DEF CallInv, CallType, R
  <1>12. WorkerAt'
    BY <1>1, <1>3, <1>9 DEF CallInv, WorkerAt
  <1>13. SocketInv'
    <2>1. SocketType' /\ Streams'
      BY <1>1, <1>3, <1>9 DEF SocketInv, SocketType, Streams
    <2>2. Announced'
      <3>1. receiving # 0 => reads # <<>>
        BY <1>1 DEF CallInv, CallType
      <3> QED
        BY <1>1, <1>3, <1>8, <3>1 DEF SocketInv, Announced, IsLarge
    <2> QED
      BY <2>1, <2>2 DEF SocketInv
  <1>14. AnswersInv'
    BY <1>1, <1>3 DEF AnswersInv
  <1>15. ASSUME NEW i \in 1 .. N
         PROVE  /\ reads'[i].call \in 1 .. Len(calls)
                /\ calls[reads'[i].call] = "model" /\ reads'[i].worker = OutputRank
                /\ Asked(calls, reads'[i].call, OutputRank) = Past(OutputRank) + i
    <2>1. /\ reads[i].call \in 1 .. Len(calls)
          /\ calls[reads[i].call] = "model" /\ reads[i].worker = OutputRank
          /\ Asked(calls, reads[i].call, OutputRank) = Past(OutputRank) + i
      BY <1>1, <1>6 DEF CallInv, EarlierReads
    <2> QED
      BY <1>7, <2>1
  <1>16. CASE model
    <2>1. calls[blocked] = "model"
      BY <1>2, <1>4, <1>16
    <2>2. todo' = <<>> /\ todo = <<OutputRank>> /\ r.worker = OutputRank
      BY <1>1, <1>3, <1>5, <1>16, <2>1 DEF CallInv, WaitsFor
    <2>3. ~Reading' /\ Earlier' = N + 1
      BY <1>7, <2>2 DEF Reading, Earlier
    <2>4. WaitsFor'
      BY <2>2, <2>3 DEF WaitsFor
    <2>5. \A w \in Readers : Owed(w) = (IF w = OutputRank THEN N + 1 ELSE 0) /\ Owed(w)' = Owed(w)
      <3> TAKE w \in Readers
      <3>1. Owed(w) = IF w = OutputRank THEN N + 1 ELSE 0
        <4>1. (\E i \in 1 .. Len(todo) : todo[i] = w) <=> w = OutputRank
          BY <2>2
        <4>2. CASE w = OutputRank
          BY <1>2, <1>6, <4>1, <4>2 DEF Owed
        <4>3. CASE w # OutputRank
          BY <4>1, <4>3 DEF Owed
        <4> QED
          BY <4>2, <4>3
      <3>2. Owed(w)' = IF w = OutputRank THEN N + 1 ELSE 0
        BY <1>2, <2>2, <2>3 DEF Owed
      <3> QED
        BY <3>1, <3>2
    <2>6. AllAnswers'
      BY <1>1, <1>3, <1>10, <2>5 DEF CallInv, AllAnswers
    <2>7. Asked(calls, blocked, OutputRank) = Past(OutputRank) + (N + 1)
      BY <1>1, <1>2, <1>4, <2>5 DEF CallInv, AllAnswers
    <2>8. EarlierReads'
      <3> SUFFICES ASSUME NEW i \in 1 .. N + 1
                   PROVE  /\ reads'[i].call \in 1 .. Len(calls)
                          /\ calls[reads'[i].call] = "model" /\ reads'[i].worker = OutputRank
                          /\ Asked(calls, reads'[i].call, OutputRank) = Past(OutputRank) + i
        BY <1>2, <1>3, <1>10, <2>3 DEF EarlierReads
      <3>1. CASE i = N + 1
        BY <1>4, <1>5, <1>7, <2>1, <2>2, <2>7, <3>1
      <3>2. CASE i # N + 1
        <4>1. i \in 1 .. N
          BY <1>2, <3>2
        <4> QED
          BY <1>15, <4>1
      <3> QED
        BY <3>1, <3>2
    <2> QED
      BY <1>11, <1>12, <1>13, <1>14, <2>4, <2>6, <2>8 DEF ExecutorInv, CallInv
  <1>17. CASE ~model
    <2>1. blocked' = blocked /\ todo' = todo
      BY <1>3, <1>17
    <2>2. Reading' /\ Earlier' = N
      BY <1>2, <1>3, <1>5, <1>7, <2>1 DEF Reading, Earlier
    <2>3. WaitsFor'
      BY <1>1, <1>3, <1>5, <1>7, <1>17, <2>1, <2>2 DEF CallInv, WaitsFor
    <2>4. \A w \in Readers : Owed(w)' = Owed(w)
      BY <1>6, <2>1, <2>2 DEF Owed
    <2>5. AllAnswers'
      BY <1>1, <1>3, <1>10, <2>4 DEF CallInv, AllAnswers
    <2>6. EarlierReads'
      BY <1>2, <1>3, <1>10, <1>15, <2>2 DEF EarlierReads
    <2> QED
      BY <1>11, <1>12, <1>13, <1>14, <2>3, <2>5, <2>6 DEF ExecutorInv, CallInv
  <1> QED
    BY <1>16, <1>17

\* The first read: of execute_model, or else the only one, of the utility call under way.
LEMMA FirstRead ==
  ASSUME RingInv, CallInv, reads # <<>>
  PROVE  /\ Head(reads) = reads[1] /\ reads[1].worker \in Readers /\ reads[1].call \in 1 .. Len(calls)
         /\ Asked(calls, reads[1].call, reads[1].worker) = Past(reads[1].worker) + 1
         /\ \/ /\ Earlier \in Nat \ {0}
               /\ calls[reads[1].call] = "model" /\ reads[1].worker = OutputRank
            \/ /\ Earlier = 0 /\ Len(reads) = 1 /\ Reading
               /\ reads[1].call = blocked /\ blocked = Len(calls) /\ blocked \in Nat \ {0}
               /\ calls[blocked] = "utility"
               /\ Len(todo) \in Nat \ {0} /\ reads[1].worker = todo[1]
  <1>1. Len(reads) \in Nat \ {0} /\ Len(calls) \in Nat /\ Head(reads) = reads[1]
    BY ReadsTyped, TailFacts DEF CallInv, CallType
  <1>2. reads[1].worker \in Readers /\ reads[1].call \in Nat \ {0}
    BY <1>1, ReadsTyped DEF CallInv
  <1>3. Earlier \in Nat
    BY <1>1 DEF Earlier
  <1>4. CASE Earlier # 0
    <2>1. 1 \in 1 .. Earlier
      BY <1>3, <1>4
    <2>2. /\ reads[1].call \in 1 .. Len(calls) /\ calls[reads[1].call] = "model"
          /\ reads[1].worker = OutputRank
          /\ Asked(calls, reads[1].call, OutputRank) = Past(OutputRank) + 1
      BY <2>1 DEF CallInv, EarlierReads
    <2> QED
      BY <1>1, <1>2, <1>3, <1>4, <2>2
  <1>5. CASE Earlier = 0
    <2>1. Len(reads) = 1 /\ Reading
      BY <1>1, <1>5 DEF Earlier
    <2>2. reads[1].call = blocked /\ todo # <<>>
      BY <2>1 DEF Reading
    <2>3. /\ blocked = Len(calls) /\ todo \in Seq(Readers) /\ reads[1].worker = Head(todo)
          /\ calls[blocked] = "utility"
      BY <2>1, <2>2 DEF CallInv, CallType, WaitsFor
    <2>4. Len(todo) \in Nat \ {0} /\ Head(todo) = todo[1]
      BY <2>2, <2>3, TailFacts
    <2>5. PICK w \in Readers : w = reads[1].worker
      BY <1>2
    <2>6. Owed(w) = 1
      <3>1. \E i \in 1 .. Len(todo) : todo[i] = w
        BY <2>3, <2>4, <2>5
      <3> QED
        BY <1>5, <3>1 DEF Owed
    <2>7. Asked(calls, Len(calls), w) = Past(w) + 1
      BY <2>6 DEF CallInv, AllAnswers
    <2> QED
      BY <1>1, <1>2, <1>5, <2>1, <2>2, <2>3, <2>4, <2>5, <2>7
  <1> QED
    BY <1>4, <1>5

\* A read that ends takes one answer of its worker or leaves it behind; a utility call that
\* fails leaves those of the workers that it does not come to read.
LEMMA EndReadStep ==
  ASSUME RingInv, CallInv, reads # <<>>, UNCHANGED <<calls, done>>,
         NEW error \in BOOLEAN, NEW left, EndRead(error, left),
         NEW w \in Readers, w = reads[1].worker,
         \A v \in Readers : v # w => Queue(v)' = Queue(v) /\ (v \in left <=> error /\ v \in Unread(reads[1].call, w)),
         IF w \in left THEN Queue(w)' = Queue(w) ELSE Len(Queue(w)') = Len(Queue(w)) - 1
  PROVE  /\ WaitsFor' /\ EarlierReads' /\ AllAnswers'
         /\ reads' \in Seq([call : Nat \ {0}, worker : Readers]) /\ todo' \in Seq(Readers)
         /\ skipped' \in [Readers -> Nat] /\ receiving' = 0
  <1> DEFINE N == Len(calls)
             R == [call : Nat \ {0}, worker : Readers]
             n == reads[1].call
             Due(v) == \E i \in 1 .. Len(todo) : todo[i] = v
  <1>1. /\ reads \in Seq(R) /\ todo \in Seq(Readers) /\ skipped \in [Readers -> Nat]
        /\ N \in Nat /\ OutputRank \in Readers
    BY ExecutorAssumption, SMTT(30) DEF CallInv, CallType
  <1> HIDE DEF R
  <1>2. /\ Len(reads) \in Nat \ {0} /\ Head(reads) = reads[1]
        /\ Tail(reads) \in Seq(R) /\ Len(Tail(reads)) = Len(reads) - 1
        /\ \A i \in 1 .. Len(reads) - 1 : Tail(reads)[i] = reads[i + 1]
    BY <1>1, TailFacts
  <1>3. /\ reads' = Tail(reads) /\ receiving' = 0
        /\ calls[n] = "model" => blocked' = blocked /\ todo' = todo
        /\ calls[n] # "model" =>
             /\ blocked' = IF error \/ Len(todo) = 1 THEN 0 ELSE blocked
             /\ todo' = IF error \/ Len(todo) = 1 THEN <<>> ELSE Tail(todo)
        /\ skipped' = [v \in Readers |-> IF v \in left THEN skipped[v] + 1 ELSE skipped[v]]
    BY <1>2 DEF EndRead
  <1>4. skipped' \in [Readers -> Nat]
    BY <1>1, <1>3
  <1>5. \A v \in Readers : /\ Past(v) \in Int /\ skipped[v] \in Nat /\ Len(Queue(v)) \in Nat
                           /\ Asked(calls, done[v], v) \in Nat
    BY CallNumbers
  <1>6. Past(w)' = Past(w) + 1
    <2>1. PICK A, l, k : A = Asked(calls, done[w], w) /\ l = Len(Queue(w)) /\ k = Len(Queue(w)')
      OBVIOUS
    <2>2. Past(w) = A - l + skipped[w] /\ Past(w)' = A - k + skipped'[w]
      BY <2>1 DEF Past
    <2>3. A \in Nat /\ l \in Nat /\ skipped[w] \in Nat
      BY <1>5, <2>1
    <2>4. CASE w \in left
      <3>1. k = l /\ skipped'[w] = skipped[w] + 1
        BY <1>3, <2>1, <2>4
      <3> QED
        BY <2>2, <2>3, <3>1
    <2>5. CASE w \notin left
      <3>1. k = l - 1 /\ skipped'[w] = skipped[w]
        BY <1>3, <2>1, <2>5
      <3> QED
        BY <2>2, <2>3, <3>1
    <2> QED
      BY <2>4, <2>5
  <1>7. \A v \in Readers : v # w => Past(v)' = Past(v) + (IF v \in left THEN 1 ELSE 0)
    <2> TAKE v \in Readers
    <2> HAVE v # w
    <2>1. PICK A, l : A = Asked(calls, done[v], v) /\ l = Len(Queue(v))
      OBVIOUS
    <2>2. Past(v) = A - l + skipped[v] /\ Past(v)' = A - l + skipped'[v]
      BY <2>1 DEF Past
    <2>3. A \in Nat /\ l \in Nat /\ skipped[v] \in Nat
      BY <1>5, <2>1
    <2>4. skipped'[v] = IF v \in left THEN skipped[v] + 1 ELSE skipped[v]
      BY <1>3
    <2> QED
      BY <2>2, <2>3, <2>4
  <1>8. CASE Earlier \in Nat \ {0}
    <2>1. calls[n] = "model" /\ w = OutputRank
      BY <1>8, FirstRead
    <2>2. blocked' = blocked /\ todo' = todo
      BY <1>3, <2>1
    <2>3. \A v \in Readers : v # w => Past(v)' = Past(v)
      <3> TAKE v \in Readers
      <3> HAVE v # w
      <3>1. v \notin left
        BY <2>1 DEF Unread
      <3>2. Past(v) \in Int
        BY <1>5
      <3> QED
        BY <1>7, <3>1, <3>2
    <2>4. /\ Len(reads') = Len(reads) - 1
          /\ \A i \in 1 .. Len(reads') : reads'[i] = reads[i + 1]
          /\ reads' \in Seq(R)
      BY <1>2, <1>3
    <2>5. Reading => reads'[Len(reads')] = reads[Len(reads)] /\ reads' # <<>>
      <3> SUFFICES ASSUME Reading PROVE reads'[Len(reads')] = reads[Len(reads)] /\ reads' # <<>>
        OBVIOUS
      <3>1. Len(reads) - 1 \in Nat \ {0}
        BY <1>2, <1>8 DEF Earlier
      <3>2. Len(reads') \in 1 .. Len(reads') /\ Len(reads') + 1 = Len(reads)
        BY <1>2, <2>4, <3>1
      <3>3. reads' # <<>>
        BY <3>2
      <3> QED
        BY <2>4, <3>2, <3>3
    <2>6. ~Reading => ~Reading'
      <3> SUFFICES ASSUME Reading' PROVE Reading
        OBVIOUS
      <3>1. Len(reads') \in Nat \ {0}
        BY <2>4, EmptySeq DEF Reading
      <3>2. Len(reads') \in 1 .. Len(reads') /\ Len(reads') + 1 = Len(reads)
        BY <1>2, <2>4, <3>1
      <3>3. reads'[Len(reads')] = reads[Len(reads)]
        BY <2>4, <3>2
      <3> QED
        BY <2>2, <3>3 DEF Reading
    <2>7. (Reading <=> Reading') /\ Earlier' = Earlier - 1
      <3>1. Reading <=> Reading'
        BY <2>2, <2>5, <2>6 DEF Reading
      <3> QED
        BY <1>2, <2>4, <3>1 DEF Earlier
    <2>8. WaitsFor'
      BY <2>2, <2>5, <2>7, ZenonT(30) DEF CallInv, WaitsFor
    <2>9. EarlierReads'
      <3> SUFFICES ASSUME NEW i \in 1 .. Earlier - 1
                   PROVE  /\ reads'[i].call \in 1 .. N
                          /\ calls[reads'[i].call] = "model" /\ reads'[i].worker = OutputRank
                          /\ Asked(calls, reads'[i].call, OutputRank) = Past(OutputRank)' + i
        BY <2>7 DEF EarlierReads
      <3>1. i + 1 \in 1 .. Earlier /\ i \in 1 .. Len(reads')
        BY <1>2, <1>8, <2>4 DEF Earlier
      <3>2. /\ reads[i + 1].call \in 1 .. N
            /\ calls[reads[i + 1].call] = "model" /\ reads[i + 1].worker = OutputRank
            /\ Asked(calls, reads[i + 1].call, OutputRank) = Past(OutputRank) + (i + 1)
        BY <3>1 DEF CallInv, EarlierReads
      <3>3. PICK p, pp : p = Past(OutputRank) /\ pp = Past(OutputRank)'
        OBVIOUS
      <3>4. p \in Int /\ pp = p + 1 /\ i \in Int
        BY <1>1, <1>5, <1>6, <2>1, <3>3
      <3>5. p + (i + 1) = pp + i
        BY <3>4
      <3>6. reads'[i] = reads[i + 1]
        BY <2>4, <3>1
      <3> QED
        BY <3>2, <3>3, <3>5, <3>6
    <2>10. AllAnswers'
      <3> SUFFICES ASSUME NEW v \in Readers
                   PROVE  Asked(calls, N, v) = Past(v)' + Owed(v)'
        BY DEF AllAnswers
      <3> DEFINE due == IF \E i \in 1 .. Len(todo) : todo[i] = v THEN 1 ELSE 0
      <3>1. PICK A, p, pp : A = Asked(calls, N, v) /\ p = Past(v) /\ pp = Past(v)'
        OBVIOUS
      <3>2. A = p + Owed(v)
        BY <3>1 DEF CallInv, AllAnswers
      <3>3. /\ Owed(v) = due + (IF v = OutputRank THEN Earlier ELSE 0)
            /\ Owed(v)' = due + (IF v = OutputRank THEN Earlier - 1 ELSE 0)
        BY <2>2, <2>7 DEF Owed
      <3>4. due \in Nat
        OBVIOUS
      <3> HIDE DEF due
      <3>5. p \in Int
        BY <1>5, <3>1
      <3>6. CASE v = OutputRank
        <4>1. pp = p + 1
          BY <1>6, <2>1, <3>1, <3>6
        <4>2. Owed(v) = due + Earlier /\ Owed(v)' = due + (Earlier - 1)
          BY <3>3, <3>6
        <4> QED
          BY <1>8, <3>1, <3>2, <3>4, <3>5, <4>1, <4>2
      <3>7. CASE v # OutputRank
        <4>1. pp = p /\ Owed(v)' = Owed(v)
          BY <2>1, <2>3, <3>1, <3>3, <3>7
        <4> QED
          BY <3>1, <3>2, <4>1
      <3> QED
        BY <3>6, <3>7
    <2> QED
      BY <1>1, <1>3, <1>4, <2>2, <2>4, <2>8, <2>9, <2>10 DEF R
  <1>9. CASE Earlier = 0
    <2>1. /\ Len(reads) = 1 /\ n = blocked /\ blocked = N /\ blocked # 0
          /\ calls[n] = "utility" /\ Len(todo) \in Nat \ {0} /\ w = todo[1]
      BY <1>9, FirstRead
    <2>2. reads' = <<>> /\ ~Reading' /\ Earlier' = 0
      <3>1. reads' = <<>>
        BY <1>1, <1>3, <2>1, TailOfOne
      <3> QED
        BY <3>1 DEF Reading, Earlier
    <2>3. EarlierReads' /\ reads' \in Seq([call : Nat \ {0}, worker : Readers])
      BY <2>2 DEF EarlierReads
    <2>4. /\ blocked' = IF error \/ Len(todo) = 1 THEN 0 ELSE blocked
          /\ todo' = IF error \/ Len(todo) = 1 THEN <<>> ELSE Tail(todo)
      BY <1>3, <2>1
    <2>5. \A v \in Readers : Asked(calls, N, v) = Past(v) + (IF Due(v) THEN 1 ELSE 0)
      <3> TAKE v \in Readers
      <3>1. Owed(v) = IF Due(v) THEN 1 ELSE 0
        BY <1>9 DEF Owed
      <3> QED
        BY <3>1 DEF CallInv, AllAnswers
    <2>6. Due(w)
      BY <2>1
    <2>7. \A v \in Readers : v \in ToSet(todo) <=> Due(v)
      BY <1>1, SMTT(30) DEF ToSet
    <2>8. \A v \in Readers : v # w => (v \in left <=> error /\ Due(v))
      BY <2>1, <2>7 DEF Unread
    <2>9. CASE error
      <3>1. blocked' = 0 /\ todo' = <<>>
        BY <2>4, <2>9
      <3>2. WaitsFor' /\ \A v \in Readers : Owed(v)' = 0
        BY <2>2, <3>1 DEF WaitsFor, Owed
      <3>3. AllAnswers'
        <4> SUFFICES ASSUME NEW v \in Readers
                     PROVE  Asked(calls, N, v) = Past(v)' + 0
          BY <3>2 DEF AllAnswers
        <4>1. PICK A, p, pp : A = Asked(calls, N, v) /\ p = Past(v) /\ pp = Past(v)'
          OBVIOUS
        <4> HIDE DEF Due
        <4>2. A = p + (IF Due(v) THEN 1 ELSE 0) /\ p \in Int
          BY <1>5, <2>5, <4>1
        <4>3. pp = p + (IF Due(v) THEN 1 ELSE 0)
          <5>1. CASE v = w
            BY <1>6, <2>6, <4>1, <5>1
          <5>2. CASE v # w
            BY <1>7, <2>8, <2>9, <4>1, <5>2
          <5> QED
            BY <5>1, <5>2
        <4> QED
          BY <4>1, <4>2, <4>3
      <3> QED
        BY <1>3, <1>4, <2>3, <3>1, <3>2, <3>3
    <2>10. CASE ~error
      <3>1. todo # <<>>
        BY <2>1
      <3>2. /\ Tail(todo) \in Seq(Readers) /\ Len(Tail(todo)) = Len(todo) - 1
            /\ \A i \in 1 .. Len(todo) - 1 : Tail(todo)[i] = todo[i + 1]
        BY <1>1, <3>1, TailFacts
      <3>3. todo' = Tail(todo) /\ blocked' = (IF Len(todo) = 1 THEN 0 ELSE blocked)
        BY <1>1, <2>4, <2>10, TailOfOne
      <3>4. /\ todo' \in Seq(Readers) /\ Len(todo') = Len(todo) - 1
            /\ \A i \in 1 .. Len(todo') : todo'[i] = todo[i + 1]
        BY <3>2, <3>3
      <3>5. \A i, j \in 1 .. Len(todo) : i < j => todo[i] # todo[j]
        BY DEF CallInv, WaitsFor
      <3>6. \A i, j \in 1 .. Len(todo') : i < j => todo'[i] # todo'[j]
        <4> TAKE i, j \in 1 .. Len(todo')
        <4> HAVE i < j
        <4>1. i + 1 \in 1 .. Len(todo) /\ j + 1 \in 1 .. Len(todo) /\ i + 1 < j + 1
          BY <2>1, <3>4
        <4> QED
          BY <3>4, <3>5, <4>1
      <3>7. todo' # <<>> => blocked' = blocked
        <4>1. Len(todo) = 1 => todo' = <<>>
          BY <1>1, <3>3, TailOfOne
        <4> QED
          BY <3>3, <4>1
      <3>8. WaitsFor'
        BY <2>1, <2>2, <3>6, <3>7 DEF WaitsFor
      <3>9. \A v \in Readers : (\E i \in 1 .. Len(todo') : todo'[i] = v) <=> Due(v) /\ v # w
        <4> TAKE v \in Readers
        <4>1. ASSUME NEW i \in 1 .. Len(todo'), todo'[i] = v PROVE Due(v) /\ v # w
          <5>1. i + 1 \in 1 .. Len(todo) /\ todo[i + 1] = v /\ 1 \in 1 .. Len(todo) /\ 1 < i + 1
            BY <2>1, <3>4, <4>1
          <5> QED
            BY <2>1, <3>5, <5>1
        <4>2. ASSUME NEW i \in 1 .. Len(todo), todo[i] = v, v # w
              PROVE  \E j \in 1 .. Len(todo') : todo'[j] = v
          <5>1. i - 1 \in 1 .. Len(todo') /\ (i - 1) + 1 = i
            BY <2>1, <3>4, <4>2
          <5>2. todo'[i - 1] = v
            BY <3>4, <4>2, <5>1
          <5> QED
            BY <5>1, <5>2
        <4> QED
          BY <4>1, <4>2
      <3>10. AllAnswers'
        <4> SUFFICES ASSUME NEW v \in Readers
                     PROVE  Asked(calls, N, v) = Past(v)' + Owed(v)'
          BY DEF AllAnswers
        <4>1. Owed(v)' = IF Due(v) /\ v # w THEN 1 ELSE 0
          BY <2>2, <3>9 DEF Owed
        <4>2. PICK A, p, pp : A = Asked(calls, N, v) /\ p = Past(v) /\ pp = Past(v)'
          OBVIOUS
        <4> HIDE DEF Due
        <4>3. A = p + (IF Due(v) THEN 1 ELSE 0) /\ p \in Int
          BY <1>5, <2>5, <4>2
        <4>4. CASE v = w
          <5>1. pp = p + 1 /\ A = p + 1 /\ Owed(v)' = 0
            BY <1>6, <2>6, <4>1, <4>2, <4>3, <4>4
          <5> QED
            BY <4>2, <4>3, <5>1
        <4>5. CASE v # w
          <5>1. pp = p + 0
            BY <1>7, <2>8, <2>10, <4>2, <4>5
          <5> QED
            BY <4>1, <4>2, <4>3, <4>5, <5>1
        <4> QED
          BY <4>4, <4>5
      <3> QED
        BY <1>3, <1>4, <2>3, <3>4, <3>8, <3>10
    <2> QED
      BY <2>9, <2>10
  <1> QED
    BY <1>8, <1>9, FirstRead

\* Taking the first chunk of a worker leaves the others in their places, and this chunk is due
\* but for those left behind.
LEMMA ChunkTaken ==
  ASSUME RingInv, CallInv, NEW w \in Readers, UNCHANGED <<calls, done, got>>, Queue(w) # <<>>,
         Queue(w)' = Tail(Queue(w)), \A v \in Readers : v # w => Queue(v)' = Queue(v)
  PROVE  /\ WorkerAt' /\ Len(Queue(w)') = Len(Queue(w)) - 1
         /\ Queue(w)[1] \in 1 .. Len(calls)
         /\ Asked(calls, Queue(w)[1], w) + skipped[w] = Past(w) + 1
  <1>1. PICK q \in Seq(Nat) : q = Queue(w)
    BY QueueTyped DEF CallInv
  <1>2. PICK d \in Nat : d = done[w] /\ d \in 0 .. Len(calls)
    BY CallNumbers
  <1>3. QueueAt(calls, q, d, w)
    BY <1>1, <1>2 DEF CallInv, WorkerAt
  <1>4. /\ QueueAt(calls, Tail(q), d, w) /\ q[1] \in 1 .. d
        /\ Asked(calls, q[1], w) = Asked(calls, d, w) - Len(q) + 1
    BY <1>1, <1>3, QueueTail
  <1>5. WorkerAt'
    <2> SUFFICES ASSUME NEW v \in Readers PROVE QueueAt(calls, Queue(v)', done[v], v)
      BY DEF CallInv, WorkerAt
    <2>1. CASE v = w
      BY <1>1, <1>2, <1>4, <2>1
    <2>2. CASE v # w
      BY <2>2 DEF CallInv, WorkerAt
    <2> QED
      BY <2>1, <2>2
  <1>6. Len(Tail(q)) = Len(q) - 1
    BY <1>1, TailFacts
  <1>7. q[1] \in 1 .. Len(calls)
    <2>1. Len(calls) \in Nat
      BY CallNumbers
    <2> QED
      BY <1>2, <1>4, <2>1
  <1>8. Asked(calls, q[1], w) + skipped[w] = Past(w) + 1
    <2>1. PICK A, k, p : A = Asked(calls, d, w) /\ k = skipped[w] /\ p = Past(w)
      OBVIOUS
    <2>2. A \in Nat /\ k \in Nat /\ Len(q) \in Nat
      BY <1>1, <1>2, <2>1, CallNumbers
    <2>3. p = A - Len(q) + k
      BY <1>1, <1>2, <2>1 DEF Past
    <2>4. Asked(calls, q[1], w) = A - Len(q) + 1
      BY <1>4, <2>1
    <2>5. A - Len(q) + 1 + k = p + 1
      BY <2>2, <2>3
    <2> QED
      BY <2>1, <2>4, <2>5
  <1> QED
    BY <1>1, <1>5, <1>6, <1>7, <1>8

\* The answer of a read that ends: its chunk is late by those left behind.
LEMMA AnswerStep ==
  ASSUME RingInv, CallInv, SocketInv, AnswersInv, reads # <<>>,
         UNCHANGED <<calls, done, got, msg, sending, failed, lost>>,
         NEW w \in Readers, w = reads[1].worker, Queue(w) # <<>>, Queue(w)' = Tail(Queue(w)),
         \A v \in Readers : v # w => Queue(v)' = Queue(v) /\ resp_sock'[v] = resp_sock[v],
         NEW m, Answer(w, Queue(w)[1], m), lost[w] = 0 => m = Queue(w)[1],
         resp' \in [Readers -> Seq(Nat)], resp_sock' \in [Readers -> Seq(Nat)],
         lost[w] = 0 => Stream(Queue(w)', resp_sock'[w], sending[w], failed[w])
  PROVE  ExecutorInv'
  <1>1. PICK n, q : n = reads[1].call /\ q = Queue(w)[1]
    OBVIOUS
  <1>2. PICK error \in BOOLEAN : error = (m \in failed[w])
    <2>1. CASE m \in failed[w]
      <3>1. TRUE = (m \in failed[w])
        BY <2>1
      <3> QED
        BY <3>1
    <2>2. CASE m \notin failed[w]
      <3>1. FALSE = (m \in failed[w])
        BY <2>2
      <3> QED
        BY <3>1
    <2> QED
      BY <2>1, <2>2
  <1>3. Head(reads) = reads[1] /\ n \in 1 .. Len(calls) /\ Asked(calls, n, w) = Past(w) + 1
    BY <1>1, FirstRead
  <1>4. EndRead(error, IF error THEN Unread(n, w) ELSE {})
    BY <1>1, <1>2, <1>3 DEF Answer
  <1>5. answers' = answers \cup {<<n, w, q, m, skipped[w], lost[w]>>}
    BY <1>1, <1>3 DEF Answer
  <1>6. /\ WorkerAt' /\ Len(Queue(w)') = Len(Queue(w)) - 1 /\ q \in 1 .. Len(calls)
        /\ Asked(calls, q, w) + skipped[w] = Past(w) + 1
    BY <1>1, ChunkTaken
  <1>7. w \notin Unread(n, w)
    BY DEF Unread
  <1>8. /\ WaitsFor' /\ EarlierReads' /\ AllAnswers'
        /\ reads' \in Seq([call : Nat \ {0}, worker : Readers]) /\ todo' \in Seq(Readers)
        /\ skipped' \in [Readers -> Nat] /\ receiving' = 0
    <2>1. PICK left : left = IF error THEN Unread(n, w) ELSE {}
      OBVIOUS
    <2>2. w \notin left /\ \A v \in Readers : v \in left <=> error /\ v \in Unread(n, w)
      BY <1>7, <2>1
    <2>3. EndRead(error, left)
      BY <1>4, <2>1
    <2>4. IF w \in left THEN Queue(w)' = Queue(w) ELSE Len(Queue(w)') = Len(Queue(w)) - 1
      BY <1>6, <2>2
    <2>5. \A v \in Readers : v # w =>
            Queue(v)' = Queue(v) /\ (v \in left <=> error /\ v \in Unread(reads[1].call, w))
      BY <1>1, <2>2
    <2>6. UNCHANGED <<calls, done>>
      OBVIOUS
    <2> QED
      BY <2>3, <2>4, <2>5, <2>6, EndReadStep
  <1>9. CallType'
    BY <1>8 DEF CallInv, CallType
  <1>10. SocketInv'
    <2>1. SocketType' /\ Announced'
      BY <1>8 DEF SocketInv, SocketType, Announced
    <2>2. Streams'
      <3> SUFFICES ASSUME NEW v \in Readers, lost[v] = 0
                   PROVE  Stream(Queue(v)', resp_sock'[v], sending[v], failed[v])
        BY DEF SocketInv, Streams
      <3> QED
        BY DEF SocketInv, Streams
    <2> QED
      BY <2>1, <2>2 DEF SocketInv
  <1>11. AnswersInv'
    <2> DEFINE b == <<n, w, q, m, skipped[w], lost[w]>>
    <2>1. b[1] = n /\ b[2] = w /\ b[3] = q /\ b[4] = m /\ b[5] = skipped[w] /\ b[6] = lost[w]
      OBVIOUS
    <2>2. skipped[w] \in Nat
      BY CallNumbers
    <2>3. /\ b[1] \in 1 .. Len(calls) /\ b[2] \in Readers /\ b[3] \in 1 .. Len(calls) /\ b[5] \in Nat
          /\ Asked(calls, b[3], b[2]) + b[5] = Asked(calls, b[1], b[2])
          /\ b[6] = 0 => b[4] = b[3]
      BY <1>1, <1>3, <1>6, <2>1, <2>2
    <2> HIDE DEF b
    <2>4. answers' = answers \cup {b}
      BY <1>5 DEF b
    <2> QED
      BY <2>3, <2>4 DEF AnswersInv
  <1> QED
    BY <1>6, <1>8, <1>9, <1>10, <1>11 DEF ExecutorInv, CallInv

\* A small chunk is the answer; after a large one the read goes on at the socket.
LEMMA GetResponseStep ==
  ASSUME RingInv, ExecutorInv, GetResponse
  PROVE  ExecutorInv'
  <1>1. CallInv /\ SocketInv /\ AnswersInv
    BY DEF ExecutorInv
  <1>2. reads # <<>> /\ receiving = 0
    BY DEF GetResponse
  <1>3. PICK w \in Readers : w = reads[1].worker /\ w = Head(reads).worker
    BY <1>1, <1>2, FirstRead
  <1>4. /\ resp \in [Readers -> Seq(Nat)] /\ resp[w] \in Seq(Nat)
        /\ resp_sock \in [Readers -> Seq(Nat)] /\ sending[w] \in Nat
    BY <1>1 DEF CallInv, CallType, SocketInv, SocketType
  <1>5. resp[w] # <<>> /\ resp' = [resp EXCEPT ![w] = Tail(@)]
    BY <1>3 DEF GetResponse
  <1>6. PICK m : m = resp[w][1]
    OBVIOUS
  <1>7. Head(resp[w]) = m /\ m \in Nat /\ Tail(resp[w]) \in Seq(Nat)
    BY <1>4, <1>5, <1>6, TailFacts
  <1>8. IF IsLarge(m, w)
        THEN receiving' = m /\ UNCHANGED <<reads, blocked, todo, skipped, answers>>
        ELSE Answer(w, m, m)
    BY <1>3, <1>7 DEF GetResponse
  <1>9. UNCHANGED <<calls, done, got, msg, lost, sending, resp_sock, failed>>
    BY DEF GetResponse, ring
  <1>10. /\ resp'[w] = Tail(resp[w]) /\ \A v \in Readers : v # w => resp'[v] = resp[v]
         /\ resp' \in [Readers -> Seq(Nat)]
    BY <1>4, <1>5, <1>7
  <1>11. \A v \in Readers : Queue(v) = resp[v]
    BY <1>2 DEF Queue
  <1>12. CASE IsLarge(m, w)
    <2>1. receiving' = m /\ UNCHANGED <<reads, blocked, todo, skipped, answers>>
      BY <1>8, <1>12
    <2>2. m # 0
      <3>1. m \in 1 .. done[w]
        <4>1. 1 \in 1 .. Len(resp[w])
          BY <1>4, <1>5, TailFacts
        <4> QED
          BY <1>1, <1>6, <1>11, <4>1 DEF CallInv, WorkerAt, QueueAt
      <3> QED
        BY <3>1
    <2>3. <<m>> \o Tail(resp[w]) = resp[w]
      BY <1>4, <1>5, <1>6, <1>7, TailFacts, SMTT(30)
    <2>4. \A v \in Readers : Queue(v)' = Queue(v)
      <3>1. Queue(w)' = resp[w]
        BY <1>3, <1>10, <2>1, <2>2, <2>3 DEF Queue
      <3>2. \A v \in Readers : v # w => Queue(v)' = resp[v]
        BY <1>3, <1>10, <2>1 DEF Queue
      <3> QED
        BY <1>11, <3>1, <3>2
    <2>5. \A v \in Readers : Past(v)' = Past(v)
      BY <1>9, <2>1, <2>4 DEF Past
    <2>6. WaitsFor' /\ EarlierReads' /\ AllAnswers' /\ AnswersInv'
      BY <1>1, <1>9, <2>1, <2>5, WaitsUnmoved
    <2>7. CallType'
      BY <1>1, <1>2, <1>7, <1>9, <1>10, <2>1 DEF CallInv, CallType
    <2>8. WorkerAt'
      BY <1>1, <1>9, <2>4 DEF CallInv, WorkerAt
    <2>9. SocketInv'
      <3>1. SocketType' /\ Streams'
        BY <1>1, <1>9, <2>4 DEF SocketInv, SocketType, Streams
      <3>2. Announced'
        BY <1>3, <1>9, <1>12, <2>1 DEF Announced, IsLarge
      <3> QED
        BY <3>1, <3>2 DEF SocketInv
    <2> QED
      BY <2>6, <2>7, <2>8, <2>9 DEF ExecutorInv, CallInv
  <1>13. CASE ~IsLarge(m, w)
    <2>1. Answer(w, m, m)
      BY <1>8, <1>13
    <2>2. receiving' = 0
      BY <2>1 DEF Answer, EndRead
    <2>3. Queue(w)' = Tail(Queue(w)) /\ \A v \in Readers : v # w => Queue(v)' = Queue(v)
      BY <1>10, <1>11, <2>2 DEF Queue
    <2>4. ASSUME lost[w] = 0
          PROVE  Stream(Queue(w)', resp_sock'[w], sending[w], failed[w])
      <3>1. Stream(resp[w], resp_sock[w], sending[w], failed[w])
        BY <1>1, <1>11, <2>4 DEF SocketInv, Streams
      <3>2. resp[w][1] \notin LargeAnswers \ failed[w]
        BY <1>6, <1>13 DEF IsLarge
      <3>3. Stream(Tail(resp[w]), resp_sock[w], sending[w], failed[w])
        BY <1>4, <1>5, <3>1, <3>2, StreamSmall
      <3> QED
        BY <1>9, <1>11, <2>3, <3>3
    <2>5. Queue(w) # <<>> /\ Queue(w)[1] = m
      BY <1>5, <1>6, <1>11
    <2>6. resp_sock' \in [Readers -> Seq(Nat)] /\ \A v \in Readers : resp_sock'[v] = resp_sock[v]
      BY <1>4, <1>9
    <2> QED
      BY <1>1, <1>2, <1>3, <1>9, <1>10, <2>1, <2>3, <2>4, <2>5, <2>6, AnswerStep
  <1> QED
    BY <1>12, <1>13

\* While a large answer is waited for, its chunk is the first.
LEMMA ReceivingFirst ==
  ASSUME RingInv, CallInv, receiving # 0
  PROVE  /\ reads # <<>> /\ Head(reads) = reads[1] /\ reads[1].worker \in Readers
         /\ Queue(reads[1].worker) # <<>> /\ Queue(reads[1].worker)[1] = receiving
         /\ resp[reads[1].worker] = Tail(Queue(reads[1].worker))
         /\ \A v \in Readers : v # reads[1].worker => Queue(v) = resp[v]
  <1>1. reads # <<>>
    BY DEF CallInv, CallType
  <1>2. PICK w \in Readers : w = reads[1].worker /\ Head(reads) = reads[1]
    BY <1>1, FirstRead
  <1>3. resp[w] \in Seq(Nat) /\ receiving \in Nat
    BY QueueTyped DEF CallInv
  <1>4. Queue(w) = <<receiving>> \o resp[w] /\ \A v \in Readers : v # w => Queue(v) = resp[v]
    BY <1>2 DEF Queue
  <1>5. Queue(w) # <<>> /\ Queue(w)[1] = receiving /\ resp[w] = Tail(Queue(w))
    BY <1>3, <1>4, InFront
  <1> QED
    BY <1>1, <1>2, <1>4, <1>5

\* The large answer that comes is the one announced, if none was lost.
LEMMA ReceiveStep ==
  ASSUME RingInv, ExecutorInv, Receive
  PROVE  ExecutorInv'
  <1>1. CallInv /\ SocketInv /\ AnswersInv
    BY DEF ExecutorInv
  <1>2. receiving # 0
    BY DEF Receive
  <1>3. PICK w \in Readers : w = reads[1].worker /\ w = Head(reads).worker
    BY <1>1, <1>2, ReceivingFirst
  <1>4. /\ reads # <<>> /\ Queue(w) # <<>> /\ Queue(w)[1] = receiving /\ resp[w] = Tail(Queue(w))
        /\ \A v \in Readers : v # w => Queue(v) = resp[v]
    BY <1>1, <1>2, <1>3, ReceivingFirst
  <1>5. /\ resp \in [Readers -> Seq(Nat)] /\ resp_sock \in [Readers -> Seq(Nat)]
        /\ resp_sock[w] \in Seq(Nat) /\ sending[w] \in Nat
    BY <1>1 DEF CallInv, CallType, SocketInv, SocketType
  <1>6. resp_sock[w] # <<>> /\ resp_sock' = [resp_sock EXCEPT ![w] = Tail(@)]
    BY <1>3 DEF Receive
  <1>7. PICK m : m = resp_sock[w][1]
    OBVIOUS
  <1>8. Head(resp_sock[w]) = m /\ Tail(resp_sock[w]) \in Seq(Nat)
    BY <1>5, <1>6, <1>7, TailFacts
  <1>9. Answer(w, receiving, m) /\ receiving' = 0
    BY <1>3, <1>8 DEF Receive, Answer, EndRead
  <1>10. UNCHANGED <<calls, done, got, msg, lost, sending, resp, failed>>
    BY DEF Receive, ring
  <1>11. /\ resp_sock'[w] = Tail(resp_sock[w]) /\ \A v \in Readers : v # w => resp_sock'[v] = resp_sock[v]
         /\ resp_sock' \in [Readers -> Seq(Nat)]
    BY <1>5, <1>6, <1>8
  <1>12. Queue(w)' = Tail(Queue(w)) /\ \A v \in Readers : v # w => Queue(v)' = Queue(v)
    BY <1>4, <1>9, <1>10 DEF Queue
  <1>13. ASSUME lost[w] = 0
         PROVE  m = Queue(w)[1] /\ Stream(Queue(w)', resp_sock'[w], sending[w], failed[w])
    <2>1. PICK q \in Seq(Nat) : q = Queue(w)
      BY <1>1, QueueTyped DEF CallInv
    <2>2. Stream(q, resp_sock[w], sending[w], failed[w])
      BY <1>1, <1>13, <2>1 DEF SocketInv, Streams
    <2>3. q # <<>> /\ q[1] # 0 /\ q[1] \in LargeAnswers \ failed[w]
      BY <1>1, <1>2, <1>3, <1>4, <2>1 DEF SocketInv, Announced, IsLarge
    <2>4. resp_sock[w][1] = q[1] /\ Stream(Tail(q), Tail(resp_sock[w]), sending[w], failed[w])
      BY <1>5, <1>6, <2>2, <2>3, StreamReceive
    <2> QED
      BY <1>7, <1>11, <1>12, <2>1, <2>4
  <1>14. Answer(w, Queue(w)[1], m)
    BY <1>4, <1>9
  <1>15. resp' \in [Readers -> Seq(Nat)]
    BY <1>5, <1>10
  <1> QED
    BY <1>1, <1>3, <1>4, <1>10, <1>11, <1>12, <1>13, <1>14, <1>15, AnswerStep

\* A read that times out leaves an answer behind: chunk and all, or only the large part.
LEMMA TimeOutStep ==
  ASSUME RingInv, ExecutorInv, TimeOut
  PROVE  ExecutorInv'
  <1>1. CallInv /\ SocketInv /\ AnswersInv
    BY DEF ExecutorInv
  <1>2. reads # <<>>
    BY DEF TimeOut
  <1>3. PICK w \in Readers : w = reads[1].worker /\ Head(reads) = reads[1]
    BY <1>1, <1>2, FirstRead
  <1>n. PICK left : left = Unread(reads[1].call, w) \cup (IF receiving = 0 THEN {w} ELSE {})
    OBVIOUS
  <1>4. EndRead(TRUE, left)
    BY <1>3, <1>n DEF TimeOut
  <1>5. /\ UNCHANGED <<calls, done, got, msg, answers, resp, resp_sock, sending, failed>>
        /\ lost' = IF receiving = 0 THEN lost ELSE [lost EXCEPT ![w] = @ + 1]
    BY <1>3 DEF TimeOut, worker, ring
  <1>6. w \notin Unread(reads[1].call, w) /\ receiving' = 0
    BY <1>4 DEF Unread, EndRead
  <1>7. \A v \in Readers : v # w => (v \in left <=> v \in Unread(reads[1].call, w))
    BY <1>n
  <1>8. /\ \A v \in Readers : v # w => Queue(v)' = Queue(v)
        /\ receiving = 0 => w \in left /\ Queue(w)' = Queue(w)
        /\ receiving # 0 => /\ w \notin left /\ Queue(w) # <<>> /\ Queue(w)' = Tail(Queue(w))
    <2>1. CASE receiving = 0
      BY <1>5, <1>6, <1>n, <2>1 DEF Queue
    <2>2. CASE receiving # 0
      <3>1. /\ Queue(w) # <<>> /\ resp[w] = Tail(Queue(w))
            /\ \A v \in Readers : v # w => Queue(v) = resp[v]
        BY <1>1, <1>3, <2>2, ReceivingFirst
      <3>2. \A v \in Readers : Queue(v)' = resp[v]
        BY <1>5, <1>6 DEF Queue
      <3> QED
        BY <1>6, <1>n, <2>2, <3>1, <3>2
    <2> QED
      BY <2>1, <2>2
  <1>9. /\ WorkerAt'
        /\ IF w \in left THEN Queue(w)' = Queue(w) ELSE Len(Queue(w)') = Len(Queue(w)) - 1
    <2>1. CASE receiving = 0
      <3>1. \A v \in Readers : Queue(v)' = Queue(v)
        BY <1>8, <2>1
      <3>2. WorkerAt'
        BY <1>1, <1>5, <3>1 DEF CallInv, WorkerAt
      <3> QED
        BY <1>8, <2>1, <3>2
    <2>2. CASE receiving # 0
      BY <1>1, <1>5, <1>8, <2>2, ChunkTaken
    <2> QED
      BY <2>1, <2>2
  <1>10. /\ WaitsFor' /\ EarlierReads' /\ AllAnswers'
         /\ reads' \in Seq([call : Nat \ {0}, worker : Readers]) /\ todo' \in Seq(Readers)
         /\ skipped' \in [Readers -> Nat]
    BY <1>1, <1>2, <1>3, <1>4, <1>5, <1>7, <1>8, <1>9, EndReadStep
  <1>11. CallType'
    BY <1>1, <1>5, <1>6, <1>10 DEF CallInv, CallType
  <1>12. lost' \in [Readers -> Nat] /\ \A v \in Readers : lost'[v] = 0 => Queue(v)' = Queue(v) /\ lost[v] = 0
    <2>1. lost \in [Readers -> Nat]
      BY <1>1 DEF SocketInv, SocketType
    <2>2. CASE receiving = 0
      BY <1>5, <1>8, <2>1, <2>2
    <2>3. CASE receiving # 0
      <3>1. lost' = [lost EXCEPT ![w] = @ + 1]
        BY <1>5, <2>3
      <3>2. lost'[w] # 0 /\ \A v \in Readers : v # w => lost'[v] = lost[v]
        BY <2>1, <3>1
      <3> QED
        BY <1>8, <2>1, <3>1, <3>2
    <2> QED
      BY <2>2, <2>3
  <1>13. SocketInv'
    <2>1. SocketType' /\ Announced'
      BY <1>1, <1>5, <1>6, <1>12 DEF SocketInv, SocketType, Announced
    <2>2. Streams'
      BY <1>1, <1>5, <1>12 DEF SocketInv, Streams
    <2> QED
      BY <2>1, <2>2 DEF SocketInv
  <1>14. AnswersInv'
    BY <1>1, <1>5 DEF AnswersInv
  <1> QED
    BY <1>9, <1>10, <1>11, <1>13, <1>14 DEF ExecutorInv, CallInv

\* get_response takes whatever answer comes next: the chunk is late by exactly the answers
\* that earlier calls left in the queue of this worker, calls of either kind that timed out and
\* utility calls that failed; and unless a read timed out at the socket, the large answer
\* behind the chunk is that of the same call.
THEOREM AnswersLagCorrect == Spec => []AnswersLag
  <1>1. Init => ExecutorInv
    BY InitExecutor
  <1>2. RingInv /\ ExecutorInv /\ [Next]_vars => ExecutorInv'
    <2> SUFFICES ASSUME RingInv, ExecutorInv, [Next]_vars PROVE ExecutorInv'
      OBVIOUS
    <2> QED
      BY CallStep, SubmitStep, GetResponseStep, ReceiveStep, TimeOutStep, DequeueStep, RunStep,
         SendAnswerStep, OtherSteps DEF Next
  <1>3. ExecutorInv => AnswersLag
    BY PlaceIsAsked DEF ExecutorInv, AnswersInv, AnswersLag
  <1> QED
    BY <1>1, <1>2, <1>3, RingAlways, PTL DEF Spec
=============================================================================
