---------------------------- MODULE MessageQueue ----------------------------
(***************************************************************************)
(* The queue between an executor and its workers                           *)
(* (distributed/device_communicators/shm_broadcast.py): a ring of chunks   *)
(* in shared memory, each with a written flag and one flag per reader,     *)
(* that writer and readers poll without a lock.  A message that does not   *)
(* fit a chunk goes through a socket, and the chunk only says so.          *)
(*                                                                         *)
(* A step reads or writes one flag, or the contents of one chunk.  Reads   *)
(* and writes of a byte are taken to be seen in program order.  Messages   *)
(* are numbered in the order in which they are enqueued.                   *)
(***************************************************************************)
EXTENDS Integers, Sequences, FiniteSets

CONSTANTS
  NumReaders,   \* n_reader, all on this host
  MaxChunks,    \* max_chunks
  Large         \* the messages of at least max_chunk_bytes

ASSUME QueueAssumption ==
  /\ NumReaders \in Nat \ {0} /\ MaxChunks \in Nat \ {0}
  /\ Large \subseteq Nat

Readers == 1 .. NumReaders
Chunks == 0 .. MaxChunks - 1

VARIABLES
  written,      \* written_flag of each chunk
  flag,         \* flag[c][r]: reader flags
  chunk,        \* contents: [head, body]
  wpc, widx,    \* the writer: where it is, its current_idx
  clearing,     \* reader flag it clears next
  msg,          \* last message handed to enqueue
  sock,         \* sock[r]: messages under way to r through local_socket
  rpc, ridx,    \* the readers: where each one is, its current_idx
  over,         \* over[r]: overflow, of the chunk last read
  obj,          \* obj[r]: body of the chunk last read
  got           \* got[r]: messages returned by dequeue

ring == <<written, flag, chunk, wpc, widx, clearing, msg, sock, rpc, ridx, over, obj, got>>

InitQueue ==
  /\ written = [c \in Chunks |-> 0]
  /\ flag = [c \in Chunks |-> [r \in Readers |-> 0]]
  /\ chunk = [c \in Chunks |-> [head |-> 0, body |-> 0]]
  /\ wpc = "idle" /\ widx = 0 /\ clearing = 1 /\ msg = 0
  /\ sock = [r \in Readers |-> <<>>]
  /\ rpc = [r \in Readers |-> "idle"]
  /\ ridx = [r \in Readers |-> 0]
  /\ over = [r \in Readers |-> FALSE]
  /\ obj = [r \in Readers |-> 0]
  /\ got = [r \in Readers |-> <<>>]

writer == <<wpc, widx, clearing, msg>>
memory == <<written, flag, chunk, sock>>
readers == <<rpc, ridx, over, obj, got>>

-----------------------------------------------------------------------------
(* enqueue, acquire_write *)

Enqueue ==
  /\ wpc = "idle"
  /\ wpc' = "acquire" /\ msg' = msg + 1
  /\ UNCHANGED <<widx, clearing, memory, readers>>

\* Mutant: a chunk is taken once somebody has read it.
MayWrite_SomeRead(c) == written[c] = 0 \/ \E r \in Readers : flag[c][r] = 1

\* Not written, or read by all.  The flags a reader sets stay set while the writer looks.
MayWrite(c) == written[c] = 0 \/ \A r \in Readers : flag[c][r] = 1

AcquireWrite ==
  /\ wpc = "acquire" /\ MayWrite(widx)
  /\ written' = [written EXCEPT ![widx] = 0]
  /\ wpc' = "head"
  /\ UNCHANGED <<widx, clearing, msg, flag, chunk, sock, readers>>

WriteHead ==
  /\ wpc = "head"
  /\ chunk' = [chunk EXCEPT ![widx].head = IF msg \in Large THEN 1 ELSE 0]
  /\ wpc' = IF msg \in Large THEN "clear" ELSE "body"
  /\ clearing' = 1
  /\ UNCHANGED <<widx, msg, written, flag, sock, readers>>

WriteBody ==
  /\ wpc = "body"
  /\ chunk' = [chunk EXCEPT ![widx].body = msg]
  /\ wpc' = "clear"
  /\ UNCHANGED <<widx, clearing, msg, written, flag, sock, readers>>

ClearFlag ==
  /\ wpc = "clear"
  /\ flag' = [flag EXCEPT ![widx][clearing] = 0]
  /\ clearing' = clearing + 1
  /\ wpc' = IF clearing = NumReaders THEN "mark" ELSE "clear"
  /\ UNCHANGED <<widx, msg, written, chunk, sock, readers>>

\* Mutant: the index runs past the last chunk.
MarkWritten_NoWrap ==
  /\ wpc = "mark"
  /\ written' = [written EXCEPT ![widx] = 1]
  /\ widx' = widx + 1
  /\ wpc' = IF msg \in Large THEN "send" ELSE "idle"
  /\ UNCHANGED <<clearing, msg, flag, chunk, sock, readers>>

MarkWritten ==
  /\ wpc = "mark"
  /\ written' = [written EXCEPT ![widx] = 1]
  /\ widx' = (widx + 1) % MaxChunks
  /\ wpc' = IF msg \in Large THEN "send" ELSE "idle"
  /\ UNCHANGED <<clearing, msg, flag, chunk, sock, readers>>

\* The large message itself, after its chunk was published.
SendLarge ==
  /\ wpc = "send"
  /\ sock' = [r \in Readers |-> Append(sock[r], msg)]
  /\ wpc' = "idle"
  /\ UNCHANGED <<widx, clearing, msg, written, flag, chunk, readers>>

WriterStep ==
  \/ AcquireWrite \/ WriteHead \/ WriteBody \/ ClearFlag \/ MarkWritten \/ SendLarge

-----------------------------------------------------------------------------
(* dequeue, acquire_read *)

\* The reader's own flag is read first; one that is set makes it look again.
LookFlag(r) ==
  /\ rpc[r] = "idle" /\ flag[ridx[r]][r] = 0
  /\ rpc' = [rpc EXCEPT ![r] = "look"]
  /\ UNCHANGED <<ridx, over, obj, got, memory, writer>>

\* Mutant: the flag alone decides.
LookWritten_Not(r) ==
  /\ rpc[r] = "look"
  /\ rpc' = [rpc EXCEPT ![r] = "read"]
  /\ UNCHANGED <<ridx, over, obj, got, memory, writer>>

LookWritten(r) ==
  /\ rpc[r] = "look"
  /\ rpc' = [rpc EXCEPT ![r] = IF written[ridx[r]] = 1 THEN "read" ELSE "idle"]
  /\ UNCHANGED <<ridx, over, obj, got, memory, writer>>

ReadChunk(r) ==
  /\ rpc[r] = "read"
  /\ over' = [over EXCEPT ![r] = chunk[ridx[r]].head = 1]
  /\ obj' = [obj EXCEPT ![r] = chunk[ridx[r]].body]
  /\ rpc' = [rpc EXCEPT ![r] = "release"]
  /\ UNCHANGED <<ridx, got, memory, writer>>

\* Mutant: the flag stays as it was.
Release_NoFlag(r) ==
  /\ rpc[r] = "release"
  /\ ridx' = [ridx EXCEPT ![r] = (@ + 1) % MaxChunks]
  /\ rpc' = [rpc EXCEPT ![r] = IF over[r] THEN "recv" ELSE "idle"]
  /\ got' = IF over[r] THEN got ELSE [got EXCEPT ![r] = Append(@, obj[r])]
  /\ over' = [over EXCEPT ![r] = FALSE] /\ obj' = [obj EXCEPT ![r] = 0]
  /\ UNCHANGED <<written, flag, chunk, sock, writer>>

\* The flag is set and the message is returned, unless it is still to come from the socket.
Release(r) ==
  /\ rpc[r] = "release"
  /\ flag' = [flag EXCEPT ![ridx[r]][r] = 1]
  /\ ridx' = [ridx EXCEPT ![r] = (@ + 1) % MaxChunks]
  /\ rpc' = [rpc EXCEPT ![r] = IF over[r] THEN "recv" ELSE "idle"]
  /\ got' = IF over[r] THEN got ELSE [got EXCEPT ![r] = Append(@, obj[r])]
  /\ over' = [over EXCEPT ![r] = FALSE] /\ obj' = [obj EXCEPT ![r] = 0]
  /\ UNCHANGED <<written, chunk, sock, writer>>

Recv(r) ==
  /\ rpc[r] = "recv" /\ sock[r] # <<>>
  /\ got' = [got EXCEPT ![r] = Append(@, Head(sock[r]))]
  /\ sock' = [sock EXCEPT ![r] = Tail(@)]
  /\ rpc' = [rpc EXCEPT ![r] = "idle"]
  /\ UNCHANGED <<ridx, over, obj, written, flag, chunk, writer>>

ReaderStep(r) ==
  LookFlag(r) \/ LookWritten(r) \/ ReadChunk(r) \/ Release(r) \/ Recv(r)

-----------------------------------------------------------------------------
\* Messages count as sent when their chunk is marked as written.
Published == IF wpc \in {"idle", "send"} THEN msg ELSE msg - 1

\* Positions and flags have their types.
QueueTypeOK ==
  /\ written \in [Chunks -> {0, 1}] /\ flag \in [Chunks -> [Readers -> {0, 1}]]
  /\ widx \in Chunks /\ ridx \in [Readers -> Chunks]
  /\ wpc \in {"idle", "acquire", "head", "body", "clear", "mark", "send"}
  /\ rpc \in [Readers -> {"idle", "look", "read", "release", "recv"}]

\* Between the moment a reader has found a chunk readable and the moment it sets its flag,
\* without any lock, the writer is not in that chunk, and the chunk holds the very next
\* message of this reader, though the ring may have gone round many times.
ChunkIsNextMessage ==
  \A r \in Readers : rpc[r] \in {"read", "release"} =>
    LET c == chunk[ridx[r]]
        next == Len(got[r]) + 1
    IN  /\ written[ridx[r]] = 1
        /\ c.head = (IF next \in Large THEN 1 ELSE 0)
        /\ next \notin Large => c.body = next

\* The ring, the flags and the socket together implement the log.
Log == INSTANCE BroadcastLog WITH Capacity <- MaxChunks + 1,
         sent <- [i \in 1 .. Published |-> i], received <- got
LogSpec == Log!Spec
=============================================================================
