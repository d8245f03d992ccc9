---------------------------- MODULE SocketBuffer ----------------------------
(***************************************************************************)
(* The buffer of received bytes of connection/lua-socket.c: bytes are      *)
(* pushed as they arrive (_push) and taken by number (_read), up to a      *)
(* separator (_readline) or as blocks behind a length (_readblock), which  *)
(* the other side has written (_writeblock).  A byte has Base values       *)
(* instead of 256.                                                         *)
(***************************************************************************)
EXTENDS Common, Integers, SequencesExt

CONSTANTS
    Base,           \* values of a byte
    HeaderSize,     \* sizes of a header, 2 or 4
    MaxBlock,       \* longest block, for blocks behind 4 bytes
    MaxPush,        \* most bytes that arrive at once
    Separator       \* of _readline

Byte == 0..Base - 1

VARIABLES
    memory,         \* buffer->buffer, as long as it was allocated
    cap, size, read,
    header,         \* size of the headers, the same on both sides
    wire,           \* bytes on the way
    stream,         \* history: bytes pushed and not taken
    written, taken, \* history: blocks written, with their headers, and taken
    tooLong         \* history: a block longer than the length that _readblock keeps

socketBufferVars == <<memory, cap, size, read, header, wire, stream, written, taken, tooLong>>

\* _new
SocketBufferInit ==
    /\ memory = <<>> /\ cap = 0 /\ size = 0 /\ read = 0 /\ header \in HeaderSize
    /\ wire = <<>> /\ stream = <<>> /\ written = <<>> /\ taken = <<>> /\ tooLong = FALSE

-----------------------------------------------------------------------------
(* The other side *)

\* The length in the bytes of the header, the highest first.
Head2(sz) == <<(sz \div Base) % Base, sz % Base>>
Head4(sz) == Head2(sz \div (Base * Base)) \o Head2(sz)

Header(h, sz) == IF h = 2 THEN Head2(sz) ELSE Head4(sz)

\* A block of n equal bytes; one that is too big for two bytes is refused.
\* The other side writes blocks from the beginning or not at all.
WriteBlock(n, b) ==
    /\ Use("block")
    /\ written # <<>> \/ (wire = <<>> /\ stream = <<>> /\ taken = <<>>)
    /\ header = 2 => n < Base * Base
    /\ wire' = wire \o Header(header, n) \o [i \in 1..n |-> b]
    /\ written' = Append(written, [i \in 1..n |-> b])
    /\ tooLong' = (tooLong \/ n >= Base * Base)
    /\ UNCHANGED <<memory, cap, size, read, header, stream, taken>>

\* Bytes that are not blocks.
WriteBytes(bytes) ==
    /\ Use("bytes") /\ written = <<>>
    /\ wire' = wire \o bytes
    /\ UNCHANGED <<memory, cap, size, read, header, stream, written, taken, tooLong>>

-----------------------------------------------------------------------------
(* The buffer *)

\* memcpy or memmove; bytes outside the allocated memory are not kept.
Copied(mem, at, bytes) ==
    [i \in DOMAIN mem |-> IF i > at /\ i <= at + Len(bytes) THEN bytes[i - at] ELSE mem[i]]

\* realloc or malloc: what is there first, then anything.
Allocated(bytes, n) == bytes \o [i \in 1..n - Len(bytes) |-> 0]

Unread == SubSeq(memory, read + 1, size)

\* Mutant: the unread bytes are moved and read keeps its value.
MovedOnly(bytes) ==
    /\ memory' = Copied(memory, 0, Unread \o bytes)
    /\ read' = read /\ size' = size - read + Len(bytes) /\ cap' = cap

\* The unread bytes are moved to the front.
Moved(bytes) ==
    /\ memory' = Copied(memory, 0, Unread \o bytes)
    /\ read' = 0 /\ size' = size - read + Len(bytes) /\ cap' = cap

\* More memory; cap is raised only when nothing has been read.
Grown(bytes) ==
    LET old == size - read IN
    /\ memory' = Copied(Allocated(Unread, old + Len(bytes)), old, bytes)
    /\ cap' = IF read = 0 THEN old + Len(bytes) ELSE cap
    /\ read' = 0 /\ size' = old + Len(bytes)

Added(bytes) ==
    /\ memory' = Copied(memory, size, bytes)
    /\ size' = size + Len(bytes)
    /\ UNCHANGED <<read, cap>>

\* The bytes go behind the unread ones, where there is room.
Stored(bytes) ==
    LET n == Len(bytes)
        old == size - read
    IN  \/ n + old > cap /\ Grown(bytes)
        \/ n + old <= cap /\ size + n > cap /\ Moved(bytes)
        \/ n + old <= cap /\ size + n <= cap /\ Added(bytes)

\* _push
Push(n) ==
    /\ n <= Len(wire)
    /\ Stored(SubSeq(wire, 1, n))
    /\ wire' = SubSeq(wire, n + 1, Len(wire))
    /\ stream' = stream \o SubSeq(wire, 1, n)
    /\ UNCHANGED <<header, written, taken, tooLong, left>>

\* Bytes are taken: what the reader gets, and how far read moves.
Takes(got, n) ==
    /\ read' = read + n
    /\ stream' = SubSeq(stream, n + 1, Len(stream))
    /\ taken' = Append(taken, got)
    /\ UNCHANGED <<memory, cap, size, header, wire, written, tooLong, left>>

\* _read
Read(need) ==
    /\ written = <<>>
    /\ need <= size - read
    /\ Takes(SubSeq(memory, read + 1, read + need), need)

\* _readline: up to the first separator, which is taken too.
Readline ==
    /\ written = <<>>
    /\ \E i \in read..size - Len(Separator) :
         /\ IsPrefix(Separator, SubSeq(memory, i + 1, size))
         /\ \A j \in read..i - 1 : ~IsPrefix(Separator, SubSeq(memory, j + 1, size))
         /\ Takes(SubSeq(memory, read + 1, i), i - read + Len(Separator))

\* All of the block has arrived.
WholeBlock(len) == size - read >= header + len

\* A byte of the header; behind the end it is any value.
HeaderByte(i) == IF read + i <= size THEN {memory[read + i]} ELSE Byte

\* The length, kept in 16 bits, that is two bytes.
Length ==
    {(IF header = 2 THEN b1 * Base + b2 ELSE b3 * Base + b4) % (Base * Base) :
       b1 \in HeaderByte(1), b2 \in HeaderByte(2), b3 \in HeaderByte(3), b4 \in HeaderByte(4)}

\* _readblock; the function it is given may fail: then the block is still
\* there.
Readblock ==
    /\ written # <<>>
    /\ size - read >= 2
    /\ \E len \in Length :
         /\ WholeBlock(len)
         /\ Takes(SubSeq(memory, read + header + 1, read + header + len), header + len)

SocketBufferNext ==
    \/ \E n \in 0..MaxBlock, b \in Byte : WriteBlock(n, b)
    \/ \E b \in Byte, c \in Byte : WriteBytes(<<b, c>>)
    \/ \E n \in 0..MaxPush : Push(n)
    \/ \E n \in 1..2 : Read(n)
    \/ Readline
    \/ Readblock

-----------------------------------------------------------------------------
(* Properties *)

\* However the bytes arrive, and however the memory is reused, moved and
\* grown, the reader finds what was pushed, inside the memory that was
\* allocated, and takes the blocks that were written.  Blocks longer than
\* 16 bits, which _readblock cannot take, are excused.
StreamKept ==
    /\ read <= size /\ size <= Len(memory) /\ cap <= Len(memory)
    /\ Unread = stream
    /\ written # <<>> /\ ~tooLong => IsPrefix(taken, written)

-----------------------------------------------------------------------------
(* The inductive invariant *)

BufferAssumption ==
    /\ Base \in Nat \ {0} /\ HeaderSize \subseteq {2, 4}
    /\ MaxBlock \in Nat /\ MaxPush \in Nat /\ Separator \in Seq(Int)

MemoryType == memory \in Seq(Int) /\ cap \in Nat /\ size \in Nat /\ read \in Nat

BufferTypeOK ==
    /\ MemoryType
    /\ wire \in Seq(Int) /\ stream \in Seq(Int)
    /\ header \in {2, 4} /\ tooLong \in BOOLEAN
    /\ written \in Seq(Seq(Int)) /\ taken \in Seq(Seq(Int))

Bounds == read <= size /\ size <= Len(memory) /\ cap <= Len(memory)

\* The bytes behind position at begin with block and its header of h bytes.
FrameAt(h, bytes, at, block) ==
    /\ \A i \in 1..h : bytes[at + i] = Header(h, Len(block))[i]
    /\ \A i \in 1..Len(block) : bytes[at + h + i] = block[i]

\* The bytes are the blocks behind number first, one after the other; block
\* k ends at cut[k].
Frames(cut, h, bytes, first, blocks) ==
    /\ cut \in [first..Len(blocks) -> Nat]
    /\ cut[first] = 0 /\ cut[Len(blocks)] = Len(bytes)
    /\ \A j, k \in first..Len(blocks) : j <= k => cut[j] <= cut[k]
    /\ \A k \in first..Len(blocks) - 1 :
         /\ cut[k + 1] = cut[k] + h + Len(blocks[k + 1])
         /\ FrameAt(h, bytes, cut[k], blocks[k + 1])

\* What is unread and on the way are the blocks that were not taken.
BlocksLeft ==
    written # <<>> /\ ~tooLong =>
        /\ Len(taken) <= Len(written)
        /\ \A k \in 1..Len(taken) : taken[k] = written[k]
        /\ \A k \in 1..Len(written) : Len(written[k]) < Base * Base
        /\ \E cut \in [Len(taken)..Len(written) -> Nat] :
              Frames(cut, header, stream \o wire, Len(taken), written)

BufferInv == BufferTypeOK /\ Bounds /\ Unread = stream /\ BlocksLeft
=============================================================================
