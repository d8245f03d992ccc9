-------------------------------- MODULE Serial ------------------------------
(***************************************************************************)
(* The serializer of the messages of Lua services (lua-seri.c).  Values    *)
(* are written to a chain of blocks whose first bytes hold the length,     *)
(* copied to one buffer, and read back by the receiver.  A byte has Base   *)
(* values; the byte in front of a value is a pair of its type and a cookie.*)
(* A table is the sequence of its array part, as long as lua_rawlen says,  *)
(* and the sequence of its other pairs, in the order of lua_next.          *)
(***************************************************************************)
EXTENDS Common, Sequences, Integers
LOCAL INSTANCE SequencesExt

CONSTANTS
    Base,           \* 2^8
    MaxCookie,      \* MAX_COOKIE
    BlockSize,      \* BLOCK_SIZE
    MaxDepth,       \* MAX_DEPTH
    PointerSize,    \* sizeof(void *)
    Values,         \* what is packed
    MaxValues       \* bound: arguments of one call

VARIABLES args      \* the arguments of _luaseri_pack

serialVars == <<args>>

SerialInit == args = <<>>

\* _luaseri_pack with one value more.
PackMore ==
    /\ Use("pack") /\ Len(args) < MaxValues
    /\ \E v \in Values : args' = Append(args, v)

SerialNext == PackMore

-----------------------------------------------------------------------------
(* Writing *)

Failed == <<"error">>
Nil == [type |-> "nil"]

\* Little endian, two's complement.
Bytes(v, n) == [i \in 1..n |-> (v \div Base^(i - 1)) % Base]
Opaque(v, n) == [i \in 1..n |-> <<v, i>>]

Tag(type, cookie) == <<<<type, cookie>>>>

wb_integer(v, type) ==
    CASE v = 0 -> Tag(type, 0)
      [] v < 0 \/ v >= Base^2 -> Tag(type, 4) \o Bytes(v, 4)
      [] v > 0 /\ v < Base -> Tag(type, 1) \o Bytes(v, 1)
      [] OTHER -> Tag(type, 2) \o Bytes(v, 2)

wb_string(s) ==
    IF Len(s) < MaxCookie THEN Tag("short", Len(s)) \o s
    ELSE IF Len(s) < Base^2 THEN Tag("long", 2) \o Bytes(Len(s), 2) \o s
    ELSE Tag("long", 4) \o Bytes(Len(s), 4) \o s

\* The bytes of a value, or an error that ends the call.
RECURSIVE PackOne(_, _)

PackAll(vs, depth) ==
    LET parts == [i \in DOMAIN vs |-> PackOne(vs[i], depth)]
    IN  IF \E i \in DOMAIN vs : parts[i] = Failed THEN Failed ELSE FlattenSeq(parts)

\* A mutant: a table with as many elements as the largest cookie says.
TableHeadShort(n) == Tag("table", IF n < MaxCookie THEN n ELSE MaxCookie - 1) \o IF n < MaxCookie THEN <<>> ELSE wb_integer(n, "number")

\* The largest cookie says that the number of elements follows.
TableHead(n) ==
    IF n >= MaxCookie - 1 THEN Tag("table", MaxCookie - 1) \o wb_integer(n, "number") ELSE Tag("table", n)

wb_table(v, depth) ==
    LET array == PackAll(v.array, depth)
        hash  == PackAll(FlattenSeq(v.hash), depth)
    IN  IF Failed \in {array, hash} THEN Failed
        ELSE TableHead(Len(v.array)) \o array \o hash \o Tag("nil", 0)

PackOne(v, depth) ==
    IF depth > MaxDepth THEN Failed
    ELSE CASE v.type = "nil" -> Tag("nil", 0)
           [] v.type = "boolean" -> Tag("boolean", IF v.v THEN 1 ELSE 0)
           [] v.type = "number" -> wb_integer(v.v, "number")
           [] v.type = "double" -> Tag("number", 8) \o Opaque(v.v, 8)
           [] v.type = "userdata" -> Tag("userdata", 0) \o Opaque(v.v, PointerSize)
           [] v.type = "string" -> wb_string(v.v)
           [] v.type = "remote" -> wb_integer(v.v, "remote")
           [] v.type = "table" -> wb_table(v, depth + 1)
           [] OTHER -> Failed

-----------------------------------------------------------------------------
(* Blocks *)

\* wb_push: a block that is full is followed by another.
RECURSIVE wb_push(_, _)
wb_push(blocks, buf) ==
    LET n == Len(blocks) ptr == Len(blocks[n]) copy == BlockSize - ptr
    IN  IF ptr = BlockSize THEN wb_push(Append(blocks, <<>>), buf)
        ELSE IF ptr <= BlockSize - Len(buf) THEN [blocks EXCEPT ![n] = @ \o buf]
        ELSE wb_push(Append([blocks EXCEPT ![n] = @ \o SubSeq(buf, 1, copy)], <<>>), SubSeq(buf, copy + 1, Len(buf)))

\* wb_init and wb_close: the length, its own bytes included, is written over
\* the first bytes at the end.
Filled(bytes) ==
    LET blocks == wb_push(wb_push(<<<<>>>>, Bytes(0, 4)), bytes)
    IN  [blocks EXCEPT ![1] = Bytes(Len(bytes) + 4, 4) \o SubSeq(@, 5, Len(@))]

\* A little endian number.
Value(bs) == FoldLeft(LAMBDA n, i : n + bs[i] * Base^(i - 1), 0, [i \in 1..Len(bs) |-> i])

\* Seri: the rest of the first block, then whole blocks and a part of one.
RECURSIVE Rest(_, _)
Rest(blocks, len) ==
    IF len = 0 THEN <<>>
    ELSE IF len >= BlockSize THEN Head(blocks) \o Rest(Tail(blocks), len - BlockSize)
    ELSE SubSeq(Head(blocks), 1, len)

Seri(blocks) ==
    LET len == Value(SubSeq(blocks[1], 1, 4)) - 4
    IN  IF len < BlockSize - 4 THEN SubSeq(blocks[1], 5, len + 4)
        ELSE SubSeq(blocks[1], 5, BlockSize) \o Rest(Tail(blocks), len - (BlockSize - 4))

Pack(vs) == LET bytes == PackAll(vs, 0) IN IF bytes = Failed THEN Failed ELSE Seri(Filled(bytes))

-----------------------------------------------------------------------------
(* Reading: a value and what is left of the buffer *)

Read(v, b, n) == [v |-> v, b |-> SubSeq(b, n + 1, Len(b))]
Skip(b, n) == SubSeq(b, n + 1, Len(b))

\* One and two bytes are unsigned, four are an int.
GetInteger(b, cookie) ==
    IF cookie = 0 THEN 0
    ELSE LET n == Value(SubSeq(b, 1, cookie - 1)) top == b[cookie]
         IN  n + (IF cookie = 4 /\ top >= Base \div 2 THEN top - Base ELSE top) * Base^(cookie - 1)

RECURSIVE UnpackOne(_)

\* The rest of a table: pairs up to a nil.
RECURSIVE Pairs(_, _)
Pairs(b, hash) ==
    LET k == UnpackOne(b) v == UnpackOne(k.b)
    IN  IF k.v = Nil THEN [v |-> hash, b |-> k.b] ELSE Pairs(v.b, Append(hash, <<k.v, v.v>>))

RECURSIVE Elements(_, _, _)
Elements(b, n, array) ==
    IF n = 0 THEN [v |-> array, b |-> b]
    ELSE LET v == UnpackOne(b) IN Elements(v.b, n - 1, Append(array, v.v))

UnpackTable(b, cookie) ==
    LET long == cookie = MaxCookie - 1
        n == IF long THEN GetInteger(Tail(b), b[1][2]) ELSE cookie
        array == Elements(IF long THEN Skip(b, 1 + b[1][2]) ELSE b, n, <<>>)
        hash == Pairs(array.b, <<>>)
    IN  [v |-> [type |-> "table", array |-> array.v, hash |-> hash.v], b |-> hash.b]

\* _push_value
PushValue(type, cookie, b) ==
    CASE type = "nil" -> Read(Nil, b, 0)
      [] type = "boolean" -> Read([type |-> "boolean", v |-> cookie = 1], b, 0)
      [] type = "number" /\ cookie = 8 -> Read([type |-> "double", v |-> b[1][1]], b, 8)
      [] type = "number" /\ cookie # 8 -> Read([type |-> "number", v |-> GetInteger(b, cookie)], b, cookie)
      [] type = "userdata" -> Read([type |-> "userdata", v |-> b[1][1]], b, PointerSize)
      [] type = "short" -> Read([type |-> "string", v |-> SubSeq(b, 1, cookie)], b, cookie)
      [] type = "long" -> LET len == Value(SubSeq(b, 1, cookie))
                          IN  Read([type |-> "string", v |-> SubSeq(b, cookie + 1, cookie + len)], b, cookie + len)
      [] type = "table" -> UnpackTable(b, cookie)
      [] type = "remote" -> Read([type |-> "remote", v |-> GetInteger(b, cookie)], b, cookie)

UnpackOne(b) == PushValue(b[1][1], b[1][2], Tail(b))

\* _luaseri_unpack: values until the buffer is used up.
RECURSIVE Unpack(_)
Unpack(b) == IF b = <<>> THEN <<>> ELSE LET v == UnpackOne(b) IN <<v.v>> \o Unpack(v.b)

-----------------------------------------------------------------------------
RECURSIVE Packable(_, _)
Packable(v, depth) ==
    /\ v.type # "function" /\ depth <= MaxDepth
    /\ v.type = "table" => \A w \in Range(v.array) \cup Range(FlattenSeq(v.hash)) : Packable(w, depth + 1)

\* What a service sends is what the other receives: whatever widths its
\* numbers and lengths are written in, wherever the blocks end, however
\* deep its tables are; and what cannot be sent is refused as a whole.
RoundTrip ==
    IF \A i \in DOMAIN args : Packable(args[i], 0) THEN Unpack(Pack(args)) = args ELSE Pack(args) = Failed
=============================================================================
