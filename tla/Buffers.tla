------------------------------- MODULE Buffers -------------------------------
(***************************************************************************)
(* Packing values into buffers and unpacking them (buffer_ops/pack.c,      *)
(* unpack.c, internal_functions.c, open_close.c, copy.c): every message of *)
(* SCON, and every payload of an allgather, is a buffer.                   *)
(*                                                                         *)
(* A buffer holds cells, one per byte; a number takes the bytes its type   *)
(* has on the wire, the high one first, so that one too large for them     *)
(* loses its high part as it does in C. A cell has Byte values. Decimal    *)
(* text of a float is nine cells. C strings are sequences that end in 0,   *)
(* <<>> is NULL.                                                           *)
(*                                                                         *)
(* Packing proceeds in pieces, each one a call of                          *)
(* scon_bfrop_buffer_extend. Unpacking takes fields off the front.         *)
(* Allocation succeeds. A caller frees a buffer once all of it is unpacked *)
(* or an unpack failed, as all of them in SCON do.                         *)
(***************************************************************************)
EXTENDS Naturals, SequencesExt

CONSTANTS
    Byte,            \* values of a byte
    InitialSize, Threshold,   \* SCON_BFROP_DEFAULT_INITIAL_SIZE, _THRESHOLD_SIZE
    Bufs,            \* the buffers
    SizeBytes,       \* SizeBytes[b]: sizeof(size_t) where b is packed or unpacked
    Samples,         \* what is packed: [type, vals]
    SecondSamples,   \* those of them that are packed when there is something already
    MaxItems         \* bound on the items that have not been unpacked

VARIABLES
    buf,             \* buf[b]: the scon_buffer_t
    items,           \* items[b]: what was packed and is still in it
    unpacked         \* the last unpack: its result, and what was due

bufferVars == <<buf, items, unpacked>>

\* scon_common.h:203-243. SCON_INT stands for UINT, INT32 for UINT32 and so on
\* where the same functions are registered for both.
TypeNo == [UNDEF |-> 0, BYTE |-> 1, BOOL |-> 2, STRING |-> 3, SIZE |-> 4, PID |-> 5, INT |-> 6,
           INT16 |-> 8, INT32 |-> 9, INT64 |-> 10, UINT32 |-> 14, UINT64 |-> 15, FLOAT |-> 16,
           TIMEVAL |-> 18, TIME |-> 19, BYTE_OBJECT |-> 20, STATUS |-> 52, VALUE |-> 26,
           BUFFER |-> 27, POINTER |-> 28, INFO |-> 29, PROC |-> 31, PROC_RANK |-> 53,
           DATA_RANGE |-> 54, INFO_DIRECTIVES |-> 55, DATA_ARRAY |-> 56, SIGNATURE |-> 201]
TypeOf(n) == CHOOSE t \in DOMAIN TypeNo : TypeNo[t] = n

\* Types packed as an array of numbers, and the bytes of one.
Array == [BOOL |-> 1, BYTE |-> 1, DATA_RANGE |-> 1, INT16 |-> 2, INT32 |-> 4, UINT32 |-> 4,
          PROC_RANK |-> 4, INFO_DIRECTIVES |-> 4, INT64 |-> 8, UINT64 |-> 8]
\* Types packed a number at a time.
Single == [STATUS |-> 4, TIME |-> 8]
\* System types, described by the type they have on the packing side.
RealType(b) == [INT |-> "INT32", PID |-> "UINT32",
                SIZE |-> IF SizeBytes[b] = 8 THEN "UINT64" ELSE "UINT32"]

-----------------------------------------------------------------------------
\* The w low bytes of a number, high byte first.
Bytes(v, w) == [i \in 1..w |-> (v \div Byte^(w - i)) % Byte]
Number(cells) == FoldLeft(LAMBDA n, c : n * Byte + c, 0, cells)

\* store_data_type and pack_datatype: two bytes, whatever the field is. A type
\* is one byte, the other is the byte behind it in memory and nobody looks at it.
TypeCells(t) == Bytes(TypeNo[t], 2)

\* asprintf("%f"): a value in units of a third of a microunit is rounded to them.
\* Mutant: cut off.
Text_cut(v) == Bytes(v \div 3, 8) \o <<0>>
Text(v) == Bytes((v + 1) \div 3, 8) \o <<0>>
Value(text) == 3 * Number(SubSeq(text, 1, 8))

Each(vals, op(_)) == FlattenSeq([i \in DOMAIN vals |-> op(vals[i])])

\* Fields that need nothing but their value.
NumberPieces(t, vals) == <<FlattenSeq([i \in DOMAIN vals |-> Bytes(vals[i], Array[t])])>>
SinglePieces(t, vals) == [i \in DOMAIN vals |-> Bytes(vals[i], Single[t])]
TimevalPieces(vals) == [i \in DOMAIN vals |-> Bytes(vals[i].sec, 8) \o Bytes(vals[i].usec, 8)]
StringPieces(str) == IF str = <<>> THEN <<Bytes(0, 4)>> ELSE <<Bytes(Len(str), 4), str>>
ProcPieces(proc) == StringPieces(proc.job) \o <<Bytes(proc.rank, 4)>>
PointerPieces == <<<<1>>>>
SignaturePieces(sig) ==
    <<Bytes(sig.handle, 2), Bytes(Len(sig.procs), 2)>> \o Each(sig.procs, ProcPieces)
    \o <<Bytes(sig.seq, 2)>>

\* scon_bfrop_pack_buffer: what a buffer gets on host b, described or not.
RECURSIVE Pieces(_, _, _, _)
Described(b, desc, t, vals) ==
    (IF desc THEN <<TypeCells(t)>> ELSE <<>>) \o Pieces(b, desc, t, vals)
SystemPieces(b, desc, t, vals) ==
    <<TypeCells(RealType(b)[t])>> \o Described(b, desc, RealType(b)[t], vals)
BytesPieces(b, desc, bytes) ==
    SystemPieces(b, desc, "SIZE", <<Len(bytes)>>) \o IF bytes = <<>> THEN <<>> ELSE <<bytes>>
ValPieces(b, desc, v) ==
    IF v.type = "UNDEF" THEN <<>> ELSE Described(b, desc, v.type, <<v.data>>)
ValuePieces(b, desc, v) == <<TypeCells(v.type)>> \o ValPieces(b, desc, v)
InfoPieces(b, desc, v) ==
    StringPieces(v.key) \o <<Bytes(v.flags, 4)>>
    \o SystemPieces(b, desc, "INT", <<TypeNo[v.value.type]>>) \o ValPieces(b, desc, v.value)
ArrayPieces(b, desc, v) ==
    <<TypeCells(v.type)>> \o SystemPieces(b, desc, "SIZE", <<Len(v.array)>>)
    \o IF v.array = <<>> THEN <<>> ELSE Described(b, desc, v.type, v.array)

\* The pack function that scon_bfrop_open registers for a type.
Pieces(b, desc, t, vals) ==
    CASE t \in DOMAIN Array -> NumberPieces(t, vals)
      [] t \in DOMAIN Single -> SinglePieces(t, vals)
      [] t = "TIMEVAL" -> TimevalPieces(vals)
      [] t = "STRING" -> Each(vals, StringPieces)
      [] t = "FLOAT" -> Each(vals, LAMBDA v : StringPieces(Text(v)))
      [] t \in DOMAIN RealType(b) -> SystemPieces(b, desc, t, vals)
      [] t = "POINTER" -> PointerPieces
      [] t = "PROC" -> Each(vals, ProcPieces)
      [] t \in {"BYTE_OBJECT", "BUFFER"} -> Each(vals, LAMBDA v : BytesPieces(b, desc, v))
      [] t = "VALUE" -> Each(vals, LAMBDA v : ValuePieces(b, desc, v))
      [] t = "INFO" -> Each(vals, LAMBDA v : InfoPieces(b, desc, v))
      [] t = "DATA_ARRAY" -> Each(vals, LAMBDA v : ArrayPieces(b, desc, v))
      [] t = "SIGNATURE" -> Each(vals, SignaturePieces)

\* scon_bfrop_pack: the number of values goes first.
PackPieces(b, desc, item) ==
    (IF desc THEN <<TypeCells("INT32")>> ELSE <<>>) \o <<Bytes(Len(item.vals), 4)>>
    \o Described(b, desc, item.type, item.vals)

-----------------------------------------------------------------------------
(***************************************************************************)
(* Unpacking: what a function gives for n values, and the cells it leaves. *)
(***************************************************************************)
Got(vals, rest) == [rc |-> "SUCCESS", vals |-> vals, rest |-> rest]
Failed(rc, rest) == [rc |-> rc, vals |-> <<>>, rest |-> rest]

\* scon_bfrop_too_small.
TooSmall(s, n) == Len(s) < n

\* A field and then what comes of it; a failure is passed on.
Then(r, op(_)) == IF r.rc = "SUCCESS" THEN op(r) ELSE r
\* n times the same.
Repeat(n, s, one(_)) ==
    FoldLeft(LAMBDA a, i : Then(a, LAMBDA x :
                 LET r == one(x.rest)
                 IN IF r.rc = "SUCCESS" THEN Got(x.vals \o r.vals, r.rest) ELSE r),
             Got(<<>>, s), [i \in 1..n |-> i])

Numbers(s, n, w) ==
    IF TooSmall(s, n * w) THEN Failed("READ_PAST_END_OF_BUFFER", s)
    ELSE Got([i \in 1..n |-> Number(SubSeq(s, w * (i - 1) + 1, w * i))], SubSeq(s, n * w + 1, Len(s)))

\* get_data_type.
TypeCellsOff(s) == Then(Numbers(s, 1, 2), LAMBDA r : Got(<<TypeOf(r.vals[1])>>, r.rest))

OneString(s) == Then(Numbers(s, 1, 4), LAMBDA r :
    IF r.vals[1] = 0 THEN Got(<<<<>>>>, r.rest)
    ELSE Then(Numbers(r.rest, r.vals[1], 1), LAMBDA c : Got(<<c.vals>>, c.rest)))
\* The bytes of a float are asked for before its text is looked at.
Floats(s, n) ==
    IF TooSmall(s, 4 * n) THEN Failed("READ_PAST_END_OF_BUFFER", s)
    ELSE Repeat(n, s, LAMBDA c : Then(OneString(c), LAMBDA r : Got(<<Value(r.vals[1])>>, r.rest)))
OneTimeval(s) == Then(Numbers(s, 2, 8), LAMBDA r :
    Got(<<[sec |-> r.vals[1], usec |-> r.vals[2]]>>, r.rest))
Timevals(s, n) ==
    IF TooSmall(s, 16 * n) THEN Failed("READ_PAST_END_OF_BUFFER", s) ELSE Repeat(n, s, OneTimeval)
Pointers(s, n) == Then(Numbers(s, 1, 1), LAMBDA r : Got([i \in 1..n |-> "untouched"], r.rest))
OneProc(s) == Then(OneString(s), LAMBDA j :
    IF j.vals[1] = <<>> THEN Failed("ERROR", j.rest)
    ELSE Then(Numbers(j.rest, 1, 4), LAMBDA r :
             Got(<<[job |-> j.vals[1], rank |-> r.vals[1]]>>, r.rest)))

RECURSIVE Taken(_, _, _, _, _)
\* scon_bfrop_unpack_buffer.
TakenDescribed(b, desc, t, n, s) ==
    IF desc
    THEN Then(TypeCellsOff(s), LAMBDA r :
             IF r.vals[1] = t THEN Taken(b, desc, t, n, r.rest) ELSE Failed("PACK_MISMATCH", r.rest))
    ELSE Taken(b, desc, t, n, s)

\* A system type; numbers of another width are converted, which loses what does
\* not fit (UNPACK_SIZE_MISMATCH).
TakenSystem(b, desc, t, n, s) ==
    Then(TypeCellsOff(s), LAMBDA remote :
        IF remote.vals[1] \notin DOMAIN Array THEN Failed("NOT_FOUND", remote.rest)
        ELSE Then(TakenDescribed(b, desc, remote.vals[1], n, remote.rest), LAMBDA r :
                 Got([i \in DOMAIN r.vals |-> Number(Bytes(r.vals[i], Array[RealType(b)[t]]))],
                     r.rest)))
TakenVal(b, desc, t, s) ==
    IF t = "UNDEF" THEN Got(<<[type |-> t, data |-> 0]>>, s)
    ELSE Then(TakenDescribed(b, desc, t, 1, s), LAMBDA r :
             Got(<<[type |-> t, data |-> r.vals[1]]>>, r.rest))
OneValue(b, desc, s) == Then(TypeCellsOff(s), LAMBDA r : TakenVal(b, desc, r.vals[1], r.rest))
OneBytes(b, desc, s) == Then(TakenSystem(b, desc, "SIZE", 1, s), LAMBDA r :
    Then(Numbers(r.rest, r.vals[1], 1), LAMBDA c : Got(<<c.vals>>, c.rest)))
OneInfo(b, desc, s) ==
    Then(OneString(s), LAMBDA key :
        IF key.vals[1] = <<>> THEN Failed("ERROR", key.rest)
        ELSE Then(Numbers(key.rest, 1, 4), LAMBDA fl :
             Then(TakenSystem(b, desc, "INT", 1, fl.rest), LAMBDA ty :
             Then(TakenVal(b, desc, TypeOf(ty.vals[1]), ty.rest), LAMBDA v :
                 Got(<<[key |-> key.vals[1], flags |-> fl.vals[1], value |-> v.vals[1]]>>, v.rest)))))
OneArray(b, desc, s) ==
    Then(TypeCellsOff(s), LAMBDA ty :
        Then(TakenSystem(b, desc, "SIZE", 1, ty.rest), LAMBDA n :
            IF n.vals[1] = 0 THEN Got(<<[type |-> ty.vals[1], array |-> <<>>]>>, n.rest)
            ELSE Then(TakenDescribed(b, desc, ty.vals[1], n.vals[1], n.rest), LAMBDA r :
                     Got(<<[type |-> ty.vals[1], array |-> r.vals]>>, r.rest))))
OneSignature(s) ==
    Then(Numbers(s, 2, 2), LAMBDA h :
        Then(Repeat(h.vals[2], h.rest, OneProc), LAMBDA ps :
            Then(Numbers(ps.rest, 1, 2), LAMBDA q :
                Got(<<[handle |-> h.vals[1], procs |-> ps.vals, seq |-> q.vals[1]]>>, q.rest))))

\* The unpack function registered for a type.
Taken(b, desc, t, n, s) ==
    CASE t \in DOMAIN Array -> Numbers(s, n, Array[t])
      [] t \in DOMAIN Single -> Numbers(s, n, Single[t])
      [] t = "TIMEVAL" -> Timevals(s, n)
      [] t = "STRING" -> Repeat(n, s, OneString)
      [] t = "FLOAT" -> Floats(s, n)
      [] t \in DOMAIN RealType(b) -> TakenSystem(b, desc, t, n, s)
      [] t = "POINTER" -> Pointers(s, n)
      [] t = "PROC" -> Repeat(n, s, OneProc)
      [] t \in {"BYTE_OBJECT", "BUFFER"} -> Repeat(n, s, LAMBDA c : OneBytes(b, desc, c))
      [] t = "VALUE" -> Repeat(n, s, LAMBDA c : OneValue(b, desc, c))
      [] t = "INFO" -> Repeat(n, s, LAMBDA c : OneInfo(b, desc, c))
      [] t = "DATA_ARRAY" -> Repeat(n, s, LAMBDA c : OneArray(b, desc, c))
      [] t = "SIGNATURE" -> Repeat(n, s, OneSignature)

(***************************************************************************)
(* scon_bfrop_unpack into room for n values: with more values than that in *)
(* the buffer it takes n and says so, and the buffer cannot be used again. *)
(***************************************************************************)
Fitting(r, n) ==
    LET m == r.vals[1] IN IF m > n THEN n ELSE m
UnpackResult(b, desc, t, n, s) ==
    IF n = 0 THEN Failed("INADEQUATE_SPACE", s)
    ELSE LET count == IF desc
                      THEN Then(TypeCellsOff(s), LAMBDA ty :
                               IF ty.vals[1] # "INT32" THEN Failed("UNPACK_FAILURE", ty.rest)
                               ELSE Numbers(ty.rest, 1, 4))
                      ELSE Numbers(s, 1, 4)
         IN Then(count, LAMBDA c :
                Then(TakenDescribed(b, desc, t, Fitting(c, n), c.rest), LAMBDA r :
                    [r EXCEPT !.rc = IF c.vals[1] > n THEN "INADEQUATE_SPACE" ELSE @]))

-----------------------------------------------------------------------------
Nothing == [rc |-> "NONE"]
Used(b) == Len(buf[b].cells)
Constructed(desc) == [desc |-> desc, base |-> FALSE, cells |-> <<>>, read |-> 0, allocated |-> 0]

\* scon_bfrop_buffer_extend.
Required(b, used, n) == used + n
Doubled(from, required) ==
    LET twice[m \in Nat] == IF m >= required THEN m ELSE twice[2 * m] IN twice[from]
Extended(allocated, required) ==
    CASE allocated >= required -> allocated
      [] required >= Threshold -> Threshold * ((required + Threshold - 1) \div Threshold)
      [] OTHER -> Doubled(IF allocated = 0 THEN InitialSize ELSE allocated, required)

\* What is allocated after the pieces.
Grown(b, pieces) ==
    FoldLeft(LAMBDA a, p : [alloc |-> Extended(a.alloc, Required(b, a.used, Len(p))),
                            used |-> a.used + Len(p)],
             [alloc |-> buf[b].allocated, used |-> Used(b)], pieces).alloc

\* Without a data area extend hands out NULL when it believes there is room:
\* after an unload, which keeps bytes_allocated.
NoArea(b, n) == ~buf[b].base /\ buf[b].allocated - Used(b) >= n

\* Bound: the items in all buffers, with n more.
Bounded(n) == FoldFunction(LAMBDA q, m : Len(q) + m, n, items) <= MaxItems

\* A buffer is filled before it is read.
Filling(b) == buf[b].read = 0

Added(b, pieces) ==
    [buf[b] EXCEPT !.base = TRUE, !.cells = @ \o FlattenSeq(pieces), !.allocated = Grown(b, pieces)]

Extend(b, item, pieces) ==
    IF NoArea(b, Len(pieces[1]))
    THEN UNCHANGED <<buf, items>>                  \* SCON_ERR_OUT_OF_RESOURCE
    ELSE /\ buf' = [buf EXCEPT ![b] = Added(b, pieces)]
         /\ items' = [items EXCEPT ![b] = Append(@, item)]
Pack(b, item) ==
    /\ Filling(b) /\ Bounded(1)
    /\ Extend(b, item, PackPieces(b, buf[b].desc, item))
    /\ unpacked' = Nothing

\* The cells that have not been unpacked.
Ahead(b) == SubSeq(buf[b].cells, buf[b].read + 1, Used(b))

Advance(b, t, r, left) ==
    /\ unpacked' = [rc |-> r.rc, type |-> t, got |-> r.vals, due |-> Head(items[b])]
    /\ items' = [items EXCEPT ![b] = left]
    /\ buf' = [buf EXCEPT ![b] = IF left = <<>> THEN Constructed(@.desc)
                                ELSE [@ EXCEPT !.read = Used(b) - Len(r.rest)]]
Unpack(b, t, n) ==
    /\ buf[b].desc \/ t = Head(items[b]).type
    /\ \E r \in {UnpackResult(b, buf[b].desc, t, n, Ahead(b))} :
          Advance(b, t, r, CASE r.rc = "SUCCESS" -> Tail(items[b])
                             [] n = 0 -> items[b]
                             [] OTHER -> <<>>)

(***************************************************************************)
(* scon_buffer_unload of one buffer and scon_buffer_load of its payload    *)
(* into another: a message. If part of it was unpacked, the rest is copied *)
(* and stays. An empty payload is NULL.                                    *)
(***************************************************************************)
Unloaded(b) ==
    IF Used(b) = 0 \/ buf[b].read > 0 THEN buf[b]
    ELSE [buf[b] EXCEPT !.base = FALSE, !.cells = <<>>]
Transfer(a, b) ==
    /\ a # b /\ buf[a].desc = buf[b].desc
    /\ buf' = [buf EXCEPT ![a] = Unloaded(a),
                          ![b] = [Constructed(buf[b].desc) EXCEPT
                                    !.base = Ahead(a) # <<>>, !.cells = Ahead(a),
                                    !.allocated = Len(Ahead(a))]]
    /\ items' = [items EXCEPT ![b] = items[a],
                              ![a] = IF Unloaded(a).cells = <<>> THEN <<>> ELSE @]
    /\ unpacked' = Nothing

\* scon_bfrop_copy_payload: fails for a buffer of the other kind, and for
\* nothing copied into a buffer that never held anything.
CopyPayload(a, b) ==
    /\ a # b /\ Filling(b) /\ Bounded(Len(items[a]))
    /\ LET same == ~buf[b].base \/ buf[b].desc = buf[a].desc
       IN IF ~same THEN UNCHANGED <<buf, items>>
          ELSE IF NoArea(b, Len(Ahead(a)))
               THEN buf' = [buf EXCEPT ![b].desc = buf[a].desc] /\ UNCHANGED items
               ELSE /\ buf' = [buf EXCEPT ![b] = [Added(b, <<Ahead(a)>>) EXCEPT
                                                    !.desc = buf[a].desc]]
                    /\ items' = [items EXCEPT ![b] = @ \o items[a]]
    /\ unpacked' = Nothing

BufferInit ==
    /\ \E d \in [Bufs -> BOOLEAN] : buf = [b \in Bufs |-> Constructed(d[b])]
    /\ items = [b \in Bufs |-> <<>>]
    /\ unpacked = Nothing

BufferNext ==
    \/ \E b \in Bufs, item \in Samples :
           /\ item \in SecondSamples \/ \A q \in Bufs : items[q] = <<>>
           /\ Pack(b, item)
    \/ \E b \in Bufs : items[b] # <<>> /\
           \E t \in {item.type : item \in SecondSamples \cup {Head(items[b])}}, n \in {0, 1, 3} : Unpack(b, t, n)
    \/ \E a, b \in Bufs : Transfer(a, b) \/ CopyPayload(a, b)

BufferSpec == BufferInit /\ [][BufferNext]_bufferVars
-----------------------------------------------------------------------------
BufferTypeOK ==
    \A b \in Bufs :
        /\ buf[b].desc \in BOOLEAN /\ buf[b].base \in BOOLEAN
        /\ \A i \in DOMAIN buf[b].cells : buf[b].cells[i] \in 0..(Byte - 1)
        /\ items[b] \in Seq(Samples) /\ Len(items[b]) <= MaxItems

\* The pointers stay inside the data area, which is never written past its end,
\* whatever order buffers are packed, sent, copied and unpacked in.
InsideArea == \A b \in Bufs :
    /\ buf[b].read <= Used(b)
    /\ Used(b) <= buf[b].allocated
    /\ Used(b) > 0 => buf[b].base

\* What an unpack yields is what was packed first: the same values, also after
\* buffers were sent on and appended to each other, on hosts of another width.
\* A float comes back rounded to six decimals, a pointer does not come back.
Lossy(t, v) == CASE t = "FLOAT" -> 3 * ((v + 1) \div 3)
                 [] t = "POINTER" -> "untouched"
                 [] OTHER -> v
RoundTrip == unpacked.rc = "SUCCESS" =>
    unpacked.got = [i \in DOMAIN unpacked.due.vals |-> Lossy(unpacked.type, unpacked.due.vals[i])]

\* Asking for the right type with enough room never fails, so no item is lost to
\* the framing of the one before it; asking for another type always does.
OnlyRightTypes == unpacked.rc # "NONE" =>
    /\ unpacked.rc = "SUCCESS" => unpacked.type = unpacked.due.type
    /\ unpacked.type = unpacked.due.type => unpacked.rc \in {"SUCCESS", "INADEQUATE_SPACE"}

\* What is packed in one buffer is unpacked from another, with the type it was
\* packed with, without a byte outside of either.
BuffersHold == BufferTypeOK /\ InsideArea /\ RoundTrip /\ OnlyRightTypes
=============================================================================
