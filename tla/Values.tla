------------------------------- MODULE Values -------------------------------
(***************************************************************************)
(* scon_value_t: loading, copying and freeing values, and the              *)
(* way through PMIx and back (buffer_ops/copy.c, open_close.c,             *)
(* util/scon_pmix.c, the macros of scon_common.h).                         *)
(*                                                                         *)
(* Blocks of the heap are numbers that are never given twice; what is in   *)
(* the heap has not been freed. A value holds a scalar, or the number of   *)
(* a block, 0 for NULL. Texts, names and bytes are numbers too. Scalars of  *)
(* the types that every function treats alike are one type, "plain". The   *)
(* struct of an array, which nothing frees, is not counted.                *)
(***************************************************************************)
EXTENDS Integers, Sequences, FiniteSets, SequencesExt, Functions

CONSTANTS
    Vars,           \* the program's values
    Inputs,         \* what is loaded: [type, x], x a scalar or a text, Null for NULL
    Lists,          \* what arrays are made of: [etype, items]
    IntRange,       \* values of an int; a size_t has more
    ErrBase,        \* SCON_ERR_PMIX_ERR_BASE
    Null, Garbage,  \* the content of no text, and of memory never written
    MaxBlocks       \* bound: blocks ever allocated

VARIABLES
    heap,           \* heap[b]: the content of block b
    given,          \* blocks allocated so far
    vals,           \* vals[v]: [type, x, items]
    twice,          \* blocks freed when they were free
    shared,         \* what a copy had in common with its original: [block, kind]
    fault,          \* NULL was followed, or memory beside the value written
    hand,           \* what scon_value_unload gave the program
    last            \* the last copy: [op, type, status, from, to]

valueVars == <<heap, given, vals, twice, shared, fault, hand, last>>

Undef == [type |-> "undef", x |-> 0, items |-> <<>>]
Scalar(t, n) == [type |-> t, x |-> n, items |-> <<>>]
ArrayBlock == -2
Owner == {"string", "bytes", "proc"}          \* types whose value is a block
Nothing == [op |-> "none", type |-> "undef", status |-> "none", from |-> Undef, to |-> Undef]

\* A heap and the number of blocks given, on which the functions below work.
Mem == [heap |-> heap, given |-> given]
Alloc(m, c) == [heap |-> [b \in DOMAIN m.heap \cup {m.given + 1} |->
                            IF b = m.given + 1 THEN c ELSE m.heap[b]],
                given |-> m.given + 1]
Free(m, bs) == [m EXCEPT !.heap = Restrict(@, DOMAIN @ \ bs)]
Content(m, b) == IF b = 0 THEN Null ELSE IF b \in DOMAIN m.heap THEN m.heap[b] ELSE Garbage

ValuesInit ==
    /\ heap = <<>> /\ given = 0
    /\ vals = [v \in Vars |-> Undef]
    /\ twice = {} /\ shared = {} /\ fault = FALSE
    /\ hand = Undef
    /\ last = Nothing

-----------------------------------------------------------------------------
(***************************************************************************)
(* The functions: each gives [mem, val, status].                           *)
(***************************************************************************)
Gives(m, v) == [mem |-> m, val |-> v, status |-> "success"]
NewBlock(m, t, c) == IF c = Null THEN Gives(m, Scalar(t, 0))
                     ELSE Gives(Alloc(m, c), Scalar(t, m.given + 1))

\* scon_value_load: a text and a name are copied, bytes are taken over, a type it
\* does not know (a time, a range, an array) is set with the data left alone.
Unloadable == {"time", "range", "darray"}
scon_value_load(m, in) ==
    CASE in.type \in Owner -> NewBlock(m, in.type, in.x)
      [] in.type \in Unloadable -> Gives(m, Scalar(in.type, 0))
      [] OTHER -> Gives(m, Scalar(in.type, in.x))

\* Mutant: the pointer is copied, not the text.
XferBlock_pointer(m, s) == Gives(m, s)
XferBlock(m, s) == NewBlock(m, s.type, Content(m, s.x))

\* An array. The element type is never looked at, the switch is on the type of the
\* value, so an array with elements is refused half-made, its size set and no array.
XferArray(m, s) ==
    IF s.items = <<>>
    THEN Gives(m, [type |-> "darray", x |-> 0, items |-> <<>>, etype |-> s.etype, size |-> 0])
    ELSE [mem |-> m, status |-> "not supported",
          val |-> [type |-> "darray", x |-> 0, items |-> <<>>, etype |-> s.etype, size |-> Len(s.items)]]

\* scon_value_xfer. Of a name the pointer is copied, with as many bytes behind it as
\* a name has.
scon_value_xfer(m, s) ==
    CASE s.type \in {"string", "bytes"} -> XferBlock(m, s)
      [] s.type = "darray" -> XferArray(m, s)
      [] OTHER -> Gives(m, s)
Overruns(s) == s.type = "proc"

-----------------------------------------------------------------------------
\* scon_bfrop_copy_darray, by the type of the elements.
\* Infos are loaded from the address of the value: a text is made of the bytes of a
\* pointer, a name of what is there, and bytes are shared with the original.
InfoLoaded(m, s) ==
    CASE s.type \in {"string", "proc"} -> NewBlock(m, s.type, Garbage)
      [] s.type \in Unloadable -> Gives(m, Scalar(s.type, 0))
      [] OTHER -> Gives(m, s)
\* A text that is NULL leaves its place in the new array unwritten.
StringCopied(m, s) == IF s.x = 0 THEN Gives(m, [s EXCEPT !.x = -1]) ELSE XferBlock(m, s)
ElementCopied(m, etype, s) ==
    CASE etype = "string" -> StringCopied(m, s)
      [] etype = "info" -> InfoLoaded(m, s)
      [] etype = "value" -> scon_value_xfer(m, s)
      [] etype = "bytes" -> XferBlock(m, s)
      [] OTHER -> Gives(m, s)
\* The elements one after the other; the first that fails ends it.
ElementsCopied(m, etype, items) ==
    FoldLeft(LAMBDA acc, s :
                IF acc.status # "success" THEN acc
                ELSE LET r == ElementCopied(acc.mem, etype, s)
                     IN [mem |-> r.mem, status |-> r.status, items |-> Append(acc.items, r.val)],
             [mem |-> m, status |-> "success", items |-> <<>>], items)

\* SCON_VALUE_DESTRUCT: what it frees, and whether it follows NULL. A name's block
\* and the values in an array of values are not freed.
OwnedBy(etype, s) == IF etype \in {"string", "bytes"} \/ (etype = "info" /\ s.type \in {"string", "bytes"})
                     THEN {s.x} ELSE {}
Frees(v) ==
    CASE v.type \in {"string", "bytes"} -> {v.x} \ {0}
      [] v.type = "darray" -> (UNION {OwnedBy(v.etype, v.items[i]) : i \in DOMAIN v.items} \cup {v.x}) \ {0}
      [] OTHER -> {}
FollowsNull(v) == /\ v.type = "darray"
                  /\ \/ v.etype \in {"string", "info", "bytes"} /\ Len(v.items) < v.size
                     \/ \E i \in DOMAIN v.items : v.items[i].x = -1

\* SCON_VALUE_FREE, of the elements that were made, when one failed. The element that
\* failed is an array without elements: if they were texts it is a fault.
Abandoned(r) == LET bad == Last(r.items)
                IN [mem |-> Free(r.mem, UNION {Frees(r.items[i]) : i \in DOMAIN r.items}),
                    fault |-> FollowsNull(bad)]

-----------------------------------------------------------------------------
\* scon_pmix_value_load and scon_pmix_value_unload: what a value is after PMIx had
\* it. A status comes back above the base of PMIx's, a size as an int; a type that
\* PMIx does not have comes back undefined.
PmixStatus(n) == n + ErrBase
PmixSize(n) == n % IntRange
Carried(t) == t \notin {"range", "darray"}
PmixBlock(m, s) == NewBlock(m, s.type, Content(m, s.x))
ThroughPmix(m, s) ==
    CASE ~Carried(s.type) -> Gives(m, Undef)
      [] s.type \in Owner -> PmixBlock(m, s)
      [] s.type = "status" -> Gives(m, [s EXCEPT !.x = PmixStatus(@)])
      [] s.type = "size" -> Gives(m, [s EXCEPT !.x = PmixSize(@)])
      [] OTHER -> Gives(m, s)

-----------------------------------------------------------------------------
\* The blocks that a value points to, each with what it is.
Target(b, kind) == [block |-> b, kind |-> kind]
RECURSIVE PointsTo(_)
PointsTo(v) ==
    {s \in CASE v.type \in Owner -> {Target(v.x, v.type)}
             [] v.type = "darray" ->
                   {Target(v.x, "darray")} \cup UNION
                   {{IF v.etype = "info" /\ s.kind = "bytes" THEN Target(s.block, "bytes of an info") ELSE s :
                        s \in PointsTo(v.items[i])} : i \in DOMAIN v.items}
             [] OTHER -> {} : s.block > 0}

\* A value with the contents of its blocks in their places.
RECURSIVE Deep(_, _)
Deep(m, v) ==
    CASE v.type \in Owner -> [type |-> v.type, x |-> IF v.x = -1 THEN Garbage ELSE Content(m, v.x)]
      [] v.type = "darray" -> [type |-> v.type, etype |-> v.etype,
                               x |-> [i \in DOMAIN v.items |-> Deep(m, v.items[i])]]
      [] OTHER -> [type |-> v.type, x |-> v.x]

Put(m) == heap' = m.heap /\ given' = m.given
Room == given < MaxBlocks /\ ~fault

Load(v) ==
    /\ Room /\ vals[v] = Undef
    /\ \E in \in Inputs : LET r == scon_value_load(Mem, in)
                          IN Put(r.mem) /\ vals' = [vals EXCEPT ![v] = r.val]
    /\ last' = Nothing
    /\ UNCHANGED <<twice, shared, fault, hand>>

\* The program makes an array of values it has loaded.
MakeArray(v) ==
    /\ Room /\ vals[v] = Undef
    /\ \E l \in Lists :
          LET r == FoldLeft(LAMBDA acc, in :
                               LET one == scon_value_load(acc.mem, in)
                               IN [mem |-> one.mem, items |-> Append(acc.items, one.val)],
                            [mem |-> Alloc(Mem, ArrayBlock), items |-> <<>>], l.items)
          IN /\ Put(r.mem)
             /\ vals' = [vals EXCEPT ![v] = [type |-> "darray", x |-> given + 1, items |-> r.items,
                                             etype |-> l.etype, size |-> Len(l.items)]]
    /\ last' = Nothing
    /\ UNCHANGED <<twice, shared, fault, hand>>

\* Or puts a value of its own into an array of values.
Wrap(v, w) ==
    /\ Room /\ vals[v] # Undef /\ vals[w] = Undef
    /\ Put(Alloc(Mem, ArrayBlock))
    /\ vals' = [vals EXCEPT ![v] = Undef,
                 ![w] = [type |-> "darray", x |-> given + 1, items |-> <<vals[v]>>,
                         etype |-> "value", size |-> 1]]
    /\ last' = Nothing
    /\ UNCHANGED <<twice, shared, fault, hand>>

Copied(op, v, w, r) ==
    /\ Put(r.mem)
    /\ vals' = [vals EXCEPT ![w] = r.val]
    /\ shared' = shared \cup (PointsTo(vals[v]) \cap PointsTo(r.val))
    /\ last' = [op |-> op, type |-> vals[v].type, status |-> r.status,
                from |-> Deep(r.mem, vals[v]), to |-> Deep(r.mem, r.val)]

Xfer(v, w) ==
    /\ Room /\ vals[v] # Undef /\ vals[w] = Undef
    /\ Copied("xfer", v, w, scon_value_xfer(Mem, vals[v]))
    /\ fault' \in (IF Overruns(vals[v]) THEN BOOLEAN ELSE {FALSE})
    /\ UNCHANGED <<twice, hand>>

\* scon_bfrop_copy of an array.
CopyArray(v, w) ==
    /\ Room /\ vals[v].type = "darray" /\ vals[w] = Undef
    /\ LET s == vals[v]
           array == Alloc(Mem, ArrayBlock)
           r == ElementsCopied(array, s.etype, s.items)
       IN IF r.status = "success"
          THEN /\ Copied("copy", v, w,
                         Gives(r.mem, [type |-> "darray", x |-> given + 1, items |-> r.items,
                                       etype |-> s.etype, size |-> Len(s.items)]))
               /\ fault' \in (IF s.etype = "value" /\ \E i \in DOMAIN s.items : Overruns(s.items[i])
                              THEN BOOLEAN ELSE {FALSE})
          ELSE /\ Put(Free(Abandoned(r).mem, {given + 1}))
               /\ fault' = Abandoned(r).fault
               /\ last' = [Nothing EXCEPT !.op = "copy", !.status = r.status]
               /\ UNCHANGED <<vals, shared>>
    /\ UNCHANGED <<twice, hand>>

\* Bound: a status goes through PMIx once.
Pmix(v, w) ==
    /\ Room /\ vals[v] # Undef /\ vals[w] = Undef
    /\ vals[v].type = "status" => vals[v].x < ErrBase
    /\ Copied("pmix", v, w, ThroughPmix(Mem, vals[v]))
    /\ UNCHANGED <<twice, fault, hand>>

\* SCON_VALUE_DESTRUCT. It leaves a name to the program, which may free it.
Names(v) == {v.x : t \in {v.type} \cap {"proc"}} \ {0, -1}
Destruct(v) ==
    /\ ~fault /\ vals[v] # Undef
    /\ fault' = FollowsNull(vals[v])
    /\ \E own \in {{}, Names(vals[v])} :
          LET freed == Frees(vals[v]) \cup own
          IN /\ twice' = twice \cup (freed \ (DOMAIN heap \cup {-1}))
             /\ Put(Free(Mem, freed))
    /\ vals' = [vals EXCEPT ![v] = Undef]
    /\ last' = Nothing
    /\ UNCHANGED <<shared, hand>>

\* scon_value_unload: the program gets a copy of a scalar, a text or a name, and the
\* bytes themselves, which it must leave to the value. It frees what is its own.
scon_value_unload(m, s) ==
    IF s.type \in {"string", "proc"} THEN XferBlock(m, s) ELSE Gives(m, s)
Unload(v) ==
    /\ Room /\ vals[v].type \notin Unloadable \cup {"undef"} /\ hand = Undef
    /\ LET r == scon_value_unload(Mem, vals[v])
       IN Put(r.mem) /\ hand' = r.val
    /\ last' = Nothing
    /\ UNCHANGED <<vals, twice, shared, fault>>
FreeHand ==
    /\ ~fault /\ hand # Undef
    /\ LET own == IF hand.type \in {"string", "proc"} THEN {hand.x} \ {0} ELSE {}
       IN /\ twice' = twice \cup (own \ DOMAIN heap)
          /\ Put(Free(Mem, own))
    /\ hand' = Undef
    /\ last' = Nothing
    /\ UNCHANGED <<vals, shared, fault>>

ValuesNext == FreeHand \/ \E v, w \in Vars : Load(v) \/ Unload(v) \/ MakeArray(v) \/ Wrap(v, w) \/ Destruct(v) \/ Xfer(v, w)
                                \/ CopyArray(v, w) \/ Pmix(v, w)
ValuesSpec == ValuesInit /\ [][ValuesNext]_valueVars

-----------------------------------------------------------------------------
\* Blocks are those that were given, and every value has one of the types.
ValuesTypeOK ==
    /\ DOMAIN heap \subseteq 1..given /\ twice \subseteq 1..given
    /\ \A v \in Vars : vals[v].x \in -1..(MaxBlocks + ErrBase)
    /\ (\A s \in shared : s.block \in 1..given) /\ fault \in BOOLEAN

\* A copy that succeeds is equal to what was copied, block by block, when it has no
\* infos and no NULL text in an array.
Whole(d) == d.type = "darray" => d.etype # "info" /\ \A i \in DOMAIN d.x :
                                      d.x[i].type = "string" => d.x[i].x # Null
CopyIsEqual ==
    (last.op \in {"xfer", "copy"} /\ last.status = "success" /\ Whole(last.from)) => last.to = last.from

\* A copy, also of an array or through PMIx, has no block in common with what it was
\* copied from but names, whose pointer scon_value_xfer copies (copy.c:349), and the
\* bytes of infos, which are loaded where they are (copy.c:956).
SharesNoMore == \A s \in shared : s.kind \in {"proc", "bytes of an info"}

\* Freeing a value leaves the others whole, but for those two: no other block is freed
\* twice, nor is one free that a value will free.
FreedAlone ==
    LET known == {s.block : s \in shared} \cup {-1}
    IN /\ twice \subseteq known
       /\ \A v \in Vars : Frees(vals[v]) \ known \subseteq DOMAIN heap

\* What is put to PMIx is what another process gets, but for a status, a size larger
\* than an int, and the types it does not have.
PmixKeeps ==
    (last.op = "pmix" /\ Carried(last.type) /\ last.type # "status"
     /\ ~(last.type = "size" /\ last.from.x >= IntRange)) => last.to = last.from

\* A copy is equal, and has what it frees for itself, but for the kinds named above; a
\* value that goes to PMIx comes back. That nothing is written beside a value, or NULL
\* followed (`fault`), is not promised.
ValuesHold == ValuesTypeOK /\ CopyIsEqual /\ SharesNoMore /\ FreedAlone /\ PmixKeeps
=============================================================================
