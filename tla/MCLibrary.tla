------------------------------ MODULE MCLibrary ------------------------------
(* The libraries that everything else is made of, one part at a time: the  *)
(* variables of the mca base, its frameworks and components, the classes   *)
(* that hold things, the buffers, values and checksums. The parts that are *)
(* not run stay as they are.                                               *)
EXTENDS Bitmap, HashTable, PointerArray, Checksum, Variables

VARIABLES part,
    mca, selection, answer, users,
    next, prev, length, damage,
    ring, ringGiven, occupant, unoccupied, pending, evbase,
    buf, items, unpacked,
    heap, given, values, twice, shared, fault, hand, last
componentState == <<mca, selection, answer, users>>
listState == <<next, prev, length, damage>>
ringState == <<ring, ringGiven>>
hotelState == <<occupant, unoccupied, pending, evbase>>
bufferState == <<buf, items, unpacked>>
valueState == <<heap, given, values, twice, shared, fault, hand, last>>
libraryVars == <<part, varVars, bitmapVars, hashVars, arrayVars, checksumVars, componentState,
                 listState, ringState, hotelState, bufferState, valueState>>

-----------------------------------------------------------------------------
\* A framework's variable, two of its component, a synonym for one of them.
MCDecls == [
    a |-> [framework |-> "f", component |-> "", type |-> "int", default |-> 1,
           flags |-> {"settable"}, scope |-> "all"],
    b |-> [framework |-> "f", component |-> "c", type |-> "string", default |-> "d",
           flags |-> {"settable", "dwg", "internal"}, scope |-> "local"],
    e |-> [framework |-> "f", component |-> "c", type |-> "enum", default |-> 0,
           flags |-> {"dwg", "environment only"}, scope |-> "readonly"]]
MCSynonyms == [t |-> [framework |-> "f", component |-> "c", of |-> "b", flags |-> {}]]
MCEnumNames == [none |-> 0, warn |-> 2]
MCHome == "~/x" :> "/home/x"
Num(n) == [digits |-> TRUE, num |-> n, rest |-> ""]
Big == [digits |-> TRUE, num |-> 1, rest |-> "M"]
Txt(w) == [digits |-> FALSE, num |-> 0, rest |-> w]
Line(n, t) == [key |-> <<"full", n>>, text |-> t]
LongLine(n, t) == [key |-> <<"long", n>>, text |-> t]
EnvOf(n, t) == <<"full", n>> :> [text |-> t, from |-> "none"]
\* Each has a name in several of the places a value may come from; one has an
\* integer that is too large and a word that the enumerator does not know.
MCConfigs == {
    [env |-> <<>>, override |-> <<>>, envarFiles |-> <<>>,
     fileSets |-> <<<<Line("a", Num(2)), LongLine("b", Txt("~/x"))>>,
                    <<Line("a", Num(3)), Line("e", Txt("warn"))>>>>],
    [env |-> EnvOf("a", Num(4)) @@ EnvOf("e", Txt("warn")), override |-> <<<<Line("b", Txt("o"))>>>>,
     envarFiles |-> <<<<Line("b", Txt("p"))>>>>, fileSets |-> <<<<Line("a", Num(2))>>>>],
    [env |-> EnvOf("a", Big) @@ EnvOf("e", Txt("junk")) @@ EnvOf("b", Txt("v")),
     override |-> <<<<Line("a", Num(5))>>>>, envarFiles |-> <<>>,
     fileSets |-> <<<<Line("t", Txt("f")), Line("a", Num(3))>>>>],
    [env |-> EnvOf("a", Num(4)) @@ <<"long", "b">> :> [text |-> Txt("l"), from |-> "override"]
             @@ EnvOf("t", Txt("v")),
     override |-> <<<<Line("t", Txt("o"))>>>>, envarFiles |-> <<<<Line("a", Num(7))>>>>,
     fileSets |-> <<<<Line("t", Txt("f"))>>>>]}
MCSetTexts == {Num(2), Txt("z")}

\* Two transports in files, one of them twice; the component that loads files and
\* the installation directories are linked in.
Asks(negate, names, late) == [negate |-> negate, names |-> names, late |-> late]
Says(valid, registers, open, query, priority) ==
    [valid |-> valid, register |-> registers, open |-> open, query |-> query, priority |-> priority]
Comp == INSTANCE Components WITH
    Frameworks <- {"sdl", "pt2pt", "dirs"}, Sdl <- "sdl", Names <- {"sdl0", "tcp", "ofi", "env"},
    Type <- [sdl0 |-> "sdl", tcp |-> "pt2pt", ofi |-> "pt2pt", env |-> "dirs"],
    LinkedIn <- {"sdl0", "env"}, Files <- <<"ofi", "tcp", "ofi">>,
    NoDso <- {"sdl", "dirs"}, NoRegister <- {"dirs"},
    Requests <- {Asks(FALSE, <<>>, FALSE), Asks(FALSE, <<"ofi", "tcp">>, FALSE),
                 Asks(TRUE, <<"ofi">>, FALSE), Asks(TRUE, <<"tcp">>, TRUE)},
    Answers <- {Says(TRUE, TRUE, TRUE, "module", 0), Says(TRUE, TRUE, TRUE, "module", 1),
                Says(TRUE, TRUE, TRUE, "module", 2),
                Says(FALSE, TRUE, TRUE, "module", 2), Says(TRUE, FALSE, TRUE, "module", 2),
                Says(TRUE, TRUE, FALSE, "module", 2), Says(TRUE, TRUE, TRUE, "skip", 2),
                Says(TRUE, TRUE, TRUE, "fatal", 2)},
    MaxHeld <- 2, MaxFailed <- 1, MaxKept <- 1, NoComponent <- "none"

-----------------------------------------------------------------------------
\* Keys of each kind that fall on the same elements of a small table.
MCKeys32 == {0, 2, 3, 6}
MCKeys64 == {1, 4}
MCKeysPtr == {<<1>>, <<0, 1>>, <<0, 4>>}

\* Two lists, two of whose items sort alike.
TwoLists == INSTANCE LinkedList WITH
    ListNames <- {"l", "m"}, Items <- {"a", "b", "c"}, InsertIndexes <- {0, 1, 2}, MaxCounted <- 4,
    Rank <- [a |-> 1, b |-> 0, c |-> 1]

Ring == INSTANCE RingBuffer WITH RingValues <- {"p", "q"}, RingSizes <- 1..3, given <- ringGiven
Rooms2 == INSTANCE Hotel WITH NumRooms <- 2, Guests <- {"g", "h", "i"}, Timers <- BOOLEAN

\* Messages of whole and of broken words, and the CRC's own polynomial.
MCMessages == {<<3, 1, 2, 3, 0, 2, 1, 1, 3, 3, 2>>, <<3, 3, 3, 3, 3, 3, 3, 3, 3, 3, 1>>,
               <<0, 0, 1, 0, 0, 0, 2, 0, 3>>}
MCCrcBits == {26, 23, 22, 16, 12, 11, 10, 8, 7, 5, 4, 2, 1, 0}
MCCrcMessages == {<<{0, 7}, {1, 2, 5}, {}, 0..7, {3, 4}, {6}>>, <<{}, {}, {0}, {}, {}, {7}, {0, 2}>>}

\* One value of each type, arrays, values in values; a size_t of 8 bytes here, 4 there.
Member == [job |-> <<1, 0>>, rank |-> 1]
Of(type, elements) == [type |-> type, vals |-> elements]
MCFollowers == {Of("STRING", <<<<3, 0>>, <<>>>>)}
MCSamples == MCFollowers \cup {
    Of("BOOL", <<1, 0>>), Of("INT16", <<17, 3>>), Of("INT32", <<>>),
    Of("STRING", <<<<2, 0>>, <<>>, <<0>>>>), Of("SIZE", <<5>>), Of("INT", <<7>>),
    Of("FLOAT", <<5>>), Of("TIMEVAL", <<[sec |-> 1, usec |-> 20]>>), Of("POINTER", <<"p">>), Of("PROC", <<Member>>),
    Of("BYTE_OBJECT", <<<<3, 4>>, <<>>>>),
    Of("VALUE", <<[type |-> "INT16", data |-> 17], [type |-> "UNDEF", data |-> 0]>>),
    Of("VALUE", <<[type |-> "DATA_ARRAY", data |-> [type |-> "STRING", array |-> <<<<1, 0>>>>]]>>),
    Of("INFO", <<[key |-> <<1, 0>>, flags |-> 1, value |-> [type |-> "PROC", data |-> Member]]>>),
    Of("DATA_ARRAY", <<[type |-> "SIZE", array |-> <<1, 2>>], [type |-> "INT16", array |-> <<>>]>>),
    Of("SIGNATURE", <<[handle |-> 1, procs |-> <<Member>>, seq |-> 200]>>)}
Packing == INSTANCE Buffers WITH
    Byte <- 16, InitialSize <- 8, Threshold <- 32, Bufs <- {"s", "r"}, SizeBytes <- [s |-> 8, r |-> 4],
    Samples <- MCSamples, SecondSamples <- MCFollowers, MaxItems <- 2

\* What a program loads and what it makes arrays of.
In(type, x) == [type |-> type, x |-> x]
MCInputs == {In("plain", 1), In("size", 1), In("size", 5), In("status", 1), In("time", 0),
             In("range", 0), In("string", 1), In("string", 2), In("string", 0), In("bytes", 1), In("proc", 1)}
Array(type, elements) == [etype |-> type, items |-> elements]
MCLists == {Array("string", <<>>), Array("string", <<In("string", 1), In("string", 0)>>),
            Array("string", <<In("string", 1), In("string", 2)>>), Array("bytes", <<In("bytes", 1)>>),
            Array("plain", <<In("plain", 1)>>),
            Array("value", <<In("string", 1), In("proc", 1), In("plain", 1)>>),
            Array("info", <<In("bytes", 1)>>), Array("info", <<In("string", 1), In("plain", 1)>>)}
Vals == INSTANCE Values WITH
    Vars <- {"v", "w"}, Inputs <- MCInputs, Lists <- MCLists, IntRange <- 4, ErrBase <- 10,
    Null <- 0, Garbage <- 99, MaxBlocks <- 3, vals <- values

-----------------------------------------------------------------------------
Parts == {"variables", "components", "hash table", "list", "array", "bitmap", "ring", "hotel",
          "buffers", "values", "checksum"}
\* The first of the two transports may be out of the ordinary.
Plain(n) == answer[n] = Says(TRUE, TRUE, TRUE, "module", 1)
Some(S) == CHOOSE x \in S : TRUE
LibraryInit ==
    /\ part \in Parts
    /\ VarInit /\ (part # "variables" => config.override = <<>>)
    /\ Comp!ComponentsInit
    /\ part # "components" =>
          /\ \A f \in DOMAIN selection : selection[f].names = <<>>
          /\ Plain("ofi")
    /\ Plain("tcp")
    /\ HashInit /\ (part # "hash table" => ht.capacity = 3)
    /\ TwoLists!LinkedListInit
    /\ PointerArrayInit /\ (part # "array" => array.size = 0 /\ array.max_size = 6)
    /\ BitmapInit /\ (part # "bitmap" => \A b \in BitMaps : Len(bm[b]) = 1)
    /\ Ring!RingInit /\ (part # "ring" => ring.size = 1)
    /\ Rooms2!HotelInit /\ (part # "hotel" => evbase)
    /\ Packing!BufferInit
    /\ (part # "buffers" => \A b \in {"s", "r"} : buf[b] = Packing!Constructed(TRUE))
    /\ Vals!ValuesInit
    /\ IF part = "checksum" THEN ChecksumInit
       ELSE ChecksumInit /\ kind = "csum" /\ message = Some(MCMessages)

LibraryNext ==
    /\ UNCHANGED part
    /\ \/ part = "variables" /\ VarNext
       \/ part = "components" /\ Comp!ComponentsNext
       \/ part = "hash table" /\ HashNext
       \/ part = "list" /\ TwoLists!LinkedListNext
       \/ part = "array" /\ PointerArrayNext
       \/ part = "bitmap" /\ BitmapNext
       \/ part = "ring" /\ Ring!RingNext
       \/ part = "hotel" /\ Rooms2!HotelNext
       \/ part = "buffers" /\ Packing!BufferNext
       \/ part = "values" /\ Vals!ValuesNext
       \/ part = "checksum" /\ ChecksumNext
    /\ part # "variables" => UNCHANGED varVars
    /\ part # "components" => UNCHANGED componentState
    /\ part # "hash table" => UNCHANGED hashVars
    /\ part # "list" => UNCHANGED listState
    /\ part # "array" => UNCHANGED arrayVars
    /\ part # "bitmap" => UNCHANGED bitmapVars
    /\ part # "ring" => UNCHANGED ringState
    /\ part # "hotel" => UNCHANGED hotelState
    /\ part # "buffers" => UNCHANGED bufferState
    /\ part # "values" => UNCHANGED valueState
    /\ part # "checksum" => UNCHANGED checksumVars
LibrarySpec == LibraryInit /\ [][LibraryNext]_libraryVars

-----------------------------------------------------------------------------
\* The properties of the parts; the others keep the names that their modules give them.
ComponentsHold == part = "components" => Comp!ComponentsHold
BuffersHold == part = "buffers" => Packing!BuffersHold
ValuesHold == part = "values" => Vals!ValuesHold

\* What the classes that hold things are at any time.
ContainersHold == CASE part = "hash table" -> TablesHold
                    [] part = "list" -> TwoLists!ListsHold
                    [] part = "array" -> ArraysHold
                    [] part = "bitmap" -> BitmapTypeOK
                    [] part = "ring" -> Ring!RingTypeOK
                    [] part = "hotel" -> Rooms2!HotelsHold
                    [] OTHER -> TRUE

\* Lists are sequences, rings bounded queues, bitmaps sets, and arrays give out
\* places that are free; HashIsMap says that a hash table is a map.
ContainersImplement == /\ TwoLists!ImplementsLists /\ Ring!RingIsQueue
                       /\ BitmapIsSet /\ FindsFirst /\ AddIsNew

\* An overridden variable keeps its value, the best component its place.
ChoicesStay == OverrideHolds /\ Comp!BestStays
=============================================================================
