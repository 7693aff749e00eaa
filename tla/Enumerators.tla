---------------------------- MODULE Enumerators ----------------------------
(***************************************************************************)
(* mca/base/scon_mca_base_var_enum.c: the enumerators that turn the text   *)
(* of a parameter into its value and back. A text is a record of how       *)
(* strtol reads it: the number, and the rest behind the number; a word has *)
(* no number. The flags of a flag enumerator are the bits of a value, here *)
(* a set. enum_value_from_string_flag compares the i-th name of the text   *)
(* with the i-th flag (i where j was meant, :497 to :505).                 *)
(***************************************************************************)
EXTENDS Integers, Sequences

CONSTANTS
    EnumValues,     \* the values of a plain enumerator: a sequence of [value, string]
    Verbosities,    \* verbose_values
    Flags,          \* those of a flag enumerator: a sequence of [flag, string, conflict]
    Texts,          \* texts that are looked up
    Numbers,        \* values that are turned into text
    FlagLists       \* comma-separated lists, as sequences of texts

ASSUME EnumeratorAssumption ==
    /\ EnumValues \in Seq([value : Int, string : STRING])
    /\ \A i, j \in DOMAIN Flags : i # j => Flags[i].flag # Flags[j].flag

VARIABLES text, number, list
enumeratorVars == <<text, number, list>>

OutOfBounds == [rc |-> "out of bounds"]
Gives(v) == [rc |-> "success", value |-> v]
IsInt(t) == t.rest = ""
Word(s) == [num |-> 0, rest |-> s]
Decimal(n) == [num |-> n, rest |-> ""]

-----------------------------------------------------------------------------
\* The boolean enumerator. An empty text is the number 0.
True == {"true", "t", "enabled", "yes"}
False == {"false", "f", "disabled", "no"}
bool_vfs(t) ==
    CASE IsInt(t) -> Gives(IF t.num = 0 THEN 0 ELSE 1)
      [] t.rest \in True -> Gives(1)
      [] t.rest \in False -> Gives(0)
      [] OTHER -> OutOfBounds
bool_sfv(v) == Gives(IF v = 0 THEN Word("false") ELSE Word("true"))
bool_get_value(index) ==
    IF index > 1 THEN OutOfBounds
    ELSE [rc |-> "success", value |-> IF index = 0 THEN 0 ELSE 1,
          string |-> IF index = 0 THEN "false" ELSE "true"]

\* The enumerator of the verbosity levels: numbers are brought into 0..100.
First(S) == CHOOSE i \in S : \A j \in S : i <= j
verbose_vfs(t) ==
    LET named == {i \in DOMAIN Verbosities : Verbosities[i].string = t.rest} IN
    IF ~IsInt(t) THEN IF named = {} THEN [rc |-> "not found"]
                      ELSE Gives(Verbosities[First(named)].value)
    ELSE Gives(CASE t.num < 0 -> 0 [] t.num > 100 -> 100 [] OTHER -> t.num)
\* The string is stored for a level that has a name even if the caller gives
\* no place for it (:177), which scon_mca_base_var_set_value does not.
verbose_sfv(v, wanted) ==
    LET named == {i \in DOMAIN Verbosities : Verbosities[i].value = v} IN
    CASE v \notin 0..100 -> OutOfBounds
      [] named # {} -> IF wanted THEN Gives(Word(Verbosities[First(named)].string))
                                 ELSE [rc |-> "crash"]
      [] OTHER -> Gives(Decimal(v))

-----------------------------------------------------------------------------
\* A plain enumerator: a number or a name, the first entry that fits.
enum_value_from_string(t) ==
    LET fits == {i \in DOMAIN EnumValues : \/ IsInt(t) /\ EnumValues[i].value = t.num
                                           \/ ~IsInt(t) /\ EnumValues[i].string = t.rest}
    IN IF fits = {} THEN OutOfBounds ELSE Gives(EnumValues[First(fits)].value)
\* Mutant: the next value that has a name is taken.
enum_string_from_value_next(v) ==
    LET fits == {i \in DOMAIN EnumValues : EnumValues[i].value >= v}
    IN IF fits = {} THEN OutOfBounds ELSE Gives(Word(EnumValues[First(fits)].string))
enum_string_from_value(v) ==
    LET fits == {i \in DOMAIN EnumValues : EnumValues[i].value = v}
    IN IF fits = {} THEN OutOfBounds ELSE Gives(Word(EnumValues[First(fits)].string))
enum_get_value(index) ==
    IF index >= Len(EnumValues) THEN OutOfBounds
    ELSE [rc |-> "success", value |-> EnumValues[index + 1].value,
          string |-> EnumValues[index + 1].string]

-----------------------------------------------------------------------------
\* A flag enumerator. The names of the text are taken one after the other, each
\* compared with the flag of its own position. Behind the last flag calloc has
\* left one empty entry: the number 0 is its flag, and anything else is compared
\* with its name, which is NULL. Further on the code reads past the table.
Entry(i) == IF i <= Len(Flags) THEN Flags[i] ELSE [flag |-> 0, string |-> "NULL", conflict |-> {}]
Named(t, i) == (IsInt(t) /\ t.num = Entry(i).flag) \/ (~IsInt(t) /\ t.rest = Entry(i).string)
Beyond(t, i) == i > Len(Flags) /\ ~(i = Len(Flags) + 1 /\ IsInt(t) /\ Named(t, i))
TakesFlag(s, t, i) ==
    IF s.rc # "success" THEN s
    ELSE IF Beyond(t, i) THEN [s EXCEPT !.rc = "crash"]
    ELSE IF ~Named(t, i) THEN [s EXCEPT !.rc = "out of bounds"]
    ELSE IF s.value \cap Entry(i).conflict # {} THEN [s EXCEPT !.rc = "bad param"]
    ELSE [s EXCEPT !.value = @ \cup {Entry(i).flag}]
enum_value_from_string_flag(l) ==
    LET taken[i \in 0..Len(l)] == IF i = 0 THEN Gives({}) ELSE TakesFlag(taken[i - 1], l[i], i)
    IN IF l = <<>> THEN [rc |-> "bad param"] ELSE taken[Len(l)]

FlagSet == {Flags[i].flag : i \in DOMAIN Flags}
Selected(v) == {i \in DOMAIN Flags : Flags[i].flag \in v}
enum_string_from_value_flag(v) ==
    IF \E i \in Selected(v) : v \cap Flags[i].conflict # {} THEN [rc |-> "bad param"]
    ELSE IF ~(v \subseteq FlagSet) THEN OutOfBounds
    ELSE Gives(SelectSeq([i \in DOMAIN Flags |-> Word(Flags[i].string)],
                         LAMBDA t : \E i \in Selected(v) : Flags[i].string = t.rest))
enum_get_value_flag(index) ==
    IF index >= Len(Flags) THEN OutOfBounds
    ELSE [rc |-> "success", value |-> Flags[index + 1].flag, string |-> Flags[index + 1].string]

-----------------------------------------------------------------------------
EnumeratorInit == text \in Texts /\ number \in Numbers /\ list \in FlagLists
EnumeratorSpec == EnumeratorInit /\ [][FALSE]_enumeratorVars

\* What get_value lists of an enumerator is what its other functions know.
ListedIsKnown ==
    /\ \A i \in 0..2 : LET e == bool_get_value(i)
                      IN e.rc = "success" => bool_vfs(Word(e.string)) = Gives(e.value)
    /\ \A i \in 0..Len(EnumValues) :
          LET e == enum_get_value(i)
          IN e.rc = "success" => enum_value_from_string(Word(e.string)) = Gives(e.value)
    /\ \A i \in 0..Len(Flags) :
          LET e == enum_get_value_flag(i)
          IN e.rc = "success" => enum_string_from_value_flag({e.value}) = Gives(<<Word(e.string)>>)

\* The text of a value is read back as the value, for every value that has a
\* text: a value in the environment of a child is what the parent had, and one
\* that is taken from a listing is what the listing says.
ValuesReadBack ==
    /\ ListedIsKnown
    /\ bool_vfs(bool_sfv(number).value).value = (IF number = 0 THEN 0 ELSE 1)
    /\ LET s == enum_string_from_value(number)
       IN s.rc = "success" => enum_value_from_string(s.value) = Gives(number)
    /\ LET s == verbose_sfv(number, TRUE)
       IN s.rc = "success" => verbose_vfs(s.value) = Gives(number)

\* A text that is read gives a value that the enumerator has a text for: what
\* the environment sets, scon_mca_base_var_set_value would have taken.
ReadIsWritable ==
    /\ enum_value_from_string(text).rc = "success" =>
          enum_string_from_value(enum_value_from_string(text).value).rc = "success"
    /\ verbose_vfs(text).rc = "success" =>
          verbose_sfv(verbose_vfs(text).value, TRUE).rc = "success"

\* What is accepted is never a set with a conflict: string_from_value has a
\* text for every set that value_from_string gives.
AcceptedHasText ==
    LET r == enum_value_from_string_flag(list)
    IN r.rc = "success" => enum_string_from_value_flag(r.value \ {0}).rc = "success"

\* Every value that is read has a text, and that text reads as the value.
EnumeratorsHold == ValuesReadBack /\ ReadIsWritable /\ AcceptedHasText
=============================================================================
