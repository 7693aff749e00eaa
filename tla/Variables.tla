----------------------------- MODULE Variables -----------------------------
(***************************************************************************)
(* mca/base/scon_mca_base_var.c and scon_mca_base_var_group.c: the         *)
(* parameters of the frameworks and components. A variable is registered   *)
(* with storage of its owner and takes its value from the first of: the    *)
(* override file, the environment, the files for the environment, the      *)
(* parameter files, its default. It may be found under its full name and   *)
(* under its long name, which has the project in front. A synonym is a     *)
(* variable whose value is that of another. Variables belong to groups, a  *)
(* framework's or a component's, and go with them: they are marked invalid *)
(* and found again when they are registered again.                         *)
(***************************************************************************)
EXTENDS Integers, Sequences, FiniteSets, SequencesExt, TLC

CONSTANTS
    Decls,          \* name -> framework, component, type, default, flags, scope
    Synonyms,       \* name -> framework, component, the name it is a synonym for, flags
    EnumNames,      \* what an enumerator reads: word -> number
    IntMax,         \* the largest int
    Home,           \* strings that begin with ~/ -> with the home directory
    Configs,        \* contents of the environment and of the files
    SetTexts,       \* values for scon_mca_base_var_set_value
    MaxSynonyms     \* how often a synonym may be registered

ASSUME VariableAssumption ==
    /\ DOMAIN Decls \cap DOMAIN Synonyms = {}
    /\ \A s \in DOMAIN Synonyms : Synonyms[s].of \in DOMAIN Decls
    /\ IntMax \in Nat /\ MaxSynonyms \in Nat

VARIABLES
    vars,           \* scon_mca_base_vars: the variables in the order of their indices
    groups,         \* scon_mca_base_var_groups
    config          \* override, environment, files; as they are read in scon_mca_base_var_init

varVars == <<vars, groups, config>>
Names == DOMAIN Decls \cup DOMAIN Synonyms
NoValue == "null"

IndexOf(vs, name) == {i \in DOMAIN vs : vs[i].name = name}
IndexHash(name) == IF IndexOf(vars, name) = {} THEN 0 ELSE CHOOSE i \in IndexOf(vars, name) : TRUE
VarIs(v, flag) == flag \in v.flags
Original(vs, i) == IF vs[i].synonymFor # 0 THEN vs[i].synonymFor ELSE i

-----------------------------------------------------------------------------
\* Parameter files: sequences of [key, text]. read_files goes from the last
\* file to the first, and a name that is there already gets the new value.
save_value(list, entry) ==
    LET there == {i \in DOMAIN list : list[i].key = entry.key}
    IN IF there = {} THEN Append(list, entry)
       ELSE [list EXCEPT ![CHOOSE i \in there : TRUE].text = entry.text]
\* Mutant: the files are read from the first to the last.
read_files_forward(files) ==
    FoldLeft(LAMBDA list, file : FoldLeft(save_value, list, file), <<>>, files)
read_files(files) ==
    FoldLeft(LAMBDA list, file : FoldLeft(save_value, list, file), <<>>, Reverse(files))

-----------------------------------------------------------------------------
\* Text to value. A text is how strtoull reads it: a number and the rest.
Scale == [K |-> 1024, M |-> 1024 * 1024, G |-> 1024 * 1024 * 1024]
Value(v) == [rc |-> "success", value |-> v]
int_from_string(t) ==
    IF t.digits /\ t.rest \in DOMAIN Scale THEN Value(t.num * Scale[t.rest]) ELSE Value(t.num)
FromEnum(t) ==
    IF t.rest \in DOMAIN EnumNames THEN Value(EnumNames[t.rest])
    ELSE IF t.rest = "" /\ \E w \in DOMAIN EnumNames : EnumNames[w] = t.num THEN Value(t.num)
    ELSE [rc |-> "out of bounds"]
var_set_string(t) ==
    CASE t.rest = "" -> NoValue
      [] t.rest \in DOMAIN Home -> Home[t.rest]
      [] OTHER -> t.rest
FromString(type, t) ==
    CASE type = "string" -> Value(var_set_string(t))
      [] type = "enum" -> FromEnum(t)
      [] OTHER -> LET r == int_from_string(t)
                  IN IF r.value > IntMax THEN [rc |-> "out of bounds"] ELSE r

\* What a registration works on: the variables and what the last look-up found.
var_set_from_string(s, o, t) ==
    LET r == FromString(s.vars[o].type, t)
    IN IF r.rc # "success" THEN [s EXCEPT !.rc = r.rc]
       ELSE [s EXCEPT !.rc = "success", !.vars[o].value = r.value]
Missing(s) == [s EXCEPT !.rc = "not found"]

-----------------------------------------------------------------------------
\* The value of variable i, whose original is o (i itself unless a synonym).

Entries(list, v) == {k \in DOMAIN list : list[k].key \in {<<"full", v.name>>, <<"long", v.name>>}}
FirstEntry(list, v) == list[CHOOSE k \in Entries(list, v) : \A m \in Entries(list, v) : k <= m]
var_set_from_file(s, i, o, list) ==
    IF \/ Entries(list, s.vars[i]) = {}
       \/ VarIs(s.vars[i], "default only") \/ VarIs(s.vars[o], "environment only")
       \/ s.vars[o].source = "override"
    THEN Missing(s)
    ELSE var_set_from_string([s EXCEPT !.vars[o].source = "file", !.vars[i].source = "file"],
                             o, FirstEntry(list, s.vars[i]).text)

EnvKey(env, v) == IF <<"long", v.name>> \in DOMAIN env THEN <<"long", v.name>> ELSE <<"full", v.name>>
\* The source that a parent gives: a file, the override file or nothing.
EnvSource(from) == CASE from = "file" -> "file" [] from = "override" -> "override" [] OTHER -> "env"
var_set_from_env(s, i, o, env) ==
    LET key == EnvKey(env, s.vars[i]) IN
    IF \/ key \notin DOMAIN env
       \/ VarIs(s.vars[o], "default only")
       \/ s.vars[o].source = "override"
    THEN Missing(s)
    ELSE var_set_from_string([s EXCEPT !.vars[o].source = EnvSource(env[key].from)], o, env[key].text)

Inherits(s, i, o) ==
    [s EXCEPT !.vars[i].source = IF i = o THEN "default" ELSE s.vars[o].source]
Overridden(s, i) ==
    [s EXCEPT !.vars[i].flags = (@ \cup {"override"}) \ {"settable"}, !.vars[i].source = "override"]
OrElse(s, t) == IF s.rc = "not found" THEN t ELSE s
var_set_initial(vs, i, o, cfg) ==
    LET a == var_set_from_file(Inherits([vars |-> vs, rc |-> "success"], i, o), i, o, cfg.override)
        b == IF a.rc = "success" THEN Overridden(a, i) ELSE a
        c == var_set_from_env(b, i, o, cfg.env)
        d == OrElse(c, var_set_from_file(c, i, o, cfg.envarFiles))
        e == OrElse(d, var_set_from_file(d, i, o, cfg.files))
    IN OrElse(e, [e EXCEPT !.rc = "success"])

-----------------------------------------------------------------------------
\* Groups: <<framework, component>>, the framework's own with component "".

GroupIds(gs, name) == {g \in DOMAIN gs : gs[g].name = name}
GroupId(gs, name) == CHOOSE g \in GroupIds(gs, name) : TRUE
NewGroup(name) == [name |-> name, valid |-> TRUE, vars |-> <<>>, subgroups |-> <<>>]
Revived(gs, name) == [gs EXCEPT ![GroupId(gs, name)].valid = TRUE]
RegisterTop(gs, name) ==
    IF GroupIds(gs, name) # {} THEN Revived(gs, name) ELSE Append(gs, NewGroup(name))
\* A new group of a component registers the group of its framework; one that is
\* found again does not.
group_register(gs, name) ==
    IF GroupIds(gs, name) # {} \/ name[2] = "" THEN RegisterTop(gs, name)
    ELSE LET top == <<name[1], "">>
             g == RegisterTop(gs, top)
         IN [Append(g, NewGroup(name)) EXCEPT ![GroupId(g, top)].subgroups = Append(@, Len(g) + 1)]
group_add_var(gs, g, i) ==
    IF gs[g].valid /\ ~Contains(gs[g].vars, i) THEN [gs EXCEPT ![g].vars = Append(@, i)] ELSE gs

VarDeregistered(v) ==
    IF v.synonymFor # 0 THEN [v EXCEPT !.flags = @ \ {"valid"}]
    ELSE [v EXCEPT !.flags = @ \ {"valid"}, !.value = NoValue, !.storage = FALSE]
\* One group with its variables that go with it.
GroupGone(s, g) ==
    IF ~s.groups[g].valid THEN s
    ELSE [groups |-> [s.groups EXCEPT ![g].valid = FALSE],
          vars |-> [i \in DOMAIN s.vars |->
                       IF Contains(s.groups[g].vars, i) /\ {"valid", "dwg"} \subseteq s.vars[i].flags
                       THEN VarDeregistered(s.vars[i]) ELSE s.vars[i]]]
group_deregister(s, g) ==
    IF ~s.groups[g].valid THEN s
    ELSE FoldLeft(GroupGone, GroupGone(s, g), s.groups[g].subgroups)

-----------------------------------------------------------------------------
\* Registration, of a variable or of a synonym.

NeverSettable(d) == d.scope \in {"constant", "readonly"} \/ "default only" \in d.flags
NewVar(name, d, o) ==
    [name |-> name, group |-> <<d.framework, d.component>>, type |-> d.type,
     flags |-> IF NeverSettable(d) THEN d.flags \ {"settable"} ELSE d.flags,
     source |-> "default", synonymFor |-> o, synonyms |-> <<>>, storage |-> FALSE, value |-> NoValue]

\* The variable is entered under its name, or found and its group revived.
Entered(name, d, o) ==
    LET i == IndexHash(name)
        gs == group_register(groups, <<d.framework, d.component>>)
        g == GroupId(gs, <<d.framework, d.component>>)
    IN IF i # 0 THEN [vars |-> vars, at |-> i, groups |-> Revived(groups, vars[i].group)]
       ELSE [vars |-> Append(vars, NewVar(name, d, o)), at |-> Len(vars) + 1,
             groups |-> group_add_var(gs, g, Len(vars) + 1)]
Stored(vs, i, d) == [vs EXCEPT ![i].storage = TRUE, ![i].value = d.default, ![i].flags = @ \cup {"valid"}]
Linked(vs, i, o) ==
    [vs EXCEPT ![o].synonyms = Append(@, i), ![i].flags = @ \cup {"valid"}]

register_variable(name) ==
    LET d == Decls[name]
        e == Entered(name, d, 0)
        s == var_set_initial(Stored(e.vars, e.at, d), e.at, e.at, config)
    IN /\ IF {"default only", "settable"} \subseteq d.flags /\ IndexHash(name) = 0
          THEN /\ groups' = group_register(groups, <<d.framework, d.component>>)
               /\ UNCHANGED vars
          ELSE vars' = s.vars /\ groups' = e.groups
       /\ UNCHANGED config

\* A synonym takes the type and the scope of its original.
register_synonym(name) ==
    LET o == IndexHash(Synonyms[name].of)
        d == [framework |-> Synonyms[name].framework, component |-> Synonyms[name].component,
              type |-> vars[o].type, scope |-> "all", flags |-> Synonyms[name].flags]
        e == Entered(name, d, o)
        s == var_set_initial(Linked(e.vars, e.at, o), e.at, o, config)
    IN /\ o # 0 /\ Len(vars[o].synonyms) < MaxSynonyms
       /\ vars[o].storage                       \* see the README: an original that is gone
       /\ vars' = s.vars /\ groups' = e.groups
       /\ UNCHANGED config

\* The calls on an index; a call that is refused changes nothing.
var_deregister(i) ==
    /\ VarIs(vars[i], "valid")
    /\ vars' = [vars EXCEPT ![i] = VarDeregistered(@)]
    /\ UNCHANGED <<groups, config>>

var_get_value(i) ==
    LET o == Original(vars, i)
    IN IF VarIs(vars[o], "valid") THEN [rc |-> "success", value |-> vars[o].value, storage |-> vars[o].storage]
                                  ELSE [rc |-> "not found"]

\* A number is moved into the storage as it is, an enumerator's is looked up.
InEnum(v, t) == v.type = "enum" => \E w \in DOMAIN EnumNames : EnumNames[w] = t.num
\* Mutant: the flag settable is not asked for.
Settable_any(v) == TRUE
Settable(v) == VarIs(v, "settable")
var_set_value(i, t, source) ==
    LET o == Original(vars, i) IN
    /\ VarIs(vars[o], "valid") /\ Settable(vars[o]) /\ InEnum(vars[o], t)
    /\ vars' = [vars EXCEPT ![o].source = source,
                            ![o].value = IF vars[o].type = "string" THEN var_set_string(t) ELSE t.num]
    /\ UNCHANGED <<groups, config>>

set_flag(v, flag, set) == [v EXCEPT !.flags = IF set THEN @ \cup {flag} ELSE @ \ {flag}]
\* A framework that opens locks its variables: they are settable no more.
group_lock(g) ==
    /\ groups[g].valid
    /\ vars' = [i \in DOMAIN vars |->
                   IF \E k \in DOMAIN groups[g].vars : Original(vars, groups[g].vars[k]) = i
                   THEN set_flag(vars[i], "settable", FALSE) ELSE vars[i]]
    /\ UNCHANGED <<groups, config>>

deregister_group(g) ==
    LET s == group_deregister([groups |-> groups, vars |-> vars], g) IN
    /\ groups[g].valid
    /\ vars' = s.vars /\ groups' = s.groups /\ UNCHANGED config

-----------------------------------------------------------------------------
\* scon_mca_base_var_build_env: the variables with a value that is not the
\* default, for the environment of a child. The string of a variable without
\* storage is read all the same: of a synonym, of one that is deregistered.

AsText(v, x) ==
    CASE v.type = "string" -> [digits |-> FALSE, num |-> 0, rest |-> x]
      [] v.type = "enum" -> [digits |-> FALSE, num |-> 0,
                             rest |-> CHOOSE w \in DOMAIN EnumNames : EnumNames[w] = x]
      [] OTHER -> [digits |-> TRUE, num |-> x, rest |-> ""]
\* The source is written as COMMAND_LINE and looked for as "command".
From(source) ==
    CASE source = "file" -> "file" [] source = "override" -> "override" [] OTHER -> "none"
WithVar(s, i, internal) ==
    LET v == vars[i]
        x == var_get_value(i)
    IN CASE s.rc # "success" \/ v.source = "default" \/ (VarIs(v, "internal") /\ ~internal) -> s
         [] v.type = "string" /\ ~v.storage -> [s EXCEPT !.rc = "crash"]
         [] v.type = "string" /\ v.value = NoValue -> s
         [] x.rc # "success" -> [s EXCEPT !.rc = "not found"]
         [] OTHER -> [s EXCEPT !.env = (<<"full", v.name>> :>
                                           [text |-> AsText(v, x.value), from |-> From(v.source)]) @@ @]
build_env(internal) ==
    FoldLeft(LAMBDA s, i : WithVar(s, i, internal), [rc |-> "success", env |-> <<>>],
             [i \in DOMAIN vars |-> i])

-----------------------------------------------------------------------------
\* The files are read once, when the system is initialised.
VarInit ==
    /\ vars = <<>> /\ groups = <<>>
    /\ \E c \in Configs :
          config = [env |-> c.env, fileSets |-> c.fileSets, override |-> read_files(c.override),
                    envarFiles |-> read_files(c.envarFiles), files |-> read_files(c.fileSets)]

\* A framework registers its group before its components register theirs
\* (scon_mca_base_framework.c:79).
Before(name) ==
    LET d == IF name \in DOMAIN Decls THEN Decls[name] ELSE Synonyms[name]
    IN d.component = "" \/ \E g \in GroupIds(groups, <<d.framework, "">>) : groups[g].valid
VarNext ==
    \/ \E n \in DOMAIN Decls : Before(n) /\ register_variable(n)
    \/ \E n \in DOMAIN Synonyms : Before(n) /\ register_synonym(n)
    \/ \E i \in DOMAIN vars :
          \/ var_deregister(i)
          \/ \E t \in SetTexts : var_set_value(i, t, "set")
    \/ \E g \in DOMAIN groups : group_lock(g) \/ deregister_group(g)
VarSpec == VarInit /\ [][VarNext]_varVars

-----------------------------------------------------------------------------
\* Variables, groups and the lists of both refer to each other, and a valid
\* variable has the storage that its value is read from.
VarTypeOK ==
    /\ \A i \in DOMAIN vars :
          /\ vars[i].name \in Names /\ Original(vars, i) \in DOMAIN vars
          /\ vars[i].source \in {"default", "file", "env", "override", "set"}
          /\ VarIs(vars[i], "valid") /\ vars[i].synonymFor = 0 => vars[i].storage
    /\ \A g \in DOMAIN groups :
          /\ ToSet(groups[g].vars) \subseteq DOMAIN vars
          /\ ToSet(groups[g].subgroups) \subseteq DOMAIN groups

\* A name has one index for ever, however often it is registered and dropped
\* ("will remain constant until scon_mca_base_var_finalize() is called",
\* scon_mca_base_var.h:219), and its group lists it once.
FoundOnce ==
    /\ \A i, j \in DOMAIN vars : vars[i].name = vars[j].name => i = j
    /\ \A i \in DOMAIN vars : \A g \in DOMAIN groups :
          Cardinality({k \in DOMAIN groups[g].vars : groups[g].vars[k] = i}) =
             (IF groups[g].name = vars[i].group THEN 1 ELSE 0)

\* "the entries farthest to the left get precedence" (scon_mca_base_var.c:1264):
\* under each name the files give the last value in the leftmost file that has it.
LastIn(file, key) ==
    file[CHOOSE k \in DOMAIN file : file[k].key = key /\ \A m \in DOMAIN file :
                                        file[m].key = key => m <= k].text
LeftmostWins ==
    \A k \in DOMAIN config.files :
        LET key == config.files[k].key
            has == {f \in DOMAIN config.fileSets : \E m \in DOMAIN config.fileSets[f] :
                                                       config.fileSets[f][m].key = key}
        IN config.files[k].text = LastIn(config.fileSets[CHOOSE f \in has : \A h \in has : f <= h], key)

\* The order in which a variable is resolved (scon_mca_base_var.h:41): the
\* override file, the environment, a file, the default. It holds for what has
\* no synonym and has not been set since.
Readable(v, t) == FromString(v.type, t).rc = "success"
Resolved(v, d) ==
    LET fromFiles == ~VarIs(v, "environment only")
        key == EnvKey(config.env, v)
        Or(list, other) == IF fromFiles /\ Entries(list, v) # {}
                           THEN IF Readable(v, FirstEntry(list, v).text)
                                THEN FromString(v.type, FirstEntry(list, v).text).value ELSE d.default
                           ELSE other
        below == IF key \in DOMAIN config.env
                 THEN IF Readable(v, config.env[key].text)
                      THEN FromString(v.type, config.env[key].text).value ELSE d.default
                 ELSE Or(config.envarFiles, Or(config.files, d.default))
    IN IF VarIs(v, "default only") THEN d.default
       ELSE IF fromFiles /\ Entries(config.override, v) # {} /\ Readable(v, FirstEntry(config.override, v).text)
            THEN FromString(v.type, FirstEntry(config.override, v).text).value ELSE below
ResolvedInOrder ==
    \A i \in DOMAIN vars :
        LET v == vars[i] IN
        VarIs(v, "valid") /\ v.synonymFor = 0 /\ v.synonyms = <<>> /\ v.source # "set"
            => v.value = Resolved(v, Decls[v.name])

\* A value from the override file is changed by nothing: not by a synonym that
\* is registered later, not by scon_mca_base_var_set_value.
OverrideHolds ==
    [][\A i \in DOMAIN vars :
          {"valid", "override"} \subseteq vars[i].flags /\ vars[i].synonymFor = 0 /\ VarIs(vars'[i], "valid")
              => vars'[i].value = vars[i].value]_varVars

\* A framework or component that is gone leaves nothing behind that still
\* points into it: its group's variables and the groups below are invalid.
GoneTogether ==
    \A g \in DOMAIN groups : ~groups[g].valid =>
        /\ \A k \in DOMAIN groups[g].vars : ~({"valid", "dwg"} \subseteq vars[groups[g].vars[k]].flags)
        /\ \A k \in DOMAIN groups[g].subgroups : ~groups[groups[g].subgroups[k]].valid

\* A child that is started with the environment of scon_mca_base_var_build_env
\* and the same files resolves every variable that is not a default to the
\* value that its parent has, unless that is the null string.
InChild(i, env) ==
    LET v == [NewVar(vars[i].name, Decls[vars[i].name], 0) EXCEPT !.value = Decls[vars[i].name].default]
    IN var_set_initial(<<v>>, 1, 1, [config EXCEPT !.env = env]).vars[1].value
ChildInherits ==
    LET b == build_env(TRUE) IN
    b.rc = "success" =>
        \A i \in DOMAIN vars :
            /\ vars[i].synonymFor = 0 /\ vars[i].source # "default"
            /\ vars[i].type = "string" => vars[i].value # NoValue
            => InChild(i, b.env) = vars[i].value

\* What the registry promises at any time: every name leads to the one variable
\* it names, whose value is that of the leftmost of its sources, also in a child.
VariablesHold == VarTypeOK /\ FoundOnce /\ LeftmostWins /\ ResolvedInOrder /\ GoneTogether /\ ChildInherits
=============================================================================
