------------------------------ MODULE MCProcess ------------------------------
(* What a process sets up, one part at a time: the enumerators of the mca  *)
(* base, the progress threads, and the SCONs it creates. The parts that    *)
(* are not run stay as they are.                                           *)
EXTENDS Enumerators, ProgressThreads

VARIABLES part,
    queue, draining, channel,
    program, step, log, scons, published, ongoing, last_seq, done, received, dropped,
    crashed
lifeState == <<queue, draining, channel, program, step, log, scons, published, ongoing,
               last_seq, done, received, dropped, crashed>>
processVars == <<part, enumeratorVars, progressVars, lifeState>>

-----------------------------------------------------------------------------
\* The thread of a framework and the one that is shared by name.
MCNames == {"shared", "PT2PT_BASE"}

\* Three values with a gap between them; the levels of verbosity of the base; three flags, two of which exclude each other.
MCEnumValues == <<[value |-> 1, string |-> "one"], [value |-> 3, string |-> "three"],
                  [value |-> 4, string |-> "uno"]>>
MCVerbosities == <<[value |-> 0, string |-> "none"], [value |-> 1, string |-> "error"],
                   [value |-> 10, string |-> "component"], [value |-> 100, string |-> "max"]>>
MCFlags == <<[flag |-> 1, string |-> "a", conflict |-> {}], [flag |-> 2, string |-> "b", conflict |-> {4}],
             [flag |-> 4, string |-> "c", conflict |-> {2}]>>
Digits(n) == [num |-> n, rest |-> ""]
MCTexts == {Digits(n) : n \in {-1, 0, 1, 3, 4, 10, 101}}
           \cup {Word(w) : w \in {"true", "no", "three", "max", "junk"}}
MCNumbers == {-1, 0, 1, 3, 4, 7, 10, 50, 100, 101}
FlagTexts == {Word("a"), Word("b"), Word("c"), Digits(1), Digits(2), Digits(0)}
MCFlagLists == {<<>>} \cup {<<x>> : x \in FlagTexts} \cup (FlagTexts \X FlagTexts)
               \cup {<<x, Word("b"), y>> : x, y \in FlagTexts}
               \cup {<<Word("a"), Word("b"), Word("c"), Digits(0)>>}

\* SCONs on a chain of three, where the member between the ends may be deleting when
\* a message passes, and on a star, whose master has two reports to count.
Chain == INSTANCE SconLifecycle WITH
    N <- 3, Parent <- [r \in 1..2 |-> r - 1], Relatives <- [r \in 0..2 |-> (r + 1)..2],
    MasterThreads <- TRUE, MaxHandle <- 3, Pairs <- {<<2, 0>>},
    Programs <- {<<"create", "send", "delete">>, <<"partial", "create", "delete">>,
                 <<"create", "create", "delete">>, <<"create", "delete", "create">>}
Star == INSTANCE SconLifecycle WITH
    N <- 3, Parent <- [r \in 1..2 |-> 0], Relatives <- [r \in 0..2 |-> {c \in 1..2 : r = 0}],
    MasterThreads <- TRUE, MaxHandle <- 3, Pairs <- {<<1, 2>>},
    Programs <- {<<"create", "send", "delete">>}

-----------------------------------------------------------------------------
FirstOf(S) == CHOOSE x \in S : TRUE
ProcessInit ==
    /\ part \in {"enumerators", "threads", "chain", "star"}
    /\ ProgressInit
    /\ IF part = "star" THEN Star!Init
       ELSE Chain!Init /\ (part # "chain" => program = <<"create", "send", "delete">>)
    /\ IF part = "enumerators" THEN EnumeratorInit
       ELSE text = FirstOf(MCTexts) /\ number = 0 /\ list = <<>>

Runs(A) == part = "threads" /\ A
           /\ UNCHANGED <<part, enumeratorVars, lifeState>>
Lives(tree, A) == part = tree /\ A
                  /\ UNCHANGED <<part, enumeratorVars, progressVars>>
LifeNext == Lives("chain", Chain!Next) \/ Lives("star", Star!Next)
ProcessNext == Runs(ProgressNext) \/ LifeNext

\* The fairness that the specifications of the parts state.
ProcessSpec ==
    /\ ProcessInit /\ [][ProcessNext]_processVars
    /\ WF_lifeState(LifeNext)
    /\ WF_progressVars(Runs(Break \/ Join \/ JoinNothing))
    /\ \A n \in Names : WF_progressVars(Runs(Engine(n)))

-----------------------------------------------------------------------------
\* The properties of the parts; those of the first two keep their names.
SconsHold == IF part = "star" THEN Star!SconsHold ELSE Chain!SconsHold
HeldUntilIssued == Chain!HeldUntilIssued
SconsComplete == /\ Chain!OnlyEarlyReportsDropped
                 /\ part = "chain" => Chain!FirstSconCompletes
                 /\ part = "star" => Star!FirstSconCompletes
=============================================================================
