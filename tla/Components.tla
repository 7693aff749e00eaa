----------------------------- MODULE Components -----------------------------
(***************************************************************************)
(* The component architecture (src/mca/base): frameworks that are          *)
(* registered, opened, selected from and closed, the components they find  *)
(* - linked in or in files - and the repository that loads the files.      *)
(*                                                                         *)
(* One call is one step: the library makes them from one thread.  All the  *)
(* global data of the base is one record, so that a call that makes        *)
(* several others is the composition of their operators.                   *)
(***************************************************************************)
EXTENDS Integers, Sequences, SequencesExt

CONSTANTS
  Frameworks,   \* the frameworks, Sdl among them
  Sdl,          \* the framework whose component can load files
  Names,        \* the names of components; they are distinct
  Type,         \* [Names -> Frameworks]: the framework of a component
  LinkedIn,       \* the components that are linked into the library
  Files,        \* the component files in the order the path gives them
  NoDso,        \* frameworks with FLAG_NO_DSO
  NoRegister,   \* frameworks with FLAG_NOREGISTER
  Requests,     \* the values of framework_selection
  Answers,      \* what the functions of a component may answer
  MaxHeld,      \* bound: users of one framework
  MaxFailed,    \* bound: calls that fail for one framework
  MaxKept,      \* bound: users that retain components at a time
  NoComponent

VARIABLES
  mca,          \* the global data of the base
  selection,    \* framework_selection of every framework
  answer,       \* what the functions of every component answer
  users         \* what the callers hold

componentVars == <<mca, selection, answer, users>>

IsDso(n) == n \in Range(Files) /\ n \notin LinkedIn

-----------------------------------------------------------------------------
\* A value of framework_selection: names, `^' before them or `^' inside.
NullRequest == [negate |-> FALSE, names |-> <<>>, late |-> FALSE]

\* scon_mca_base_component_parse_requested: a `^' that is not in front is an
\* error, and names after a leading one are the names to leave out.
parse_requested(req) == ~req.late

\* use_component: include_mode and found are compared with an xnor.
use_component(req, n) ==
  req.names = <<>> \/ (n \in Range(req.names) <=> ~req.negate)

\* component_find_check
component_find_check(s, f, req) ==
  req.negate \/ Range(req.names) \subseteq Range(s.fw[f].list)

-----------------------------------------------------------------------------
\* The repository: one item for each file, in one list for each framework.

\* ri_constructor does not set ri_refcnt; nothing reads it before the open.
ri_constructor == [loaded |-> FALSE, refcnt |-> 0]

\* process_repository_item: a second file of the same name is skipped.
process_repository_item(s, n) ==
  IF n \in Range(s.items[Type[n]]) THEN s
  ELSE [s EXCEPT !.items[Type[n]] = Append(@, n), !.repo[n] = ri_constructor]

repository_add(s, files) == FoldLeft(process_repository_item, s, files)

\* find_component
find_component(s, n) == n \in Range(s.items[Type[n]])

\* scon_mca_base_component_repository_release_internal.  It looks for the
\* variables of the component under no project, and components register
\* theirs under the project scon: it never finds them.
release_internal(s, n) == [s EXCEPT !.repo[n].loaded = FALSE]

\* scon_mca_base_component_repository_release
repository_release(s, n) ==
  IF ~find_component(s, n) THEN s
  ELSE LET t == [s EXCEPT !.repo[n].refcnt = @ - 1]
       IN  IF t.repo[n].refcnt = 0 THEN release_internal(t, n) ELSE t

repository_retain_not(s, n) == s

\* scon_mca_base_component_repository_retain_component
repository_retain(s, n) == [s EXCEPT !.repo[n].refcnt = @ + 1]

Listed(s, f, n) == [s EXCEPT !.fw[f].list = Append(@, n)]

\* scon_mca_base_component_repository_open: a name that is on the list is
\* refused, a library that is still loaded is used again - without another
\* reference - and the rest is loaded, if it is what its name says.
repository_open(s, f, n) ==
  IF n \in Range(s.fw[f].list) \/ ~(s.repo[n].loaded \/ answer[n].valid) THEN s
  ELSE IF s.repo[n].loaded THEN Listed(s, f, n)
  ELSE [Listed(s, f, n) EXCEPT !.repo[n] = [loaded |-> TRUE, refcnt |-> 1]]

-----------------------------------------------------------------------------
\* find_dyn_components
find_dyn_components(s, f, req) ==
  FoldLeft(LAMBDA t, n : IF use_component(req, n) THEN repository_open(t, f, n) ELSE t,
           s, s.items[f])

\* scon_mca_base_component_find: [ok, s].  What it found stays on the list
\* when a requested component is missing.
Checked(s, f, req) == [ok |-> component_find_check(s, f, req), s |-> s]
find_static_components(s, f, req) ==
  [s EXCEPT !.fw[f].list = @ \o SelectSeq(SetToSeq({n \in LinkedIn : Type[n] = f}),
                                          LAMBDA n : use_component(req, n))]
component_find(s, f, all, dso) ==
  LET req   == IF all THEN NullRequest ELSE selection[f]
      found == find_static_components(s, f, req)
  IN  IF ~parse_requested(req) THEN [ok |-> FALSE, s |-> s]
      ELSE Checked(IF dso THEN find_dyn_components(found, f, req) ELSE found, f, req)

\* register_components: the variables of a component are registered by its
\* register function; a component whose function fails leaves the list, and
\* is not unloaded.
register_components(s, f) ==
  [s EXCEPT !.vars = @ \cup Range(s.fw[f].list),
            !.fw[f].list = SelectSeq(@, LAMBDA n : answer[n].register)]

\* What is done with a result, if it is one of success.
IfOk(r, op(_)) == IF r.ok THEN op(r.s) ELSE r
framework_components_register(s, f, all) ==
  IfOk(component_find(s, f, all, f \notin NoDso),
       LAMBDA t : [ok |-> TRUE, s |-> register_components(t, f)])

Without(s, f, n) == [s EXCEPT !.fw[f].list = SelectSeq(@, LAMBDA m : m # n)]

\* scon_mca_base_component_unload: the variables of the component go, then its
\* reference to the library.
component_unload(s, n) == repository_release([s EXCEPT !.vars = @ \ {n}], n)

\* scon_mca_base_component_close
component_close(s, n) == component_unload([s EXCEPT !.up = @ \ {n}], n)

\* scon_mca_base_components_close: all but the one to skip.
components_close(s, f, skip) ==
  FoldLeft(LAMBDA t, n : IF n = skip THEN t ELSE Without(component_close(t, n), f, n),
           s, s.fw[f].list)

\* scon_mca_base_components_filter: unloads what is not requested (it can be
\* on the list when everything was registered).
components_filter(s, f) ==
  LET req == selection[f] IN
  IF req = NullRequest THEN [ok |-> TRUE, s |-> s]
  ELSE IF ~parse_requested(req) THEN [ok |-> FALSE, s |-> s]
  ELSE Checked(FoldLeft(LAMBDA u, n : IF use_component(req, n) THEN u
                                      ELSE component_unload(Without(u, f, n), n),
                        s, s.fw[f].list),
               f, req)

\* open_components: a component that does not open is closed and leaves.
open_components(s, f) ==
  LET Try(t, n) == IF answer[n].open THEN [t EXCEPT !.up = @ \cup {n}]
                   ELSE Without(component_close(t, n), f, n)
  IN  IfOk(components_filter(s, f),
           LAMBDA filtered : [ok |-> TRUE, s |-> FoldLeft(Try, filtered, filtered.fw[f].list)])

framework_components_open(s, f) ==
  IfOk(IF f \in NoRegister THEN component_find(s, f, FALSE, f \notin NoDso)
       ELSE [ok |-> TRUE, s |-> s],
       LAMBDA found : open_components(found, f))

-----------------------------------------------------------------------------
\* scon_mca_base_framework_register: the count goes up before anything can
\* fail, and the list is constructed again.
framework_register(s, f, all) ==
  LET counted == [s EXCEPT !.fw[f].refcnt = @ + 1]
      empty   == [counted EXCEPT !.fw[f].list = <<>>]
  IN  IF "registered" \in s.fw[f].flags THEN [ok |-> TRUE, s |-> counted]
      ELSE IfOk(IF f \in NoRegister THEN [ok |-> TRUE, s |-> empty]
                ELSE framework_components_register(empty, f, all),
                LAMBDA t : [ok |-> TRUE, s |-> [t EXCEPT !.fw[f].flags = @ \cup {"registered"}]])

\* scon_mca_base_framework_open: a failure takes the count back, and leaves
\* the framework registered.
Opened(r, f) == IF r.ok THEN [r EXCEPT !.s.fw[f].flags = @ \cup {"open"}]
                ELSE [r EXCEPT !.s.fw[f].refcnt = @ - 1]
framework_open(s, f) ==
  IfOk(framework_register(s, f, FALSE),
       LAMBDA t : IF "open" \in t.fw[f].flags THEN [ok |-> TRUE, s |-> t]
                  ELSE Opened(framework_components_open(t, f), f))

\* scon_mca_base_framework_close: the last user takes the variables of the
\* framework and of all its components, and closes or unloads the components.
framework_close(s, f) ==
  LET counted == [s EXCEPT !.fw[f].refcnt = @ - 1]
      quiet   == [counted EXCEPT !.vars = {n \in @ : Type[n] # f}]
  IN  IF s.fw[f].flags = {} THEN s
      ELSE IF counted.fw[f].refcnt # 0 THEN counted
      ELSE [(IF "open" \in s.fw[f].flags THEN components_close(quiet, f, NoComponent)
             ELSE FoldLeft(LAMBDA u, n : component_unload(Without(u, f, n), n),
                           quiet, s.fw[f].list))
            EXCEPT !.fw[f].flags = {}, !.best[f] = NoComponent]

\* scon_mca_base_select: asks the components in the order of the list.  The
\* first of the highest priority wins and the others are closed; a fatal
\* answer ends it with everything left as it is.
Fatal(s, f) == \E n \in Range(s.fw[f].list) : answer[n].query = "fatal"
Offers(s, f) == SelectSeq(s.fw[f].list, LAMBDA n : answer[n].query = "module")
Better(n, m) == IF m = NoComponent \/ answer[n].priority > answer[m].priority THEN n ELSE m
Best(s, f) == FoldLeft(LAMBDA m, n : Better(n, m), NoComponent, Offers(s, f))
select(s, f) ==
  IF Fatal(s, f) THEN s
  ELSE [components_close(s, f, Best(s, f)) EXCEPT !.best[f] = Best(s, f)]

\* scon_mca_base_component_repository_init: opens and selects what can load
\* files, then looks for them.
repository_init(s) == repository_add(select(framework_open(s, Sdl).s, Sdl), Files)

\* scon_mca_base_open
base_open(s) ==
  LET counted == [s EXCEPT !.opened = @ + 1]
  IN  IF s.opened > 0 THEN counted ELSE repository_init(counted)

\* ri_destructor for every item, then the framework that can load files.
repository_finalize(s) ==
  LET Destroyed(t, n) == release_internal(t, n)
      all == FoldLeft(LAMBDA seq, f : seq \o s.items[f], <<>>, SetToSeq(Frameworks))
      t   == FoldLeft(Destroyed, s, all)
  IN  framework_close([t EXCEPT !.items = [f \in Frameworks |-> <<>>]], Sdl)

\* scon_mca_base_close
base_close(s) ==
  LET counted == [s EXCEPT !.opened = @ - 1]
  IN  IF counted.opened > 0 THEN counted ELSE repository_finalize(counted)

-----------------------------------------------------------------------------
\* The frameworks without files are what the library needs to start; nobody
\* selects among their components, and their functions succeed.
Own == {n \in Names : Type[n] \in NoDso}
OwnAnswer ==
  [valid |-> TRUE, register |-> TRUE, open |-> TRUE, query |-> "module", priority |-> 1]

ComponentsInit ==
  /\ mca = [ fw     |-> [f \in Frameworks |-> [flags |-> {}, refcnt |-> 0, list |-> <<>>]],
             best   |-> [f \in Frameworks |-> NoComponent],
             repo   |-> [n \in Names |-> ri_constructor],
             items  |-> [f \in Frameworks |-> <<>>],
             vars   |-> {},
             up     |-> {},
             opened |-> 0 ]
  /\ \E sel \in [Frameworks \ NoDso -> Requests] :
       selection = [f \in Frameworks |-> IF f \in NoDso THEN NullRequest ELSE sel[f]]
  /\ \E a \in [Names \ Own -> Answers] :
       answer = [n \in Names |-> IF n \in Own THEN OwnAnswer ELSE a[n]]
  /\ users = [ held   |-> [f \in Frameworks |-> 0],    \* opens and registrations
               failed |-> [f \in Frameworks |-> 0],    \* calls that failed
               kept   |-> [n \in Names |-> 0],         \* calls of retain
               reused |-> {} ]                         \* listed again while retained

Others == Frameworks \ {Sdl}

\* The caller's own record of a call: what succeeded is to be closed later, and
\* a library that was used again while someone retained it is remembered.
Noted(f, r) ==
  [users EXCEPT
     !.held[f]   = IF r.ok THEN @ + 1 ELSE @,
     !.failed[f] = IF r.ok THEN @ ELSE @ + 1,
     !.reused    = @ \cup {n \in Range(mca.items[f]) :
                             /\ "registered" \notin mca.fw[f].flags
                             /\ mca.repo[n].loaded /\ users.kept[n] > 0}]

Register(f, all) ==
  /\ mca.opened > 0 /\ users.held[f] < MaxHeld /\ users.failed[f] < MaxFailed
  /\ \E r \in {framework_register(mca, f, all)} : mca' = r.s /\ users' = Noted(f, r)
  /\ UNCHANGED <<selection, answer>>

Open(f) ==
  /\ mca.opened > 0 /\ users.held[f] < MaxHeld /\ users.failed[f] < MaxFailed
  /\ \E r \in {framework_open(mca, f)} : mca' = r.s /\ users' = Noted(f, r)
  /\ UNCHANGED <<selection, answer>>

Close(f) ==
  /\ users.held[f] > 0
  /\ mca' = framework_close(mca, f)
  /\ users' = [users EXCEPT !.held[f] = @ - 1]
  /\ UNCHANGED <<selection, answer>>

Select(f) ==
  /\ "open" \in mca.fw[f].flags /\ mca.best[f] = NoComponent
  /\ mca' = select(mca, f)
  /\ UNCHANGED <<selection, answer, users>>

Retain(n) ==
  /\ find_component(mca, n) /\ mca.repo[n].loaded /\ \A m \in Names : users.kept[m] < MaxKept
  /\ mca' = repository_retain(mca, n)
  /\ users' = [users EXCEPT !.kept[n] = @ + 1]
  /\ UNCHANGED <<selection, answer>>

Release(n) ==
  /\ users.kept[n] > 0
  /\ mca' = repository_release(mca, n)
  /\ users' = [users EXCEPT !.kept[n] = @ - 1]
  /\ UNCHANGED <<selection, answer>>

BaseOpen ==
  /\ mca.opened < MaxHeld
  /\ mca' = base_open(mca)
  /\ UNCHANGED <<selection, answer, users>>

\* The last close of the base: after the frameworks (scon_mca_base_close.h
\* leaves the order to the caller) and with it goes whatever was retained.
BaseClose ==
  /\ mca.opened > 0
  /\ mca.opened = 1 => \A f \in Others : users.held[f] = 0
  /\ mca' = base_close(mca)
  /\ users' = [users EXCEPT !.kept = IF mca.opened = 1 THEN [n \in Names |-> 0] ELSE @,
                            !.reused = IF mca.opened = 1 THEN {} ELSE @]
  /\ UNCHANGED <<selection, answer>>

ComponentsNext ==
  \/ \E f \in Others : \/ \E all \in BOOLEAN : Register(f, all)
                       \/ Open(f) \/ Close(f) \/ Select(f)
  \/ \E n \in Names : Retain(n) \/ Release(n)
  \/ BaseOpen \/ BaseClose

ComponentsSpec == ComponentsInit /\ [][ComponentsNext]_componentVars

-----------------------------------------------------------------------------
\* The base's data has its type.
ComponentsTypeOK ==
  /\ mca.opened \in 0..MaxHeld /\ mca.vars \subseteq Names /\ mca.up \subseteq Names
  /\ \A f \in Frameworks : /\ mca.fw[f].flags \subseteq {"registered", "open"}
                           /\ mca.fw[f].refcnt \in Nat
                           /\ Range(mca.fw[f].list) \subseteq {n \in Names : Type[n] = f}
                           /\ mca.best[f] \in Names \cup {NoComponent}
  /\ users.held \in [Frameworks -> 0..MaxHeld] /\ users.kept \in [Names -> 0..MaxKept]

\* When everyone who registered or opened a framework has closed it, nothing
\* of it is left: it is neither registered nor open, its list is empty, no
\* component of it is open, its variables are gone, and no library of it is
\* loaded that its own register function has not refused or a user retained.
\* A failed call for the framework voids this (scon_mca_base_framework_register
\* leaves its count raised, scon_mca_base_framework_open its registration).
LastUserLeavesNothing ==
  \A f \in Others :
    users.held[f] = 0 /\ users.failed[f] = 0 =>
      /\ mca.fw[f] = [flags |-> {}, refcnt |-> 0, list |-> <<>>]
      /\ \A n \in Names : Type[n] = f =>
           /\ n \notin mca.up \cup mca.vars
           /\ mca.repo[n].loaded => users.kept[n] > 0 \/ ~answer[n].register

\* The structure a list holds of a component is inside its library: as long as
\* the repository is there, what is on the list of a framework is loaded, and
\* what a user retained stays loaded.  A library that goes back on a list while
\* it is retained voids this (scon_mca_base_component_repository_open does not
\* count the second use), and so does a failed call: the list of a framework
\* that failed to open outlives the repository.
UsedIsLoaded ==
  mca.opened > 0 =>
    \A n \in Names : /\ IsDso(n)
                     /\ \/ users.kept[n] > 0
                        \/ n \in Range(mca.fw[Type[n]].list) /\ users.failed[Type[n]] = 0
                     /\ n \notin users.reused
                     => mca.repo[n].loaded

\* Every call of an open function is met by one call of the close function:
\* the components that are open are those on the lists of the open frameworks.
OpenIsListed ==
  mca.up = {n \in Names : "open" \in mca.fw[Type[n]].flags /\
                          n \in Range(mca.fw[Type[n]].list)}

\* An open framework holds only components that framework_selection allows,
\* however the framework was registered first (REGISTER_ALL ignores it).
SelectionHonoured ==
  \A f \in Frameworks : "open" \in mca.fw[f].flags =>
    /\ parse_requested(selection[f])
    /\ \A n \in Range(mca.fw[f].list) : use_component(selection[f], n)

Position(list, n) == CHOOSE i \in DOMAIN list : list[i] = n

\* A selection that succeeds leaves the selected component alone on the list,
\* no component that answered had a higher priority, and of two with the same
\* the one the list named first is taken; the others are closed and unloaded.
BestStays ==
  [][ \A f \in Frameworks : mca'.best[f] # mca.best[f] /\ mca'.best[f] # NoComponent =>
        LET best == mca'.best[f]
            list == mca'.fw[f].list
        IN  /\ list = <<best>>
            /\ f # Sdl =>
                 \A n \in Range(mca.fw[f].list) \ {best} :
                   /\ n \notin mca'.up /\ (IsDso(n) /\ users.kept[n] = 0 => ~mca'.repo[n].loaded)
                   /\ answer[n].query = "module" =>
                        \/ answer[n].priority < answer[best].priority
                        \/ /\ answer[n].priority = answer[best].priority
                           /\ Position(mca.fw[f].list, best) < Position(mca.fw[f].list, n)
    ]_componentVars

\* What the frameworks promise: what is used is loaded, what is open is listed
\* and was asked for, and the last user leaves nothing behind.
ComponentsHold ==
    ComponentsTypeOK /\ LastUserLeavesNothing /\ UsedIsLoaded /\ OpenIsListed /\ SelectionHonoured
=============================================================================
