--------------------------- MODULE ProgressThreads ---------------------------
(***************************************************************************)
(* The progress threads of a process (runtime/scon_progress_threads.c): by *)
(* name, with a reference count, an event base and a thread that runs it.  *)
(*                                                                         *)
(* One thread of the user's opens and closes the frameworks that ask for   *)
(* them. Against it run the threads themselves, each a loop                *)
(*     while (trk->ev_active) scon_event_loop(trk->ev_base, ONCE);         *)
(* Of libevent the model has this: a loop that is entered clears the flag  *)
(* that loopbreak sets; loopbreak wakes a loop that polls; a pass of the   *)
(* loop polls, runs what is active and returns.                            *)
(***************************************************************************)
EXTENDS Naturals, FiniteSets

CONSTANTS
    Names,          \* the names of progress threads
    MaxRefs,        \* bound: references to a name
    MaxStarts       \* bound: threads started, or tried

ASSUME ProgressAssumption == MaxRefs \in Nat \ {0}

VARIABLES
    tracking,       \* the names that have a tracker
    refcount,       \* refcount[n], ev_active[n]: in the tracker
    ev_active,
    engine,         \* engine[n]: where its thread is
    broken,         \* broken[n]: libevent's event_break
    caller,         \* what the user's thread is in: [in, name, release]
    held,           \* held[n]: inits that succeeded less the finalizes
    paused,         \* names that the user paused, or could not resume
    starts

progressVars == <<tracking, refcount, ev_active, engine, broken, caller, held, paused, starts>>

Idle == [in |-> "idle"]
Stop(n, release) == [in |-> "break", name |-> n, release |-> release]
Fault == [in |-> "fault"]
NoThread == {"none", "done"}

ProgressInit ==
    /\ tracking = {} /\ paused = {}
    /\ refcount = [n \in Names |-> 0] /\ held = [n \in Names |-> 0]
    /\ ev_active = [n \in Names |-> FALSE] /\ broken = [n \in Names |-> FALSE]
    /\ engine = [n \in Names |-> "none"]
    /\ caller = Idle
    /\ starts = 0

-----------------------------------------------------------------------------
\* scon_progress_thread_init of a name that has a thread.
InitKnown(n) ==
    /\ caller = Idle /\ n \in tracking /\ refcount[n] < MaxRefs
    /\ refcount' = [refcount EXCEPT ![n] = @ + 1]
    /\ held' = [held EXCEPT ![n] = @ + 1]
    /\ UNCHANGED <<tracking, ev_active, engine, broken, caller, paused, starts>>

tracker_constructor == 1

\* start_progress_engine: pthread_create may fail. Then the tracker is released.
InitNew(n) ==
    /\ caller = Idle /\ n \notin tracking /\ starts < MaxStarts
    /\ starts' = starts + 1
    /\ \/ /\ tracking' = tracking \cup {n}
          /\ refcount' = [refcount EXCEPT ![n] = tracker_constructor]
          /\ ev_active' = [ev_active EXCEPT ![n] = TRUE]
          /\ engine' = [engine EXCEPT ![n] = "test"]
          /\ broken' = [broken EXCEPT ![n] = FALSE]
          /\ held' = [held EXCEPT ![n] = @ + 1]
       \/ UNCHANGED <<tracking, refcount, ev_active, engine, broken, held>>
    /\ UNCHANGED <<caller, paused>>

(***************************************************************************)
(* scon_progress_thread_finalize. The last reference stops the thread, if  *)
(* there is one, and then the tracker goes with its base.                  *)
(***************************************************************************)
\* Mutant: the count is compared with one.
LastReference_early(n) == refcount[n] \in {1, 2}
LastReference(n) == refcount[n] = 1
Finalize(n) ==
    /\ caller = Idle /\ n \in tracking /\ held[n] > 0
    /\ held' = [held EXCEPT ![n] = @ - 1]
    /\ refcount' = [refcount EXCEPT ![n] = IF @ = 0 THEN 0 ELSE @ - 1]
    /\ IF ~LastReference(n)
       THEN UNCHANGED <<tracking, ev_active, caller, paused>>
       ELSE IF ev_active[n]
       THEN /\ ev_active' = [ev_active EXCEPT ![n] = FALSE]
            /\ caller' = Stop(n, TRUE)
            /\ UNCHANGED <<tracking, paused>>
       ELSE /\ tracking' = tracking \ {n} /\ paused' = paused \ {n}
            /\ UNCHANGED <<ev_active, caller>>
    /\ UNCHANGED <<engine, broken, starts>>

\* scon_progress_thread_pause.
Pause(n) ==
    /\ caller = Idle /\ n \in tracking /\ ev_active[n]
    /\ ev_active' = [ev_active EXCEPT ![n] = FALSE]
    /\ caller' = Stop(n, FALSE)
    /\ paused' = paused \cup {n}
    /\ UNCHANGED <<tracking, refcount, engine, broken, held, starts>>

\* scon_progress_thread_resume. When the thread cannot be started the tracker says
\* that it is active all the same.
Resume(n) ==
    /\ caller = Idle /\ n \in tracking /\ ~ev_active[n] /\ starts < MaxStarts
    /\ starts' = starts + 1
    /\ ev_active' = [ev_active EXCEPT ![n] = TRUE]
    /\ \/ /\ engine' = [engine EXCEPT ![n] = "test"]
          /\ paused' = paused \ {n}
       \/ UNCHANGED <<engine, paused>>
    /\ UNCHANGED <<tracking, refcount, broken, caller, held>>

-----------------------------------------------------------------------------
\* stop_progress_engine, after ev_active: the loop is broken.
Break ==
    /\ caller.in = "break"
    /\ broken' = [broken EXCEPT ![caller.name] = TRUE]
    /\ caller' = [caller EXCEPT !.in = "join"]
    /\ UNCHANGED <<tracking, refcount, ev_active, engine, held, paused, starts>>

\* And joined. A thread that never was is joined by a handle of -1: a fault.
Ended(n) == engine[n] = "done"
Join ==
    /\ caller.in = "join" /\ Ended(caller.name)
    /\ caller' = Idle
    /\ IF caller.release
       THEN /\ tracking' = tracking \ {caller.name} /\ paused' = paused \ {caller.name}
            /\ engine' = [engine EXCEPT ![caller.name] = IF @ = "done" THEN "none" ELSE @]
       ELSE /\ engine' = [engine EXCEPT ![caller.name] = "none"]
            /\ UNCHANGED <<tracking, paused>>
    /\ UNCHANGED <<refcount, ev_active, broken, held, starts>>
JoinNothing ==
    /\ caller.in = "join" /\ engine[caller.name] = "none"
    /\ caller' = Fault
    /\ UNCHANGED <<tracking, refcount, ev_active, engine, broken, held, paused, starts>>

-----------------------------------------------------------------------------
\* progress_engine.
Goes(n, from, to) == engine[n] = from /\ engine' = [engine EXCEPT ![n] = to]
Others == <<tracking, refcount, ev_active, caller, held, paused, starts>>

Test(n) == /\ Goes(n, "test", IF ev_active[n] THEN "enter" ELSE "done")
           /\ UNCHANGED <<broken, Others>>
\* event_base_loop forgets a break that came before it.
Enter(n) == /\ Goes(n, "enter", "poll")
            /\ broken' = [broken EXCEPT ![n] = FALSE]
            /\ UNCHANGED Others
\* The poll ends: somebody activated an event, or loopbreak woke it.
Activity(n) == Goes(n, "poll", "run") /\ UNCHANGED <<broken, Others>>
Woken(n) == broken[n] /\ Goes(n, "poll", "run") /\ UNCHANGED <<broken, Others>>
\* Or the event that keeps the base from being empty fires, once in an hour;
\* dummy_timeout_cb adds it again. Mutant: a base without that event.
Armed_not(n) == FALSE
Armed(n) == n \in tracking
LongTimeout(n) == Armed(n) /\ Goes(n, "poll", "run") /\ UNCHANGED <<broken, Others>>
Return(n) == Goes(n, "run", "test") /\ UNCHANGED <<broken, Others>>

Engine(n) == Test(n) \/ Enter(n) \/ Woken(n) \/ LongTimeout(n) \/ Return(n)
ProgressNext ==
    \/ \E n \in Names : InitKnown(n) \/ InitNew(n) \/ Finalize(n) \/ Pause(n) \/ Resume(n)
    \/ Break \/ Join \/ JoinNothing
    \/ \E n \in Names : Engine(n) \/ Activity(n)

\* The threads run, the hour passes, and a call that has begun goes on.
ProgressFair == /\ WF_progressVars(Break \/ Join \/ JoinNothing)
                /\ \A n \in Names : WF_progressVars(Engine(n))
ProgressSpec == ProgressInit /\ [][ProgressNext]_progressVars /\ ProgressFair

-----------------------------------------------------------------------------
ProgressTypeOK ==
    /\ tracking \subseteq Names /\ paused \subseteq tracking
    /\ refcount \in [Names -> 0..MaxRefs] /\ held \in [Names -> 0..MaxRefs]
    /\ ev_active \in [Names -> BOOLEAN] /\ broken \in [Names -> BOOLEAN]
    /\ engine \in [Names -> {"none", "test", "enter", "poll", "run", "done"}]
    /\ \/ caller \in {Idle, Fault}
       \/ caller \in [in : {"break", "join"}, name : Names, release : BOOLEAN]

\* A base that was handed out and not given back exists, and a thread runs it unless
\* the user paused it: "reference counted" (scon_progress_threads.h:45).
HeldIsRun ==
    \A n \in Names : held[n] > 0 =>
        /\ n \in tracking /\ refcount[n] = held[n]
        /\ engine[n] \in NoThread => n \in paused

\* A base is freed only when the thread that runs it has ended.
FreedAfterItsThread == \A n \in Names : n \notin tracking => engine[n] = "none"

\* Once finalize was called as often as init, the thread is shut down and the base
\* destroyed in the end (scon_progress_threads.h:47-50), if need be after the hour.
ShutDownInTheEnd ==
    \A n \in Names : (n \in tracking /\ held[n] = 0) ~> (n \notin tracking \/ caller.in = "fault")

\* What is held is run, and nothing is freed that a thread still uses.
ThreadsHold == ProgressTypeOK /\ HeldIsRun /\ FreedAfterItsThread
=============================================================================
