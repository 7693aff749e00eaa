----------------------- MODULE ProgressThreadsProofs -----------------------
(***************************************************************************)
(* For every set of names: what is held is run, unless the user paused it, *)
(* and no base is freed under a thread.                                    *)
(***************************************************************************)
EXTENDS ProgressThreads, TLAPS

\* The user's thread is stopping the thread of n.
Stopping(n) == caller.in \in {"break", "join"} /\ caller.name = n

\* A name without a tracker has left nothing behind.
UntrackedInv == \A n \in Names \ tracking : held[n] = 0 /\ engine[n] = "none"

\* The count of a tracker is what its users hold; at none it is going away, or
\* the user's thread met the fault.
CountInv == \A n \in tracking :
    /\ refcount[n] = held[n]
    /\ held[n] = 0 => caller.in = "fault" \/ (Stopping(n) /\ caller.release)

\* What is held is inactive or without a thread only where the user paused it.
PausedInv == \A n \in tracking :
    held[n] > 0 /\ (~ev_active[n] \/ engine[n] \in NoThread) => n \in paused

\* A thread that was told to end is being joined.
JoinInv == \A n \in tracking : ~ev_active[n] /\ engine[n] # "none" => Stopping(n)

\* Who is being stopped has its tracker, which says so; if the tracker is to go,
\* nobody holds it.
StopInv == caller.in \in {"break", "join"} =>
    /\ caller.name \in tracking /\ ~ev_active[caller.name]
    /\ caller.release => held[caller.name] = 0

IInv == ProgressTypeOK /\ UntrackedInv /\ CountInv /\ PausedInv /\ JoinInv /\ StopInv

-----------------------------------------------------------------------------
\* What caller may be, told apart by its field in.
LEMMA CallerFacts ==
    /\ Idle.in = "idle" /\ Fault.in = "fault"
    /\ \A n, r : Stop(n, r).in = "break" /\ Stop(n, r).name = n
    /\ \A n : Stop(n, TRUE).release /\ ~Stop(n, FALSE).release
    /\ \A n \in Names :
          /\ Stop(n, TRUE) \in [in : {"break", "join"}, name : Names, release : BOOLEAN]
          /\ Stop(n, FALSE) \in [in : {"break", "join"}, name : Names, release : BOOLEAN]
BY DEF Idle, Fault, Stop

LEMMA InitInv == ProgressInit => IInv
<1> SUFFICES ASSUME ProgressInit PROVE IInv
  OBVIOUS
<1>1. ProgressTypeOK
  BY ProgressAssumption DEF ProgressInit, ProgressTypeOK
<1> QED
  BY <1>1, CallerFacts DEF ProgressInit, IInv, UntrackedInv, CountInv, PausedInv, JoinInv, StopInv

\* Every action keeps the invariant.
LEMMA NextInv == IInv /\ [ProgressNext]_progressVars => IInv'
<1> SUFFICES ASSUME IInv, [ProgressNext]_progressVars PROVE IInv'
  OBVIOUS
<1> USE ProgressAssumption, CallerFacts DEF IInv, NoThread
<1> DEFINE Invs == UntrackedInv /\ CountInv /\ PausedInv /\ JoinInv /\ StopInv
<1>1. CASE UNCHANGED progressVars
  BY <1>1 DEF progressVars, ProgressTypeOK, UntrackedInv, CountInv, PausedInv, JoinInv, StopInv, Stopping
<1>2. ASSUME NEW n \in Names, InitKnown(n) PROVE IInv'
  <2>2. held[n] > 0 /\ refcount[n] = held[n] /\ held[n] + 1 \in 0..MaxRefs
    BY <1>2 DEF InitKnown, ProgressTypeOK, CountInv, Stopping
  <2>1. ProgressTypeOK'
    <3>1. refcount' \in [Names -> 0..MaxRefs] /\ held' \in [Names -> 0..MaxRefs]
      BY <1>2, <2>2 DEF InitKnown, ProgressTypeOK
    <3> QED
      BY <1>2, <3>1 DEF InitKnown, ProgressTypeOK
  <2>3. Invs'
    BY <1>2, <2>2 DEF InitKnown, ProgressTypeOK, UntrackedInv, CountInv, PausedInv, JoinInv, StopInv, Stopping
  <2> QED
    BY <2>1, <2>3
<1>3. ASSUME NEW n \in Names, InitNew(n) PROVE IInv'
  <2>1. ProgressTypeOK'
    <3>1. refcount' \in [Names -> 0..MaxRefs] /\ held' \in [Names -> 0..MaxRefs]
      BY <1>3 DEF InitNew, ProgressTypeOK, UntrackedInv, tracker_constructor
    <3>2. /\ engine' \in [Names -> {"none", "test", "enter", "poll", "run", "done"}]
          /\ tracking' \subseteq Names /\ paused' \subseteq tracking'
      BY <1>3 DEF InitNew, ProgressTypeOK
    <3>3. ev_active' \in [Names -> BOOLEAN] /\ broken' \in [Names -> BOOLEAN]
      BY <1>3 DEF InitNew, ProgressTypeOK
    <3> QED
      BY <1>3, <3>1, <3>2, <3>3 DEF InitNew, ProgressTypeOK
  <2>2. Invs'
    BY <1>3 DEF InitNew, tracker_constructor, ProgressTypeOK, UntrackedInv, CountInv, PausedInv, JoinInv, StopInv, Stopping
  <2> QED
    BY <2>1, <2>2
<1>4. ASSUME NEW n \in Names, Finalize(n) PROVE IInv'
  <2>1. refcount[n] = held[n] /\ held[n] > 0 /\ held[n] \in Nat
    BY <1>4 DEF Finalize, ProgressTypeOK, CountInv
  <2>2. CASE ~LastReference(n)
    <3>1. ProgressTypeOK'
      BY <1>4, <2>1, <2>2 DEF Finalize, ProgressTypeOK
    <3>2. held'[n] > 0 /\ refcount'[n] = held'[n]
      BY <1>4, <2>1, <2>2 DEF Finalize, ProgressTypeOK, LastReference
    <3> QED
      BY <1>4, <2>2, <3>1, <3>2 DEF Finalize, ProgressTypeOK, UntrackedInv, CountInv, PausedInv, JoinInv, StopInv, Stopping
  <2>3. CASE LastReference(n) /\ ev_active[n]
    <3>1. /\ held' = [held EXCEPT ![n] = 0] /\ refcount' = [refcount EXCEPT ![n] = 0]
          /\ ev_active' = [ev_active EXCEPT ![n] = FALSE]
          /\ n \in tracking /\ caller.in = "idle"
          /\ UNCHANGED <<tracking, paused, engine, broken, starts>>
      BY <1>4, <2>1, <2>3 DEF Finalize, ProgressTypeOK, LastReference
    <3>2. /\ caller'.in = "break" /\ caller'.name = n /\ caller'.release
          /\ caller' \in [in : {"break", "join"}, name : Names, release : BOOLEAN]
      <4>1. caller' = Stop(n, TRUE)
        BY <1>4, <2>1, <2>3, Zenon DEF Finalize
      <4> QED
        BY <4>1, CallerFacts, Zenon
    <3>3. ProgressTypeOK'
      BY <3>1, <3>2 DEF ProgressTypeOK
    <3>4. CountInv'
      BY <3>1, <3>2 DEF ProgressTypeOK, CountInv, Stopping
    <3>5. UntrackedInv' /\ PausedInv' /\ StopInv'
      BY <3>1, <3>2 DEF ProgressTypeOK, UntrackedInv, PausedInv, StopInv
    <3>6. JoinInv'
      BY <3>1, <3>2 DEF ProgressTypeOK, JoinInv, Stopping
    <3> QED
      BY <3>3, <3>4, <3>5, <3>6
  <2>4. CASE LastReference(n) /\ ~ev_active[n]
    <3>1. ProgressTypeOK'
      BY <1>4, <2>1, <2>4 DEF Finalize, ProgressTypeOK
    <3>2. held'[n] = 0 /\ engine[n] = "none"
      BY <1>4, <2>1, <2>4 DEF Finalize, ProgressTypeOK, LastReference, JoinInv, Stopping
    <3> QED
      BY <1>4, <2>4, <3>1, <3>2 DEF Finalize, ProgressTypeOK, UntrackedInv, CountInv, PausedInv, JoinInv, StopInv, Stopping
  <2> QED
    BY <2>2, <2>3, <2>4
<1>5. ASSUME NEW n \in Names, Pause(n) PROVE IInv'
  <2>1. ProgressTypeOK'
    BY <1>5 DEF Pause, ProgressTypeOK
  <2>2. Invs'
    <3>1. caller'.in = "break" /\ caller'.name = n /\ ~caller'.release
      BY <1>5 DEF Pause
    <3>5. UntrackedInv'
      BY <1>5 DEF Pause, UntrackedInv
    <3>6. caller.in \notin {"fault", "break", "join"}
      BY <1>5 DEF Pause, Idle
    <3>7. \A m \in tracking : held[m] # 0
      BY <3>6 DEF CountInv, Stopping
    <3>8. CountInv'
      BY <1>5, <3>7 DEF Pause, CountInv
    <3>2. UntrackedInv' /\ CountInv'
      BY <3>5, <3>8
    <3>4. JoinInv' /\ StopInv'
      BY ZenonT(60), <1>5, <3>1 DEF Pause, ProgressTypeOK, JoinInv, StopInv, Stopping
    <3>3. PausedInv'
      BY <1>5 DEF Pause, ProgressTypeOK, PausedInv
    <3> QED
      BY <3>2, <3>3, <3>4
  <2> QED
    BY <2>1, <2>2
<1>6. ASSUME NEW n \in Names, Resume(n) PROVE IInv'
  <2>1. ProgressTypeOK'
    BY <1>6 DEF Resume, ProgressTypeOK
  <2>2. Invs'
    BY <1>6 DEF Resume, ProgressTypeOK, UntrackedInv, CountInv, PausedInv, JoinInv, StopInv, Stopping
  <2> QED
    BY <2>1, <2>2
<1>7. CASE Break
  <2>1. caller \in [in : {"break", "join"}, name : Names, release : BOOLEAN]
    BY <1>7 DEF Break, ProgressTypeOK
  <2>2. /\ caller'.in = "join" /\ caller'.name = caller.name /\ caller'.release = caller.release
        /\ caller' \in [in : {"break", "join"}, name : Names, release : BOOLEAN]
    BY <1>7, <2>1 DEF Break
  <2>3. ProgressTypeOK'
    BY <1>7, <2>1, <2>2 DEF Break, ProgressTypeOK
  <2>4. Invs'
    BY <1>7, <2>1, <2>2 DEF Break, ProgressTypeOK, UntrackedInv, CountInv, PausedInv, JoinInv, StopInv, Stopping
  <2> QED
    BY <2>3, <2>4
<1>8. CASE Join
  <2> DEFINE m == caller.name
  <2>1. /\ caller \in [in : {"break", "join"}, name : Names, release : BOOLEAN]
        /\ m \in tracking /\ ~ev_active[m] /\ engine[m] = "done"
    BY <1>8 DEF Join, Ended, ProgressTypeOK, StopInv
  <2>2. CASE caller.release
    <3>1. /\ engine' = [engine EXCEPT ![m] = "none"] /\ caller' = Idle
          /\ tracking' = tracking \ {m} /\ paused' = paused \ {m}
          /\ UNCHANGED <<refcount, ev_active, broken, held, starts>>
      BY <1>8, <2>1, <2>2 DEF Join
    <3>2. held[m] = 0
      BY <2>1, <2>2 DEF CountInv, StopInv
    <3>3. ProgressTypeOK'
      BY <2>1, <3>1 DEF ProgressTypeOK
    <3> QED
      BY <2>1, <3>1, <3>2, <3>3 DEF ProgressTypeOK, UntrackedInv, CountInv, PausedInv, JoinInv, StopInv, Stopping
  <2>3. CASE ~caller.release
    <3>1. /\ engine' = [engine EXCEPT ![m] = "none"] /\ caller' = Idle
          /\ UNCHANGED <<tracking, paused, refcount, ev_active, broken, held, starts>>
      BY <1>8, <2>1, <2>3 DEF Join
    <3>2. ProgressTypeOK'
      BY <2>1, <3>1 DEF ProgressTypeOK
    <3> QED
      BY <2>1, <2>3, <3>1, <3>2 DEF ProgressTypeOK, UntrackedInv, CountInv, PausedInv, JoinInv, StopInv, Stopping
  <2> QED
    BY <2>2, <2>3
<1>9. CASE JoinNothing
  <2>1. ProgressTypeOK'
    BY <1>9 DEF JoinNothing, ProgressTypeOK
  <2>2. Invs'
    BY <1>9 DEF JoinNothing, ProgressTypeOK, UntrackedInv, CountInv, PausedInv, JoinInv, StopInv, Stopping
  <2> QED
    BY <2>1, <2>2
<1>10. ASSUME NEW n \in Names, Engine(n) \/ Activity(n) PROVE IInv'
  <2>1. /\ UNCHANGED Others
        /\ engine[n] \notin NoThread
        /\ engine' = [engine EXCEPT ![n] = engine'[n]]
        /\ engine'[n] \in {"test", "enter", "poll", "run", "done"}
        /\ engine'[n] = "done" => ~ev_active[n]
        /\ broken' \in [Names -> BOOLEAN]
    <3>1. CASE Test(n)
      BY <3>1 DEF Test, Goes, Others, ProgressTypeOK
    <3>2. CASE Enter(n)
      BY <3>2 DEF Enter, Goes, Others, ProgressTypeOK
    <3>3. CASE Woken(n) \/ LongTimeout(n) \/ Activity(n)
      BY <3>3 DEF Woken, LongTimeout, Activity, Goes, Others, ProgressTypeOK
    <3>4. CASE Return(n)
      BY <3>4 DEF Return, Goes, Others, ProgressTypeOK
    <3> QED
      BY <1>10, <3>1, <3>2, <3>3, <3>4 DEF Engine
  <2>2. ProgressTypeOK'
    BY <2>1 DEF Others, ProgressTypeOK
  <2>3. Invs'
    BY <2>1 DEF Others, ProgressTypeOK, UntrackedInv, CountInv, PausedInv, JoinInv, StopInv, Stopping
  <2> QED
    BY <2>2, <2>3
<1> QED
  BY <1>1, <1>2, <1>3, <1>4, <1>5, <1>6, <1>7, <1>8, <1>9, <1>10 DEF ProgressNext

\* The inductive invariant holds.
THEOREM ThreadsInvariance == ProgressSpec => []IInv
BY InitInv, NextInv, PTL DEF ProgressSpec

\* scon_progress_threads.h:45-50: whatever is initialised and not finalized as often
\* has a base with a thread that runs it, unless it was paused; the counts agree
\* with what was called, and a base is freed only after its thread has ended.
THEOREM ThreadsHoldAlways == ProgressSpec => []ThreadsHold
<1>1. IInv => ThreadsHold
  BY DEF IInv, ThreadsHold, ProgressTypeOK, UntrackedInv, CountInv, PausedInv, HeldIsRun, FreedAfterItsThread
<1> QED
  BY <1>1, ThreadsInvariance, PTL
=============================================================================
