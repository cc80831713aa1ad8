---------------------------- MODULE ForkDetection ----------------------------
(***************************************************************************)
(* The fork generation number (utils/s2n_fork_detection.c): threads read   *)
(* it under a lock, and the first of a child to read it raises it.         *)
(*                                                                         *)
(* The state is that of one process; a fork goes on with the child, whose  *)
(* only thread is the one that forked, or with the parent by not forking.  *)
(***************************************************************************)
EXTENDS Integers, FiniteSets

CONSTANTS Callers,       \* the threads of a process
          MaxGenerations \* how many forks follow one another

ASSUME ForkDetectionConstants == MaxGenerations \in Nat

VARIABLES fgn,           \* fgn_state: current_fork_generation_number, is_fork_detection_enabled,
                         \*   zero_on_fork_addr as sentinel, the page set up as mapped
          lock,          \* [readers, writer] of fork_detection_rw_lock
          caller,        \* where each thread is, and the number it will return
          returned,      \* the numbers returned in this process
          before,        \* the numbers returned in its ancestors
          wipes          \* whether the kernel clears the page

fdvars == <<fgn, lock, caller, returned, before, wipes>>

S2N_FORK_EVENT == 0
S2N_NO_FORK_EVENT == 1

Outside == [at |-> "outside", fgn |-> 0]
Unlocked == [readers |-> {}, writer |-> {}]

ForkInit == /\ fgn = [current |-> 0, enabled |-> FALSE, once |-> FALSE,
                      sentinel |-> S2N_FORK_EVENT, atfork |-> FALSE, generation |-> 0]
            /\ lock = Unlocked
            /\ caller = [t \in Callers |-> Outside]
            /\ returned = {}
            /\ before = {}
            /\ wipes \in BOOLEAN

Goto(t, at, n) == caller' = [caller EXCEPT ![t] = [at |-> at, fgn |-> n]]

\* Once in a process and its children.  A failure to map the page or to
\* register the handler leaves detection off, and every call fails.
s2n_initialise_fork_detection_methods(t) ==
    /\ caller[t].at = "outside"
    /\ ~fgn.once
    /\ \E ok \in BOOLEAN :
          fgn' = [fgn EXCEPT !.once = TRUE, !.enabled = ok, !.atfork = ok,
                             !.sentinel = IF ok THEN S2N_NO_FORK_EVENT ELSE @]
    /\ UNCHANGED <<lock, caller, returned, before, wipes>>

\* The steps of s2n_get_fork_generation_number: with the read lock,
ReadLock(t) == /\ caller[t].at = "outside"
               /\ fgn.once /\ fgn.enabled
               /\ lock.writer = {}
               /\ lock' = [lock EXCEPT !.readers = @ \cup {t}]
               /\ Goto(t, "reading", fgn.current)
               /\ UNCHANGED <<fgn, returned, before, wipes>>

\* which it gives back,
ReadUnlock(t) == LET quiet == fgn.sentinel # S2N_FORK_EVENT
                 IN  /\ caller[t].at = "reading"
                     /\ lock' = [lock EXCEPT !.readers = @ \ {t}]
                     /\ returned' = IF quiet THEN returned \cup {caller[t].fgn} ELSE returned
                     /\ Goto(t, IF quiet THEN "outside" ELSE "upgrading", IF quiet THEN 0 ELSE caller[t].fgn)
                     /\ UNCHANGED <<fgn, before, wipes>>

\* and after a fork with the write lock, when another thread may have been
\* there first.
WriteLock(t) == /\ caller[t].at = "upgrading"
                /\ lock = Unlocked
                /\ lock' = [lock EXCEPT !.writer = {t}]
                /\ Goto(t, "writing", fgn.current)
                /\ UNCHANGED <<fgn, returned, before, wipes>>

\* Mutant: the sentinel is not looked at again.
Raised_NoCheck(f) == [f EXCEPT !.sentinel = S2N_NO_FORK_EVENT, !.current = @ + 1]

Raised(f) == IF f.sentinel = S2N_FORK_EVENT
             THEN [f EXCEPT !.sentinel = S2N_NO_FORK_EVENT, !.current = @ + 1]
             ELSE f

WriteUnlock(t) == /\ caller[t].at = "writing"
                  /\ fgn' = Raised(fgn)
                  /\ lock' = Unlocked
                  /\ returned' = returned \cup {fgn'.current}
                  /\ Goto(t, "outside", 0)
                  /\ UNCHANGED <<before, wipes>>

\* The handler in the child takes the write lock: it never returns when a
\* thread of the parent held the lock, and the child does nothing more.
s2n_pthread_atfork_on_fork(f) ==
    IF wipes \/ f.atfork THEN [f EXCEPT !.sentinel = S2N_FORK_EVENT] ELSE f

Forks(t) == LET stuck == fgn.atfork /\ lock # Unlocked
            IN  /\ caller[t].at = "outside"
                /\ fgn.generation < MaxGenerations
                /\ fgn' = [s2n_pthread_atfork_on_fork(fgn) EXCEPT !.generation = @ + 1]
                /\ caller' = [u \in Callers |-> IF stuck THEN [at |-> "stuck", fgn |-> 0] ELSE Outside]
                /\ before' = before \cup returned
                /\ returned' = {}
                /\ UNCHANGED <<lock, wipes>>

ForkNext == \E t \in Callers : \/ s2n_initialise_fork_detection_methods(t)
                               \/ ReadLock(t) \/ ReadUnlock(t)
                               \/ WriteLock(t) \/ WriteUnlock(t)
                               \/ Forks(t)

ForkSpec == ForkInit /\ [][ForkNext]_fdvars

-----------------------------------------------------------------------------
\* A fork is noticed: what a process returns was returned in no ancestor, and
\* its threads agree, even when several find the sentinel cleared at once
\* (s2n_get_fork_generation_number looks again under the write lock).
ForkNoticed == returned \cap before = {} /\ Cardinality(returned) <= 1

=============================================================================
