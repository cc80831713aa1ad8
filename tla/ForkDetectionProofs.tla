------------------------ MODULE ForkDetectionProofs ------------------------
(***************************************************************************)
(* ForkNoticed of ForkDetection, for any number of threads and of forks.   *)
(*                                                                         *)
(* The number alone is not inductive.  What makes it so: who is between    *)
(* two steps holds the lock its place says, so that the number a reader    *)
(* took is still the current one when it returns it; and while the page    *)
(* tells of a fork nothing has been returned yet, while it does not, the   *)
(* current number is larger than all of the ancestors'.                    *)
(***************************************************************************)
EXTENDS ForkDetection, FiniteSetTheorems, TLAPS

ForkTypeOK ==
    /\ fgn \in [current : Nat, enabled : BOOLEAN, once : BOOLEAN,
                sentinel : {S2N_FORK_EVENT, S2N_NO_FORK_EVENT}, atfork : BOOLEAN, generation : Nat]
    /\ lock \in [readers : SUBSET Callers, writer : SUBSET Callers]
    /\ caller \in [Callers -> [at : {"outside", "reading", "upgrading", "writing", "stuck"}, fgn : Nat]]
    /\ returned \in SUBSET Nat
    /\ before \in SUBSET Nat
    /\ wipes \in BOOLEAN

\* Before detection is set up, or when that failed, nobody gets past the test.
Disabled == ~fgn.enabled => /\ returned = {} /\ before = {}
                            /\ lock = Unlocked
                            /\ \A t \in Callers : caller[t].at = "outside"

\* A thread between two steps holds what it took, and writers are alone.
LocksHeld ==
    /\ lock.writer # {} => lock.readers = {}
    /\ \A t \in Callers : /\ caller[t].at = "reading" => t \in lock.readers /\ caller[t].fgn = fgn.current
                          /\ caller[t].at = "writing" => lock.writer = {t}

\* The numbers of the ancestors are behind the one returned here.
NumbersApart ==
    /\ returned \subseteq {fgn.current}
    /\ \A n \in before : n <= fgn.current
    /\ fgn.sentinel = S2N_NO_FORK_EVENT => fgn.current \notin before
    /\ fgn.enabled /\ fgn.sentinel = S2N_FORK_EVENT => returned = {}

ForkInv == /\ ForkTypeOK
           /\ fgn.atfork = fgn.enabled
           /\ fgn.enabled => fgn.once
           /\ Disabled
           /\ LocksHeld
           /\ NumbersApart

-----------------------------------------------------------------------------
\* Before the first call nobody holds the lock and no fork has happened.
LEMMA ForkInvInit == ForkInit => ForkInv
BY DEF ForkInit, ForkInv, ForkTypeOK, Disabled, LocksHeld, NumbersApart, Outside, Unlocked,
       S2N_FORK_EVENT, S2N_NO_FORK_EVENT

\* Every step of a thread, a handler or a fork keeps the invariant.
LEMMA ForkInvNext == ForkInv /\ [ForkNext]_fdvars => ForkInv'
<1> SUFFICES ASSUME ForkInv, [ForkNext]_fdvars PROVE ForkInv'
    OBVIOUS
<1> USE DEF ForkInv, S2N_FORK_EVENT, S2N_NO_FORK_EVENT
<1>1. ASSUME NEW t \in Callers, s2n_initialise_fork_detection_methods(t) PROVE ForkInv'
    <2> USE <1>1 DEF s2n_initialise_fork_detection_methods
    <2>1. ForkTypeOK'
        BY DEF ForkTypeOK
    <2>2. Disabled' /\ LocksHeld' /\ NumbersApart' /\ (fgn.atfork = fgn.enabled)' /\ (fgn.enabled => fgn.once)'
        BY DEF Disabled, LocksHeld, NumbersApart, ForkTypeOK, Unlocked
    <2> QED BY <2>1, <2>2
<1>2. ASSUME NEW t \in Callers, ReadLock(t) PROVE ForkInv'
    <2> USE <1>2 DEF ReadLock, Goto
    <2>1. ForkTypeOK'
        BY DEF ForkTypeOK
    <2>2. LocksHeld'
        BY DEF LocksHeld, ForkTypeOK
    <2> QED BY <2>1, <2>2 DEF Disabled, NumbersApart
<1>3. ASSUME NEW t \in Callers, ReadUnlock(t) PROVE ForkInv'
    <2> USE <1>3 DEF ReadUnlock, Goto
    <2>1. ForkTypeOK'
        BY DEF ForkTypeOK
    <2>2. LocksHeld'
        BY DEF LocksHeld, ForkTypeOK
    <2>3. fgn.enabled
        BY DEF Disabled
    <2>4. NumbersApart'
        BY DEF NumbersApart, LocksHeld, ForkTypeOK
    <2> QED BY <2>1, <2>2, <2>3, <2>4 DEF Disabled
<1>4. ASSUME NEW t \in Callers, WriteLock(t) PROVE ForkInv'
    <2> USE <1>4 DEF WriteLock, Goto
    <2>1. ForkTypeOK'
        BY DEF ForkTypeOK
    <2>2. LocksHeld'
        BY DEF LocksHeld, ForkTypeOK, Unlocked
    <2>3. fgn.enabled
        BY DEF Disabled
    <2> QED BY <2>1, <2>2, <2>3 DEF Disabled, NumbersApart
<1>5. ASSUME NEW t \in Callers, WriteUnlock(t) PROVE ForkInv'
    <2> USE <1>5 DEF WriteUnlock, Goto, Raised
    <2>0. /\ fgn' \in [current : Nat, enabled : BOOLEAN, once : BOOLEAN,
                        sentinel : {S2N_FORK_EVENT, S2N_NO_FORK_EVENT}, atfork : BOOLEAN, generation : Nat]
          /\ returned' \in SUBSET Nat
        <3>1. CASE fgn.sentinel = S2N_FORK_EVENT
            <4>1. fgn.current + 1 \in Nat
                BY DEF ForkTypeOK
            <4>2. fgn' = [fgn EXCEPT !.sentinel = S2N_NO_FORK_EVENT, !.current = fgn.current + 1]
                BY <3>1
            <4>3. fgn'.current = fgn.current + 1
                BY <4>2 DEF ForkTypeOK
            <4> HIDE <1>5
            <4>4. fgn' \in [current : Nat, enabled : BOOLEAN, once : BOOLEAN,
                            sentinel : {S2N_FORK_EVENT, S2N_NO_FORK_EVENT}, atfork : BOOLEAN, generation : Nat]
                BY <4>1, <4>2 DEF ForkTypeOK
            <4>5. returned' \in SUBSET Nat
                BY <1>5, <4>1, <4>3 DEF ForkTypeOK
            <4> QED BY <4>4, <4>5
        <3>2. CASE fgn.sentinel # S2N_FORK_EVENT
            BY <3>2 DEF ForkTypeOK
        <3> QED BY <3>1, <3>2
    <2>1. ForkTypeOK'
        BY <2>0 DEF ForkTypeOK, Unlocked
    <2>2. LocksHeld'
        BY DEF LocksHeld, ForkTypeOK, Unlocked
    <2>3. fgn.enabled
        BY DEF Disabled
    <2>4. NumbersApart'
        BY <2>3 DEF NumbersApart, ForkTypeOK
    <2>5. fgn'.enabled = fgn.enabled /\ fgn'.atfork = fgn.atfork /\ fgn'.once = fgn.once
        BY DEF ForkTypeOK
    <2> QED BY <2>1, <2>2, <2>3, <2>4, <2>5 DEF Disabled
<1>6. ASSUME NEW t \in Callers, Forks(t) PROVE ForkInv'
    <2> USE <1>6 DEF Forks, s2n_pthread_atfork_on_fork
    <2>0. fgn'.enabled = fgn.enabled /\ fgn'.atfork = fgn.atfork /\ fgn'.once = fgn.once
          /\ fgn'.current = fgn.current /\ (fgn.enabled => fgn'.sentinel = S2N_FORK_EVENT)
        BY DEF ForkTypeOK
    <2>1. ForkTypeOK'
        BY DEF ForkTypeOK, Outside
    <2>2. LocksHeld'
        BY <2>0 DEF LocksHeld, ForkTypeOK, Outside
    <2>3. NumbersApart'
        BY <2>0 DEF NumbersApart, ForkTypeOK, Disabled
    <2>4. Disabled'
        BY <2>0 DEF Disabled, Outside
    <2> QED BY <2>0, <2>1, <2>2, <2>3, <2>4
<1>7. CASE UNCHANGED fdvars
    BY <1>7 DEF fdvars, ForkTypeOK, Disabled, LocksHeld, NumbersApart
<1> QED
    BY <1>1, <1>2, <1>3, <1>4, <1>5, <1>6, <1>7 DEF ForkNext

\* A thread that returns from the call has the number of its own process.
LEMMA ForkInvSuffices == ForkInv => ForkNoticed
<1> SUFFICES ASSUME ForkInv PROVE ForkNoticed
    OBVIOUS
<1> USE DEF ForkInv
<1>1. returned \cap before = {}
    BY DEF NumbersApart, Disabled, ForkTypeOK
<1>2. IsFiniteSet({fgn.current}) /\ Cardinality({fgn.current}) = 1
    BY FS_Singleton
<1>3. Cardinality(returned) <= 1
    BY <1>2, FS_Subset DEF NumbersApart
<1> QED
    BY <1>1, <1>3 DEF ForkNoticed

\* Whatever threads call s2n_get_fork_generation_number and whichever of them
\* fork, a process returns one number, which no ancestor returned.
THEOREM ForkAlwaysNoticed == ForkSpec => []ForkNoticed
<1>1. ForkSpec => []ForkInv
    BY ForkInvInit, ForkInvNext, PTL DEF ForkSpec
<1> QED
    BY <1>1, ForkInvSuffices, PTL
=============================================================================
