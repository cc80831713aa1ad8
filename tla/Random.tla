------------------------------- MODULE Random -------------------------------
(***************************************************************************)
(* The library's life (utils/s2n_init.c) and its random generators         *)
(* (utils/s2n_random.c, crypto/s2n_drbg.c) in processes that fork and      *)
(* start threads.                                                          *)
(*                                                                         *)
(* Every thread has two generators of its own and a pointer to an integer  *)
(* that is zero when they must be instantiated: at first to a variable     *)
(* that stays zero, then to a page of the process that a fork clears.      *)
(* page holds the values of the pages by number; page 0 is that variable.  *)
(*                                                                         *)
(* Processes share no memory, so the state is that of one of them: a fork  *)
(* goes on with the child, and not to fork with the parent.                *)
(***************************************************************************)
EXTENDS Integers, Sequences, FiniteSets

CONSTANTS MaxForks,     \* how long a line of children is
          Threads,      \* thread names
          MaxPages,     \* how many pages a process allocates
          MaxDice       \* UINT64_MAX, scaled down

ASSUME RandomConstants ==
    /\ MaxForks \in Nat
    /\ MaxPages \in Nat \ {0}
    /\ MaxDice \in Nat \ {0}

VARIABLES proc,         \* the process
          kernel_wipes, \* MADV_WIPEONFORK or MAP_INHERIT_ZERO works
          drawn         \* the last bytes handed out

rvars == <<proc, kernel_wipes, drawn>>

Freed == 2              \* the value of a page given back: undefined
NoPage == -1
NoThread == "none"

NoDrbg == 0             \* a generator is the process whose entropy it holds
Nothing == [by |-> 0, drbg |-> NoDrbg, joined |-> FALSE]
NewThread == [ptr |-> 0, public |-> NoDrbg, private |-> NoDrbg, cleaned |-> FALSE]

\* A process that has not called the library.
NewProcess ==
    [id |-> 1, threads |-> {}, main |-> NoThread, initialized |-> FALSE,
     atexit_cleanup |-> TRUE, mem |-> FALSE, entropy_fd |-> FALSE, on_fork |-> FALSE,
     joined |-> FALSE,      \* a thread joined the one that was forked
     page |-> [n \in 0..MaxPages |-> 0], zeroed_page |-> NoPage, pages |-> 0,
     local |-> [t \in Threads |-> NewThread]]

RandomInit ==
    /\ \E t \in Threads : proc = [NewProcess EXCEPT !.threads = {t}]
    /\ kernel_wipes \in BOOLEAN
    /\ drawn = Nothing

(***************************************************************************)
(* The generators of thread t of a process x.  Instantiating one draws a   *)
(* seed, which fails without the entropy source; d says which of the two   *)
(* instantiations succeed.                                                 *)
(***************************************************************************)
s2n_rand_cleanup_thread(x, t) ==
    [x EXCEPT !.local[t].public = NoDrbg, !.local[t].private = NoDrbg]

s2n_drbg_instantiate(x) == x.id

zero_if_forked(x, t) == x.page[x.local[t].ptr] = 0

\* What the thread's generators are when they had to be instantiated.
s2n_defend_if_forked(x, t, d) ==
    LET y == s2n_rand_cleanup_thread(x, t)
        a == [y EXCEPT !.local[t].public = s2n_drbg_instantiate(x)]
        b == [a EXCEPT !.local[t].private = s2n_drbg_instantiate(x),
                       !.local[t].ptr = x.zeroed_page, !.local[t].cleaned = FALSE,
                       !.page[x.zeroed_page] = 1]
    IN  IF ~zero_if_forked(x, t) THEN x
        ELSE IF d = 0 \/ ~x.entropy_fd THEN y
        ELSE IF d = 1 THEN a
        ELSE b

Seeded(x, t, d) == ~zero_if_forked(x, t) \/ (d = 2 /\ x.entropy_fd)

\* Every request mixes in fresh entropy, takes bits and updates the state; a
\* long one is cut into pieces.  It fails without a generator.
s2n_get_random_data(t, kind) ==
    \E d \in 0..2 :
        LET x == s2n_defend_if_forked(proc, t, d)
            drbg == x.local[t][kind]
        IN  /\ proc.zeroed_page # NoPage \/ d < 2
            /\ proc' = x
            /\ drawn' = IF Seeded(proc, t, d) /\ drbg # NoDrbg
                        THEN [by |-> proc.id, drbg |-> drbg, joined |-> x.joined] ELSE drawn
            /\ UNCHANGED kernel_wipes

\* The numbers a die with bound faces gives, by the bytes they come from;
\* bytes above the largest multiple of bound are thrown again.
s2n_public_random(bound) ==
    [r \in {n \in 0..MaxDice : n < MaxDice - (MaxDice % bound)} |-> r % bound]

(***************************************************************************)
(* s2n_init and s2n_cleanup.  upto is how far the initialisation gets: the *)
(* memory, the entropy source, the page, the seeds, the tables that cannot *)
(* fail midway, the end.                                                   *)
(***************************************************************************)
InitSteps == <<"mem", "open", "page", "public", "private", "tables", "done">>

At(step) == CHOOSE n \in DOMAIN InitSteps : InitSteps[n] = step

s2n_rand_init(x, t, upto) ==
    LET opened == [x EXCEPT !.entropy_fd = TRUE]
        n == x.pages + 1
        paged == [opened EXCEPT !.pages = n, !.zeroed_page = n,
                                !.page[x.local[t].ptr] = 0, !.on_fork = TRUE]
    IN  IF upto < At("open") THEN x
        ELSE IF upto < At("page") THEN opened
        ELSE s2n_defend_if_forked(paged, t, IF upto < At("public") THEN 0
                                               ELSE IF upto < At("private") THEN 1 ELSE 2)

s2n_init(t) ==
    \E upto \in 0..Len(InitSteps) :
        LET x == [proc EXCEPT !.main = t, !.mem = @ \/ upto >= At("mem")]
        IN  /\ ~proc.initialized
            /\ proc.pages < MaxPages
            /\ proc' = [s2n_rand_init(x, t, upto) EXCEPT !.initialized = (upto = At("done"))]
            /\ UNCHANGED <<kernel_wipes, drawn>>

s2n_disable_atexit == /\ ~proc.initialized
                         /\ proc' = [proc EXCEPT !.atexit_cleanup = FALSE]
                         /\ UNCHANGED <<kernel_wipes, drawn>>

s2n_rand_cleanup(x, t) ==
    IF ~x.entropy_fd THEN x
    ELSE IF x.zeroed_page = NoPage THEN [x EXCEPT !.entropy_fd = FALSE]
    ELSE [x EXCEPT !.entropy_fd = FALSE, !.page[x.zeroed_page] = Freed, !.zeroed_page = NoPage,
                   !.local[t].ptr = 0]

s2n_cleanup_atexit_impl(x, t) ==
    [s2n_rand_cleanup(s2n_rand_cleanup_thread(x, t), t) EXCEPT !.mem = FALSE]

\* Every thread calls it before it ends.  The call of the main thread is the
\* last one when it cleans up everything, as the usage guide asks.
s2n_cleanup(t) ==
    LET x == [s2n_rand_cleanup_thread(proc, t) EXCEPT !.local[t].cleaned = TRUE]
        final == t = proc.main /\ ~proc.atexit_cleanup
    IN  /\ final => proc.threads = {t}
        /\ proc' = IF final THEN s2n_cleanup_atexit_impl(x, t) ELSE x
        /\ UNCHANGED <<kernel_wipes, drawn>>

\* The end of a process runs the exit handler.
Exit(t) ==
    LET x == [proc EXCEPT !.threads = {}]
    IN  /\ proc.initialized /\ proc.atexit_cleanup
        /\ proc' = s2n_cleanup_atexit_impl(x, t)
        /\ UNCHANGED <<kernel_wipes, drawn>>

(***************************************************************************)
(* Processes and threads.                                                  *)
(***************************************************************************)
\* The handler in the child clears what the forking thread points to.
s2n_on_fork(x, t) == [x EXCEPT !.page[x.local[t].ptr] = 0]

Fork(t) ==
    LET copy == [proc EXCEPT !.id = @ + 1, !.threads = {t}, !.joined = FALSE,
                    !.local = [u \in Threads |-> IF u = t THEN @[u] ELSE NewThread],
                    !.page = IF kernel_wipes THEN [n \in 0..MaxPages |-> 0] ELSE @]
    IN  /\ proc.id <= MaxForks
        /\ proc' = IF copy.on_fork THEN s2n_on_fork(copy, t) ELSE copy
        /\ UNCHANGED <<kernel_wipes, drawn>>

StartThread(t) == /\ t \notin proc.threads
                     /\ proc' = [proc EXCEPT !.threads = @ \cup {t},
                                             !.joined = (proc.id > 1),
                                             !.local[t] = NewThread]
                     /\ UNCHANGED <<kernel_wipes, drawn>>

EndThread(t) == /\ Cardinality(proc.threads) > 1
                   /\ proc.local[t].cleaned
                   /\ proc' = [proc EXCEPT !.threads = @ \ {t}, !.local[t] = NewThread]
                   /\ UNCHANGED <<kernel_wipes, drawn>>

RandomNext ==
    \/ \E t \in proc.threads :
          \/ \E kind \in {"public", "private"} : s2n_get_random_data(t, kind)
          \/ s2n_init(t)
          \/ s2n_cleanup(t)
          \/ Exit(t)
          \/ EndThread(t)
          \/ Fork(t)
    \/ \E t \in Threads : proc.threads # {} /\ StartThread(t)
    \/ s2n_disable_atexit

-----------------------------------------------------------------------------
\* A child that has started no thread never hands out bytes of a generator
\* another process seeded, whichever thread forked, with or without the
\* kernel's help, and whatever failed midway: s2n_defend_if_forked
\* instantiates new ones.
NoneInheritedAlone == ~drawn.joined => drawn.drbg = drawn.by

\* A thread that does not instantiate its generators has both, unless it
\* cleaned up: a failure midway is made good by the next request.  The page
\* is one for all threads: in a child that has started a thread it does not
\* tell which of them have instantiated theirs.
GeneratorsReady ==
    ~proc.joined => \A t \in proc.threads :
        LET x == proc.local[t]
        IN  ~zero_if_forked(proc, t) /\ ~x.cleaned =>
                x.public # NoDrbg /\ x.private # NoDrbg

\* Each face of the die comes from as many bytes (s2n_public_random).
FairDie ==
    \A bound \in 1..(MaxDice \div 2) :
        LET die == s2n_public_random(bound)
            Ways(face) == Cardinality({r \in DOMAIN die : die[r] = face})
        IN  \A face \in 0..(bound - 1) : Ways(face) = Ways(0) /\ Ways(0) > 0

\* Random numbers are fresh and fair: the three properties above.
RandomRight == NoneInheritedAlone /\ GeneratorsReady /\ FairDie

=============================================================================
