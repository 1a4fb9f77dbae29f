------------------------------- MODULE RWLock -------------------------------
(***************************************************************************)
(* The lock that guards the board file (globalRWLock): two condition       *)
(* variables under one mutex.  Each action is the code a thread runs while *)
(* it holds the mutex; pthread_cond_wait ends one and begins another.  A   *)
(* waiting thread tests its condition once, before it waits, and never     *)
(* after it.                                                               *)
(***************************************************************************)
EXTENDS Integers, FiniteSets

CONSTANTS
    Threads,   \* the worker threads
    Spurious   \* TRUE: pthread_cond_wait may return without a signal

ASSUME ThreadsAssumption == IsFiniteSet(Threads) /\ Spurious \in BOOLEAN

VARIABLES
    readerCount, writerCount,   \* threads that hold the lock
    rWaitCount, wWaitCount,     \* threads inside pthread_cond_wait
    pc,        \* pc[t]: where t is: out of the lock, waiting, or holding it
    resumed    \* resumed[t]: t got the lock it holds by returning from a wait

vars == <<readerCount, writerCount, rWaitCount, wWaitCount, pc, resumed>>

\* A thread that waits is asleep until a signal wakes it, and then woken
\* until it has the mutex again.
States == {"out", "rAsleep", "rWoken", "reading", "wAsleep", "wWoken", "writing"}

In(S) == {t \in Threads : pc[t] \in S}

Init ==
    /\ readerCount = 0 /\ writerCount = 0
    /\ rWaitCount = 0 /\ wWaitCount = 0
    /\ pc = [t \in Threads |-> "out"]
    /\ resumed = [t \in Threads |-> FALSE]

-----------------------------------------------------------------------------

\* Deviation: a grant does not broadcast on readFlag.
MoveOnly(t, s) == [pc EXCEPT ![t] = s]

\* t moves to state s and every reader asleep on readFlag is woken.
MoveAndWakeReaders(t, s) ==
    [u \in Threads |-> IF u = t THEN s
                       ELSE IF pc[u] = "rAsleep" THEN "rWoken" ELSE pc[u]]

\* t leaves and w, if it is asleep, is woken.
MoveAndSignal(t, w, asleep, woken) ==
    [u \in Threads |-> IF u = t THEN "out"
                       ELSE IF u = w /\ pc[u] = asleep THEN woken ELSE pc[u]]

GrantRead(t) ==
    /\ readerCount' = readerCount + 1
    /\ pc' = MoveAndWakeReaders(t, "reading")

GrantWrite(t) ==
    /\ writerCount' = writerCount + 1
    /\ pc' = MoveAndWakeReaders(t, "writing")

\* Deviation: a reader that waits is not counted.
AquireReadUncounted(t) ==
    /\ pc[t] = "out"
    /\ IF writerCount > 0 \/ wWaitCount > 0
       THEN pc' = [pc EXCEPT ![t] = "rAsleep"] /\ UNCHANGED readerCount
       ELSE GrantRead(t)
    /\ UNCHANGED <<writerCount, rWaitCount, wWaitCount, resumed>>

\* Deviation: only writers that wait keep a reader out.
AquireReadEager(t) ==
    /\ pc[t] = "out"
    /\ IF wWaitCount > 0
       THEN /\ rWaitCount' = rWaitCount + 1
            /\ pc' = [pc EXCEPT ![t] = "rAsleep"]
            /\ UNCHANGED readerCount
       ELSE GrantRead(t) /\ UNCHANGED rWaitCount
    /\ UNCHANGED <<writerCount, wWaitCount, resumed>>

\* aquire_read up to the grant or the wait.
AquireRead(t) ==
    /\ pc[t] = "out"
    /\ IF writerCount > 0 \/ wWaitCount > 0
       THEN /\ rWaitCount' = rWaitCount + 1
            /\ pc' = [pc EXCEPT ![t] = "rAsleep"]
            /\ UNCHANGED readerCount
       ELSE GrantRead(t) /\ UNCHANGED rWaitCount
    /\ UNCHANGED <<writerCount, wWaitCount, resumed>>

\* The rest of aquire_read, after the wait.
ResumeRead(t) ==
    /\ pc[t] = "rWoken"
    /\ rWaitCount' = rWaitCount - 1
    /\ GrantRead(t)
    /\ resumed' = [resumed EXCEPT ![t] = TRUE]
    /\ UNCHANGED <<writerCount, wWaitCount>>

\* release_read tests the counter's value before the decrement.
ReleaseRead(t) ==
    /\ pc[t] = "reading"
    /\ readerCount' = readerCount - 1
    /\ IF readerCount = 0
       THEN \E w \in Threads :
                /\ In({"wAsleep"}) = {} \/ pc[w] = "wAsleep"
                /\ pc' = MoveAndSignal(t, w, "wAsleep", "wWoken")
       ELSE pc' = [pc EXCEPT ![t] = "out"]
    /\ resumed' = [resumed EXCEPT ![t] = FALSE]
    /\ UNCHANGED <<writerCount, rWaitCount, wWaitCount>>

AquireWrite(t) ==
    /\ pc[t] = "out"
    /\ IF writerCount > 0 \/ readerCount > 0
       THEN /\ wWaitCount' = wWaitCount + 1
            /\ pc' = [pc EXCEPT ![t] = "wAsleep"]
            /\ UNCHANGED writerCount
       ELSE GrantWrite(t) /\ UNCHANGED wWaitCount
    /\ UNCHANGED <<readerCount, rWaitCount, resumed>>

\* Deviation: a writer that has waited is still counted as waiting.
ResumeWriteStillCounted(t) ==
    /\ pc[t] = "wWoken"
    /\ GrantWrite(t)
    /\ resumed' = [resumed EXCEPT ![t] = TRUE]
    /\ UNCHANGED <<readerCount, rWaitCount, wWaitCount>>

ResumeWrite(t) ==
    /\ pc[t] = "wWoken"
    /\ wWaitCount' = wWaitCount - 1
    /\ GrantWrite(t)
    /\ resumed' = [resumed EXCEPT ![t] = TRUE]
    /\ UNCHANGED <<readerCount, rWaitCount>>

\* Deviation: release_write signals nobody.
ReleaseWriteSilent(t) ==
    /\ pc[t] = "writing"
    /\ writerCount' = writerCount - 1
    /\ pc' = [pc EXCEPT ![t] = "out"]
    /\ resumed' = [resumed EXCEPT ![t] = FALSE]
    /\ UNCHANGED <<readerCount, rWaitCount, wWaitCount>>

\* release_write signals one waiting reader if there is one, else one
\* waiting writer.
ReleaseWrite(t) ==
    /\ pc[t] = "writing"
    /\ writerCount' = writerCount - 1
    /\ IF rWaitCount > 0
       THEN \E w \in Threads :
                /\ In({"rAsleep"}) = {} \/ pc[w] = "rAsleep"
                /\ pc' = MoveAndSignal(t, w, "rAsleep", "rWoken")
       ELSE \E w \in Threads :
                /\ In({"wAsleep"}) = {} \/ pc[w] = "wAsleep"
                /\ pc' = MoveAndSignal(t, w, "wAsleep", "wWoken")
    /\ resumed' = [resumed EXCEPT ![t] = FALSE]
    /\ UNCHANGED <<readerCount, rWaitCount, wWaitCount>>

\* POSIX lets pthread_cond_wait return without a signal.
SpuriousWakeup(t) ==
    /\ Spurious
    /\ \/ pc[t] = "rAsleep" /\ pc' = [pc EXCEPT ![t] = "rWoken"]
       \/ pc[t] = "wAsleep" /\ pc' = [pc EXCEPT ![t] = "wWoken"]
    /\ UNCHANGED <<readerCount, writerCount, rWaitCount, wWaitCount, resumed>>

-----------------------------------------------------------------------------

Resume(t)  == ResumeRead(t) \/ ResumeWrite(t)
Release(t) == ReleaseRead(t) \/ ReleaseWrite(t)

Next == \E t \in Threads :
            \/ AquireRead(t) \/ AquireWrite(t)
            \/ Resume(t) \/ Release(t)
            \/ SpuriousWakeup(t)

\* A woken thread gets the mutex in the end, and a holder is done with the
\* file in the end.
Fairness == \A t \in Threads : WF_vars(Resume(t)) /\ WF_vars(Release(t))

Spec == Init /\ [][Next]_vars

FairSpec == Spec /\ Fairness

-----------------------------------------------------------------------------
(* Properties. *)

TypeOK ==
    /\ readerCount \in Nat /\ writerCount \in Nat
    /\ rWaitCount \in Nat /\ wWaitCount \in Nat
    /\ pc \in [Threads -> States]
    /\ resumed \in [Threads -> BOOLEAN]

\* The unsigned counters say how many threads hold the lock and wait for it,
\* in every interleaving: none is decremented below zero, although a thread
\* that was woken enters without testing anything.
CountersExact ==
    /\ readerCount = Cardinality(In({"reading"}))
    /\ writerCount = Cardinality(In({"writing"}))
    /\ rWaitCount = Cardinality(In({"rAsleep", "rWoken"}))
    /\ wWaitCount = Cardinality(In({"wAsleep", "wWoken"}))

\* A reader sleeps only while there is a writer inside or waiting, or another
\* reader on its way in that will wake it: release_write signals one reader,
\* and it is the broadcast of each grant that passes the signal on.
NoReaderLeftBehind ==
    In({"rAsleep"}) # {} =>
        writerCount > 0 \/ wWaitCount > 0 \/ In({"rWoken"}) # {}

Conflict(t, u) ==
    /\ t # u
    /\ pc[t] = "writing"
    /\ pc[u] \in {"reading", "writing"}

\* What is left of mutual exclusion: of two threads that hold the lock and
\* should not, one at least came in from a wait, where the condition is not
\* tested again.
ExclusionUnlessResumed ==
    \A t, u \in Threads : Conflict(t, u) => resumed[t] \/ resumed[u]

\* A reader that waits gets in, unless a writer waits too.
ReaderServed ==
    \A t \in Threads :
        pc[t] = "rAsleep" ~> pc[t] = "reading" \/ In({"wAsleep"}) # {}

\* One single writer or multiple readers at a time.
MutualExclusion == \A t, u \in Threads : ~Conflict(t, u)

\* A writer that waits is signalled when the last reader leaves: it does not
\* sleep on a lock that nobody holds and nobody is about to take.
WriterNotForgotten ==
    In({"wAsleep"}) # {} =>
        In({"reading", "writing", "rWoken", "wWoken"}) # {}

=============================================================================
