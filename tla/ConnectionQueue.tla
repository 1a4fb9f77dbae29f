--------------------------- MODULE ConnectionQueue ---------------------------
(***************************************************************************)
(* The queue between those who have work (the listeners with a client      *)
(* socket, the agents with a broadcast command) and the agents of a thread *)
(* pool.  add() signals the condition variable after it has unlocked the   *)
(* mutex, so a push and its signal are two steps.                          *)
(***************************************************************************)
EXTENDS Integers, Sequences, FiniteSets

CONSTANTS
    Threads,   \* listeners and agents
    Agents,    \* the threads that call get()
    MaxAdds    \* bound on the number of entries ever added

ASSUME QueueAssumption ==
    IsFiniteSet(Threads) /\ Agents \subseteq Threads /\ MaxAdds \in Nat

VARIABLES
    connectionQueue,  \* the entries, each the number of its add()
    added,            \* number of entries added so far
    taken,            \* the entries that get() has returned, in order
    pc                \* pc[t]: where t is with respect to the queue

vars == <<connectionQueue, added, taken, pc>>

\* "adding": pushed and unlocked, the signal still to come.
States == {"out", "adding", "asleep", "woken"}

In(s) == {t \in Threads : pc[t] = s}

Init ==
    /\ connectionQueue = <<>>
    /\ added = 0
    /\ taken = <<>>
    /\ pc = [t \in Threads |-> "out"]

-----------------------------------------------------------------------------

\* Deviation: only the add() that finds the queue empty signals.
PushSignalIfEmpty(t) ==
    /\ pc[t] = "out"
    /\ added < MaxAdds
    /\ added' = added + 1
    /\ connectionQueue' = Append(connectionQueue, added + 1)
    /\ pc' = [pc EXCEPT ![t] = IF connectionQueue = <<>> THEN "adding" ELSE "out"]
    /\ UNCHANGED taken

Push(t) ==
    /\ pc[t] = "out"
    /\ added < MaxAdds
    /\ added' = added + 1
    /\ connectionQueue' = Append(connectionQueue, added + 1)
    /\ pc' = [pc EXCEPT ![t] = "adding"]
    /\ UNCHANGED taken

\* Deviation: the signal is forgotten.
SignalForgotten(t) ==
    /\ pc[t] = "adding"
    /\ pc' = [pc EXCEPT ![t] = "out"]
    /\ UNCHANGED <<connectionQueue, added, taken>>

\* pthread_cond_signal wakes one agent that is asleep, if there is one.
Signal(t) ==
    /\ pc[t] = "adding"
    /\ \/ /\ In("asleep") = {}
          /\ pc' = [pc EXCEPT ![t] = "out"]
       \/ \E g \in In("asleep") :
              pc' = [pc EXCEPT ![t] = "out", ![g] = "woken"]
    /\ UNCHANGED <<connectionQueue, added, taken>>

\* Deviation: the front is returned and not popped.
TakeOrSleepNoPop(t) ==
    IF connectionQueue = <<>>
    THEN /\ pc' = [pc EXCEPT ![t] = "asleep"]
         /\ UNCHANGED <<connectionQueue, added, taken>>
    ELSE /\ taken' = Append(taken, Head(connectionQueue))
         /\ pc' = [pc EXCEPT ![t] = "out"]
         /\ UNCHANGED <<connectionQueue, added>>

\* One turn of get() with the mutex held: take the front, or sleep.
TakeOrSleep(t) ==
    IF connectionQueue = <<>>
    THEN /\ pc' = [pc EXCEPT ![t] = "asleep"]
         /\ UNCHANGED <<connectionQueue, added, taken>>
    ELSE /\ taken' = Append(taken, Head(connectionQueue))
         /\ connectionQueue' = Tail(connectionQueue)
         /\ pc' = [pc EXCEPT ![t] = "out"]
         /\ UNCHANGED added

Get(t) ==
    /\ t \in Agents
    /\ pc[t] = "out"
    /\ TakeOrSleep(t)

\* Deviation: if for while, an agent that was woken in vain returns whatever
\* the front of an empty queue is.
ResumeUntested(t) ==
    /\ pc[t] = "woken"
    /\ pc' = [pc EXCEPT ![t] = "out"]
    /\ taken' = Append(taken, IF connectionQueue = <<>> THEN -1
                              ELSE Head(connectionQueue))
    /\ connectionQueue' = IF connectionQueue = <<>> THEN <<>>
                          ELSE Tail(connectionQueue)
    /\ UNCHANGED added

Resume(t) ==
    /\ pc[t] = "woken"
    /\ TakeOrSleep(t)

\* POSIX lets pthread_cond_wait return without a signal.
SpuriousWakeup(t) ==
    /\ pc[t] = "asleep"
    /\ pc' = [pc EXCEPT ![t] = "woken"]
    /\ UNCHANGED <<connectionQueue, added, taken>>

-----------------------------------------------------------------------------

Next == \E t \in Threads :
            Push(t) \/ Signal(t) \/ Get(t) \/ Resume(t) \/ SpuriousWakeup(t)

Spec == Init /\ [][Next]_vars

-----------------------------------------------------------------------------
(* Properties. *)

TypeOK ==
    /\ connectionQueue \in Seq(Nat)
    /\ added \in 0..MaxAdds
    /\ taken \in Seq(Nat)
    /\ pc \in [Threads -> States]

\* Between the push and the signal an agent may take the entry, go to sleep
\* or be woken by others; still, while an agent sleeps there are at least as
\* many signals to come or agents awake as there are entries: no wakeup is
\* lost.
EnoughWakeups ==
    In("asleep") # {} =>
        Len(connectionQueue) <= Cardinality(In("adding")) + Cardinality(In("woken"))

\* Every entry is taken once and in the order of the adds, whichever agents
\* compete for it.
TakenInOrder == taken \o connectionQueue = [i \in 1..added |-> i]

=============================================================================
