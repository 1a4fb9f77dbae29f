-------------------------- MODULE AcknowledgeQueue --------------------------
(***************************************************************************)
(* The queues in which a request collects the answers of the peers, one    *)
(* for each message id, at the granularity of their mutexes: TheOne() under *)
(* the mutex of the map, add() and the wait of check_success() under the   *)
(* mutex of the queue, and what check_success() does with no mutex at all. *)
(* A queue is an object of its own: a thread may hold a pointer to one     *)
(* that was erased.                                                        *)
(***************************************************************************)
EXTENDS Integers, Sequences, FiniteSets

CONSTANTS
    Callers,     \* the threads that use the queues
    MessageIds,  \* the ids by which queues are found
    ReplyCount   \* the number of peers: the answers a request waits for

ASSUME CallersAssumption ==
    /\ IsFiniteSet(Callers)
    /\ ReplyCount \in Nat \ {0}

VARIABLES
    theMap,    \* theMap[id]: the queue of id, 0 if there is none
    ackQueue,  \* ackQueue[q]: the answers in queue q, in order
    ackPtr,    \* ackPtr[t]: the queue t got from TheOne, 0 if it has none
    ackPc,     \* ackPc[t]: where t is with respect to the queues
    erased,    \* the queues that no longer exist
    broken     \* a thread has used a queue that no longer exists

ackVars == <<theMap, ackQueue, ackPtr, ackPc, erased, broken>>

\* "found": TheOne has returned.  "pushed": inside add(), the mutex held.
\* "checking": in the wait of check_success.  "counted" and "timedOut": the
\* wait is over and the mutex released.  "looked": the second look at the
\* size found enough.  "succeeded" and "failed": check_success has returned.
AckStates == {"idle", "found", "pushed", "checking", "counted", "timedOut",
              "looked", "succeeded", "failed"}

AckInit ==
    /\ theMap = [id \in MessageIds |-> 0]
    /\ ackQueue = <<>>
    /\ ackPtr = [t \in Callers |-> 0]
    /\ ackPc = [t \in Callers |-> "idle"]
    /\ erased = {}
    /\ broken = FALSE

-----------------------------------------------------------------------------

Answers(t) == ackQueue[ackPtr[t]]

\* Deviation: one answer less will do.
EnoughButOne(t) == Len(Answers(t)) >= ReplyCount - 1

Enough(t) == Len(Answers(t)) >= ReplyCount

AllPositive(t) == \A i \in DOMAIN Answers(t) : Answers(t)[i].ok

\* Nobody holds the mutex of t's queue.
MutexFree(t) ==
    \A u \in Callers : ackPc[u] = "pushed" => ackPtr[u] # ackPtr[t]

AckGoes(t, from, to) ==
    /\ ackPc[t] = from
    /\ ackPc' = [ackPc EXCEPT ![t] = to]

\* A use of t's queue: whatever follows the use of an erased one is undefined.
Alive(t) == ackPtr[t] \notin erased

\* TheOne(id) finds or creates the queue of id, for an add() or a check.
TheOne(t, id, use) ==
    /\ AckGoes(t, "idle", use)
    /\ IF theMap[id] = 0
       THEN /\ ackQueue' = Append(ackQueue, <<>>)
            /\ theMap' = [theMap EXCEPT ![id] = Len(ackQueue) + 1]
            /\ ackPtr' = [ackPtr EXCEPT ![t] = Len(ackQueue) + 1]
       ELSE /\ ackPtr' = [ackPtr EXCEPT ![t] = theMap[id]]
            /\ UNCHANGED <<theMap, ackQueue>>
    /\ UNCHANGED <<erased, broken>>

TheOneToAdd(t, id) == TheOne(t, id, "found")

\* check_success() sets its deadline and goes to its loop.
TheOneToCheck(t, id) == TheOne(t, id, "checking")

\* add(): lock, put the answer, signal.
AddAnswer(t, answer) ==
    /\ AckGoes(t, "found", "pushed")
    /\ Alive(t) /\ MutexFree(t)
    /\ ackQueue' = [ackQueue EXCEPT ![ackPtr[t]] = Append(@, answer)]
    /\ UNCHANGED <<theMap, ackPtr, erased, broken>>

\* add() unlocks and returns.
AddDone(t) ==
    /\ AckGoes(t, "pushed", "idle")
    /\ Alive(t)
    /\ ackPtr' = [ackPtr EXCEPT ![t] = 0]
    /\ UNCHANGED <<theMap, ackQueue, erased, broken>>

\* The loop ends with enough answers; a signal, or a wakeup without one,
\* lets the thread see them.
Counted(t) ==
    /\ AckGoes(t, "checking", "counted")
    /\ Alive(t) /\ MutexFree(t)
    /\ Enough(t)
    /\ UNCHANGED <<theMap, ackQueue, ackPtr, erased, broken>>

\* Deviation: pthread_cond_wait for pthread_cond_timedwait.
NeverExpires(t) == FALSE /\ AckGoes(t, "checking", "timedOut") /\ UNCHANGED ackVars

\* The loop ends because pthread_cond_timedwait does.
Expires(t) ==
    /\ AckGoes(t, "checking", "timedOut")
    /\ Alive(t) /\ MutexFree(t)
    /\ ~Enough(t)
    /\ UNCHANGED <<theMap, ackQueue, ackPtr, erased, broken>>

\* The second look at the size, without the mutex.
SecondLook(t) ==
    /\ ackPc[t] \in {"counted", "timedOut"}
    /\ Alive(t)
    /\ ackPc' = [ackPc EXCEPT ![t] = IF Enough(t) THEN "looked" ELSE "failed"]
    /\ UNCHANGED <<theMap, ackQueue, ackPtr, erased, broken>>

\* The look for a negative answer, without the mutex.
Verdict(t) ==
    /\ ackPc[t] = "looked"
    /\ Alive(t)
    /\ ackPc' = [ackPc EXCEPT ![t] =
                    IF AllPositive(t) THEN "succeeded" ELSE "failed"]
    /\ UNCHANGED <<theMap, ackQueue, ackPtr, erased, broken>>

\* The caller that got FALSE leaves the queue where it is.
LeaveQueue(t) ==
    /\ AckGoes(t, "failed", "idle")
    /\ ackPtr' = [ackPtr EXCEPT ![t] = 0]
    /\ UNCHANGED <<theMap, ackQueue, erased, broken>>

\* Deviation: a successful request does not erase its queue.
EraseForgotten(t, id) ==
    /\ AckGoes(t, "succeeded", "idle")
    /\ ackPtr' = [ackPtr EXCEPT ![t] = 0]
    /\ UNCHANGED <<theMap, ackQueue, erased, broken>>

\* Deviation: the queue is destroyed and its entry in the map stays.
EraseDangling(t, id) ==
    /\ AckGoes(t, "succeeded", "idle")
    /\ ackPtr' = [ackPtr EXCEPT ![t] = 0]
    /\ erased' = erased \cup {theMap[id]}
    /\ UNCHANGED <<theMap, ackQueue, broken>>

\* TheOne(id, true): the queue that id has now is erased; there must be one.
Erase(t, id) ==
    /\ AckGoes(t, "succeeded", "idle")
    /\ ackPtr' = [ackPtr EXCEPT ![t] = 0]
    /\ IF theMap[id] = 0
       THEN broken' = TRUE /\ UNCHANGED <<theMap, ackQueue, erased>>
       ELSE /\ theMap' = [theMap EXCEPT ![id] = 0]
            /\ erased' = erased \cup {theMap[id]}
            /\ ackQueue' = [ackQueue EXCEPT ![theMap[id]] = <<>>]
            /\ UNCHANGED broken

\* A thread goes on with a pointer to a queue that was erased.
UseErased(t) ==
    /\ ackPc[t] \in {"found", "pushed", "checking", "counted", "timedOut", "looked"}
    /\ ~Alive(t)
    /\ broken' = TRUE
    /\ UNCHANGED <<theMap, ackQueue, ackPtr, ackPc, erased>>

-----------------------------------------------------------------------------

CheckStep(t) == Counted(t) \/ Expires(t) \/ SecondLook(t) \/ Verdict(t)

\* The queues alone, whatever ids and answers their callers use.
AckNext(AnswerSet) ==
    /\ ~broken
    /\ \E t \in Callers :
          \/ \E id \in MessageIds :
                TheOneToAdd(t, id) \/ TheOneToCheck(t, id) \/ Erase(t, id)
          \/ \E answer \in AnswerSet : AddAnswer(t, answer)
          \/ AddDone(t) \/ CheckStep(t) \/ LeaveQueue(t)
          \/ UseErased(t)

-----------------------------------------------------------------------------

\* The type invariant.  A queue is neither in the map under two ids nor erased
\* and still in the map, and add() excludes its like on one queue.
AckTypeOK ==
    /\ theMap \in [MessageIds -> Nat]
    /\ ackPtr \in [Callers -> 0..Len(ackQueue)]
    /\ ackPc \in [Callers -> AckStates]
    /\ broken \in BOOLEAN
    /\ \A id \in MessageIds :
          /\ theMap[id] \in 0..Len(ackQueue) \ erased
          /\ \A other \in MessageIds :
                theMap[id] # 0 /\ theMap[id] = theMap[other] => id = other
    /\ \A t, u \in Callers :
          ackPc[t] = "pushed" /\ ackPc[u] = "pushed" /\ ackPtr[t] = ackPtr[u]
              => t = u

=============================================================================
