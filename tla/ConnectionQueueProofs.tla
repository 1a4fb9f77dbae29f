----------------------- MODULE ConnectionQueueProofs -----------------------
(***************************************************************************)
(* Proofs about ConnectionQueue: no wakeup is lost, and every entry is     *)
(* taken once and in order, for any number of threads, agents and entries. *)
(***************************************************************************)
EXTENDS ConnectionQueue, FiniteSetTheorems, SequenceTheorems, TLAPS

\* A step that only moves thread t to state v (the "adding", "asleep" and
\* "woken" sets gain or lose t and nothing else).
LEMMA MoveOne ==
    ASSUME TypeOK, NEW t \in Threads, NEW v \in States,
           pc' = [pc EXCEPT ![t] = v], NEW s \in States
    PROVE  In(s)' = IF v = s THEN In(s) \cup {t} ELSE In(s) \ {t}
BY DEF TypeOK, In

\* The sets of threads that are counted are finite.
LEMMA InFinite ==
    ASSUME NEW s
    PROVE  /\ IsFiniteSet(In(s))
           /\ Cardinality(In(s)) \in Nat
<1>1. IsFiniteSet(Threads) /\ In(s) \in SUBSET Threads
  BY QueueAssumption DEF In
<1> QED
  BY <1>1, FS_Subset, FS_CardinalityType

-----------------------------------------------------------------------------

\* Type correctness: the entries, the counters and where each thread is keep
\* their types in every step.
THEOREM TypeCorrect == Spec => []TypeOK
<1>1. Init => TypeOK
  BY QueueAssumption DEF Init, TypeOK, States
<1>2. TypeOK /\ [Next]_vars => TypeOK'
  <2> SUFFICES ASSUME TypeOK, [Next]_vars
               PROVE  TypeOK'
    OBVIOUS
  <2> USE QueueAssumption DEF TypeOK, States
  <2>1. ASSUME NEW t \in Threads, Push(t) PROVE TypeOK'
    BY <2>1 DEF Push
  <2>2. ASSUME NEW t \in Threads, Signal(t) PROVE TypeOK'
    BY <2>2 DEF Signal, In
  <2>3. ASSUME NEW t \in Threads, TakeOrSleep(t) PROVE TypeOK'
    <3>1. CASE connectionQueue = <<>>
      BY <2>3, <3>1 DEF TakeOrSleep
    <3>2. CASE connectionQueue # <<>>
      <4>1. /\ Head(connectionQueue) \in Nat
            /\ Tail(connectionQueue) \in Seq(Nat)
        BY <3>2, HeadTailProperties
      <4>2. Append(taken, Head(connectionQueue)) \in Seq(Nat)
        BY <4>1, AppendProperties
      <4>3. /\ taken' \in Seq(Nat)
            /\ connectionQueue' \in Seq(Nat)
            /\ added' \in 0..MaxAdds
        BY <2>3, <3>2, <4>1, <4>2 DEF TakeOrSleep
      <4>4. pc' \in [Threads -> States]
        BY <2>3, <3>2 DEF TakeOrSleep
      <4> QED
        BY <4>3, <4>4
    <3> QED
      BY <3>1, <3>2
  <2>4. ASSUME NEW t \in Threads, SpuriousWakeup(t) PROVE TypeOK'
    BY <2>4 DEF SpuriousWakeup
  <2>5. CASE UNCHANGED vars
    BY <2>5 DEF vars
  <2> QED
    BY <2>1, <2>2, <2>3, <2>4, <2>5 DEF Next, Get, Resume
<1> QED
  BY <1>1, <1>2, PTL DEF Spec

-----------------------------------------------------------------------------

\* There are always wakeups enough for the entries, so none lies in the queue
\* while an agent sleeps and nobody is about to signal or to look: the signal
\* after the unlock in add() is safe.
THEOREM WakeupsSuffice == Spec => []EnoughWakeups
<1>1. Init => EnoughWakeups
  BY DEF Init, EnoughWakeups, In
<1>2. TypeOK /\ EnoughWakeups /\ [Next]_vars => EnoughWakeups'
  <2> SUFFICES ASSUME TypeOK, EnoughWakeups, [Next]_vars
               PROVE  EnoughWakeups'
    OBVIOUS
  <2> DEFINE Adding == Cardinality(In("adding"))
             Woken  == Cardinality(In("woken"))
  <2> USE DEF States
  <2>0. /\ Adding \in Nat /\ Woken \in Nat
        /\ Len(connectionQueue) \in Nat
    BY InFinite DEF TypeOK
  <2>1. ASSUME NEW t \in Threads, Push(t) PROVE EnoughWakeups'
    <3>1. /\ In("asleep")' = In("asleep") \ {t}
          /\ In("woken")' = In("woken") \ {t}
          /\ In("adding")' = In("adding") \cup {t}
      BY <2>1, MoveOne DEF Push
    <3>2. t \notin In("adding") /\ t \notin In("woken")
      BY <2>1 DEF Push, In
    <3>3. Cardinality(In("adding"))' = Adding + 1
      BY <3>1, <3>2, InFinite, FS_AddElement
    <3>4. Cardinality(In("woken"))' = Woken
      BY <3>1, <3>2
    <3>5. Len(connectionQueue)' = Len(connectionQueue) + 1
      BY <2>1, AppendProperties, QueueAssumption DEF Push, TypeOK
    <3> QED
      BY <2>0, <3>1, <3>3, <3>4, <3>5 DEF EnoughWakeups
  <2>2. ASSUME NEW t \in Threads, Signal(t) PROVE EnoughWakeups'
    <3>1. CASE /\ In("asleep") = {}
               /\ pc' = [pc EXCEPT ![t] = "out"]
      BY <3>1, MoveOne DEF EnoughWakeups
    <3>2. ASSUME NEW g \in In("asleep"),
                 pc' = [pc EXCEPT ![t] = "out", ![g] = "woken"]
          PROVE  EnoughWakeups'
      <4>1. /\ t \in In("adding") /\ t \notin In("woken")
            /\ g \notin In("woken") /\ g \notin In("adding") /\ g # t
        BY <2>2 DEF Signal, In
      <4>2. /\ In("adding")' = In("adding") \ {t}
            /\ In("woken")' = In("woken") \cup {g}
        BY <2>2, <3>2, <4>1 DEF TypeOK, In
      <4>3. Cardinality(In("adding"))' = Adding - 1
        BY <4>1, <4>2, InFinite, FS_RemoveElement
      <4>4. Cardinality(In("woken"))' = Woken + 1
        BY <4>1, <4>2, InFinite, FS_AddElement
      <4>5. UNCHANGED connectionQueue
        BY <2>2 DEF Signal
      <4> QED
        BY <2>0, <4>3, <4>4, <4>5, <3>2 DEF EnoughWakeups
    <3> QED
      BY <2>2, <3>1, <3>2 DEF Signal
  <2>3. ASSUME NEW t \in Threads, pc[t] \in {"out", "woken"}, TakeOrSleep(t)
        PROVE  EnoughWakeups'
    <3>1. CASE connectionQueue = <<>>
      <4>1. Len(connectionQueue)' = 0
        BY <2>3, <3>1 DEF TakeOrSleep
      <4>2. Cardinality(In("adding"))' \in Nat /\ Cardinality(In("woken"))' \in Nat
        <5>1. ASSUME NEW s \in {"adding", "woken"}
              PROVE  In(s)' \in SUBSET Threads
          BY DEF In
        <5> QED
          BY <5>1, QueueAssumption, FS_Subset, FS_CardinalityType
      <4> QED
        BY <4>1, <4>2 DEF EnoughWakeups
    <3>2. CASE connectionQueue # <<>>
      <4>1. /\ In("asleep")' = In("asleep") \ {t}
            /\ In("woken")' = In("woken") \ {t}
            /\ In("adding")' = In("adding") \ {t}
        BY <2>3, <3>2, MoveOne DEF TakeOrSleep
      <4>2. t \notin In("adding")
        BY <2>3 DEF In
      <4>3. Cardinality(In("adding"))' = Adding
        BY <4>1, <4>2
      <4>4. Cardinality(In("woken"))' \in {Woken - 1, Woken}
        BY <4>1, InFinite, FS_RemoveElement
      <4>5. Len(connectionQueue)' = Len(connectionQueue) - 1
        BY <2>3, <3>2, HeadTailProperties DEF TakeOrSleep, TypeOK
      <4> QED
        BY <2>0, <4>1, <4>3, <4>4, <4>5 DEF EnoughWakeups
    <3> QED
      BY <3>1, <3>2
  <2>4. ASSUME NEW t \in Threads, SpuriousWakeup(t) PROVE EnoughWakeups'
    <3>1. /\ In("asleep")' = In("asleep") \ {t}
          /\ In("woken")' = In("woken") \cup {t}
          /\ In("adding")' = In("adding") \ {t}
      BY <2>4, MoveOne DEF SpuriousWakeup
    <3>2. t \notin In("adding") /\ t \notin In("woken")
      BY <2>4 DEF SpuriousWakeup, In
    <3>3. Cardinality(In("woken"))' = Woken + 1
      BY <3>1, <3>2, InFinite, FS_AddElement
    <3>4. Cardinality(In("adding"))' = Adding
      BY <3>1, <3>2
    <3> QED
      BY <2>0, <2>4, <3>1, <3>3, <3>4 DEF EnoughWakeups, SpuriousWakeup
  <2>5. CASE UNCHANGED vars
    BY <2>5 DEF vars, EnoughWakeups, In
  <2> QED
    BY <2>1, <2>2, <2>3, <2>4, <2>5 DEF Next, Get, Resume
<1> QED
  BY <1>1, <1>2, TypeCorrect, PTL DEF Spec

-----------------------------------------------------------------------------

\* Each entry is taken exactly once and in the order of the adds.
THEOREM TakenOnceInOrder == Spec => []TakenInOrder
<1>1. Init => TakenInOrder
  <2> SUFFICES ASSUME Init PROVE TakenInOrder
    OBVIOUS
  <2>1. taken \o connectionQueue = <<>>
    BY ConcatEmptySeq, EmptySeq DEF Init
  <2>2. [i \in 1..added |-> i] = <<>>
    BY DEF Init
  <2> QED
    BY <2>1, <2>2 DEF TakenInOrder
<1>2. TypeOK /\ TakenInOrder /\ [Next]_vars => TakenInOrder'
  <2> SUFFICES ASSUME TypeOK, TakenInOrder, [Next]_vars
               PROVE  TakenInOrder'
    OBVIOUS
  <2>0. /\ taken \in Seq(Nat) /\ connectionQueue \in Seq(Nat)
        /\ added \in Nat
    BY QueueAssumption DEF TypeOK
  <2>1. ASSUME NEW t \in Threads, Push(t) PROVE TakenInOrder'
    <3> DEFINE e == added + 1
    <3>1. taken' \o connectionQueue' = taken \o (connectionQueue \o <<e>>)
      BY <2>0, <2>1, AppendIsConcat DEF Push
    <3>2. @ = (taken \o connectionQueue) \o <<e>>
      BY <2>0, ConcatAssociative
    <3>3. @ = Append([i \in 1..added |-> i], e)
      <4>1. taken \o connectionQueue \in Seq(Nat)
        BY <2>0, ConcatProperties
      <4> QED
        BY <2>0, <4>1, AppendIsConcat DEF TakenInOrder
    <3>4. @ = [i \in 1..e |-> i]
      BY <2>0
    <3> QED
      BY <2>1, <3>1, <3>2, <3>3, <3>4 DEF Push, TakenInOrder
  <2>2. ASSUME NEW t \in Threads, TakeOrSleep(t) PROVE TakenInOrder'
    <3>1. CASE connectionQueue = <<>>
      BY <2>2, <3>1 DEF TakeOrSleep, TakenInOrder
    <3>2. CASE connectionQueue # <<>>
      <4> DEFINE h == Head(connectionQueue)
                 r == Tail(connectionQueue)
      <4>1. h \in Nat /\ r \in Seq(Nat)
        BY <2>0, <3>2, HeadTailProperties
      <4>2. connectionQueue = <<h>> \o r
        BY <2>0, <3>2, <4>1, HeadTailProperties
      <4>3. taken' \o connectionQueue' = (taken \o <<h>>) \o r
        BY <2>0, <2>2, <3>2, <4>1, AppendIsConcat DEF TakeOrSleep
      <4>4. <<h>> \in Seq(Nat)
        BY <4>1
      <4>5. (taken \o <<h>>) \o r = taken \o (<<h>> \o r)
        BY <2>0, <4>1, <4>4, ConcatAssociative
      <4>6. UNCHANGED added
        BY <2>2, <3>2 DEF TakeOrSleep
      <4> HIDE DEF h, r
      <4> QED
        BY <4>2, <4>3, <4>5, <4>6 DEF TakenInOrder
    <3> QED
      BY <3>1, <3>2
  <2>3. CASE UNCHANGED <<connectionQueue, added, taken>>
    BY <2>3 DEF TakenInOrder
  <2> QED
    BY <2>1, <2>2, <2>3 DEF Next, Get, Resume, Signal, SpuriousWakeup, vars
<1> QED
  BY <1>1, <1>2, TypeCorrect, PTL DEF Spec

=============================================================================
