---------------------------- MODULE RWLockProofs ----------------------------
(***************************************************************************)
(* Proofs about RWLock: what its counters say, when readers may sleep, and *)
(* how much of mutual exclusion is left, for any number of threads.        *)
(***************************************************************************)
EXTENDS RWLock, FiniteSetTheorems, TLAPS

Readers        == In({"reading"})
Writers        == In({"writing"})
WaitingReaders == In({"rAsleep", "rWoken"})
WaitingWriters == In({"wAsleep", "wWoken"})

\* Where each thread is, without the counters, whose type follows from what
\* they count.
PcOK == pc \in [Threads -> States] /\ resumed \in [Threads -> BOOLEAN]

\* The inductive invariant of the counters.
CountInv == PcOK /\ CountersExact

\* The sets of threads that are counted are finite.
LEMMA InFinite ==
    ASSUME NEW S
    PROVE  /\ IsFiniteSet(In(S))
           /\ Cardinality(In(S)) \in Nat
<1>1. IsFiniteSet(Threads) /\ In(S) \in SUBSET Threads
  BY ThreadsAssumption DEF In
<1> QED
  BY <1>1, FS_Subset, FS_CardinalityType

\* What a set counts after it gains or loses one element.
LEMMA CountOneMore ==
    ASSUME NEW A, NEW B, NEW x, IsFiniteSet(A), x \notin A, B = A \cup {x}
    PROVE  Cardinality(B) = Cardinality(A) + 1
BY FS_AddElement

LEMMA CountOneLess ==
    ASSUME NEW A, NEW B, NEW x, IsFiniteSet(A), x \in A, B = A \ {x}
    PROVE  Cardinality(B) = Cardinality(A) - 1
BY FS_RemoveElement

-----------------------------------------------------------------------------

\* A grant moves t into the holders' state and turns sleeping readers into
\* woken ones, which changes none of the counted sets but those t is in.
LEMMA GrantSets ==
    ASSUME PcOK, NEW t \in Threads, NEW s \in {"reading", "writing"},
           pc' = MoveAndWakeReaders(t, s)
    PROVE  /\ Readers' = IF s = "reading" THEN Readers \cup {t} ELSE Readers \ {t}
           /\ Writers' = IF s = "writing" THEN Writers \cup {t} ELSE Writers \ {t}
           /\ WaitingReaders' = WaitingReaders \ {t}
           /\ WaitingWriters' = WaitingWriters \ {t}
BY DEF PcOK, MoveAndWakeReaders, Readers, Writers, WaitingReaders,
       WaitingWriters, In, States

\* The same for a thread that leaves, with or without a signal to another.
LEMMA LeaveSets ==
    ASSUME PcOK, NEW t \in Threads, pc[t] \in {"reading", "writing"},
           \/ pc' = [pc EXCEPT ![t] = "out"]
           \/ \E w \in Threads : pc' = MoveAndSignal(t, w, "rAsleep", "rWoken")
           \/ \E w \in Threads : pc' = MoveAndSignal(t, w, "wAsleep", "wWoken")
    PROVE  /\ PcOK' \/ ~(resumed' \in [Threads -> BOOLEAN])
           /\ Readers' = Readers \ {t}
           /\ Writers' = Writers \ {t}
           /\ WaitingReaders' = WaitingReaders
           /\ WaitingWriters' = WaitingWriters
<1>1. CASE pc' = [pc EXCEPT ![t] = "out"]
  BY <1>1 DEF PcOK, Readers, Writers, WaitingReaders, WaitingWriters, In, States
<1>2. CASE \E w \in Threads : pc' = MoveAndSignal(t, w, "rAsleep", "rWoken")
  BY <1>2 DEF PcOK, MoveAndSignal, Readers, Writers, WaitingReaders,
              WaitingWriters, In, States
<1>3. CASE \E w \in Threads : pc' = MoveAndSignal(t, w, "wAsleep", "wWoken")
  BY <1>3 DEF PcOK, MoveAndSignal, Readers, Writers, WaitingReaders,
              WaitingWriters, In, States
<1> QED
  BY <1>1, <1>2, <1>3

-----------------------------------------------------------------------------

\* The counters count the holders and the waiters after every step.
LEMMA CountStep == CountInv /\ [Next]_vars => CountInv'
<1> SUFFICES ASSUME CountInv, [Next]_vars
             PROVE  CountInv'
  OBVIOUS
<1>0. /\ PcOK
      /\ readerCount = Cardinality(Readers) /\ IsFiniteSet(Readers)
      /\ writerCount = Cardinality(Writers) /\ IsFiniteSet(Writers)
      /\ rWaitCount = Cardinality(WaitingReaders) /\ IsFiniteSet(WaitingReaders)
      /\ wWaitCount = Cardinality(WaitingWriters) /\ IsFiniteSet(WaitingWriters)
  BY InFinite DEF CountInv, CountersExact, Readers, Writers, WaitingReaders,
                  WaitingWriters
<1> DEFINE Exact == /\ readerCount' = Cardinality(Readers')
                    /\ writerCount' = Cardinality(Writers')
                    /\ rWaitCount' = Cardinality(WaitingReaders')
                    /\ wWaitCount' = Cardinality(WaitingWriters')
<1>q. ASSUME PcOK', Exact PROVE CountInv'
  BY <1>q DEF CountInv, CountersExact, Readers, Writers, WaitingReaders,
              WaitingWriters
<1> HIDE DEF Exact
<1>1. ASSUME NEW t \in Threads, AquireRead(t) PROVE CountInv'
  <2>0. t \notin Readers /\ t \notin Writers /\ t \notin WaitingReaders
        /\ t \notin WaitingWriters
    BY <1>1 DEF AquireRead, Readers, Writers, WaitingReaders, WaitingWriters, In
  <2>1. CASE writerCount > 0 \/ wWaitCount > 0
    <3>1. PcOK' /\ Readers' = Readers /\ Writers' = Writers
          /\ WaitingReaders' = WaitingReaders \cup {t}
          /\ WaitingWriters' = WaitingWriters
      BY <1>0, <1>1, <2>1 DEF AquireRead, PcOK, States, Readers, Writers,
                              WaitingReaders, WaitingWriters, In
    <3>2. Cardinality(WaitingReaders') = Cardinality(WaitingReaders) + 1
      BY <1>0, <2>0, <3>1, CountOneMore
    <3> QED
      BY <1>0, <1>1, <1>q, <2>1, <3>1, <3>2 DEF AquireRead, Exact
  <2>2. CASE ~(writerCount > 0 \/ wWaitCount > 0)
    <3>1. pc' = MoveAndWakeReaders(t, "reading")
          /\ readerCount' = readerCount + 1
          /\ UNCHANGED <<writerCount, rWaitCount, wWaitCount, resumed>>
      BY <1>1, <2>2 DEF AquireRead, GrantRead
    <3>2. PcOK'
      BY <1>0, <3>1 DEF PcOK, MoveAndWakeReaders, States
    <3>3. Readers' = Readers \cup {t} /\ Writers' = Writers
          /\ WaitingReaders' = WaitingReaders /\ WaitingWriters' = WaitingWriters
      BY <1>0, <2>0, <3>1, GrantSets
    <3>4. Cardinality(Readers') = Cardinality(Readers) + 1
      BY <1>0, <2>0, <3>3, CountOneMore
    <3> QED
      BY <1>0, <1>q, <3>1, <3>2, <3>3, <3>4 DEF Exact
  <2> QED
    BY <2>1, <2>2
<1>2. ASSUME NEW t \in Threads, ResumeRead(t) PROVE CountInv'
  <2>0. t \notin Readers /\ t \notin Writers /\ t \in WaitingReaders
        /\ t \notin WaitingWriters
    BY <1>2 DEF ResumeRead, Readers, Writers, WaitingReaders, WaitingWriters, In
  <2>1. /\ pc' = MoveAndWakeReaders(t, "reading")
        /\ resumed' = [resumed EXCEPT ![t] = TRUE]
        /\ readerCount' = readerCount + 1 /\ rWaitCount' = rWaitCount - 1
        /\ UNCHANGED <<writerCount, wWaitCount>>
    BY <1>2 DEF ResumeRead, GrantRead
  <2>2. PcOK'
    BY <1>0, <2>1 DEF PcOK, MoveAndWakeReaders, States
  <2>3. Readers' = Readers \cup {t} /\ Writers' = Writers
        /\ WaitingReaders' = WaitingReaders \ {t}
        /\ WaitingWriters' = WaitingWriters
    BY <1>0, <2>0, <2>1, GrantSets
  <2>4. Cardinality(Readers') = Cardinality(Readers) + 1
    BY <1>0, <2>0, <2>3, CountOneMore
  <2>5. Cardinality(WaitingReaders') = Cardinality(WaitingReaders) - 1
    BY <1>0, <2>0, <2>3, CountOneLess
  <2> QED
    BY <1>0, <1>q, <2>1, <2>2, <2>3, <2>4, <2>5 DEF Exact
<1>3. ASSUME NEW t \in Threads, ReleaseRead(t) PROVE CountInv'
  <2>0. t \in Readers /\ t \notin Writers
    BY <1>3 DEF ReleaseRead, Readers, Writers, In
  <2>1. /\ readerCount' = readerCount - 1
        /\ resumed' = [resumed EXCEPT ![t] = FALSE]
        /\ UNCHANGED <<writerCount, rWaitCount, wWaitCount>>
        /\ pc[t] = "reading"
    BY <1>3 DEF ReleaseRead
  <2>2. \/ pc' = [pc EXCEPT ![t] = "out"]
        \/ \E w \in Threads : pc' = MoveAndSignal(t, w, "wAsleep", "wWoken")
    BY <1>3 DEF ReleaseRead
  <2>3. PcOK' /\ Readers' = Readers \ {t} /\ Writers' = Writers
        /\ WaitingReaders' = WaitingReaders /\ WaitingWriters' = WaitingWriters
    BY <1>0, <2>0, <2>1, <2>2, LeaveSets DEF PcOK
  <2>4. Cardinality(Readers') = Cardinality(Readers) - 1
    BY <1>0, <2>0, <2>3, CountOneLess
  <2> QED
    BY <1>0, <1>q, <2>1, <2>3, <2>4 DEF Exact
<1>4. ASSUME NEW t \in Threads, AquireWrite(t) PROVE CountInv'
  <2>0. t \notin Readers /\ t \notin Writers /\ t \notin WaitingReaders
        /\ t \notin WaitingWriters
    BY <1>4 DEF AquireWrite, Readers, Writers, WaitingReaders, WaitingWriters, In
  <2>1. CASE writerCount > 0 \/ readerCount > 0
    <3>1. PcOK' /\ Readers' = Readers /\ Writers' = Writers
          /\ WaitingReaders' = WaitingReaders
          /\ WaitingWriters' = WaitingWriters \cup {t}
      BY <1>0, <1>4, <2>1 DEF AquireWrite, PcOK, States, Readers, Writers,
                              WaitingReaders, WaitingWriters, In
    <3>2. Cardinality(WaitingWriters') = Cardinality(WaitingWriters) + 1
      BY <1>0, <2>0, <3>1, CountOneMore
    <3> QED
      BY <1>0, <1>4, <1>q, <2>1, <3>1, <3>2 DEF AquireWrite, Exact
  <2>2. CASE ~(writerCount > 0 \/ readerCount > 0)
    <3>1. pc' = MoveAndWakeReaders(t, "writing")
          /\ writerCount' = writerCount + 1
          /\ UNCHANGED <<readerCount, rWaitCount, wWaitCount, resumed>>
      BY <1>4, <2>2 DEF AquireWrite, GrantWrite
    <3>2. PcOK'
      BY <1>0, <3>1 DEF PcOK, MoveAndWakeReaders, States
    <3>3. Writers' = Writers \cup {t} /\ Readers' = Readers
          /\ WaitingReaders' = WaitingReaders /\ WaitingWriters' = WaitingWriters
      BY <1>0, <2>0, <3>1, GrantSets
    <3>4. Cardinality(Writers') = Cardinality(Writers) + 1
      BY <1>0, <2>0, <3>3, CountOneMore
    <3> QED
      BY <1>0, <1>q, <3>1, <3>2, <3>3, <3>4 DEF Exact
  <2> QED
    BY <2>1, <2>2
<1>5. ASSUME NEW t \in Threads, ResumeWrite(t) PROVE CountInv'
  <2>0. t \notin Readers /\ t \notin Writers /\ t \notin WaitingReaders
        /\ t \in WaitingWriters
    BY <1>5 DEF ResumeWrite, Readers, Writers, WaitingReaders, WaitingWriters, In
  <2>1. /\ pc' = MoveAndWakeReaders(t, "writing")
        /\ resumed' = [resumed EXCEPT ![t] = TRUE]
        /\ writerCount' = writerCount + 1 /\ wWaitCount' = wWaitCount - 1
        /\ UNCHANGED <<readerCount, rWaitCount>>
    BY <1>5 DEF ResumeWrite, GrantWrite
  <2>2. PcOK'
    BY <1>0, <2>1 DEF PcOK, MoveAndWakeReaders, States
  <2>3. Writers' = Writers \cup {t} /\ Readers' = Readers
        /\ WaitingReaders' = WaitingReaders
        /\ WaitingWriters' = WaitingWriters \ {t}
    <3>1. /\ Readers' = Readers \ {t}
          /\ Writers' = Writers \cup {t}
          /\ WaitingReaders' = WaitingReaders \ {t}
          /\ WaitingWriters' = WaitingWriters \ {t}
      BY <1>0, <2>1, GrantSets
    <3> QED
      BY <2>0, <3>1
  <2>4. Cardinality(Writers') = Cardinality(Writers) + 1
    BY <1>0, <2>0, <2>3, CountOneMore
  <2>5. Cardinality(WaitingWriters') = Cardinality(WaitingWriters) - 1
    BY <1>0, <2>0, <2>3, CountOneLess
  <2> QED
    BY <1>0, <1>q, <2>1, <2>2, <2>3, <2>4, <2>5 DEF Exact
<1>6. ASSUME NEW t \in Threads, ReleaseWrite(t) PROVE CountInv'
  <2>0. t \in Writers /\ t \notin Readers
    BY <1>6 DEF ReleaseWrite, Readers, Writers, In
  <2>1. /\ writerCount' = writerCount - 1
        /\ resumed' = [resumed EXCEPT ![t] = FALSE]
        /\ UNCHANGED <<readerCount, rWaitCount, wWaitCount>>
        /\ pc[t] = "writing"
    BY <1>6 DEF ReleaseWrite
  <2>2. \/ \E w \in Threads : pc' = MoveAndSignal(t, w, "rAsleep", "rWoken")
        \/ \E w \in Threads : pc' = MoveAndSignal(t, w, "wAsleep", "wWoken")
    BY <1>6 DEF ReleaseWrite
  <2>3. PcOK' /\ Writers' = Writers \ {t} /\ Readers' = Readers
        /\ WaitingReaders' = WaitingReaders /\ WaitingWriters' = WaitingWriters
    BY <1>0, <2>0, <2>1, <2>2, LeaveSets DEF PcOK
  <2>4. Cardinality(Writers') = Cardinality(Writers) - 1
    BY <1>0, <2>0, <2>3, CountOneLess
  <2> QED
    BY <1>0, <1>q, <2>1, <2>3, <2>4 DEF Exact
<1>7. ASSUME NEW t \in Threads, SpuriousWakeup(t) PROVE CountInv'
  <2>1. PcOK' /\ Writers' = Writers /\ Readers' = Readers
        /\ WaitingReaders' = WaitingReaders /\ WaitingWriters' = WaitingWriters
    BY <1>0, <1>7 DEF SpuriousWakeup, PcOK, States, Readers, Writers,
                      WaitingReaders, WaitingWriters, In
  <2> QED
    BY <1>0, <1>7, <1>q, <2>1 DEF SpuriousWakeup, Exact
<1>8. CASE UNCHANGED vars
  BY <1>8 DEF vars, CountInv, PcOK, CountersExact, In
<1> QED
  BY <1>1, <1>2, <1>3, <1>4, <1>5, <1>6, <1>7, <1>8 DEF Next, Resume, Release

LEMMA CountInit == Init => CountInv
<1> SUFFICES ASSUME Init PROVE CountInv
  OBVIOUS
<1>1. PcOK
  BY DEF Init, PcOK, States
<1>2. /\ In({"reading"}) = {} /\ In({"writing"}) = {}
      /\ In({"rAsleep", "rWoken"}) = {} /\ In({"wAsleep", "wWoken"}) = {}
  BY DEF Init, In
<1> QED
  BY <1>1, <1>2, FS_EmptySet DEF Init, CountInv, CountersExact

LEMMA CountInvariant == Spec => []CountInv
BY CountInit, CountStep, PTL DEF Spec

\* No counter of the lock is ever wrong: each says how many threads hold the
\* lock, or wait in pthread_cond_wait, in that role.
THEOREM CountersCorrect == Spec => []CountersExact
<1>1. CountInv => CountersExact
  BY DEF CountInv
<1> QED
  BY <1>1, CountInvariant, PTL

\* Type correctness; in particular the unsigned counters never wrap.
THEOREM TypeCorrect == Spec => []TypeOK
<1>1. CountInv => TypeOK
  BY InFinite DEF CountInv, CountersExact, PcOK, TypeOK
<1> QED
  BY <1>1, CountInvariant, PTL

-----------------------------------------------------------------------------

\* An asleep reader is never alone: the inductive step of NoReaderLeftBehind.
LEMMA ReaderStep ==
    CountInv /\ NoReaderLeftBehind /\ [Next]_vars => NoReaderLeftBehind'
<1> SUFFICES ASSUME CountInv, NoReaderLeftBehind, [Next]_vars
             PROVE  NoReaderLeftBehind'
  OBVIOUS
<1>0. /\ PcOK
      /\ readerCount \in Nat /\ writerCount \in Nat
      /\ rWaitCount \in Nat /\ wWaitCount \in Nat
  BY InFinite DEF CountInv, CountersExact
\* A grant leaves no reader asleep.
<1>g. ASSUME NEW t \in Threads, NEW s \in {"reading", "writing"},
             pc' = MoveAndWakeReaders(t, s)
      PROVE  NoReaderLeftBehind'
  BY <1>0, <1>g DEF MoveAndWakeReaders, NoReaderLeftBehind, In, PcOK
<1>1. ASSUME NEW t \in Threads, AquireRead(t) PROVE NoReaderLeftBehind'
  BY <1>1, <1>g DEF AquireRead, GrantRead, NoReaderLeftBehind
<1>2. ASSUME NEW t \in Threads, ResumeRead(t) PROVE NoReaderLeftBehind'
  BY <1>2, <1>g DEF ResumeRead, GrantRead
<1>3. ASSUME NEW t \in Threads, ReleaseRead(t) PROVE NoReaderLeftBehind'
  <2>1. UNCHANGED <<writerCount, wWaitCount>>
    BY <1>3 DEF ReleaseRead
  <2>2. In({"rAsleep"})' = In({"rAsleep"}) /\ In({"rWoken"})' = In({"rWoken"})
    BY <1>0, <1>3 DEF ReleaseRead, MoveAndSignal, In, PcOK
  <2> QED
    BY <2>1, <2>2 DEF NoReaderLeftBehind
<1>4. ASSUME NEW t \in Threads, AquireWrite(t) PROVE NoReaderLeftBehind'
  <2>1. CASE writerCount > 0 \/ readerCount > 0
    BY <1>0, <1>4, <2>1 DEF AquireWrite, NoReaderLeftBehind
  <2>2. CASE ~(writerCount > 0 \/ readerCount > 0)
    BY <1>4, <1>g, <2>2 DEF AquireWrite, GrantWrite
  <2> QED
    BY <2>1, <2>2
<1>5. ASSUME NEW t \in Threads, ResumeWrite(t) PROVE NoReaderLeftBehind'
  BY <1>5, <1>g DEF ResumeWrite, GrantWrite
\* The writer that leaves wakes a reader, if one is asleep.
<1>6. ASSUME NEW t \in Threads, ReleaseWrite(t) PROVE NoReaderLeftBehind'
  <2>1. CASE rWaitCount > 0
    <3>1. PICK w \in Threads :
               /\ In({"rAsleep"}) = {} \/ pc[w] = "rAsleep"
               /\ pc' = MoveAndSignal(t, w, "rAsleep", "rWoken")
      BY <1>6, <2>1 DEF ReleaseWrite
    <3>2. CASE In({"rAsleep"}) = {}
      BY <1>0, <1>6, <3>1, <3>2
         DEF ReleaseWrite, MoveAndSignal, In, PcOK, NoReaderLeftBehind
    <3>3. CASE pc[w] = "rAsleep"
      <4>1. w \in In({"rWoken"})'
        BY <1>0, <1>6, <3>1, <3>3 DEF ReleaseWrite, MoveAndSignal, In, PcOK
      <4> QED
        BY <4>1 DEF NoReaderLeftBehind
    <3> QED
      BY <3>1, <3>2, <3>3
  <2>2. CASE ~(rWaitCount > 0)
    <3>1. In({"rAsleep", "rWoken"}) = {}
      BY <1>0, <2>2, InFinite, FS_EmptySet DEF CountInv, CountersExact
    <3>2. In({"rAsleep"})' = {}
      BY <1>0, <1>6, <2>2, <3>1 DEF ReleaseWrite, MoveAndSignal, In, PcOK
    <3> QED
      BY <3>2 DEF NoReaderLeftBehind
  <2> QED
    BY <2>1, <2>2
<1>7. ASSUME NEW t \in Threads, SpuriousWakeup(t) PROVE NoReaderLeftBehind'
  <2>1. UNCHANGED <<writerCount, wWaitCount>>
    BY <1>7 DEF SpuriousWakeup
  <2>2. \/ In({"rWoken"})' # {}
        \/ In({"rAsleep"})' = In({"rAsleep"}) /\ In({"rWoken"})' = In({"rWoken"})
    BY <1>0, <1>7 DEF SpuriousWakeup, In, PcOK
  <2> QED
    BY <2>1, <2>2 DEF NoReaderLeftBehind
<1>8. CASE UNCHANGED vars
  BY <1>8 DEF vars, NoReaderLeftBehind, In
<1> QED
  BY <1>1, <1>2, <1>3, <1>4, <1>5, <1>6, <1>7, <1>8 DEF Next, Resume, Release

\* Readers are not forgotten: one sleeps only while a writer holds or awaits
\* the lock or another reader is on its way in.
THEOREM ReadersNotLeftBehind == Spec => []NoReaderLeftBehind
<1>1. Init => NoReaderLeftBehind
  BY DEF Init, NoReaderLeftBehind, In
<1> QED
  BY <1>1, ReaderStep, CountInvariant, PTL DEF Spec

-----------------------------------------------------------------------------

\* Two threads come to hold the lock in conflict only by a grant after a wait.
LEMMA ExclusionStep ==
    CountInv /\ ExclusionUnlessResumed /\ [Next]_vars => ExclusionUnlessResumed'
<1> SUFFICES ASSUME CountInv, ExclusionUnlessResumed, [Next]_vars
             PROVE  ExclusionUnlessResumed'
  OBVIOUS
<1>0. PcOK
  BY DEF CountInv
<1>1. ASSUME NEW t \in Threads, AquireRead(t) PROVE ExclusionUnlessResumed'
  <2>1. CASE writerCount > 0 \/ wWaitCount > 0
    BY <1>0, <1>1, <2>1 DEF AquireRead, ExclusionUnlessResumed, Conflict, PcOK
  <2>2. CASE ~(writerCount > 0 \/ wWaitCount > 0)
    <3>1. In({"writing"}) = {}
      BY <2>2, InFinite, FS_EmptySet DEF CountInv, CountersExact
    <3>2. In({"writing"})' = {}
      BY <1>0, <1>1, <2>2, <3>1
         DEF AquireRead, GrantRead, MoveAndWakeReaders, In, PcOK
    <3> QED
      BY <3>2 DEF ExclusionUnlessResumed, Conflict, In
  <2> QED
    BY <2>1, <2>2
<1>2. ASSUME NEW t \in Threads, ResumeRead(t) \/ ResumeWrite(t)
      PROVE  ExclusionUnlessResumed'
  <2>1. ASSUME NEW a \in Threads, NEW b \in Threads, Conflict(a, b)'
        PROVE  resumed'[a] \/ resumed'[b]
    <3>1. CASE a = t \/ b = t
      BY <1>0, <1>2, <3>1 DEF ResumeRead, ResumeWrite, PcOK
    <3>2. CASE a # t /\ b # t
      <4>1. Conflict(a, b)
        BY <1>0, <1>2, <2>1, <3>2 DEF ResumeRead, ResumeWrite, GrantRead,
           GrantWrite, MoveAndWakeReaders, Conflict, PcOK
      <4> QED
        BY <1>0, <1>2, <3>2, <4>1 DEF ResumeRead, ResumeWrite, PcOK,
           ExclusionUnlessResumed
    <3> QED
      BY <3>1, <3>2
  <2> QED
    BY <2>1 DEF ExclusionUnlessResumed
<1>3. ASSUME NEW t \in Threads, ReleaseRead(t) \/ ReleaseWrite(t)
      PROVE  ExclusionUnlessResumed'
  <2>1. ASSUME NEW a \in Threads, NEW b \in Threads, Conflict(a, b)'
        PROVE  resumed'[a] \/ resumed'[b]
    <3>1. a # t /\ b # t /\ Conflict(a, b)
      BY <1>0, <1>3, <2>1 DEF ReleaseRead, ReleaseWrite, MoveAndSignal,
         Conflict, PcOK
    <3> QED
      BY <1>0, <1>3, <3>1 DEF ReleaseRead, ReleaseWrite, PcOK,
         ExclusionUnlessResumed
  <2> QED
    BY <2>1 DEF ExclusionUnlessResumed
<1>4. ASSUME NEW t \in Threads, AquireWrite(t) PROVE ExclusionUnlessResumed'
  <2>1. CASE writerCount > 0 \/ readerCount > 0
    BY <1>0, <1>4, <2>1 DEF AquireWrite, ExclusionUnlessResumed, Conflict, PcOK
  <2>2. CASE ~(writerCount > 0 \/ readerCount > 0)
    <3>1. In({"writing"}) = {} /\ In({"reading"}) = {}
      BY <2>2, InFinite, FS_EmptySet DEF CountInv, CountersExact
    <3>2. ASSUME NEW a \in Threads, NEW b \in Threads, a # b,
                 pc'[a] = "writing"
          PROVE  pc'[b] \notin {"reading", "writing"}
      BY <1>0, <1>4, <2>2, <3>1, <3>2
         DEF AquireWrite, GrantWrite, MoveAndWakeReaders, In, PcOK
    <3> QED
      BY <3>2 DEF ExclusionUnlessResumed, Conflict
  <2> QED
    BY <2>1, <2>2
<1>5. ASSUME NEW t \in Threads, SpuriousWakeup(t) PROVE ExclusionUnlessResumed'
  BY <1>0, <1>5 DEF SpuriousWakeup, ExclusionUnlessResumed, Conflict, PcOK
<1>6. CASE UNCHANGED vars
  BY <1>6 DEF vars, ExclusionUnlessResumed, Conflict
<1> QED
  BY <1>1, <1>2, <1>3, <1>4, <1>5, <1>6 DEF Next, Resume, Release

\* A grant without a wait never conflicts with a holder: every breach of
\* mutual exclusion comes from the wait that is not tested again.
THEOREM ExclusionUnlessResumedHolds == Spec => []ExclusionUnlessResumed
<1>1. Init => ExclusionUnlessResumed
  BY DEF Init, ExclusionUnlessResumed, Conflict
<1> QED
  BY <1>1, ExclusionStep, CountInvariant, PTL DEF Spec

=============================================================================
