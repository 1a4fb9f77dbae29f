-------------------------- MODULE ThreadPoolProofs --------------------------
(***************************************************************************)
(* Proofs about ThreadPool, for any number of agents, clients, peers, ids  *)
(* and requests: what agents do with their entries leaves the connection   *)
(* queue as module ConnectionQueue has it, so its theorems hold for the    *)
(* pool; the types of the pool; the invariant of the acknowledge queues,   *)
(* for the ids and at the times the pool uses them; and whose answers a    *)
(* request counts, what it leaves behind, and when a queue is used that    *)
(* was erased.                                                             *)
(***************************************************************************)
EXTENDS ThreadPool, ConnectionQueueProofs

-----------------------------------------------------------------------------
(* The connection queue. *)

\* A step of the pool is a step of the connection queue, or leaves it alone.
LEMMA PoolStep ==
    ASSUME [PoolNext]_allVars
    PROVE  [Next]_vars
<1> USE QueueAssumption, PoolAssumption
<1>1. ASSUME NEW t \in Threads, SignalAdded(t) PROVE [Next]_vars
  BY <1>1 DEF SignalAdded, Next
<1>2. ASSUME NEW t \in Threads, NEW c \in Clients, Connect(t, c)
      PROVE  [Next]_vars
  BY <1>2 DEF Connect, Add, Next
<1>3. ASSUME NEW a \in Agents, GetEntry(a) PROVE [Next]_vars
  BY <1>3 DEF GetEntry, Next
<1>4. ASSUME NEW a \in Agents, Wakeup(a) PROVE [Next]_vars
  BY <1>4 DEF Wakeup, Next
<1>5. ASSUME NEW a \in Agents, SessionStep(a) PROVE [Next]_vars
  <2>1. CASE Broadcast(a)
    BY <2>1 DEF Broadcast, Add, Next
  <2> QED
    BY <1>5, <2>1 DEF SessionStep, AskTheOne, Await, Acknowledged,
                      NotAcknowledged, TellError
<1>6. ASSUME NEW a \in Agents, DeliveryStep(a) PROVE [Next]_vars
  BY <1>6 DEF DeliveryStep, DeliverInVain, ReceiveAnswer, AddTheAnswer,
              FinishAnswer
<1>7. ASSUME NEW a \in Agents, Leave(a) \/ PeerHalts(a) PROVE [Next]_vars
  BY <1>7 DEF Leave, PeerHalts
<1>8. ASSUME NEW a \in Agents, NEW id \in MessageIds, Command(a, id)
      PROVE  [Next]_vars
  BY <1>8 DEF Command
<1>9. ASSUME NEW a \in Agents, Crash(a) PROVE [Next]_vars
  BY <1>9 DEF Crash
<1>10. CASE UNCHANGED allVars
  BY <1>10 DEF allVars
<1> QED
  BY <1>1, <1>2, <1>3, <1>4, <1>5, <1>6, <1>7, <1>8, <1>9, <1>10 DEF PoolNext

\* The pool implements the connection queue on its own: whatever agents do
\* with sockets and broadcast commands in between.
THEOREM ImplementsQueue == PoolSpec => Spec
<1>1. PoolInit => Init
  BY DEF PoolInit
<1>2. [PoolNext]_allVars => [Next]_vars
  BY PoolStep
<1> QED
  BY <1>1, <1>2, PTL DEF PoolSpec, Spec

\* The connection queue of a pool keeps its types.
THEOREM PoolQueueTyped == PoolSpec => []TypeOK
BY ImplementsQueue, TypeCorrect, PTL

\* In a pool whose agents wait for each other no wakeup is lost: an entry
\* never lies in the queue while an agent sleeps and nobody is to wake it ...
THEOREM PoolWakeupsSuffice == PoolSpec => []EnoughWakeups
BY ImplementsQueue, WakeupsSuffice, PTL

\* ... and entries are taken once and in order.
THEOREM PoolTakesInOrder == PoolSpec => []TakenInOrder
BY ImplementsQueue, TakenOnceInOrder, PTL

-----------------------------------------------------------------------------
(* The types of the pool. *)

JobType == [at : {"free", "session", "asking", "waiting", "aborting", "call",
                  "abort", "blocked"},
            req : Nat, phase : 0..2, left : 0..ReplyCount]

EntryType == [type : {"client"}, client : Clients]
             \cup [type : {"call", "abort"}, req : Nat, phase : {1, 2}]

\* Work is about a request that has been made, in one of the two phases.
KnownJob(job) ==
    job.at \notin {"free", "session", "blocked"} =>
        job.req \in 1..Len(idOf) /\ job.phase \in {1, 2}

KnownEntry(entry) ==
    entry.type # "client" => entry.req \in 1..Len(idOf)

\* The three parts of the pool's types: the agents, the entries, the records
\* of the requests.
JobsTyped ==
    /\ agent \in [Agents -> JobType]
    /\ \A a \in Agents : KnownJob(agent[a])

EntriesTyped ==
    /\ content \in Seq(EntryType)
    /\ Len(content) = Len(connectionQueue)
    /\ \A i \in 1..Len(content) : KnownEntry(content[i])

RequestsTyped ==
    /\ connected \subseteq Clients
    /\ idOf \in Seq(MessageIds)
    /\ result \in Seq({"open", "wrote", "error"})
    /\ Len(idOf) = Len(result)
    /\ Len(result) <= MaxRequests
    /\ late \subseteq Requests

PoolTyped == TypeOK /\ JobsTyped /\ EntriesTyped /\ RequestsTyped

LEMMA PoolTypes == PoolTyped => PoolTypeOK
BY DEF PoolTyped, JobsTyped, EntriesTyped, RequestsTyped, PoolTypeOK, JobType,
       EntryType

LEMMA ReplyCountNat == ReplyCount \in Nat \ {0}
BY CallersAssumption

\* The work an agent finds in the queue.
LEMMA DispatchTyped ==
    ASSUME PoolTyped, content # <<>>
    PROVE  /\ Dispatch(Head(content)) \in JobType
           /\ KnownJob(Dispatch(Head(content)))
           /\ Tail(content) \in Seq(EntryType)
           /\ Len(Tail(content)) = Len(content) - 1
           /\ \A i \in 1..Len(Tail(content)) : KnownEntry(Tail(content)[i])
<1>1. content \in Seq(EntryType)
  BY DEF PoolTyped, EntriesTyped
<1>2. Head(content) = content[1] /\ content[1] \in EntryType
  BY <1>1
<1>3. KnownEntry(content[1]) /\ Len(idOf) \in Nat
  BY <1>1 DEF PoolTyped, EntriesTyped, RequestsTyped
<1>6. /\ Dispatch(Head(content)) \in JobType
      /\ KnownJob(Dispatch(Head(content)))
  <2>1. CASE content[1] \in [type : {"client"}, client : Clients]
    BY <1>2, <2>1, ReplyCountNat
       DEF Dispatch, Session, Job, JobType, KnownJob
  <2>2. CASE content[1] \in [type : {"call", "abort"}, req : Nat, phase : {1, 2}]
    BY <1>2, <1>3, <2>2, ReplyCountNat
       DEF Dispatch, Job, JobType, KnownJob, KnownEntry
  <2> QED
    BY <1>2, <2>1, <2>2 DEF EntryType
<1>7. /\ Tail(content) \in Seq(EntryType)
      /\ Len(Tail(content)) = Len(content) - 1
      /\ \A i \in 1..Len(Tail(content)) : Tail(content)[i] = content[i + 1]
  BY <1>1, HeadTailProperties
<1>8. \A i \in 1..Len(Tail(content)) : KnownEntry(Tail(content)[i])
  BY <1>1, <1>7 DEF PoolTyped, EntriesTyped
<1> QED
  BY <1>6, <1>7, <1>8

\* An agent whose request stays and whose work has a known type.
LEMMA JobTypes ==
    ASSUME PoolTyped, NEW a \in Agents
    PROVE  /\ agent[a] \in JobType
           /\ KnownJob(agent[a])
           /\ Len(idOf) \in Nat /\ Len(result) \in Nat
           /\ 1..Len(idOf) = Requests
BY DEF PoolTyped, JobsTyped, RequestsTyped, Requests

\* One agent turns to other work.
LEMMA AgentTurns ==
    ASSUME PoolTyped, NEW a \in Agents, NEW job \in JobType, KnownJob(job),
           agent' = [agent EXCEPT ![a] = job], UNCHANGED idOf
    PROVE  JobsTyped'
BY DEF PoolTyped, JobsTyped, KnownJob

\* An entry comes to the end of the queue.
LEMMA EntryAdded ==
    ASSUME PoolTyped, NEW t, NEW entry \in EntryType, KnownEntry(entry),
           Add(t, entry), UNCHANGED idOf
    PROVE  EntriesTyped'
<1>1. /\ content \in Seq(EntryType) /\ content' = Append(content, entry)
      /\ connectionQueue \in Seq(Nat) /\ added + 1 \in Nat
      /\ connectionQueue' = Append(connectionQueue, added + 1)
  BY QueueAssumption DEF PoolTyped, EntriesTyped, TypeOK, Add, Push
<1>2. /\ Len(content') = Len(content) + 1
      /\ Len(connectionQueue') = Len(connectionQueue) + 1
      /\ content' \in Seq(EntryType)
      /\ \A i \in 1..Len(content') :
            content'[i] = IF i <= Len(content) THEN content[i] ELSE entry
  BY <1>1, AppendProperties
<1>3. \A i \in 1..Len(content') : KnownEntry(content[i])'
  BY <1>1, <1>2 DEF PoolTyped, EntriesTyped, KnownEntry
<1> QED
  BY <1>1, <1>2, <1>3 DEF PoolTyped, EntriesTyped

\* The records of the requests change in the result of one at most.
LEMMA ResultRecorded ==
    ASSUME PoolTyped, NEW r \in Requests, NEW v \in {"wrote", "error"},
           result' = [result EXCEPT ![r] = v], UNCHANGED <<connected, idOf, late>>
    PROVE  RequestsTyped'
<1>1. /\ result \in Seq({"open", "wrote", "error"})
      /\ Len(result) \in Nat /\ DOMAIN result = 1..Len(result)
  BY DEF PoolTyped, RequestsTyped
<1>2. /\ result' \in Seq({"open", "wrote", "error"})
      /\ Len(result') = Len(result) /\ DOMAIN result' = DOMAIN result
  BY <1>1, ExceptSeq DEF Requests
<1> QED
  BY <1>1, <1>2 DEF PoolTyped, RequestsTyped, Requests

\* Steps of the connection queue.
LEMMA QueueSideTyped ==
    ASSUME PoolTyped, NEW t \in Threads,
           \/ SignalAdded(t)
           \/ \E c \in Clients : Connect(t, c)
           \/ t \in Agents /\ (GetEntry(t) \/ Wakeup(t))
    PROVE  JobsTyped' /\ EntriesTyped' /\ RequestsTyped'
<1>1. CASE SignalAdded(t)
  BY <1>1 DEF SignalAdded, Signal, poolVars, PoolTyped, JobsTyped, EntriesTyped,
              RequestsTyped, KnownJob, KnownEntry, Requests
<1>2. ASSUME NEW c \in Clients, Connect(t, c)
      PROVE  JobsTyped' /\ EntriesTyped' /\ RequestsTyped'
  <2>1. ClientEntry(c) \in EntryType /\ KnownEntry(ClientEntry(c))
    BY DEF ClientEntry, EntryType, KnownEntry
  <2>2. EntriesTyped'
    BY <1>2, <2>1, EntryAdded DEF Connect
  <2> QED
    BY <1>2, <2>2 DEF Connect, PoolTyped, JobsTyped, RequestsTyped, KnownJob,
                      Requests
<1>3. ASSUME t \in Agents, GetEntry(t)
      PROVE  JobsTyped' /\ EntriesTyped' /\ RequestsTyped'
  <2>1. RequestsTyped'
    BY <1>3 DEF GetEntry, PoolTyped, RequestsTyped, Requests
  <2>2. CASE connectionQueue = <<>>
    <3>1. connectionQueue' = connectionQueue
      BY <1>3, <2>2 DEF GetEntry, Get, Resume, TakeOrSleep
    <3> QED
      BY <1>3, <2>1, <2>2, <3>1 DEF GetEntry, PoolTyped, JobsTyped,
                                EntriesTyped, KnownJob, KnownEntry
  <2>3. CASE connectionQueue # <<>>
    <3>1. /\ connectionQueue \in Seq(Nat)
          /\ Len(content) = Len(connectionQueue)
          /\ content \in Seq(EntryType)
      BY DEF PoolTyped, TypeOK, EntriesTyped
    <3>2. content # <<>> /\ Len(connectionQueue) \in Nat
      BY <2>3, <3>1
    <3>3. connectionQueue' = Tail(connectionQueue)
      BY <1>3, <2>3 DEF GetEntry, Get, Resume, TakeOrSleep
    <3>4. Len(connectionQueue') = Len(connectionQueue) - 1
      BY <2>3, <3>1, <3>3, HeadTailProperties
    <3>5. JobsTyped'
      BY <1>3, <2>3, <3>2, DispatchTyped, AgentTurns DEF GetEntry
    <3>6. EntriesTyped'
      BY <1>3, <2>3, <3>1, <3>2, <3>4, DispatchTyped
         DEF GetEntry, EntriesTyped, KnownEntry
    <3> QED
      BY <2>1, <3>5, <3>6
  <2> QED
    BY <2>2, <2>3
<1>4. CASE t \in Agents /\ Wakeup(t)
  BY <1>4 DEF Wakeup, SpuriousWakeup, poolVars, PoolTyped, JobsTyped,
              EntriesTyped, RequestsTyped, KnownJob, KnownEntry, Requests
<1> QED
  BY <1>1, <1>2, <1>3, <1>4

\* Steps of a session.
LEMMA SessionTyped ==
    ASSUME PoolTyped, NEW a \in Agents, SessionStep(a)
    PROVE  JobsTyped' /\ EntriesTyped' /\ RequestsTyped'
<1> USE ReplyCountNat
<1>a. /\ agent[a] \in JobType
      /\ KnownJob(agent[a])
      /\ 1..Len(idOf) = Requests
  BY JobTypes
<1>1. CASE Broadcast(a)
  <2> DEFINE type == IF agent[a].at = "asking" THEN "call" ELSE "abort"
             entry == BroadcastEntry(type, agent[a])
             job == [agent[a] EXCEPT !.left = @ - 1]
  <2>1. entry \in EntryType /\ KnownEntry(entry)
    BY <1>1, <1>a
       DEF Broadcast, BroadcastEntry, EntryType, KnownEntry, KnownJob, JobType
  <2>2. EntriesTyped'
    BY <1>1, <2>1, EntryAdded DEF Broadcast
  <2>3. job \in JobType /\ KnownJob(job)
    BY <1>1, <1>a DEF Broadcast, JobType, KnownJob
  <2>4. agent' = [agent EXCEPT ![a] = job]
    BY <1>1 DEF Broadcast
  <2>5. JobsTyped'
    <3> HIDE DEF job
    <3> QED
      BY <1>1, <2>3, <2>4, AgentTurns DEF Broadcast
  <2> QED
    BY <1>1, <2>2, <2>5 DEF Broadcast, PoolTyped, RequestsTyped, Requests
<1>2. CASE AskTheOne(a)
  <2> DEFINE job == [agent[a] EXCEPT !.at = "waiting"]
  <2>1. job \in JobType /\ KnownJob(job)
    BY <1>2, <1>a DEF AskTheOne, At, JobType, KnownJob
  <2>2. agent' = [agent EXCEPT ![a] = job]
    BY <1>2 DEF AskTheOne
  <2>3. JobsTyped'
    <3> HIDE DEF job
    <3> QED
      BY <1>2, <2>1, <2>2, AgentTurns DEF AskTheOne
  <2> QED
    BY <1>2, <2>3 DEF AskTheOne, vars, PoolTyped, EntriesTyped, RequestsTyped,
                      KnownEntry, Requests
<1>3. CASE Await(a)
  <2>1. agent[a].req \in Requests
    BY <1>3, <1>a DEF Await, At, KnownJob
  <2>2. RequestsTyped'
    BY <1>3, <2>1 DEF Await, PoolTyped, RequestsTyped, Requests
  <2> QED
    BY <1>3, <2>2 DEF Await, vars, PoolTyped, JobsTyped, EntriesTyped, KnownJob,
                      KnownEntry
<1>4. CASE Acknowledged(a)
  <2>1. agent[a].req \in Requests
    BY <1>4, <1>a DEF Acknowledged, At, KnownJob
  <2>2. EntriesTyped'
    BY <1>4 DEF Acknowledged, vars, PoolTyped, EntriesTyped, KnownEntry
  <2>3. CASE agent[a].phase = 1
    <3>1. /\ Job("asking", agent[a].req, 2, ReplyCount) \in JobType
          /\ KnownJob(Job("asking", agent[a].req, 2, ReplyCount))
      BY <1>a, <2>1 DEF Job, JobType, KnownJob
    <3>2. JobsTyped'
      BY <1>4, <2>3, <3>1, AgentTurns DEF Acknowledged, Becomes
    <3> QED
      BY <1>4, <2>2, <2>3, <3>2
         DEF Acknowledged, PoolTyped, RequestsTyped, Requests
  <2>4. CASE agent[a].phase # 1
    <3>1. Session \in JobType /\ KnownJob(Session)
      BY DEF Session, Job, JobType, KnownJob
    <3>2. JobsTyped'
      BY <1>4, <2>4, <3>1, AgentTurns DEF Acknowledged, Becomes
    <3>3. RequestsTyped'
      BY <1>4, <2>1, <2>4, ResultRecorded DEF Acknowledged
    <3> QED
      BY <2>2, <3>2, <3>3
  <2> QED
    BY <2>3, <2>4
<1>5. CASE NotAcknowledged(a)
  <2> DEFINE job == Job("aborting", agent[a].req, agent[a].phase, ReplyCount)
  <2>1. job \in JobType /\ KnownJob(job)
    BY <1>5, <1>a DEF NotAcknowledged, At, Job, JobType, KnownJob
  <2>2. JobsTyped'
    <3>1. agent' = [agent EXCEPT ![a] = job]
      BY <1>5 DEF NotAcknowledged, Becomes
    <3> HIDE DEF job
    <3> QED
      BY <1>5, <2>1, <3>1, AgentTurns DEF NotAcknowledged
  <2> QED
    BY <1>5, <2>2 DEF NotAcknowledged, vars, PoolTyped, EntriesTyped,
                      RequestsTyped, KnownEntry, Requests
<1>6. CASE TellError(a)
  <2>1. agent[a].req \in Requests
    BY <1>6, <1>a DEF TellError, At, KnownJob
  <2>2. Session \in JobType /\ KnownJob(Session)
    BY DEF Session, Job, JobType, KnownJob
  <2>3. JobsTyped'
    BY <1>6, <2>2, AgentTurns DEF TellError, Becomes
  <2>4. RequestsTyped'
    BY <1>6, <2>1, ResultRecorded DEF TellError
  <2> QED
    BY <1>6, <2>3, <2>4 DEF TellError, vars, PoolTyped, EntriesTyped, KnownEntry
<1> QED
  BY <1>1, <1>2, <1>3, <1>4, <1>5, <1>6 DEF SessionStep

\* Steps of a delivery, and those that end a session or begin a request.
LEMMA DeliveryTyped ==
    ASSUME PoolTyped, NEW a \in Agents,
           DeliveryStep(a) \/ Leave(a) \/ PeerHalts(a) \/ Crash(a)
    PROVE  JobsTyped' /\ EntriesTyped' /\ RequestsTyped'
<1>1. /\ Free \in JobType /\ KnownJob(Free)
      /\ Blocked \in JobType /\ KnownJob(Blocked)
  BY ReplyCountNat DEF Free, Blocked, Job, JobType, KnownJob
<1>p. CASE PeerHalts(a)
  <2>1. JobsTyped'
    BY <1>1, <1>p, AgentTurns DEF PeerHalts, Becomes
  <2> QED
    BY <1>p, <2>1 DEF PeerHalts, vars, PoolTyped, EntriesTyped, RequestsTyped,
                      KnownEntry, Requests
<1>2. CASE Leave(a) \/ DeliverInVain(a) \/ FinishAnswer(a)
  <2>1. JobsTyped'
    BY <1>1, <1>2, AgentTurns DEF Leave, DeliverInVain, FinishAnswer, Becomes
  <2> QED
    BY <1>2, <2>1 DEF Leave, DeliverInVain, FinishAnswer, vars, PoolTyped,
                      EntriesTyped, RequestsTyped, KnownEntry, Requests
<1>3. CASE ReceiveAnswer(a) \/ AddTheAnswer(a) \/ Crash(a)
  BY <1>3 DEF ReceiveAnswer, AddTheAnswer, Crash, vars, poolVars, PoolTyped,
              JobsTyped, EntriesTyped, RequestsTyped, KnownJob, KnownEntry,
              Requests
<1> QED
  BY <1>2, <1>3, <1>p DEF DeliveryStep

LEMMA CommandTyped ==
    ASSUME PoolTyped, NEW a \in Agents, NEW id \in MessageIds, Command(a, id)
    PROVE  JobsTyped' /\ EntriesTyped' /\ RequestsTyped'
<1> DEFINE job == Job("asking", Len(result) + 1, 1, ReplyCount)
<1>1. /\ idOf \in Seq(MessageIds) /\ Len(idOf) \in Nat
      /\ result \in Seq({"open", "wrote", "error"})
      /\ Len(idOf) = Len(result)
  BY DEF PoolTyped, RequestsTyped
<1>2. /\ idOf' \in Seq(MessageIds) /\ Len(idOf') = Len(idOf) + 1
      /\ result' \in Seq({"open", "wrote", "error"})
      /\ Len(result') = Len(result) + 1
  BY <1>1, AppendProperties DEF Command
<1>3. DOMAIN result = 1..Len(result) /\ DOMAIN result' = 1..Len(result')
  BY <1>1, <1>2
<1>4. RequestsTyped'
  <2>1. Len(result') <= MaxRequests
    BY <1>1, <1>2, PoolAssumption DEF Command
  <2>2. late' \subseteq Requests'
    BY <1>1, <1>2, <1>3 DEF Command, PoolTyped, RequestsTyped, Requests
  <2> QED
    BY <1>1, <1>2, <2>1, <2>2 DEF Command, PoolTyped, RequestsTyped
<1>5. job \in JobType /\ job.phase = 1 /\ job.req \in 1..Len(idOf')
  BY <1>1, <1>2, ReplyCountNat DEF Job, JobType
<1>6. JobsTyped'
  <2>1. agent' = [agent EXCEPT ![a] = job]
    BY DEF Command, Becomes
  <2>2. \A b \in Agents : KnownJob(agent[b])'
    <3> TAKE b \in Agents
    <3>1. CASE b = a
      <4>1. agent'[b] = job
        BY <2>1, <3>1 DEF PoolTyped, JobsTyped
      <4> QED
        BY <1>5, <4>1 DEF KnownJob
    <3>2. CASE b # a
      <4>1. agent'[b] = agent[b] /\ KnownJob(agent[b])
        BY <2>1, <3>2 DEF PoolTyped, JobsTyped
      <4> QED
        BY <1>1, <1>2, <4>1 DEF KnownJob
    <3> QED
      BY <3>1, <3>2
  <2> QED
    BY <1>5, <2>1, <2>2 DEF PoolTyped, JobsTyped
<1>7. EntriesTyped'
  BY <1>1, <1>2 DEF Command, vars, PoolTyped, EntriesTyped, KnownEntry
<1> QED
  BY <1>4, <1>6, <1>7

\* The types of the pool hold in every behaviour: every broadcast in the queue
\* and every wait in a session is about a request that was made.
LEMMA PoolTypedAlways == PoolSpec => []PoolTyped
<1>1. PoolInit => PoolTyped
  <2> SUFFICES ASSUME PoolInit PROVE PoolTyped
    OBVIOUS
  <2>1. TypeOK
    BY QueueAssumption DEF PoolInit, Init, TypeOK, States
  <2>2. JobsTyped
    BY ReplyCountNat DEF PoolInit, Free, Job, JobsTyped, JobType, KnownJob
  <2>3. EntriesTyped
    BY DEF PoolInit, Init, EntriesTyped
  <2>4. RequestsTyped
    BY PoolAssumption DEF PoolInit, RequestsTyped, Requests
  <2> QED
    BY <2>1, <2>2, <2>3, <2>4 DEF PoolTyped
<1>2. PoolTyped /\ TypeOK' /\ [PoolNext]_allVars => PoolTyped'
  <2> SUFFICES ASSUME PoolTyped, TypeOK', [PoolNext]_allVars
               PROVE  JobsTyped' /\ EntriesTyped' /\ RequestsTyped'
    BY DEF PoolTyped
  <2>1. CASE UNCHANGED allVars
    BY <2>1 DEF allVars, vars, poolVars, PoolTyped, JobsTyped, EntriesTyped,
                RequestsTyped, KnownJob, KnownEntry, Requests
  <2>2. CASE PoolNext
    BY <2>2, QueueAssumption, QueueSideTyped, SessionTyped, DeliveryTyped,
       CommandTyped DEF PoolNext
  <2> QED
    BY <2>1, <2>2
<1> QED
  BY <1>1, <1>2, PoolQueueTyped, PTL DEF PoolSpec

\* What clients, agents and requests are at any time, for any numbers of them.
THEOREM PoolTypeCorrect == PoolSpec => []PoolTypeOK
BY PoolTypedAlways, PoolTypes, PTL

-----------------------------------------------------------------------------
(* The acknowledge queues. *)

Answer == [req : Nat, phase : 0..2, ok : BOOLEAN]

\* AckTypeOK is not inductive by itself: a new queue must be none of those
\* that were erased.
AckInv(AnswerSet) ==
    /\ AckTypeOK
    /\ ackQueue \in Seq(Seq(AnswerSet))
    /\ erased \subseteq 1..Len(ackQueue)

\* A queue changes, and no other: their number stays.
LEMMA QueueChanged ==
    ASSUME NEW S, ackQueue \in Seq(Seq(S)), NEW q, NEW content_q,
           q \in DOMAIN ackQueue => content_q \in Seq(S),
           ackQueue' = [ackQueue EXCEPT ![q] = content_q]
    PROVE  ackQueue' \in Seq(Seq(S)) /\ Len(ackQueue') = Len(ackQueue)
<1>1. CASE q \in 1..Len(ackQueue)
  BY <1>1, ExceptSeq
<1>2. CASE q \notin 1..Len(ackQueue)
  <2> DEFINE n == Len(ackQueue)
  <2>1. ackQueue \in [1..n -> Seq(S)]
    BY LenProperties
  <2>2. ackQueue' = ackQueue
    BY <1>2, <2>1
  <2> QED
    BY <2>2
<1> QED
  BY <1>1, <1>2

\* TheOne gives a queue that the map has, or a new one under the id.
LEMMA TheOneKeeps ==
    ASSUME NEW S, AckInv(S), NEW t \in Callers, NEW id \in MessageIds,
           NEW use \in {"found", "checking"}, TheOne(t, id, use)
    PROVE  AckInv(S)'
<1> USE DEF AckInv, AckTypeOK
<1>1. ackPc' = [ackPc EXCEPT ![t] = use] /\ erased' = erased /\ broken' = broken
  BY DEF TheOne, AckGoes
<1>2. ackPc' \in [Callers -> AckStates]
  BY <1>1 DEF AckStates
<1>3. \A u \in Callers : ackPc'[u] = "pushed" => u # t /\ ackPc[u] = "pushed"
  BY <1>1
<1>4. CASE theMap[id] = 0
  <2>1. /\ ackQueue' = Append(ackQueue, <<>>)
        /\ theMap' = [theMap EXCEPT ![id] = Len(ackQueue) + 1]
        /\ ackPtr' = [ackPtr EXCEPT ![t] = Len(ackQueue) + 1]
    BY <1>4 DEF TheOne
  <2>2. ackQueue \in Seq(Seq(S)) /\ <<>> \in Seq(S) /\ Len(ackQueue) \in Nat
    OBVIOUS
  <2>3. ackQueue' \in Seq(Seq(S)) /\ Len(ackQueue') = Len(ackQueue) + 1
    BY <2>1, <2>2, AppendProperties
  <2>4. ackPtr' \in [Callers -> 0..Len(ackQueue')]
    BY <2>1, <2>2, <2>3
  <2>5. theMap' \in [MessageIds -> Nat]
    BY <2>1, <2>2
  <2>6. \A other \in MessageIds :
          theMap'[other] = IF other = id THEN Len(ackQueue) + 1 ELSE theMap[other]
    BY <2>1
  <2>7. \A other \in MessageIds : theMap'[other] \in 0..Len(ackQueue') \ erased'
    BY <1>1, <2>2, <2>3, <2>6
  <2>8. \A one, other \in MessageIds :
          theMap'[one] # 0 /\ theMap'[one] = theMap'[other] => one = other
    BY <2>2, <2>6
  <2>9. \A u, v \in Callers :
          ackPc'[u] = "pushed" /\ ackPc'[v] = "pushed" /\ ackPtr'[u] = ackPtr'[v]
              => u = v
    BY <1>3, <2>1
  <2> QED
    BY <1>1, <1>2, <2>2, <2>3, <2>4, <2>5, <2>7, <2>8, <2>9
<1>5. CASE theMap[id] # 0
  <2>1. UNCHANGED <<theMap, ackQueue>> /\ ackPtr' = [ackPtr EXCEPT ![t] = theMap[id]]
    BY <1>5 DEF TheOne
  <2>2. ackPtr' \in [Callers -> 0..Len(ackQueue)]
    BY <2>1
  <2>3. \A u, v \in Callers :
          ackPc'[u] = "pushed" /\ ackPc'[v] = "pushed" /\ ackPtr'[u] = ackPtr'[v]
              => u = v
    BY <1>3, <2>1
  <2> QED
    BY <1>1, <1>2, <2>1, <2>2, <2>3
<1> QED
  BY <1>4, <1>5

\* A step of the queues keeps the invariant, whatever answers are added.
LEMMA AckStepKeeps ==
    ASSUME NEW S, AckInv(S), [AckNext(S)]_ackVars
    PROVE  AckInv(S)'
<1>1. CASE UNCHANGED ackVars
  BY <1>1 DEF ackVars, AckInv, AckTypeOK
<1>2. ASSUME NEW t \in Callers, NEW id \in MessageIds,
             TheOneToAdd(t, id) \/ TheOneToCheck(t, id)
      PROVE  AckInv(S)'
  BY <1>2, TheOneKeeps DEF TheOneToAdd, TheOneToCheck
<1>3. ASSUME NEW t \in Callers, NEW id \in MessageIds, Erase(t, id)
      PROVE  AckInv(S)'
  <2> USE DEF AckInv, AckTypeOK
  <2>1. /\ ackPc' = [ackPc EXCEPT ![t] = "idle"]
        /\ ackPtr' = [ackPtr EXCEPT ![t] = 0]
    BY <1>3 DEF Erase, AckGoes
  <2>2. ackPc' \in [Callers -> AckStates] /\ ackPtr' \in [Callers -> 0..Len(ackQueue)]
    BY <2>1 DEF AckStates
  <2>3. \A u, v \in Callers :
          ackPc'[u] = "pushed" /\ ackPc'[v] = "pushed" /\ ackPtr'[u] = ackPtr'[v]
              => u = v
    BY <2>1
  <2>4. CASE theMap[id] = 0
    BY <1>3, <2>2, <2>3, <2>4 DEF Erase
  <2>5. CASE theMap[id] # 0
    <3>1. /\ theMap' = [theMap EXCEPT ![id] = 0]
          /\ erased' = erased \cup {theMap[id]}
          /\ ackQueue' = [ackQueue EXCEPT ![theMap[id]] = <<>>]
          /\ broken' = broken
      BY <1>3, <2>5 DEF Erase
    <3>2. ackQueue' \in Seq(Seq(S)) /\ Len(ackQueue') = Len(ackQueue)
      <4>1. <<>> \in Seq(S)
        OBVIOUS
      <4> QED
        BY <3>1, <4>1, QueueChanged
    <3>3. theMap' \in [MessageIds -> Nat]
      BY <3>1
    <3>4. erased' \subseteq 1..Len(ackQueue')
      <4>1. theMap[id] \in 1..Len(ackQueue)
        BY <2>5
      <4> QED
        BY <3>1, <3>2, <4>1
    <3>5. \A other \in MessageIds :
            theMap'[other] \in 0..Len(ackQueue') \ erased'
      BY <2>5, <3>1, <3>2
    <3>6. \A one, other \in MessageIds :
            theMap'[one] # 0 /\ theMap'[one] = theMap'[other] => one = other
      BY <3>1
    <3> QED
      BY <2>2, <2>3, <3>1, <3>2, <3>3, <3>4, <3>5, <3>6
  <2> QED
    BY <2>4, <2>5
<1>4. ASSUME NEW t \in Callers, NEW answer \in S, AddAnswer(t, answer)
      PROVE  AckInv(S)'
  <2> USE DEF AckInv, AckTypeOK
  <2>1. /\ ackPc' = [ackPc EXCEPT ![t] = "pushed"]
        /\ MutexFree(t)
        /\ ackQueue' = [ackQueue EXCEPT ![ackPtr[t]] =
                           Append(ackQueue[ackPtr[t]], answer)]
        /\ UNCHANGED <<theMap, ackPtr, erased, broken>>
    BY <1>4 DEF AddAnswer, AckGoes
  <2>2. ackQueue' \in Seq(Seq(S)) /\ Len(ackQueue') = Len(ackQueue)
    <3>1. ackPtr[t] \in DOMAIN ackQueue =>
            Append(ackQueue[ackPtr[t]], answer) \in Seq(S)
      BY <1>4, AppendProperties
    <3> QED
      BY <2>1, <3>1, QueueChanged
  <2>3. ackPc' \in [Callers -> AckStates]
    BY <2>1 DEF AckStates
  <2>4. \A u, v \in Callers :
          ackPc'[u] = "pushed" /\ ackPc'[v] = "pushed" /\ ackPtr'[u] = ackPtr'[v]
              => u = v
    BY <2>1 DEF MutexFree
  <2> QED
    BY <2>1, <2>2, <2>3, <2>4
<1>5. ASSUME NEW t \in Callers, AddDone(t) \/ LeaveQueue(t)
      PROVE  AckInv(S)'
  <2> USE DEF AckInv, AckTypeOK
  <2>1. /\ ackPc' = [ackPc EXCEPT ![t] = "idle"]
        /\ ackPtr' = [ackPtr EXCEPT ![t] = 0]
        /\ UNCHANGED <<theMap, ackQueue, erased, broken>>
    BY <1>5 DEF AddDone, LeaveQueue, AckGoes
  <2>2. /\ ackPc' \in [Callers -> AckStates]
        /\ ackPtr' \in [Callers -> 0..Len(ackQueue)]
    <3>1. 0 \in 0..Len(ackQueue)
      OBVIOUS
    <3> QED
      BY <2>1, <3>1 DEF AckStates
  <2>3. \A u, v \in Callers :
          ackPc'[u] = "pushed" /\ ackPc'[v] = "pushed" /\ ackPtr'[u] = ackPtr'[v]
              => u = v
    BY <2>1
  <2> QED
    BY <2>1, <2>2, <2>3
<1>6. ASSUME NEW t \in Callers, CheckStep(t)
      PROVE  AckInv(S)'
  BY <1>6 DEF CheckStep, Counted, Expires, SecondLook, Verdict, AckGoes, AckInv,
              AckTypeOK, AckStates
<1>7. ASSUME NEW t \in Callers, UseErased(t)
      PROVE  AckInv(S)'
  BY <1>7 DEF UseErased, AckInv, AckTypeOK
<1> QED
  BY <1>1, <1>2, <1>3, <1>4, <1>5, <1>6, <1>7 DEF AckNext

\* A step of the pool is a step of the acknowledge queues, or leaves them
\* alone; what it adds are answers.
LEMMA PoolAckStep ==
    ASSUME PoolTyped, [PoolNext]_allVars
    PROVE  [AckNext(Answer)]_ackVars
<1> USE PoolAssumption
<1>1. CASE UNCHANGED allVars
  BY <1>1 DEF allVars
<1>2. ASSUME NEW a \in Agents, agent[a].at \notin {"free", "session", "blocked"}
      PROVE  /\ idOf[agent[a].req] \in MessageIds
             /\ \A ok \in BOOLEAN :
                  [req |-> agent[a].req, phase |-> agent[a].phase, ok |-> ok]
                      \in Answer
  BY <1>2, JobTypes DEF PoolTyped, RequestsTyped, KnownJob, JobType, Answer
<1>3. ASSUME NEW t \in Threads,
             SignalAdded(t) \/ \E c \in Clients : Connect(t, c)
      PROVE  UNCHANGED ackVars
  BY <1>3 DEF SignalAdded, Connect
<1>4. ASSUME NEW a \in Agents,
             \/ GetEntry(a) \/ Wakeup(a) \/ Leave(a) \/ PeerHalts(a)
             \/ \E id \in MessageIds : Command(a, id)
      PROVE  UNCHANGED ackVars
  BY <1>4 DEF GetEntry, Wakeup, Leave, PeerHalts, Command
<1>5. ASSUME NEW a \in Agents, SessionStep(a)
      PROVE  [AckNext(Answer)]_ackVars
  <2>1. CASE Broadcast(a) \/ TellError(a)
    BY <2>1 DEF Broadcast, TellError
  <2>2. CASE AskTheOne(a)
    <3>1. idOf[agent[a].req] \in MessageIds /\ ~broken
      BY <1>2, <2>2 DEF AskTheOne, At
    <3> QED
      BY <2>2, <3>1 DEF AskTheOne, AckNext
  <2>3. CASE Await(a)
    BY <2>3 DEF Await, At, AckNext
  <2>4. CASE Acknowledged(a)
    <3>1. idOf[agent[a].req] \in MessageIds /\ ~broken
      BY <1>2, <2>4 DEF Acknowledged, At
    <3> QED
      BY <2>4, <3>1 DEF Acknowledged, AckNext
  <2>5. CASE NotAcknowledged(a)
    BY <2>5 DEF NotAcknowledged, At, AckNext
  <2> QED
    BY <1>5, <2>1, <2>2, <2>3, <2>4, <2>5 DEF SessionStep
<1>6. ASSUME NEW a \in Agents, DeliveryStep(a)
      PROVE  [AckNext(Answer)]_ackVars
  <2>1. CASE DeliverInVain(a)
    BY <2>1 DEF DeliverInVain
  <2>2. CASE ReceiveAnswer(a)
    <3>1. idOf[agent[a].req] \in MessageIds /\ ~broken
      BY <1>2, <2>2 DEF ReceiveAnswer, At
    <3> QED
      BY <2>2, <3>1 DEF ReceiveAnswer, AckNext
  <2>3. CASE AddTheAnswer(a)
    <3>1. PICK ok \in BOOLEAN :
            AddAnswer(a, [req |-> agent[a].req, phase |-> agent[a].phase,
                          ok |-> ok])
      BY <2>3 DEF AddTheAnswer
    <3>2. ~broken /\ [req |-> agent[a].req, phase |-> agent[a].phase,
                      ok |-> ok] \in Answer
      BY <1>2, <2>3 DEF AddTheAnswer, At
    <3> QED
      BY <3>1, <3>2 DEF AckNext
  <2>4. CASE FinishAnswer(a)
    BY <2>4 DEF FinishAnswer, At, AckNext
  <2> QED
    BY <1>6, <2>1, <2>2, <2>3, <2>4 DEF DeliveryStep
<1>7. ASSUME NEW a \in Agents, Crash(a)
      PROVE  [AckNext(Answer)]_ackVars
  BY <1>7 DEF Crash, AckNext
<1> QED
  BY <1>1, <1>3, <1>4, <1>5, <1>6, <1>7 DEF PoolNext

\* The pool uses the acknowledge queues as their module has them.
THEOREM ImplementsAckQueue ==
    PoolSpec => AckInit /\ [][AckNext(Answer)]_ackVars
<1>1. PoolInit => AckInit
  BY DEF PoolInit
<1>2. PoolTyped /\ [PoolNext]_allVars => [AckNext(Answer)]_ackVars
  BY PoolAckStep
<1> QED
  BY <1>1, <1>2, PoolTypedAlways, PTL DEF PoolSpec

LEMMA AckInvAlways == PoolSpec => []AckInv(Answer)
<1>1. AckInit => AckInv(Answer)
  <2> SUFFICES ASSUME AckInit PROVE AckInv(Answer)
    OBVIOUS
  <2>1. ackQueue \in Seq(Seq(Answer)) /\ Len(ackQueue) = 0
    BY DEF AckInit
  <2>2. /\ theMap \in [MessageIds -> Nat]
        /\ ackPtr \in [Callers -> 0..Len(ackQueue)]
        /\ ackPc \in [Callers -> AckStates]
    BY <2>1 DEF AckInit, AckStates
  <2>3. \A id \in MessageIds : theMap[id] = 0
    BY DEF AckInit
  <2>4. \A t \in Callers : ackPc[t] = "idle"
    BY DEF AckInit
  <2>5. erased = {} /\ broken \in BOOLEAN
    BY DEF AckInit
  <2>6. AckTypeOK
    BY <2>1, <2>2, <2>3, <2>4, <2>5 DEF AckTypeOK
  <2> QED
    BY <2>1, <2>5, <2>6 DEF AckInv
<1>2. AckInv(Answer) /\ [AckNext(Answer)]_ackVars => AckInv(Answer)'
  BY AckStepKeeps
<1> QED
  BY <1>1, <1>2, ImplementsAckQueue, PTL

\* Whatever queues time-outs leave behind and successes erase, no queue of the
\* map is one that was erased, none is there under two ids, and two agents
\* are never inside add() on one queue.
THEOREM AckTypeCorrect == PoolSpec => []AckTypeOK
<1>1. AckInv(Answer) => AckTypeOK
  BY DEF AckInv
<1> QED
  BY <1>1, AckInvAlways, PTL

-----------------------------------------------------------------------------
(* The answers of a request. *)

\* Where check_success can have an agent, and where add().
Checking == {"checking", "counted", "timedOut", "looked", "succeeded", "failed"}

\* Where the acknowledge queues can have an agent that does this work.
Uses(at) == IF at = "waiting" THEN Checking
            ELSE IF at = "call" THEN {"idle", "found", "pushed"}
            ELSE {"idle"}

Owning == {"asking", "waiting", "aborting"}

\* An agent uses the acknowledge queues as its work says, and then has a queue.
RolesInv ==
    \A a \in Agents :
        /\ ackPc[a] \in Uses(agent[a].at)
        /\ ackPc[a] # "idle" => ackPtr[a] # 0

\* A request is open as long as an agent is at it, and only one is.
OwnersInv ==
    /\ \A a \in Agents : agent[a].at \in Owning =>
          /\ result[agent[a].req] = "open"
          /\ \A b \in Agents :
                agent[b].at \in Owning /\ agent[b].req = agent[a].req => a = b
    /\ \A r \in Requests : result[r] = "open" =>
          \E a \in Agents : agent[a].at \in Owning /\ agent[a].req = r

\* A queue that an agent has got is the one of the id of its request, or has
\* been erased; and a queue in the map is of a request that was made.
PointersInv ==
    /\ \A a \in Agents : ackPc[a] # "idle" =>
          ackPtr[a] \in erased \cup {theMap[idOf[agent[a].req]]}
    /\ \A id \in MessageIds : theMap[id] # 0 => \E r \in Requests : idOf[r] = id

\* The places of an element in a sequence.
Places(s, e) == {i \in 1..Len(s) : s[i] = e}

\* A call of a request's phase, in the queue ...
Call(r, phase) == [type |-> "call", req |-> r, phase |-> phase]

\* ... or with an agent that has not added its answer.
Delivers(a, r, phase) ==
    /\ agent[a].at = "call" /\ agent[a].req = r /\ agent[a].phase = phase
    /\ ackPc[a] \in {"idle", "found"}

Deliverers(r, phase) == {a \in Agents : Delivers(a, r, phase)}

\* The answers that may still come.
Pending(r, phase) ==
    Cardinality(Places(content, Call(r, phase)))
    + Cardinality(Deliverers(r, phase))

\* The answers in the queue that a request's id has now.
Collected(r) == IF theMap[idOf[r]] = 0 THEN <<>> ELSE ackQueue[theMap[idOf[r]]]

\* What is true of the request r, alone with its id, whose phase agent w is in:
\* broadcasts to be sent, answers to come and answers in the queue are
\* together at most as many as there are peers, and all of this phase.
Collects(w, r, phase) ==
    /\ agent[w].left + Pending(r, phase) + Len(Collected(r)) <= ReplyCount
    /\ Pending(r, 3 - phase) = 0
    /\ \A i \in 1..Len(Collected(r)) :
          Collected(r)[i].req = r /\ Collected(r)[i].phase = phase

\* An agent that waits has the queue that the id has now.  One that has seen
\* enough answers does so until it is through with them; and unless they came
\* after its time-out nobody is inside add() with one.
Sees(w, r) ==
    /\ ackPtr[w] = theMap[idOf[r]]
    /\ ackPc[w] \in {"counted", "looked", "succeeded"} =>
          /\ Len(Collected(r)) >= ReplyCount
          /\ r \notin late =>
                \A b \in Agents : ackPc[b] = "pushed" => ackPtr[b] # ackPtr[w]
    /\ ackPc[w] = "succeeded" =>
          \A i \in 1..Len(Collected(r)) : Collected(r)[i].ok

CollectsInv ==
    \A w \in Agents, r \in Requests, phase \in {1, 2} :
        ~Shared(r) /\ agent[w].req = r /\ agent[w].phase = phase =>
            /\ agent[w].at \in {"asking", "waiting"} => Collects(w, r, phase)
            /\ agent[w].at = "waiting" => Sees(w, r)

\* Of a request that succeeded nothing is left, if it was alone with its id.
Gone(r) ==
    /\ theMap[idOf[r]] = 0
    /\ Pending(r, 1) = 0 /\ Pending(r, 2) = 0

GoneInv == \A r \in Requests : ~Shared(r) /\ result[r] = "wrote" => Gone(r)

\* No queue is erased under an agent's hands without one of the two causes.
Sound == late = {} /\ \A r \in Requests : ~Shared(r)

SoundInv ==
    Sound => ~broken /\ \A a \in Agents : ackPc[a] # "idle" => ackPtr[a] \notin erased

AnswersInv ==
    RolesInv /\ OwnersInv /\ PointersInv /\ CollectsInv /\ GoneInv /\ SoundInv

\* What the types say.
Known == PoolTyped /\ AckInv(Answer)

-----------------------------------------------------------------------------
(* Counting. *)

LEMMA PlacesFinite ==
    ASSUME NEW S, NEW s \in Seq(S), NEW e
    PROVE  IsFiniteSet(Places(s, e)) /\ Cardinality(Places(s, e)) \in Nat
<1>1. Places(s, e) \in SUBSET (1..Len(s)) /\ Len(s) \in Nat
  BY DEF Places
<1>2. IsFiniteSet(1..Len(s))
  BY <1>1, FS_Interval
<1>3. IsFiniteSet(Places(s, e))
  BY <1>1, <1>2, FS_Subset
<1> QED
  BY <1>3, FS_CardinalityType

\* One element more at the end ...
LEMMA PlacesAppend ==
    ASSUME NEW S, NEW s \in Seq(S), NEW x \in S, NEW e
    PROVE  Cardinality(Places(Append(s, x), e)) =
               Cardinality(Places(s, e)) + IF x = e THEN 1 ELSE 0
<1> DEFINE n == Len(s)
           long == Append(s, x)
<1>1. /\ Len(long) = n + 1 /\ n \in Nat
      /\ long[n + 1] = x
      /\ \A i \in 1..n : long[i] = s[i]
  BY AppendProperties
<1>2. n + 1 \notin Places(s, e)
  BY <1>1 DEF Places
<1>3. IsFiniteSet(Places(s, e)) /\ Cardinality(Places(s, e)) \in Nat
  BY PlacesFinite
<1> HIDE DEF long
<1>4. CASE x = e
  <2>1. Places(long, e) = Places(s, e) \cup {n + 1}
    BY <1>1, <1>4 DEF Places
  <2> QED
    BY <1>2, <1>3, <1>4, <2>1, FS_AddElement DEF long
<1>5. CASE x # e
  <2>1. Places(long, e) = Places(s, e)
    BY <1>1, <1>5 DEF Places
  <2> QED
    BY <1>3, <1>5, <2>1 DEF long
<1> QED
  BY <1>4, <1>5

\* ... and one less at the front.
LEMMA PlacesTail ==
    ASSUME NEW S, NEW s \in Seq(S), s # <<>>, NEW e
    PROVE  Cardinality(Places(s, e)) =
               Cardinality(Places(Tail(s), e)) + IF Head(s) = e THEN 1 ELSE 0
<1> DEFINE rest == Tail(s)
           shifted == Places(s, e) \ {1}
           next == [i \in Places(rest, e) |-> i + 1]
<1>1. /\ rest \in Seq(S)
      /\ Len(s) \in Nat /\ Len(s) > 0 /\ Len(rest) = Len(s) - 1
      /\ \A i \in 1..Len(rest) : rest[i] = s[i + 1]
      /\ Head(s) = s[1]
  BY HeadTailProperties
<1>2. IsFiniteSet(Places(s, e)) /\ Cardinality(Places(s, e)) \in Nat
  BY PlacesFinite
<1>3. IsFiniteSet(Places(rest, e)) /\ Cardinality(Places(rest, e)) \in Nat
  BY <1>1, PlacesFinite
<1> HIDE DEF rest
<1>4. ExistsBijection(Places(rest, e), shifted)
  <2>1. \A i \in Places(rest, e) : i \in Nat /\ i + 1 \in shifted
    BY <1>1 DEF Places
  <2>2. \A k \in shifted : k - 1 \in Places(rest, e) /\ next[k - 1] = k
    BY <1>1 DEF Places
  <2>3. next \in [Places(rest, e) -> shifted]
    BY <2>1
  <2>4. \A i \in Places(rest, e) : next[i] = i + 1
    OBVIOUS
  <2> HIDE DEF next
  <2>5. \A i, j \in Places(rest, e) : next[i] = next[j] => i = j
    BY <2>1, <2>4
  <2> QED
    BY <2>2, <2>3, <2>5
       DEF ExistsBijection, Bijection, Injection, Surjection, IsInjective
<1>5. Cardinality(shifted) = Cardinality(Places(rest, e))
  BY <1>3, <1>4, FS_Bijection
<1>6. Cardinality(shifted) = IF 1 \in Places(s, e)
                             THEN Cardinality(Places(s, e)) - 1
                             ELSE Cardinality(Places(s, e))
  BY <1>2, FS_RemoveElement
<1>7. 1 \in Places(s, e) <=> Head(s) = e
  BY <1>1 DEF Places
<1> QED
  BY <1>2, <1>3, <1>5, <1>6, <1>7 DEF rest

LEMMA DeliverersFinite ==
    ASSUME NEW r, NEW phase
    PROVE  /\ IsFiniteSet(Deliverers(r, phase))
           /\ Cardinality(Deliverers(r, phase)) \in Nat
<1>1. IsFiniteSet(Agents)
  BY QueueAssumption, FS_Subset
<1>2. IsFiniteSet(Deliverers(r, phase))
  BY <1>1, FS_Subset DEF Deliverers
<1> QED
  BY <1>2, FS_CardinalityType

LEMMA PendingTyped ==
    ASSUME PoolTyped, NEW r, NEW phase
    PROVE  /\ Pending(r, phase) \in Nat
           /\ Cardinality(Places(content, Call(r, phase))) \in Nat
           /\ Cardinality(Deliverers(r, phase)) \in Nat
<1>1. content \in Seq(EntryType)
  BY DEF PoolTyped, EntriesTyped
<1>2. Cardinality(Places(content, Call(r, phase))) \in Nat
  BY <1>1, PlacesFinite
<1> QED
  BY <1>2, DeliverersFinite DEF Pending

\* Where no answer is to come, nobody is to bring one.
LEMMA NonePending ==
    ASSUME PoolTyped, NEW r, NEW phase, Pending(r, phase) = 0, NEW a \in Agents
    PROVE  ~Delivers(a, r, phase)
<1>1. Cardinality(Deliverers(r, phase)) = 0
  BY PendingTyped DEF Pending
<1>2. Deliverers(r, phase) = {}
  BY <1>1, DeliverersFinite, FS_EmptySet
<1> QED
  BY <1>2 DEF Deliverers

\* A phase that nobody knows of has none.
LEMMA UnknownPending ==
    ASSUME PoolTyped, NEW r, NEW phase,
           \A i \in 1..Len(content) : content[i] # Call(r, phase),
           \A a \in Agents : ~Delivers(a, r, phase)
    PROVE  Pending(r, phase) = 0
<1>1. Places(content, Call(r, phase)) = {} /\ Deliverers(r, phase) = {}
  BY DEF Places, Deliverers
<1> QED
  BY <1>1, FS_EmptySet DEF Pending

\* One agent turns from or to a delivery.
LEMMA DelivererTurns ==
    ASSUME NEW a \in Agents, NEW r, NEW phase,
           \A b \in Agents \ {a} : agent'[b] = agent[b] /\ ackPc'[b] = ackPc[b]
    PROVE  Cardinality(Deliverers(r, phase))' =
               Cardinality(Deliverers(r, phase))
               + (IF Delivers(a, r, phase)' THEN 1 ELSE 0)
               - (IF Delivers(a, r, phase) THEN 1 ELSE 0)
<1> DEFINE now == Deliverers(r, phase)
           others == now \ {a}
<1>1. Deliverers(r, phase)' = IF Delivers(a, r, phase)' THEN others \cup {a} ELSE others
  <2>1. \A b \in Agents \ {a} : Delivers(b, r, phase)' <=> Delivers(b, r, phase)
    BY DEF Delivers
  <2> QED
    BY <2>1 DEF Deliverers
<1>2. a \in now <=> Delivers(a, r, phase)
  BY DEF Deliverers
<1>3. IsFiniteSet(now) /\ Cardinality(now) \in Nat
  BY DeliverersFinite
<1> HIDE DEF now
<1>4. /\ IsFiniteSet(others)
      /\ Cardinality(others) =
            IF a \in now THEN Cardinality(now) - 1 ELSE Cardinality(now)
  BY <1>3, FS_RemoveElement
<1>5. Cardinality(others \cup {a}) = Cardinality(others) + 1
  BY <1>4, FS_AddElement
<1>6. Cardinality(Deliverers(r, phase))' =
          Cardinality(now) + (IF Delivers(a, r, phase)' THEN 1 ELSE 0)
          - (IF a \in now THEN 1 ELSE 0)
  <2>1. CASE Delivers(a, r, phase)'
    BY <1>1, <1>3, <1>4, <1>5, <2>1
  <2>2. CASE ~Delivers(a, r, phase)'
    BY <1>1, <1>3, <1>4, <2>2
  <2> QED
    BY <2>1, <2>2
<1> QED
  BY <1>2, <1>6 DEF now

LEMMA PendingTurns ==
    ASSUME PoolTyped, NEW a \in Agents, NEW r, NEW phase, UNCHANGED content,
           \A b \in Agents \ {a} : agent'[b] = agent[b] /\ ackPc'[b] = ackPc[b]
    PROVE  Pending(r, phase)' =
               Pending(r, phase)
               + (IF Delivers(a, r, phase)' THEN 1 ELSE 0)
               - (IF Delivers(a, r, phase) THEN 1 ELSE 0)
<1>1. Places(content, Call(r, phase))' = Places(content, Call(r, phase))
  BY DEF Places, Call
<1>2. /\ Cardinality(Places(content, Call(r, phase))) \in Nat
      /\ Cardinality(Deliverers(r, phase)) \in Nat
  BY PendingTyped
<1>3. Cardinality(Deliverers(r, phase))' =
               Cardinality(Deliverers(r, phase))
               + (IF Delivers(a, r, phase)' THEN 1 ELSE 0)
               - (IF Delivers(a, r, phase) THEN 1 ELSE 0)
  BY DelivererTurns
<1> QED
  BY <1>1, <1>2, <1>3 DEF Pending

\* An agent that takes a call from the queue delivers it.
LEMMA PendingGet ==
    ASSUME PoolTyped, RolesInv, NEW a \in Agents, GetEntry(a), NEW r, NEW phase
    PROVE  Pending(r, phase)' = Pending(r, phase)
<1>1. agent[a].at = "free" /\ ackPc[a] = "idle" /\ UNCHANGED ackPc
  BY DEF GetEntry, Free, Job, RolesInv, Uses, ackVars
<1>2. ~Delivers(a, r, phase)
  BY <1>1 DEF Delivers
<1>3. CASE connectionQueue = <<>>
  <2>1. UNCHANGED <<agent, content>>
    BY <1>3 DEF GetEntry
  <2> QED
    BY <1>1, <2>1 DEF Pending, Deliverers, Delivers, Places, Call
<1>4. CASE connectionQueue # <<>>
  <2>1. /\ agent' = [agent EXCEPT ![a] = Dispatch(Head(content))]
        /\ content' = Tail(content)
    BY <1>4 DEF GetEntry
  <2>2. /\ content \in Seq(EntryType)
        /\ Len(content) = Len(connectionQueue)
        /\ connectionQueue \in Seq(Nat)
        /\ agent \in [Agents -> JobType]
    BY DEF PoolTyped, EntriesTyped, TypeOK, JobsTyped
  <2>3. content # <<>> /\ Len(content) > 0
    BY <1>4, <2>2
  <2>4. Head(content) \in EntryType
    BY <2>2, <2>3
  <2>5. Delivers(a, r, phase)' <=> Head(content) = Call(r, phase)
    <3>1. agent'[a] = Dispatch(Head(content)) /\ ackPc'[a] = "idle"
      BY <1>1, <2>1, <2>2
    <3>2. CASE Head(content) \in [type : {"client"}, client : Clients]
      BY <3>1, <3>2 DEF Dispatch, Session, Job, Delivers, Call
    <3>3. CASE Head(content) \in [type : {"call", "abort"}, req : Nat, phase : {1, 2}]
      BY <3>1, <3>3 DEF Dispatch, Session, Job, Delivers, Call
    <3> QED
      BY <2>4, <3>2, <3>3 DEF EntryType
  <2>6. Cardinality(Places(content, Call(r, phase))) =
            Cardinality(Places(Tail(content), Call(r, phase)))
            + IF Head(content) = Call(r, phase) THEN 1 ELSE 0
    BY <2>2, <2>3, PlacesTail
  <2>7. Cardinality(Places(Tail(content), Call(r, phase))) \in Nat
    <3>1. Tail(content) \in Seq(EntryType)
      BY <2>2, <2>3, HeadTailProperties
    <3> QED
      BY <3>1, PlacesFinite
  <2>8. Cardinality(Places(content, Call(r, phase)))' =
            Cardinality(Places(Tail(content), Call(r, phase)))
    BY <2>1 DEF Call
  <2>9. Cardinality(Deliverers(r, phase))' =
            Cardinality(Deliverers(r, phase))
            + (IF Delivers(a, r, phase)' THEN 1 ELSE 0)
            - (IF Delivers(a, r, phase) THEN 1 ELSE 0)
    BY <1>1, <2>1, <2>2, DelivererTurns
  <2>10. Cardinality(Deliverers(r, phase)) \in Nat
    BY DeliverersFinite
  <2> QED
    BY <1>2, <2>5, <2>6, <2>7, <2>8, <2>9, <2>10 DEF Pending
<1> QED
  BY <1>3, <1>4

\* A broadcast adds an answer to come to the phase that it is of.
LEMMA PendingBroadcast ==
    ASSUME PoolTyped, NEW a \in Agents, Broadcast(a), NEW r, NEW phase
    PROVE  Pending(r, phase)' =
               Pending(r, phase)
               + IF agent[a].at = "asking" /\ agent[a].req = r /\ agent[a].phase = phase
                 THEN 1 ELSE 0
<1> DEFINE type == IF agent[a].at = "asking" THEN "call" ELSE "abort"
           entry == BroadcastEntry(type, agent[a])
<1>1. /\ content \in Seq(EntryType)
      /\ agent \in [Agents -> JobType]
      /\ agent[a] \in JobType /\ KnownJob(agent[a])
  BY JobTypes DEF PoolTyped, EntriesTyped, JobsTyped
<1>2. /\ agent[a].at \in {"asking", "aborting"}
      /\ content' = Append(content, entry)
      /\ agent' = [agent EXCEPT ![a].left = @ - 1]
      /\ UNCHANGED ackPc
  BY DEF Broadcast, Add, ackVars
<1>3. entry \in EntryType
  BY <1>1, <1>2 DEF BroadcastEntry, EntryType, KnownJob, JobType
<1>4. entry = Call(r, phase) <=>
          agent[a].at = "asking" /\ agent[a].req = r /\ agent[a].phase = phase
  BY <1>2 DEF BroadcastEntry, Call
<1>5. Cardinality(Places(content, Call(r, phase)))' =
          Cardinality(Places(content, Call(r, phase)))
          + IF entry = Call(r, phase) THEN 1 ELSE 0
  <2>1. Places(content, Call(r, phase))' = Places(Append(content, entry), Call(r, phase))
    BY <1>2 DEF Call
  <2> HIDE DEF entry
  <2> QED
    BY <1>1, <1>3, <2>1, PlacesAppend
<1>6. agent'[a].at = agent[a].at
  BY <1>1, <1>2 DEF JobType
<1>7. ~Delivers(a, r, phase) /\ ~Delivers(a, r, phase)'
  BY <1>2, <1>6 DEF Delivers
<1>8. Cardinality(Deliverers(r, phase))' = Cardinality(Deliverers(r, phase))
  <2>1. \A b \in Agents \ {a} : agent'[b] = agent[b] /\ ackPc'[b] = ackPc[b]
    BY <1>1, <1>2
  <2> QED
    BY <1>7, <2>1, DelivererTurns, DeliverersFinite
<1> HIDE DEF entry
<1> QED
  BY <1>4, <1>5, <1>8, PendingTyped DEF Pending

-----------------------------------------------------------------------------
(* The queue of a request. *)

\* What is known of an agent, of a request and of its queue.
LEMMA AgentFacts ==
    ASSUME Known, NEW a \in Agents
    PROVE  /\ agent \in [Agents -> JobType] /\ agent[a] \in JobType
           /\ agent[a].left \in Nat /\ agent[a].left <= ReplyCount
           /\ agent[a].at \notin {"free", "session", "blocked"} =>
                 /\ agent[a].req \in Requests
                 /\ agent[a].phase \in {1, 2}
           /\ ackPc \in [Agents -> AckStates]
           /\ ackPtr \in [Agents -> 0..Len(ackQueue)]
<1>1. agent \in [Agents -> JobType] /\ agent[a] \in JobType /\ KnownJob(agent[a])
      /\ 1..Len(idOf) = Requests
  BY JobTypes DEF Known, PoolTyped, JobsTyped
<1>2. /\ ackPc \in [Agents -> AckStates]
      /\ ackPtr \in [Agents -> 0..Len(ackQueue)]
  BY PoolAssumption DEF Known, AckInv, AckTypeOK
<1> QED
  BY <1>1, <1>2, ReplyCountNat DEF JobType, KnownJob

LEMMA RequestFacts ==
    ASSUME Known, NEW r \in Requests
    PROVE  /\ idOf \in Seq(MessageIds)
           /\ idOf[r] \in MessageIds
           /\ r \in Nat
           /\ Len(ackQueue) \in Nat
           /\ ackQueue \in Seq(Seq(Answer))
           /\ theMap \in [MessageIds -> Nat]
           /\ theMap[idOf[r]] \in 0..Len(ackQueue)
           /\ theMap[idOf[r]] \notin erased
           /\ Collected(r) \in Seq(Answer)
           /\ Len(Collected(r)) \in Nat
<1>1. idOf \in Seq(MessageIds) /\ idOf[r] \in MessageIds /\ r \in Nat
  BY DEF Known, PoolTyped, RequestsTyped, Requests
<1>2. /\ ackQueue \in Seq(Seq(Answer)) /\ Len(ackQueue) \in Nat
      /\ theMap \in [MessageIds -> Nat]
      /\ theMap[idOf[r]] \in 0..Len(ackQueue) \ erased
  BY <1>1 DEF Known, AckInv, AckTypeOK
<1>3. Collected(r) \in Seq(Answer)
  BY <1>2 DEF Collected
<1> QED
  BY <1>1, <1>2, <1>3

\* Another request that is alone with its id has another queue.
LEMMA OwnQueue ==
    ASSUME Known, NEW r \in Requests, ~Shared(r), NEW q \in Requests,
           theMap[idOf[r]] # 0, theMap[idOf[q]] = theMap[idOf[r]]
    PROVE  q = r
<1>1. idOf[q] = idOf[r]
  BY RequestFacts DEF Known, AckInv, AckTypeOK
<1> QED
  BY <1>1 DEF Shared

\* An agent at a queue of the map is at work on a request with its id.
LEMMA QueueOfRequest ==
    ASSUME Known, RolesInv, PointersInv, NEW a \in Agents, ackPc[a] # "idle",
           NEW r \in Requests, ~Shared(r), ackPtr[a] = theMap[idOf[r]]
    PROVE  agent[a].req = r /\ ackPtr[a] # 0
<1>1. agent[a].at \in {"call", "waiting"} /\ ackPtr[a] # 0
  BY DEF RolesInv, Uses
<1>2. agent[a].req \in Requests
  BY <1>1, AgentFacts
<1>3. ackPtr[a] \in erased \cup {theMap[idOf[agent[a].req]]}
  BY DEF PointersInv
<1>4. ackPtr[a] \notin erased
  BY RequestFacts
<1> QED
  BY <1>1, <1>2, <1>3, <1>4, OwnQueue

\* TheOne makes no difference to what is in the queue of an id.
LEMMA CollectedTheOne ==
    ASSUME Known, NEW a \in Agents, NEW id \in MessageIds, NEW use,
           TheOne(a, id, use), UNCHANGED idOf, NEW r \in Requests
    PROVE  /\ Collected(r)' = Collected(r)
           /\ theMap'[idOf[r]] = IF idOf[r] = id /\ theMap[id] = 0
                                 THEN Len(ackQueue) + 1 ELSE theMap[idOf[r]]
           /\ theMap'[id] # 0
           /\ ackPtr'[a] = theMap'[id]
<1>1. /\ idOf[r] \in MessageIds /\ theMap \in [MessageIds -> Nat]
      /\ theMap[idOf[r]] \in 0..Len(ackQueue)
      /\ ackQueue \in Seq(Seq(Answer)) /\ Len(ackQueue) \in Nat
      /\ ackPtr \in [Agents -> 0..Len(ackQueue)]
  BY RequestFacts, AgentFacts
<1>2. CASE theMap[id] # 0
  <2>1. UNCHANGED <<theMap, ackQueue>> /\ ackPtr' = [ackPtr EXCEPT ![a] = theMap[id]]
    BY <1>2 DEF TheOne
  <2> QED
    BY <1>1, <1>2, <2>1 DEF Collected
<1>3. CASE theMap[id] = 0
  <2>1. /\ ackQueue' = Append(ackQueue, <<>>)
        /\ theMap' = [theMap EXCEPT ![id] = Len(ackQueue) + 1]
        /\ ackPtr' = [ackPtr EXCEPT ![a] = Len(ackQueue) + 1]
    BY <1>3 DEF TheOne
  <2>2. <<>> \in Seq(Answer)
    OBVIOUS
  <2>3. /\ ackQueue'[Len(ackQueue) + 1] = <<>>
        /\ \A q \in 1..Len(ackQueue) : ackQueue'[q] = ackQueue[q]
    BY <1>1, <2>1, <2>2, AppendProperties
  <2>4. /\ theMap'[id] = Len(ackQueue) + 1
        /\ theMap'[idOf[r]] = IF idOf[r] = id THEN Len(ackQueue) + 1
                              ELSE theMap[idOf[r]]
        /\ ackPtr'[a] = Len(ackQueue) + 1
    BY <1>1, <2>1
  <2>5. Collected(r)' = Collected(r)
    <3>1. CASE idOf[r] = id
      BY <1>1, <1>3, <2>3, <2>4, <3>1 DEF Collected
    <3>2. CASE idOf[r] # id
      BY <1>1, <2>3, <2>4, <3>2 DEF Collected
    <3> QED
      BY <3>1, <3>2
  <2> QED
    BY <1>1, <1>3, <2>4, <2>5
<1> QED
  BY <1>2, <1>3

\* An answer comes to the queue of the id of its request.
LEMMA CollectedAdd ==
    ASSUME Known, RolesInv, PointersInv, NEW a \in Agents, NEW answer \in Answer,
           AddAnswer(a, answer), UNCHANGED <<idOf, agent>>, NEW r \in Requests
    PROVE  /\ agent[a].req = r =>
                 /\ theMap[idOf[r]] = ackPtr[a] /\ ackPtr[a] # 0
                 /\ Collected(r)' = Append(Collected(r), answer)
           /\ agent[a].req # r /\ ~Shared(r) => Collected(r)' = Collected(r)
<1>1. /\ idOf[r] \in MessageIds /\ theMap \in [MessageIds -> Nat]
      /\ theMap[idOf[r]] \in 0..Len(ackQueue)
      /\ ackQueue \in Seq(Seq(Answer)) /\ Len(ackQueue) \in Nat
      /\ ackPtr[a] \in 0..Len(ackQueue)
  BY RequestFacts, AgentFacts
<1>2. /\ ackPc[a] = "found" /\ ackPtr[a] \notin erased
      /\ ackQueue' = [ackQueue EXCEPT ![ackPtr[a]] = Append(@, answer)]
      /\ theMap' = theMap
  BY DEF AddAnswer, AckGoes, Alive
<1>3. /\ ackPtr[a] # 0 /\ agent[a].at = "call"
      /\ ackPtr[a] = theMap[idOf[agent[a].req]]
  <2>1. ackPc[a] \in Uses(agent[a].at) /\ ackPtr[a] # 0
    BY <1>2 DEF RolesInv
  <2>2. agent[a].at = "call"
    BY <1>2, <2>1 DEF Uses, Checking
  <2>3. ackPtr[a] \in erased \cup {theMap[idOf[agent[a].req]]}
    BY <1>2 DEF PointersInv
  <2> QED
    BY <1>2, <2>1, <2>2, <2>3
<1>4. /\ ackPtr[a] \in 1..Len(ackQueue)
      /\ \A q \in 1..Len(ackQueue) :
            ackQueue'[q] = IF q = ackPtr[a] THEN Append(ackQueue[q], answer)
                           ELSE ackQueue[q]
  BY <1>1, <1>2, <1>3, ExceptSeq
<1>5. CASE agent[a].req = r
  BY <1>1, <1>2, <1>3, <1>4, <1>5 DEF Collected
<1>6. CASE agent[a].req # r /\ ~Shared(r)
  <2>1. agent[a].req \in Requests
    BY <1>3, AgentFacts
  <2>2. theMap[idOf[r]] # ackPtr[a]
    BY <1>3, <1>6, <2>1, OwnQueue
  <2> QED
    BY <1>1, <1>2, <1>4, <1>6, <2>2 DEF Collected
<1> QED
  BY <1>5, <1>6

\* Erasing takes the answers of one id away.
LEMMA CollectedErase ==
    ASSUME Known, NEW a \in Agents, NEW id \in MessageIds, Erase(a, id),
           UNCHANGED idOf, NEW r \in Requests
    PROVE  /\ theMap'[idOf[r]] = IF idOf[r] = id THEN 0 ELSE theMap[idOf[r]]
           /\ idOf[r] = id => Collected(r)' = <<>>
           /\ idOf[r] # id => Collected(r)' = Collected(r)
<1>1. /\ idOf[r] \in MessageIds /\ theMap \in [MessageIds -> Nat]
      /\ theMap[idOf[r]] \in 0..Len(ackQueue)
      /\ ackQueue \in Seq(Seq(Answer)) /\ Len(ackQueue) \in Nat
  BY RequestFacts
<1>2. CASE theMap[id] = 0
  <2>1. UNCHANGED <<theMap, ackQueue>>
    BY <1>2 DEF Erase
  <2> QED
    BY <1>1, <1>2, <2>1 DEF Collected
<1>3. CASE theMap[id] # 0
  <2>1. /\ theMap' = [theMap EXCEPT ![id] = 0]
        /\ ackQueue' = [ackQueue EXCEPT ![theMap[id]] = <<>>]
    BY <1>3 DEF Erase
  <2>2. theMap'[idOf[r]] = IF idOf[r] = id THEN 0 ELSE theMap[idOf[r]]
    BY <1>1, <2>1
  <2>3. ASSUME idOf[r] # id PROVE Collected(r)' = Collected(r)
    <3>1. CASE theMap[idOf[r]] = 0
      BY <2>2, <2>3, <3>1 DEF Collected
    <3>2. CASE theMap[idOf[r]] # 0
      <4>1. theMap[idOf[r]] # theMap[id]
        BY <1>1, <2>3, <3>2 DEF Known, AckInv, AckTypeOK
      <4>2. ackQueue'[theMap[idOf[r]]] = ackQueue[theMap[idOf[r]]]
        BY <1>1, <2>1, <3>2, <4>1
      <4> QED
        BY <2>2, <2>3, <4>2 DEF Collected
    <3> QED
      BY <3>1, <3>2
  <2>4. idOf[r] = id => Collected(r)' = <<>>
    BY <2>2 DEF Collected
  <2> QED
    BY <2>2, <2>3, <2>4
<1> QED
  BY <1>2, <1>3

-----------------------------------------------------------------------------
(* Steps that leave a request's answers alone. *)

\* Fewer answers are to come to a request, or as many.
NoMorePending(r) ==
    \A phase \in {1, 2} : Pending(r, phase)' \in 0..Pending(r, phase)

LEMMA SamePending ==
    ASSUME PoolTyped, UNCHANGED content, NEW a \in Agents, NEW r,
           \A b \in Agents \ {a} : agent'[b] = agent[b] /\ ackPc'[b] = ackPc[b],
           \A phase \in {1, 2} : Delivers(a, r, phase)' => Delivers(a, r, phase)
    PROVE  NoMorePending(r)
<1> SUFFICES ASSUME NEW phase \in {1, 2}
             PROVE  Pending(r, phase)' \in 0..Pending(r, phase)
  BY DEF NoMorePending
<1>1. /\ Pending(r, phase)' = Pending(r, phase)
               + (IF Delivers(a, r, phase)' THEN 1 ELSE 0)
               - (IF Delivers(a, r, phase) THEN 1 ELSE 0)
      /\ Delivers(a, r, phase)' => Delivers(a, r, phase)
  BY PendingTurns
<1>2. /\ Cardinality(Places(content, Call(r, phase))) \in Nat
      /\ Cardinality(Deliverers(r, phase)) \in Nat
      /\ Pending(r, phase) \in Nat
      /\ Pending(r, phase) = Cardinality(Places(content, Call(r, phase)))
                             + Cardinality(Deliverers(r, phase))
  BY PendingTyped DEF Pending
<1>3. CASE Delivers(a, r, phase)'
  BY <1>1, <1>2, <1>3
<1>4. CASE ~Delivers(a, r, phase)' /\ ~Delivers(a, r, phase)
  BY <1>1, <1>2, <1>4
<1>5. CASE ~Delivers(a, r, phase)' /\ Delivers(a, r, phase)
  <2>1. a \in Deliverers(r, phase)
    BY <1>5 DEF Deliverers
  <2>2. Cardinality(Deliverers(r, phase)) # 0
    BY <2>1, DeliverersFinite, FS_EmptySet
  <2> QED
    BY <1>1, <1>2, <1>5, <2>2
<1> QED
  BY <1>3, <1>4, <1>5

LEMMA CollectsKept ==
    ASSUME Known, NEW w \in Agents, NEW r \in Requests, NEW phase \in {1, 2},
           Collects(w, r, phase),
           agent'[w].left = agent[w].left, Collected(r)' = Collected(r),
           NoMorePending(r)
    PROVE  Collects(w, r, phase)'
<1>1. /\ Pending(r, phase) \in Nat /\ Pending(r, 3 - phase) \in Nat
      /\ Len(Collected(r)) \in Nat /\ agent[w].left \in Nat /\ ReplyCount \in Nat
  BY PendingTyped, RequestFacts, AgentFacts, ReplyCountNat DEF Known
<1>2. /\ Pending(r, phase)' \in 0..Pending(r, phase)
      /\ Pending(r, 3 - phase)' \in 0..Pending(r, 3 - phase)
  BY DEF NoMorePending
<1>3. Len(Collected(r)') = Len(Collected(r))
  OBVIOUS
<1>4. /\ agent[w].left + Pending(r, phase) + Len(Collected(r)) <= ReplyCount
      /\ Pending(r, 3 - phase) = 0
  BY DEF Collects
<1>5. /\ agent'[w].left + Pending(r, phase)' + Len(Collected(r)') <= ReplyCount
      /\ Pending(r, 3 - phase)' = 0
  BY <1>1, <1>2, <1>3, <1>4
<1>6. \A i \in 1..Len(Collected(r)') :
          Collected(r)'[i].req = r /\ Collected(r)'[i].phase = phase
  BY DEF Collects
<1> QED
  BY <1>5, <1>6 DEF Collects

LEMMA SeesKept ==
    ASSUME NEW w \in Agents, NEW r, Sees(w, r),
           ackPc'[w] = ackPc[w], ackPtr'[w] = ackPtr[w],
           theMap'[idOf'[r]] = theMap[idOf[r]], Collected(r)' = Collected(r),
           late \subseteq late',
           \A b \in Agents : ackPc'[b] = "pushed" =>
               \/ ackPtr'[b] # ackPtr[w]
               \/ ackPc[b] = "pushed" /\ ackPtr'[b] = ackPtr[b]
    PROVE  Sees(w, r)'
BY DEF Sees

\* The step does nothing to the queues and records of requests, and only to
\* agents that are at no request.
Aside ==
    /\ UNCHANGED <<theMap, ackQueue, ackPtr, ackPc, erased, idOf, result, late>>
    /\ Sound => broken' = broken
    /\ \A b \in Agents :
          \/ agent'[b] = agent[b]
          \/ /\ agent[b].at \notin Owning /\ agent'[b].at \notin Owning
             /\ ackPc[b] = "idle"
    /\ \A r \in Requests : NoMorePending(r)

LEMMA AsideKeeps ==
    ASSUME Known, AnswersInv, Aside
    PROVE  AnswersInv'
<1>1. /\ UNCHANGED <<theMap, ackQueue, ackPtr, ackPc, erased>>
      /\ UNCHANGED <<idOf, result, late>>
      /\ Sound => broken' = broken
      /\ Requests' = Requests
  BY DEF Aside, Requests
<1>2. \A b \in Agents :
          \/ agent'[b] = agent[b]
          \/ /\ agent[b].at \notin Owning /\ agent'[b].at \notin Owning
             /\ ackPc[b] = "idle"
  BY DEF Aside
<1>3. ASSUME NEW r \in Requests
      PROVE  (Shared(r)' <=> Shared(r)) /\ Collected(r)' = Collected(r)
  BY <1>1 DEF Shared, Collected
<1>4. RolesInv'
  BY <1>1, <1>2 DEF AnswersInv, RolesInv, Uses, Owning
<1>5. OwnersInv'
  BY <1>1, <1>2 DEF AnswersInv, OwnersInv
<1>6. PointersInv'
  BY <1>1, <1>2 DEF AnswersInv, PointersInv
<1>7. CollectsInv'
  <2> SUFFICES ASSUME NEW w \in Agents, NEW r \in Requests, NEW phase \in {1, 2},
                      ~Shared(r), agent'[w].req = r, agent'[w].phase = phase,
                      agent'[w].at \in {"asking", "waiting"}
               PROVE  /\ Collects(w, r, phase)'
                      /\ agent'[w].at = "waiting" => Sees(w, r)'
    BY <1>1, <1>3 DEF CollectsInv
  <2>1. agent'[w] = agent[w]
    BY <1>2 DEF Owning
  <2>2. Collects(w, r, phase) /\ (agent[w].at = "waiting" => Sees(w, r))
    BY <2>1 DEF AnswersInv, CollectsInv
  <2>3. Collects(w, r, phase)'
    BY <1>3, <2>1, <2>2, CollectsKept DEF Aside
  <2>4. ASSUME agent[w].at = "waiting" PROVE Sees(w, r)'
    BY <1>1, <1>3, <2>2, <2>4, SeesKept
  <2> QED
    BY <2>1, <2>3, <2>4
<1>8. GoneInv'
  <2> SUFFICES ASSUME NEW r \in Requests, ~Shared(r), result[r] = "wrote"
               PROVE  Gone(r)'
    BY <1>1, <1>3 DEF GoneInv
  <2>1. Gone(r) /\ NoMorePending(r)
    BY DEF AnswersInv, GoneInv, Aside
  <2> QED
    BY <1>1, <2>1 DEF Gone, NoMorePending
<1>9. SoundInv'
  <2>1. Sound' <=> Sound
    BY <1>1, <1>3 DEF Sound
  <2> QED
    BY <1>1, <2>1 DEF AnswersInv, SoundInv
<1> QED
  BY <1>4, <1>5, <1>6, <1>7, <1>8, <1>9 DEF AnswersInv

\* Steps of the queue and of listeners, and the ends of sessions and of
\* deliveries that bring no answer.
LEMMA SameAside ==
    ASSUME PoolTyped, UNCHANGED <<ackVars, poolVars>>
    PROVE  Aside
<1>1. UNCHANGED <<ackVars, content, agent, ackPc, idOf, result, late>>
  BY DEF ackVars, poolVars
<1>2. ASSUME NEW r \in Requests, NEW phase \in {1, 2}
      PROVE  Pending(r, phase)' \in 0..Pending(r, phase)
  <2>1. Pending(r, phase)' = Pending(r, phase)
    BY <1>1 DEF Pending, Places, Call, Deliverers, Delivers
  <2> QED
    BY <2>1, PendingTyped
<1> QED
  BY <1>1, <1>2 DEF Aside, NoMorePending, ackVars

LEMMA ConnectAside ==
    ASSUME PoolTyped, NEW t \in Threads, NEW c \in Clients, Connect(t, c)
    PROVE  Aside
<1>1. /\ UNCHANGED <<ackVars, agent, idOf, result, late>>
      /\ content' = Append(content, ClientEntry(c))
  BY DEF Connect, Add
<1>2. ASSUME NEW r \in Requests, NEW phase \in {1, 2}
      PROVE  Pending(r, phase)' \in 0..Pending(r, phase)
  <2>1. content \in Seq(EntryType) /\ ClientEntry(c) \in EntryType
    BY DEF PoolTyped, EntriesTyped, ClientEntry, EntryType
  <2>2. ClientEntry(c) # Call(r, phase)
    BY DEF ClientEntry, Call
  <2>3. Cardinality(Places(Append(content, ClientEntry(c)), Call(r, phase))) =
            Cardinality(Places(content, Call(r, phase)))
            + IF ClientEntry(c) = Call(r, phase) THEN 1 ELSE 0
    BY <2>1, PlacesAppend
  <2>4. Places(content, Call(r, phase))' =
            Places(Append(content, ClientEntry(c)), Call(r, phase))
    BY <1>1 DEF Call
  <2>5. Deliverers(r, phase)' = Deliverers(r, phase)
    BY <1>1 DEF Deliverers, Delivers, ackVars
  <2>6. Cardinality(Places(content, Call(r, phase))) \in Nat
    BY PendingTyped
  <2>7. Pending(r, phase)' = Pending(r, phase)
    BY <2>2, <2>3, <2>4, <2>5, <2>6 DEF Pending
  <2> QED
    BY <2>7, PendingTyped
<1> QED
  BY <1>1, <1>2 DEF Aside, NoMorePending, ackVars

LEMMA GetAside ==
    ASSUME Known, RolesInv, NEW a \in Agents, GetEntry(a)
    PROVE  Aside
<1>1. /\ UNCHANGED <<ackVars, idOf, result, late>>
      /\ agent[a] = Free
      /\ \/ agent' = agent
         \/ content # <<>> /\ agent' = [agent EXCEPT ![a] = Dispatch(Head(content))]
  BY DEF GetEntry, Known, PoolTyped, EntriesTyped
<1>2. ASSUME NEW r \in Requests, NEW phase \in {1, 2}
      PROVE  Pending(r, phase)' \in 0..Pending(r, phase)
  BY PendingGet, PendingTyped DEF Known
<1>3. agent[a].at \notin Owning /\ ackPc[a] = "idle"
  BY <1>1 DEF RolesInv, Uses, Free, Job, Owning
<1>4. content # <<>> => Dispatch(Head(content)).at \notin Owning
  <2> SUFFICES ASSUME content # <<>> PROVE Dispatch(Head(content)).at \notin Owning
    OBVIOUS
  <2>1. content \in Seq(EntryType)
    BY DEF Known, PoolTyped, EntriesTyped
  <2>2. Head(content) \in EntryType
    BY <2>1
  <2> QED
    BY <2>2 DEF Dispatch, Session, Job, EntryType, Owning
<1>5. ASSUME NEW b \in Agents
      PROVE  \/ agent'[b] = agent[b]
             \/ /\ agent[b].at \notin Owning /\ agent'[b].at \notin Owning
                /\ ackPc[b] = "idle"
  BY <1>1, <1>3, <1>4, AgentFacts
<1> QED
  BY <1>1, <1>2, <1>5 DEF Aside, NoMorePending, ackVars

LEMMA EndAside ==
    ASSUME Known, RolesInv, NEW a \in Agents,
           Leave(a) \/ DeliverInVain(a) \/ PeerHalts(a)
    PROVE  Aside
<1>j. PICK job \in {Free, Blocked} : agent' = [agent EXCEPT ![a] = job]
  BY DEF Leave, DeliverInVain, PeerHalts, Becomes
<1>1. /\ UNCHANGED <<ackVars, content, idOf, result, late>>
      /\ agent[a].at \in {"session", "call", "abort"}
      /\ ackPc[a] = "idle"
  <2>1. CASE Leave(a)
    BY <2>1 DEF Leave, At, RolesInv, Uses
  <2>2. CASE DeliverInVain(a)
    BY <2>2 DEF DeliverInVain, At
  <2>3. CASE PeerHalts(a)
    BY <2>3 DEF PeerHalts, At
  <2> QED
    BY <2>1, <2>2, <2>3
<1>2. /\ agent'[a] = job
      /\ \A b \in Agents \ {a} : agent'[b] = agent[b] /\ ackPc'[b] = ackPc[b]
  BY <1>1, <1>j, AgentFacts DEF ackVars
<1>3. \A r, phase : ~Delivers(a, r, phase)'
  BY <1>2 DEF Delivers, Free, Blocked, Job
<1>4. \A r \in Requests : NoMorePending(r)
  BY <1>1, <1>2, <1>3, SamePending DEF Known
<1>5. agent[a].at \notin Owning /\ agent'[a].at \notin Owning
  BY <1>1, <1>2 DEF Free, Blocked, Job, Owning
<1> QED
  BY <1>1, <1>2, <1>4, <1>5 DEF Aside, ackVars

\* The use of an erased queue, which only an unsound history leads to.
LEMMA CrashAside ==
    ASSUME Known, SoundInv, NEW a \in Agents, Crash(a)
    PROVE  Aside
<1>1. /\ UNCHANGED <<theMap, ackQueue, ackPtr, ackPc, erased, poolVars>>
      /\ ackPc[a] # "idle" /\ ackPtr[a] \in erased
  BY DEF Crash, UseErased, Alive
<1>2. ~Sound
  BY <1>1 DEF SoundInv
<1>3. ASSUME NEW r \in Requests, NEW phase \in {1, 2}
      PROVE  Pending(r, phase)' \in 0..Pending(r, phase)
  <2>1. UNCHANGED <<content, agent, ackPc>>
    BY <1>1 DEF poolVars
  <2>2. Pending(r, phase)' = Pending(r, phase)
    BY <2>1 DEF Pending, Places, Call, Deliverers, Delivers
  <2> QED
    BY <2>2, PendingTyped DEF Known
<1> QED
  BY <1>1, <1>2, <1>3 DEF Aside, NoMorePending, poolVars

-----------------------------------------------------------------------------
(* A request is made, and goes. *)

LEMMA CommandKeeps ==
    ASSUME Known, Known', AnswersInv, NEW a \in Agents, NEW id \in MessageIds,
           Command(a, id)
    PROVE  AnswersInv'
<1>n. PICK n \in Nat : n = Len(result) + 1
  BY DEF Known, PoolTyped, RequestsTyped
<1>1. /\ agent[a].at = "session" /\ ackPc[a] = "idle"
      /\ idOf' = Append(idOf, id) /\ result' = Append(result, "open")
      /\ agent' = [agent EXCEPT ![a] = Job("asking", n, 1, ReplyCount)]
      /\ UNCHANGED <<theMap, ackQueue, ackPtr, ackPc, erased, broken, content, late>>
  BY <1>n DEF Command, At, Becomes, AnswersInv, RolesInv, Uses, ackVars
<1>2. /\ idOf \in Seq(MessageIds) /\ result \in Seq({"open", "wrote", "error"})
      /\ Len(idOf) = Len(result) /\ Len(result) \in Nat
  BY DEF Known, PoolTyped, RequestsTyped
<1>3. /\ Requests = 1..Len(result) /\ Requests' = Requests \cup {n}
      /\ n \notin Requests
      /\ idOf'[n] = id /\ result'[n] = "open"
      /\ \A q \in Requests : idOf'[q] = idOf[q] /\ result'[q] = result[q]
  BY <1>n, <1>1, <1>2, AppendProperties DEF Requests
<1>4. /\ agent'[a].at = "asking" /\ agent'[a].req = n /\ agent'[a].phase = 1
      /\ agent'[a].left = ReplyCount
      /\ \A b \in Agents \ {a} : agent'[b] = agent[b]
  BY <1>1, AgentFacts DEF Job
<1>5. ASSUME NEW b \in Agents, agent[b].at \notin {"free", "session", "blocked"}
      PROVE  b # a /\ agent'[b] = agent[b] /\ agent[b].req \in Requests
  BY <1>1, <1>4, <1>5, AgentFacts
<1>6. \A r, phase : ~Delivers(a, r, phase)'
  BY <1>4 DEF Delivers
<1>7. ASSUME NEW r PROVE NoMorePending(r)
  BY <1>1, <1>4, <1>6, SamePending DEF Known
<1>0. UNCHANGED <<theMap, ackQueue, ackPtr, ackPc, erased, broken, late>>
  BY <1>1
<1>8. ASSUME NEW r \in Requests
      PROVE  (Shared(r) => Shared(r)') /\ Collected(r)' = Collected(r)
  BY <1>1, <1>3 DEF Shared, Collected
<1>9. RolesInv'
  BY <1>1, <1>4 DEF AnswersInv, RolesInv, Uses
<1>10. OwnersInv'
  <2>1. ASSUME NEW b \in Agents, agent'[b].at \in Owning
        PROVE  /\ result'[agent'[b].req] = "open"
               /\ \A c \in Agents :
                     agent'[c].at \in Owning /\ agent'[c].req = agent'[b].req => b = c
    BY <1>3, <1>4, <1>5, <2>1 DEF AnswersInv, OwnersInv, Owning
  <2>2. ASSUME NEW r \in Requests', result'[r] = "open"
        PROVE  \E b \in Agents : agent'[b].at \in Owning /\ agent'[b].req = r
    <3>1. CASE r = n
      BY <1>4, <3>1 DEF Owning
    <3>2. CASE r \in Requests
      <4>1. PICK b \in Agents : agent[b].at \in Owning /\ agent[b].req = r
        BY <1>3, <2>2, <3>2 DEF AnswersInv, OwnersInv
      <4> QED
        BY <1>5, <4>1 DEF Owning
    <3> QED
      BY <1>3, <3>1, <3>2
  <2> QED
    BY <2>1, <2>2 DEF OwnersInv
<1>11. PointersInv'
  <2>1. ASSUME NEW b \in Agents, ackPc'[b] # "idle"
        PROVE  ackPtr'[b] \in erased' \cup {theMap'[idOf'[agent'[b].req]]}
    <3>1. agent[b].at \notin {"free", "session", "blocked"}
      BY <1>1, <2>1 DEF AnswersInv, RolesInv, Uses
    <3>2. /\ agent'[b] = agent[b] /\ agent[b].req \in Requests
          /\ idOf'[agent[b].req] = idOf[agent[b].req]
      BY <1>3, <1>5, <3>1
    <3>3. ackPtr[b] \in erased \cup {theMap[idOf[agent[b].req]]}
      BY <1>0, <2>1 DEF AnswersInv, PointersInv
    <3> QED
      BY <1>0, <3>2, <3>3
  <2>2. ASSUME NEW other \in MessageIds, theMap'[other] # 0
        PROVE  \E r \in Requests' : idOf'[r] = other
    <3>1. PICK r \in Requests : idOf[r] = other
      BY <1>0, <2>2 DEF AnswersInv, PointersInv
    <3> QED
      BY <1>3, <3>1
  <2> QED
    BY <2>1, <2>2 DEF PointersInv
<1>12. CollectsInv'
  <2> SUFFICES ASSUME NEW w \in Agents, NEW r \in Requests', NEW phase \in {1, 2},
                      ~Shared(r)', agent'[w].req = r, agent'[w].phase = phase,
                      agent'[w].at \in {"asking", "waiting"}
               PROVE  /\ Collects(w, r, phase)'
                      /\ agent'[w].at = "waiting" => Sees(w, r)'
    BY DEF CollectsInv
  <2>1. CASE w = a
    <3>1. r = n /\ phase = 1 /\ agent'[w].at = "asking" /\ agent'[w].left = ReplyCount
      BY <1>4, <2>1
    <3>2. theMap[id] = 0
      <4>1. \A q \in Requests : idOf[q] # id
        BY <1>3, <3>1 DEF Shared
      <4> QED
        BY <4>1 DEF AnswersInv, PointersInv
    <3>3. Collected(r)' = <<>>
      BY <1>1, <1>3, <3>1, <3>2 DEF Collected
    <3>4. ASSUME NEW p \in {1, 2} PROVE Pending(n, p)' = 0
      <4>1. \A i \in 1..Len(content) : content[i] # Call(n, p)
        <5> SUFFICES ASSUME NEW i \in 1..Len(content), content[i] = Call(n, p)
                     PROVE  FALSE
          OBVIOUS
        <5>1. KnownEntry(content[i])
          BY DEF Known, PoolTyped, EntriesTyped
        <5>2. n \in Requests
          BY <1>2, <1>3, <5>1 DEF KnownEntry, Call
        <5> QED
          BY <1>3, <5>2
      <4>2. \A b \in Agents : ~Delivers(b, n, p)
        BY <1>3, <1>5 DEF Delivers
      <4>3. Pending(n, p) = 0
        BY <4>1, <4>2, UnknownPending DEF Known
      <4>4. Pending(n, p)' \in 0..Pending(n, p)
        BY <1>7 DEF NoMorePending
      <4> QED
        BY <4>3, <4>4
    <3>5. Collects(w, r, phase)'
      <4>1. Pending(r, phase)' = 0 /\ Pending(r, 3 - phase)' = 0
        <5>1. 3 - phase = 2
          BY <3>1
        <5> QED
          BY <3>1, <3>4, <5>1
      <4>2. Len(Collected(r)') = 0 /\ ReplyCount \in Nat
        BY <3>3, ReplyCountNat
      <4>3. agent'[w].left + Pending(r, phase)' + Len(Collected(r)') <= ReplyCount
        BY <3>1, <4>1, <4>2
      <4> QED
        BY <3>3, <4>1, <4>2, <4>3 DEF Collects
    <3> QED
      BY <3>1, <3>5
  <2>2. CASE w # a
    <3>1. agent'[w] = agent[w] /\ r \in Requests
      BY <1>4, <1>5, <2>2
    <3>2. ~Shared(r) /\ Collected(r)' = Collected(r)
      BY <1>8, <3>1
    <3>3. Collects(w, r, phase) /\ (agent[w].at = "waiting" => Sees(w, r))
      BY <3>1, <3>2 DEF AnswersInv, CollectsInv
    <3>4. Collects(w, r, phase)'
      BY <1>7, <3>1, <3>2, <3>3, CollectsKept
    <3>5. ASSUME agent[w].at = "waiting" PROVE Sees(w, r)'
      BY <1>1, <1>3, <3>1, <3>2, <3>3, <3>5, SeesKept
    <3> QED
      BY <3>1, <3>4, <3>5
  <2> QED
    BY <2>1, <2>2
<1>13. GoneInv'
  <2> SUFFICES ASSUME NEW r \in Requests', ~Shared(r)', result'[r] = "wrote"
               PROVE  Gone(r)'
    BY DEF GoneInv
  <2>1. r \in Requests /\ result[r] = "wrote"
    BY <1>3
  <2>2. Gone(r) /\ NoMorePending(r)
    BY <1>7, <1>8, <2>1 DEF AnswersInv, GoneInv
  <2> QED
    <3>1. theMap'[idOf'[r]] = 0
      BY <1>0, <1>3, <2>1, <2>2 DEF Gone
    <3>2. Pending(r, 1)' = 0 /\ Pending(r, 2)' = 0
      BY <2>2 DEF Gone, NoMorePending
    <3> QED
      BY <3>1, <3>2 DEF Gone
<1>14. SoundInv'
  <2>1. Sound' => Sound
    BY <1>1, <1>3, <1>8 DEF Sound
  <2> QED
    BY <1>1, <2>1 DEF AnswersInv, SoundInv
<1> QED
  BY <1>9, <1>10, <1>11, <1>12, <1>13, <1>14 DEF AnswersInv

-----------------------------------------------------------------------------
(* A phase begins. *)

\* A broadcast to be sent becomes an answer to come.
LEMMA BroadcastKeeps ==
    ASSUME Known, AnswersInv, NEW a \in Agents, Broadcast(a)
    PROVE  AnswersInv'
<1>1. /\ UNCHANGED <<theMap, ackQueue, ackPtr, ackPc, erased, broken>>
      /\ UNCHANGED <<idOf, result, late>>
      /\ Requests' = Requests
      /\ agent[a].at \in {"asking", "aborting"} /\ agent[a].left > 0
      /\ agent' = [agent EXCEPT ![a].left = @ - 1]
  BY DEF Broadcast, ackVars, Requests
<1>2. /\ agent'[a].at = agent[a].at /\ agent'[a].req = agent[a].req
      /\ agent'[a].phase = agent[a].phase /\ agent'[a].left = agent[a].left - 1
      /\ \A b \in Agents \ {a} : agent'[b] = agent[b]
  BY <1>1, AgentFacts DEF JobType
<1>3. ASSUME NEW b \in Agents
      PROVE  /\ agent'[b].at = agent[b].at /\ agent'[b].req = agent[b].req
             /\ agent'[b].phase = agent[b].phase
  BY <1>2
<1>4. ASSUME NEW r \in Requests
      PROVE  (Shared(r)' <=> Shared(r)) /\ Collected(r)' = Collected(r)
  BY <1>1 DEF Shared, Collected
<1>5. ASSUME NEW r \in Requests, r # agent[a].req PROVE NoMorePending(r)
  BY <1>5, PendingBroadcast, PendingTyped DEF Known, NoMorePending
<1>6. agent[a].req \in Requests /\ result[agent[a].req] = "open"
  BY <1>1, AgentFacts DEF AnswersInv, OwnersInv, Owning
<1>7. RolesInv'
  BY <1>1, <1>3 DEF AnswersInv, RolesInv, Uses
<1>8. OwnersInv'
  BY <1>1, <1>3 DEF AnswersInv, OwnersInv
<1>9. PointersInv'
  BY <1>1, <1>3 DEF AnswersInv, PointersInv
<1>10. CollectsInv'
  <2> SUFFICES ASSUME NEW w \in Agents, NEW r \in Requests, NEW phase \in {1, 2},
                      ~Shared(r), agent[w].req = r, agent[w].phase = phase,
                      agent[w].at \in {"asking", "waiting"}
               PROVE  /\ Collects(w, r, phase)'
                      /\ agent[w].at = "waiting" => Sees(w, r)'
    BY <1>1, <1>3, <1>4 DEF CollectsInv
  <2>1. Collects(w, r, phase) /\ (agent[w].at = "waiting" => Sees(w, r))
    BY DEF AnswersInv, CollectsInv
  <2>2. Collects(w, r, phase)'
    <3>1. CASE w = a
      <4>1. agent[a].at = "asking"
        BY <1>1, <3>1
      <4>2. /\ Pending(r, phase)' = Pending(r, phase) + 1
            /\ Pending(r, 3 - phase)' = Pending(r, 3 - phase)
        <5>1. 3 - phase # phase
          OBVIOUS
        <5>2. Pending(r, 3 - phase) \in Nat
          BY PendingTyped DEF Known
        <5> QED
          BY <3>1, <4>1, <5>1, <5>2, PendingBroadcast DEF Known
      <4>3. /\ agent[w].left + Pending(r, phase) + Len(Collected(r)) <= ReplyCount
            /\ Pending(r, 3 - phase) = 0
        BY <2>1 DEF Collects
      <4>4. /\ Pending(r, phase) \in Nat /\ Len(Collected(r)) \in Nat
            /\ agent[w].left \in Nat /\ ReplyCount \in Nat
        BY PendingTyped, RequestFacts, AgentFacts, ReplyCountNat DEF Known
      <4>5. Len(Collected(r)') = Len(Collected(r)) /\ agent'[w].left = agent[w].left - 1
        BY <1>2, <1>4, <3>1
      <4>6. /\ agent'[w].left + Pending(r, phase)' + Len(Collected(r)') <= ReplyCount
            /\ Pending(r, 3 - phase)' = 0
        BY <4>2, <4>3, <4>4, <4>5
      <4>7. \A i \in 1..Len(Collected(r)') :
                Collected(r)'[i].req = r /\ Collected(r)'[i].phase = phase
        BY <1>4, <2>1 DEF Collects
      <4> QED
        BY <4>6, <4>7 DEF Collects
    <3>2. CASE w # a
      <4>1. r # agent[a].req
        BY <1>1, <3>2 DEF AnswersInv, OwnersInv, Owning
      <4>2. NoMorePending(r) /\ agent'[w].left = agent[w].left
        BY <1>2, <1>5, <3>2, <4>1
      <4> QED
        BY <1>4, <2>1, <4>2, CollectsKept
    <3> QED
      BY <3>1, <3>2
  <2>3. ASSUME agent[w].at = "waiting" PROVE Sees(w, r)'
    BY <1>1, <1>4, <2>1, <2>3, SeesKept
  <2> QED
    BY <2>2, <2>3
<1>11. GoneInv'
  <2> SUFFICES ASSUME NEW r \in Requests, ~Shared(r), result[r] = "wrote"
               PROVE  Gone(r)'
    BY <1>1, <1>4 DEF GoneInv
  <2>1. Gone(r) /\ NoMorePending(r)
    BY <1>5, <1>6 DEF AnswersInv, GoneInv
  <2> QED
    BY <1>1, <2>1 DEF Gone, NoMorePending
<1>12. SoundInv'
  <2>1. Sound' <=> Sound
    BY <1>1, <1>4 DEF Sound
  <2> QED
    BY <1>1, <2>1 DEF AnswersInv, SoundInv
<1> QED
  BY <1>7, <1>8, <1>9, <1>10, <1>11, <1>12 DEF AnswersInv

\* Who gets a queue from TheOne, to wait at it or to add to it.
TurnsTo(a, use) ==
    \/ /\ use = "checking" /\ agent[a].at = "asking"
       /\ agent' = [agent EXCEPT ![a].at = "waiting"]
    \/ /\ use = "found" /\ agent[a].at = "call" /\ agent' = agent

LEMMA TheOneKeepsAnswers ==
    ASSUME Known, Known', AnswersInv, NEW a \in Agents, NEW use,
           TurnsTo(a, use), TheOne(a, idOf[agent[a].req], use),
           UNCHANGED <<content, idOf, result, late>>
    PROVE  AnswersInv'
<1> DEFINE mine == agent[a].req
<1>1. /\ UNCHANGED <<erased, broken, content, idOf, result, late>>
      /\ Requests' = Requests
      /\ ackPc[a] = "idle" /\ ackPc' = [ackPc EXCEPT ![a] = use]
  BY DEF TheOne, AckGoes, Requests
<1>2. /\ agent[a].at \in {"asking", "call"} /\ use \in {"checking", "found"}
      /\ use = "checking" <=> agent[a].at = "asking"
      /\ agent'[a].at = (IF use = "checking" THEN "waiting" ELSE "call")
      /\ agent'[a].req = agent[a].req /\ agent'[a].phase = agent[a].phase
      /\ agent'[a].left = agent[a].left
      /\ \A b \in Agents \ {a} : agent'[b] = agent[b]
  <2>1. agent \in [Agents -> JobType] /\ agent[a] \in JobType
    BY AgentFacts
  <2>2. CASE use = "checking" /\ agent[a].at = "asking"
             /\ agent' = [agent EXCEPT ![a].at = "waiting"]
    <3>1. agent'[a] = [agent[a] EXCEPT !.at = "waiting"]
      BY <2>1, <2>2
    <3>2. \A b \in Agents \ {a} : agent'[b] = agent[b]
      BY <2>1, <2>2
    <3> QED
      BY <2>1, <2>2, <3>1, <3>2 DEF JobType
  <2>3. CASE use = "found" /\ agent[a].at = "call" /\ agent' = agent
    BY <2>3
  <2> QED
    BY <2>2, <2>3 DEF TurnsTo
<1>3. /\ mine \in Requests /\ idOf[mine] \in MessageIds
      /\ agent[a].phase \in {1, 2}
  BY <1>2, AgentFacts, RequestFacts
<1>4. ASSUME NEW r \in Requests
      PROVE  /\ Shared(r)' <=> Shared(r)
             /\ Collected(r)' = Collected(r)
             /\ theMap'[idOf[r]] = IF idOf[r] = idOf[mine] /\ theMap[idOf[mine]] = 0
                                   THEN Len(ackQueue) + 1 ELSE theMap[idOf[r]]
             /\ theMap'[idOf[mine]] # 0
             /\ ackPtr'[a] = theMap'[idOf[mine]]
  <2>1. Shared(r)' <=> Shared(r)
    BY <1>1 DEF Shared
  <2> QED
    BY <1>1, <1>3, <2>1, CollectedTheOne
<1>5. \A b \in Agents \ {a} : ackPc'[b] = ackPc[b] /\ ackPtr'[b] = ackPtr[b]
  BY <1>1, AgentFacts DEF TheOne
<1>6. ackPc'[a] = use /\ ackPtr'[a] = theMap'[idOf[mine]] /\ ackPtr'[a] # 0
  BY <1>1, <1>3, <1>4, AgentFacts
<1>7. ASSUME NEW r PROVE NoMorePending(r)
  <2>1. ASSUME NEW phase \in {1, 2}
        PROVE  Delivers(a, r, phase)' => Delivers(a, r, phase)
    BY <1>1, <1>2 DEF Delivers
  <2> QED
    BY <1>1, <1>2, <1>5, <2>1, SamePending DEF Known
<1>8. ASSUME NEW r \in Requests, ~Shared(r), r # mine
      PROVE  theMap'[idOf[r]] = theMap[idOf[r]]
  <2>1. idOf[r] # idOf[mine]
    BY <1>3, <1>8 DEF Shared
  <2> QED
    BY <1>4, <2>1
<1> HIDE DEF mine
<1>9. RolesInv'
  <2>1. ackPc'[a] \in Uses(agent'[a].at) /\ ackPtr'[a] # 0
    BY <1>2, <1>6 DEF Uses, Checking
  <2>2. \A b \in Agents \ {a} :
            /\ ackPc'[b] \in Uses(agent'[b].at)
            /\ ackPc'[b] # "idle" => ackPtr'[b] # 0
    BY <1>2, <1>5 DEF AnswersInv, RolesInv
  <2> QED
    BY <2>1, <2>2 DEF RolesInv, Uses
<1>10. OwnersInv'
  <2>1. \A b \in Agents : /\ agent'[b].at \in Owning <=> agent[b].at \in Owning
                          /\ agent'[b].req = agent[b].req
    BY <1>2 DEF Owning
  <2> QED
    BY <1>1, <2>1 DEF AnswersInv, OwnersInv
<1>11. PointersInv'
  <2>1. ASSUME NEW b \in Agents, ackPc'[b] # "idle"
        PROVE  ackPtr'[b] \in erased \cup {theMap'[idOf[agent'[b].req]]}
    <3>1. CASE b = a
      BY <1>2, <1>6, <3>1 DEF mine
    <3>2. CASE b # a
      <4>1. /\ ackPtr'[b] = ackPtr[b] /\ agent'[b] = agent[b] /\ ackPc[b] # "idle"
            /\ ackPtr[b] # 0 /\ agent[b].at \in {"call", "waiting"}
            /\ ackPtr[b] \in erased \cup {theMap[idOf[agent[b].req]]}
        BY <1>2, <1>5, <2>1, <3>2 DEF AnswersInv, RolesInv, PointersInv, Uses
      <4>2. agent[b].req \in Requests
        BY <4>1, AgentFacts
      <4>3. \/ theMap'[idOf[agent[b].req]] = theMap[idOf[agent[b].req]]
            \/ theMap[idOf[agent[b].req]] = 0
        BY <1>4, <4>2
      <4> QED
        BY <4>1, <4>3
    <3> QED
      BY <3>1, <3>2
  <2>2. ASSUME NEW id \in MessageIds, theMap'[id] # 0
        PROVE  \E r \in Requests : idOf[r] = id
    <3>1. id = idOf[mine] \/ theMap'[id] = theMap[id]
      BY <1>3, RequestFacts DEF TheOne, mine
    <3> QED
      BY <1>3, <2>2, <3>1 DEF AnswersInv, PointersInv
  <2> QED
    BY <1>1, <2>1, <2>2 DEF PointersInv
<1>12. CollectsInv'
  <2> SUFFICES ASSUME NEW w \in Agents, NEW r \in Requests, NEW phase \in {1, 2},
                      ~Shared(r), agent'[w].req = r, agent'[w].phase = phase,
                      agent'[w].at \in {"asking", "waiting"}
               PROVE  /\ Collects(w, r, phase)'
                      /\ agent'[w].at = "waiting" => Sees(w, r)'
    BY <1>1, <1>4 DEF CollectsInv
  <2>1. /\ agent[w].req = r /\ agent[w].phase = phase
        /\ agent[w].at \in {"asking", "waiting"} /\ agent'[w].left = agent[w].left
    BY <1>2
  <2>2. Collects(w, r, phase) /\ (agent[w].at = "waiting" => Sees(w, r))
    BY <2>1 DEF AnswersInv, CollectsInv
  <2>3. Collects(w, r, phase)'
    BY <1>4, <1>7, <2>1, <2>2, CollectsKept
  <2>4. ASSUME agent'[w].at = "waiting", w = a PROVE Sees(w, r)'
    <3>1. ackPc'[w] = "checking" /\ ackPtr'[w] = theMap'[idOf'[r]]
      BY <1>1, <1>2, <1>6, <2>1, <2>4 DEF mine
    <3> QED
      BY <3>1 DEF Sees
  <2>5. ASSUME agent'[w].at = "waiting", w # a PROVE Sees(w, r)'
    <3>1. agent[w].at = "waiting" /\ Sees(w, r)
      BY <1>2, <2>2, <2>5
    <3>2. theMap'[idOf'[r]] = theMap[idOf[r]]
      <4>1. ackPc[w] # "idle" /\ ackPtr[w] # 0
        BY <3>1 DEF AnswersInv, RolesInv, Uses, Checking
      <4>2. theMap[idOf[r]] # 0
        BY <3>1, <4>1 DEF Sees
      <4> QED
        BY <1>1, <1>4, <4>2
    <3>3. \A b \in Agents : ackPc'[b] = "pushed" =>
              ackPc[b] = "pushed" /\ ackPtr'[b] = ackPtr[b]
      BY <1>2, <1>5, <1>6
    <3>4. ackPc'[w] = ackPc[w] /\ ackPtr'[w] = ackPtr[w]
      BY <1>5, <2>5
    <3> QED
      BY <1>1, <1>4, <3>1, <3>2, <3>3, <3>4, SeesKept
  <2> QED
    BY <2>3, <2>4, <2>5
<1>13. GoneInv'
  <2> SUFFICES ASSUME NEW r \in Requests, ~Shared(r), result[r] = "wrote"
               PROVE  Gone(r)'
    BY <1>1, <1>4 DEF GoneInv
  <2>1. Gone(r) /\ NoMorePending(r)
    BY <1>7 DEF AnswersInv, GoneInv
  <2>2. r # mine
    <3>1. CASE agent[a].at = "asking"
      BY <3>1 DEF AnswersInv, OwnersInv, Owning, mine
    <3>2. CASE agent[a].at = "call"
      <4>1. Pending(r, agent[a].phase) = 0
        BY <1>3, <2>1 DEF Gone
      <4>2. ~Delivers(a, r, agent[a].phase)
        BY <4>1, NonePending DEF Known
      <4> QED
        BY <1>1, <3>2, <4>2 DEF Delivers, mine
    <3> QED
      BY <1>2, <3>1, <3>2
  <2>3. theMap'[idOf'[r]] = 0
    BY <1>1, <1>8, <2>1, <2>2 DEF Gone
  <2>4. Pending(r, 1)' = 0 /\ Pending(r, 2)' = 0
    BY <2>1 DEF Gone, NoMorePending
  <2> QED
    BY <2>3, <2>4 DEF Gone
<1>14. SoundInv'
  <2>1. Sound' => Sound
    BY <1>1, <1>4 DEF Sound
  <2>2. ackPtr'[a] \notin erased'
    BY <1>3, <1>6 DEF Known, AckInv, AckTypeOK
  <2> QED
    BY <1>1, <1>5, <2>1, <2>2 DEF AnswersInv, SoundInv
<1> QED
  BY <1>9, <1>10, <1>11, <1>12, <1>13, <1>14 DEF AnswersInv

LEMMA AskKeeps ==
    ASSUME Known, Known', AnswersInv, NEW a \in Agents,
           AskTheOne(a) \/ ReceiveAnswer(a)
    PROVE  AnswersInv'
<1>1. CASE AskTheOne(a)
  <2>1. TurnsTo(a, "checking") /\ TheOne(a, idOf[agent[a].req], "checking")
        /\ UNCHANGED <<content, idOf, result, late>>
    BY <1>1 DEF AskTheOne, At, TheOneToCheck, TurnsTo
  <2> QED
    BY <2>1, TheOneKeepsAnswers
<1>2. CASE ReceiveAnswer(a)
  <2>1. TurnsTo(a, "found") /\ TheOne(a, idOf[agent[a].req], "found")
        /\ UNCHANGED <<content, idOf, result, late>>
    BY <1>2 DEF ReceiveAnswer, At, TheOneToAdd, TurnsTo, poolVars
  <2> QED
    BY <2>1, TheOneKeepsAnswers
<1> QED
  BY <1>1, <1>2

-----------------------------------------------------------------------------
(* A phase waits, and ends. *)

\* What one step of check_success may do: it goes on to another place, with
\* enough answers to be counted where it says so.
LEMMA CheckOutcome ==
    ASSUME Known, NEW a \in Agents, CheckStep(a)
    PROVE  /\ UNCHANGED <<theMap, ackQueue, ackPtr, erased, broken>>
           /\ ackPc[a] \in Checking \ {"succeeded", "failed"}
           /\ ackPc'[a] \in Checking
           /\ \A b \in Agents \ {a} : ackPc'[b] = ackPc[b]
           /\ ackPc'[a] = "counted" => Enough(a) /\ MutexFree(a)
           /\ ackPc'[a] = "looked" =>
                 ackPc[a] = "counted" \/ (ackPc[a] = "timedOut" /\ Enough(a))
           /\ ackPc'[a] = "succeeded" => ackPc[a] = "looked" /\ AllPositive(a)
<1>1. ackPc \in [Agents -> AckStates]
  BY AgentFacts
<1>2. CASE Counted(a)
  BY <1>1, <1>2 DEF Counted, AckGoes, Checking
<1>3. CASE Expires(a)
  BY <1>1, <1>3 DEF Expires, AckGoes, Checking
<1>4. CASE SecondLook(a)
  BY <1>1, <1>4 DEF SecondLook, Checking
<1>5. CASE Verdict(a)
  BY <1>1, <1>5 DEF Verdict, Checking
<1> QED
  BY <1>2, <1>3, <1>4, <1>5 DEF CheckStep

LEMMA AwaitKeeps ==
    ASSUME Known, AnswersInv, NEW a \in Agents, Await(a)
    PROVE  AnswersInv'
<1>1. /\ UNCHANGED <<theMap, ackQueue, ackPtr, erased, broken>>
      /\ UNCHANGED <<content, agent, idOf, result>>
      /\ Requests' = Requests
      /\ agent[a].at = "waiting"
      /\ ackPc[a] \in Checking \ {"succeeded", "failed"}
      /\ ackPc'[a] \in Checking
      /\ \A b \in Agents \ {a} : ackPc'[b] = ackPc[b]
  BY CheckOutcome DEF Await, At, Requests
<1>2. /\ late \subseteq late'
      /\ ackPc[a] = "timedOut" /\ ackPc'[a] = "looked" => agent[a].req \in late'
  BY DEF Await
<1>3. ASSUME NEW r \in Requests
      PROVE  (Shared(r)' <=> Shared(r)) /\ Collected(r)' = Collected(r)
  BY <1>1 DEF Shared, Collected
<1>4. ASSUME NEW r PROVE NoMorePending(r)
  <2>1. ASSUME NEW phase \in {1, 2}
        PROVE  Delivers(a, r, phase)' => Delivers(a, r, phase)
    BY <1>1 DEF Delivers
  <2> QED
    BY <1>1, <2>1, SamePending DEF Known
<1>5. ackPc[a] # "idle" /\ ackPc[a] # "pushed" /\ ackPc'[a] # "pushed"
  BY <1>1 DEF Checking
<1>6. RolesInv'
  BY <1>1, <1>5 DEF AnswersInv, RolesInv, Uses
<1>7. OwnersInv'
  BY <1>1 DEF AnswersInv, OwnersInv
<1>8. PointersInv'
  <2>1. ASSUME NEW b \in Agents, ackPc'[b] # "idle" PROVE ackPc[b] # "idle"
    BY <1>1, <1>5, <2>1
  <2> QED
    BY <1>1, <2>1 DEF AnswersInv, PointersInv
<1>9. CollectsInv'
  <2> SUFFICES ASSUME NEW w \in Agents, NEW r \in Requests, NEW phase \in {1, 2},
                      ~Shared(r), agent[w].req = r, agent[w].phase = phase,
                      agent[w].at \in {"asking", "waiting"}
               PROVE  /\ Collects(w, r, phase)'
                      /\ agent[w].at = "waiting" => Sees(w, r)'
    BY <1>1, <1>3 DEF CollectsInv
  <2>1. Collects(w, r, phase) /\ (agent[w].at = "waiting" => Sees(w, r))
    BY DEF AnswersInv, CollectsInv
  <2>2. Collects(w, r, phase)'
    BY <1>1, <1>3, <1>4, <2>1, CollectsKept
  <2>3. \A b \in Agents : ackPc'[b] = "pushed" =>
            ackPc[b] = "pushed" /\ ackPtr'[b] = ackPtr[b]
    BY <1>1, <1>5
  <2>4. ASSUME agent[w].at = "waiting", w # a PROVE Sees(w, r)'
    BY <1>1, <1>2, <1>3, <2>1, <2>3, <2>4, SeesKept
  <2>5. ASSUME agent[w].at = "waiting", w = a PROVE Sees(w, r)'
    <3>1. Sees(a, r) /\ ackPtr[a] = theMap[idOf[r]] /\ ackPtr[a] # 0
      BY <1>5, <2>1, <2>5 DEF Sees, AnswersInv, RolesInv
    <3>2. Collected(r) = Answers(a)
      BY <3>1 DEF Collected, Answers
    <3>3. CASE ackPc'[a] = "counted"
      <4>1. Len(Collected(r)) >= ReplyCount
        BY <3>2, <3>3, CheckOutcome DEF Await, Enough
      <4>2. \A b \in Agents : ackPc[b] = "pushed" => ackPtr[b] # ackPtr[a]
        BY <3>3, CheckOutcome, PoolAssumption DEF Await, MutexFree
      <4> QED
        BY <1>1, <1>3, <2>3, <2>5, <3>1, <3>3, <4>1, <4>2 DEF Sees
    <3>4. CASE ackPc'[a] = "looked" /\ ackPc[a] = "counted"
      BY <1>1, <1>2, <1>3, <2>3, <2>5, <3>1, <3>4 DEF Sees
    <3>5. CASE ackPc'[a] = "looked" /\ ackPc[a] # "counted"
      <4>1. Len(Collected(r)) >= ReplyCount /\ r \in late'
        BY <1>2, <2>5, <3>2, <3>5, CheckOutcome DEF Await, Enough
      <4> QED
        BY <1>1, <1>3, <2>5, <3>1, <3>5, <4>1 DEF Sees
    <3>6. CASE ackPc'[a] = "succeeded"
      <4>1. /\ ackPc[a] = "looked"
            /\ \A i \in 1..Len(Collected(r)) : Collected(r)[i].ok
        <5>1. ackPc[a] = "looked" /\ AllPositive(a)
          BY <3>6, CheckOutcome DEF Await
        <5>2. DOMAIN Collected(r) = 1..Len(Collected(r))
          BY RequestFacts
        <5> QED
          BY <3>2, <5>1, <5>2 DEF AllPositive
      <4> QED
        BY <1>1, <1>2, <1>3, <2>3, <2>5, <3>1, <3>6, <4>1 DEF Sees
    <3>7. CASE ackPc'[a] \notin {"counted", "looked", "succeeded"}
      BY <1>1, <2>5, <3>1, <3>7 DEF Sees
    <3> QED
      BY <3>3, <3>4, <3>5, <3>6, <3>7
  <2> QED
    BY <2>2, <2>4, <2>5
<1>10. GoneInv'
  <2> SUFFICES ASSUME NEW r \in Requests, ~Shared(r), result[r] = "wrote"
               PROVE  Gone(r)'
    BY <1>1, <1>3 DEF GoneInv
  <2>1. Gone(r) /\ NoMorePending(r)
    BY <1>4 DEF AnswersInv, GoneInv
  <2> QED
    BY <1>1, <2>1 DEF Gone, NoMorePending
<1>11. SoundInv'
  <2>1. Sound' => Sound
    BY <1>1, <1>2, <1>3 DEF Sound
  <2>2. ASSUME NEW b \in Agents, ackPc'[b] # "idle" PROVE ackPc[b] # "idle"
    BY <1>1, <1>5, <2>2
  <2> QED
    BY <1>1, <2>1, <2>2 DEF AnswersInv, SoundInv
<1> QED
  BY <1>6, <1>7, <1>8, <1>9, <1>10, <1>11 DEF AnswersInv

\* An agent that has seen enough answers has seen all: none is to come.
LEMMA NoneToCome ==
    ASSUME Known, AnswersInv, NEW a \in Agents,
           agent[a].at = "waiting", ackPc[a] \in {"counted", "looked", "succeeded"},
           ~Shared(agent[a].req), NEW phase \in {1, 2}
    PROVE  /\ Pending(agent[a].req, phase) = 0
           /\ Len(Collected(agent[a].req)) = ReplyCount
<1>1. PICK r \in Requests : r = agent[a].req
  BY AgentFacts
<1>2. PICK p \in {1, 2} : p = agent[a].phase
  BY AgentFacts
<1>3. Collects(a, r, p) /\ Sees(a, r)
  BY <1>1, <1>2 DEF AnswersInv, CollectsInv
<1>4. /\ agent[a].left + Pending(r, p) + Len(Collected(r)) <= ReplyCount
      /\ Pending(r, 3 - p) = 0 /\ Len(Collected(r)) >= ReplyCount
  BY <1>3 DEF Collects, Sees
<1>5. /\ Pending(r, p) \in Nat /\ Len(Collected(r)) \in Nat
      /\ agent[a].left \in Nat /\ ReplyCount \in Nat
  BY PendingTyped, RequestFacts, AgentFacts, ReplyCountNat DEF Known
<1>6. Pending(r, p) = 0 /\ Len(Collected(r)) = ReplyCount
  BY <1>4, <1>5
<1>7. phase = p \/ phase = 3 - p
  OBVIOUS
<1> QED
  BY <1>1, <1>4, <1>6, <1>7

LEMMA AcknowledgedKeeps ==
    ASSUME Known, AnswersInv, NEW a \in Agents, Acknowledged(a)
    PROVE  AnswersInv'
<1>1. PICK mine \in Requests : mine = agent[a].req
  BY AgentFacts DEF Acknowledged, At
<1>2. /\ UNCHANGED <<content, idOf, late>>
      /\ agent[a].at = "waiting" /\ ackPc[a] = "succeeded"
      /\ Erase(a, idOf[mine])
      /\ ackPc' = [ackPc EXCEPT ![a] = "idle"] /\ ackPtr' = [ackPtr EXCEPT ![a] = 0]
  BY <1>1 DEF Acknowledged, At, Erase, AckGoes
<1>3. idOf[mine] \in MessageIds /\ theMap \in [MessageIds -> Nat]
  BY RequestFacts
<1>4. /\ Requests' = Requests
      /\ \A q \in Requests : q # mine => result'[q] = result[q]
      /\ \/ /\ agent[a].phase = 1 /\ result' = result
            /\ agent'[a] = Job("asking", mine, 2, ReplyCount)
         \/ /\ agent[a].phase = 2 /\ result'[mine] = "wrote"
            /\ agent'[a] = Session
      /\ \A b \in Agents \ {a} : agent'[b] = agent[b]
  <2>1. agent \in [Agents -> JobType] /\ agent[a].phase \in {1, 2}
    BY <1>2, AgentFacts
  <2>2. CASE agent[a].phase = 1
    <3>1. agent' = [agent EXCEPT ![a] = Job("asking", mine, 2, ReplyCount)] /\ result' = result
      BY <1>1, <2>2 DEF Acknowledged, Becomes
    <3> QED
      BY <2>1, <2>2, <3>1 DEF Requests
  <2>3. CASE agent[a].phase = 2
    <3>1. agent' = [agent EXCEPT ![a] = Session] /\ result' = [result EXCEPT ![mine] = "wrote"]
      BY <1>1, <2>3 DEF Acknowledged, Becomes
    <3> QED
      BY <2>1, <2>3, <3>1 DEF Requests
  <2> QED
    BY <2>1, <2>2, <2>3
<1>5. /\ ackPc'[a] = "idle" /\ ackPtr'[a] = 0
      /\ \A b \in Agents \ {a} : ackPc'[b] = ackPc[b] /\ ackPtr'[b] = ackPtr[b]
  BY <1>2, AgentFacts
<1>6. ASSUME NEW r \in Requests
      PROVE  /\ Shared(r)' <=> Shared(r)
             /\ theMap'[idOf[r]] = IF idOf[r] = idOf[mine] THEN 0 ELSE theMap[idOf[r]]
             /\ idOf[r] = idOf[mine] => Collected(r)' = <<>>
             /\ idOf[r] # idOf[mine] => Collected(r)' = Collected(r)
             /\ ~Shared(r) /\ r # mine => idOf[r] # idOf[mine]
  <2>1. /\ Shared(r)' <=> Shared(r)
        /\ ~Shared(r) /\ r # mine => idOf[r] # idOf[mine]
    BY <1>2, <1>4 DEF Shared
  <2> QED
    BY <1>2, <1>3, <2>1, CollectedErase
<1>7. \A r, phase : ~Delivers(a, r, phase)'
  BY <1>4 DEF Delivers, Session, Job
<1>8. ASSUME NEW r PROVE NoMorePending(r)
  BY <1>2, <1>4, <1>5, <1>7, SamePending DEF Known
<1>9. ASSUME ~Shared(mine), NEW phase \in {1, 2} PROVE Pending(mine, phase) = 0
  BY <1>1, <1>2, <1>9, NoneToCome
<1>10. /\ result[mine] = "open"
       /\ \A b \in Agents : agent[b].at \in Owning /\ agent[b].req = mine => a = b
  BY <1>1, <1>2 DEF AnswersInv, OwnersInv, Owning
<1>11. RolesInv'
  <2>1. ackPc'[a] \in Uses(agent'[a].at)
    BY <1>4, <1>5 DEF Uses, Session, Job
  <2> QED
    BY <1>4, <1>5, <2>1 DEF AnswersInv, RolesInv, Uses
<1>12. OwnersInv'
  <2>1. CASE agent[a].phase = 1
    <3>1. /\ result' = result /\ agent'[a].at \in Owning /\ agent'[a].req = mine
          /\ agent[a].at \in Owning /\ agent[a].req = mine
      BY <1>1, <1>2, <1>4, <2>1 DEF Job, Owning
    <3>2. \A b \in Agents : /\ agent'[b].at \in Owning <=> agent[b].at \in Owning
                            /\ agent'[b].req = agent[b].req
      BY <1>4, <3>1
    <3> QED
      BY <1>4, <3>1, <3>2 DEF AnswersInv, OwnersInv
  <2>2. CASE agent[a].phase = 2
    <3>1. result'[mine] = "wrote" /\ agent'[a].at \notin Owning
      BY <1>4, <2>2 DEF Session, Job, Owning
    <3>2. ASSUME NEW b \in Agents, agent'[b].at \in Owning
          PROVE  /\ b # a /\ agent'[b] = agent[b] /\ agent[b].req # mine
                 /\ agent[b].req \in Requests
      BY <1>4, <1>10, <3>1, <3>2, AgentFacts DEF Owning
    <3>3. ASSUME NEW b \in Agents, agent'[b].at \in Owning
          PROVE  /\ result'[agent'[b].req] = "open"
                 /\ \A c \in Agents :
                       agent'[c].at \in Owning /\ agent'[c].req = agent'[b].req => b = c
      BY <1>4, <3>2, <3>3 DEF AnswersInv, OwnersInv
    <3>4. ASSUME NEW r \in Requests, result'[r] = "open"
          PROVE  \E b \in Agents : agent'[b].at \in Owning /\ agent'[b].req = r
      <4>1. r # mine /\ result[r] = "open"
        BY <1>4, <3>1, <3>4
      <4>2. PICK b \in Agents : agent[b].at \in Owning /\ agent[b].req = r
        BY <4>1 DEF AnswersInv, OwnersInv
      <4> QED
        BY <1>1, <1>4, <4>1, <4>2
    <3> QED
      BY <1>4, <3>3, <3>4 DEF OwnersInv
  <2> QED
    BY <1>4, <2>1, <2>2
<1>13. PointersInv'
  <2>1. ASSUME NEW b \in Agents, ackPc'[b] # "idle"
        PROVE  ackPtr'[b] \in erased' \cup {theMap'[idOf[agent'[b].req]]}
    <3>1. /\ b # a /\ ackPtr'[b] = ackPtr[b] /\ agent'[b] = agent[b] /\ ackPc[b] # "idle"
      BY <1>4, <1>5, <2>1
    <3>2. /\ ackPtr[b] # 0 /\ agent[b].at \in {"call", "waiting"}
          /\ ackPtr[b] \in erased \cup {theMap[idOf[agent[b].req]]}
      BY <3>1 DEF AnswersInv, RolesInv, PointersInv, Uses
    <3>3. agent[b].req \in Requests
      BY <3>2, AgentFacts
    <3>4. erased \subseteq erased' /\ (theMap[idOf[mine]] # 0 => theMap[idOf[mine]] \in erased')
      BY <1>2 DEF Erase
    <3> QED
      BY <1>6, <3>1, <3>2, <3>3, <3>4
  <2>2. ASSUME NEW id \in MessageIds, theMap'[id] # 0
        PROVE  \E r \in Requests : idOf[r] = id
    <3>1. theMap[id] # 0
      BY <1>2, <1>3, <2>2 DEF Erase
    <3> QED
      BY <3>1 DEF AnswersInv, PointersInv
  <2> QED
    BY <1>2, <1>4, <2>1, <2>2 DEF PointersInv
<1>14. CollectsInv'
  <2> SUFFICES ASSUME NEW w \in Agents, NEW r \in Requests, NEW phase \in {1, 2},
                      ~Shared(r), agent'[w].req = r, agent'[w].phase = phase,
                      agent'[w].at \in {"asking", "waiting"}
               PROVE  /\ Collects(w, r, phase)'
                      /\ agent'[w].at = "waiting" => Sees(w, r)'
    BY <1>4, <1>6 DEF CollectsInv
  <2>1. CASE w = a
    <3>1. /\ r = mine /\ phase = 2 /\ agent'[w].at = "asking"
          /\ agent'[w].left = ReplyCount
      BY <1>4, <2>1 DEF Job, Session
    <3>2. Pending(r, 1)' = 0 /\ Pending(r, 2)' = 0
      BY <1>8, <1>9, <3>1 DEF NoMorePending
    <3>3. Pending(r, phase)' = 0 /\ Pending(r, 3 - phase)' = 0
      <4>1. 3 - phase = 1
        BY <3>1
      <4> QED
        BY <3>1, <3>2, <4>1
    <3>4. Collected(r)' = <<>> /\ Len(Collected(r)') = 0 /\ ReplyCount \in Nat
      BY <1>6, <3>1, ReplyCountNat
    <3>5. agent'[w].left + Pending(r, phase)' + Len(Collected(r)') <= ReplyCount
      BY <3>1, <3>3, <3>4
    <3> QED
      BY <3>1, <3>3, <3>4, <3>5 DEF Collects
  <2>2. CASE w # a
    <3>1. agent'[w] = agent[w]
      BY <1>4, <2>2
    <3>2. r # mine
      BY <1>10, <2>2, <3>1 DEF Owning
    <3>3. Collects(w, r, phase) /\ (agent[w].at = "waiting" => Sees(w, r))
      BY <3>1 DEF AnswersInv, CollectsInv
    <3>4. Collected(r)' = Collected(r) /\ theMap'[idOf'[r]] = theMap[idOf[r]]
      BY <1>2, <1>6, <3>2
    <3>5. Collects(w, r, phase)'
      BY <1>8, <3>1, <3>3, <3>4, CollectsKept
    <3>6. ASSUME agent[w].at = "waiting" PROVE Sees(w, r)'
      BY <1>2, <1>5, <2>2, <3>3, <3>4, <3>6, SeesKept
    <3> QED
      BY <3>1, <3>5, <3>6
  <2> QED
    BY <2>1, <2>2
<1>15. GoneInv'
  <2> SUFFICES ASSUME NEW r \in Requests, ~Shared(r), result'[r] = "wrote"
               PROVE  Gone(r)'
    BY <1>4, <1>6 DEF GoneInv
  <2>1. NoMorePending(r)
    BY <1>8
  <2>2. theMap'[idOf'[r]] = 0 /\ Pending(r, 1) = 0 /\ Pending(r, 2) = 0
    <3>1. CASE r = mine
      BY <1>2, <1>6, <1>9, <3>1
    <3>2. CASE r # mine
      <4>1. Gone(r)
        BY <1>4, <3>2 DEF AnswersInv, GoneInv
      <4> QED
        BY <1>2, <1>6, <3>2, <4>1 DEF Gone
    <3> QED
      BY <3>1, <3>2
  <2>3. Pending(r, 1)' = 0 /\ Pending(r, 2)' = 0
    BY <2>1, <2>2 DEF NoMorePending
  <2> QED
    BY <2>2, <2>3 DEF Gone
<1>16. SoundInv'
  <2> SUFFICES ASSUME Sound'
               PROVE  /\ ~broken'
                      /\ \A b \in Agents : ackPc'[b] # "idle" => ackPtr'[b] \notin erased'
    BY DEF SoundInv
  <2>1. Sound /\ ~Shared(mine) /\ late = {}
    BY <1>2, <1>4, <1>6 DEF Sound
  <2>2. PICK p \in {1, 2} : p = agent[a].phase
    BY <1>2, AgentFacts
  <2>3. Sees(a, mine)
    BY <1>1, <1>2, <2>1, <2>2 DEF AnswersInv, CollectsInv
  <2>4. ackPtr[a] = theMap[idOf[mine]] /\ theMap[idOf[mine]] # 0
    BY <1>2, <2>3 DEF Sees, AnswersInv, RolesInv
  <2>5. broken' = broken /\ erased' = erased \cup {ackPtr[a]}
    BY <1>2, <2>4 DEF Erase
  <2>6. ASSUME NEW b \in Agents, ackPc'[b] # "idle" PROVE ackPtr'[b] \notin erased'
    <3>1. /\ b # a /\ ackPtr'[b] = ackPtr[b] /\ ackPc[b] # "idle"
          /\ ackPtr[b] \notin erased
      BY <1>5, <2>1, <2>6 DEF AnswersInv, SoundInv
    <3>2. ASSUME ackPtr[b] = ackPtr[a] PROVE FALSE
      <4>1. agent[b].req = mine
        BY <2>1, <2>4, <3>1, <3>2, QueueOfRequest DEF AnswersInv
      <4>2. ackPc[b] \in Uses(agent[b].at) /\ agent[b].at # "waiting"
        BY <1>10, <3>1, <4>1 DEF AnswersInv, RolesInv, Owning
      <4>3. agent[b].at = "call" /\ ackPc[b] \in {"found", "pushed"}
        BY <3>1, <4>2 DEF Uses
      <4>4. PICK q \in {1, 2} : q = agent[b].phase
        BY <4>3, AgentFacts
      <4>5. ~Delivers(b, mine, q)
        BY <1>9, <2>1, NonePending DEF Known
      <4>6. ackPc[b] = "pushed"
        BY <4>1, <4>3, <4>4, <4>5 DEF Delivers
      <4>7. ackPtr[b] # ackPtr[a]
        BY <1>2, <2>1, <2>3, <4>6 DEF Sees
      <4> QED
        BY <3>2, <4>7
    <3> QED
      BY <2>5, <3>1, <3>2
  <2> QED
    BY <2>1, <2>5, <2>6 DEF AnswersInv, SoundInv
<1> QED
  BY <1>11, <1>12, <1>13, <1>14, <1>15, <1>16 DEF AnswersInv

\* An agent leaves a queue, or a request that failed, and is at none then.
LEMMA LeavingKeeps ==
    ASSUME Known, AnswersInv, NEW a \in Agents,
           UNCHANGED <<theMap, ackQueue, erased, broken, content, idOf, late>>,
           Requests' = Requests,
           \A b \in Agents \ {a} : /\ agent'[b] = agent[b] /\ ackPc'[b] = ackPc[b]
                                   /\ ackPtr'[b] = ackPtr[b],
           ackPc'[a] = "idle",
           agent'[a].at \notin {"asking", "waiting", "call"},
           \A r \in Requests : result'[r] = "wrote" => result[r] = "wrote",
           OwnersInv'
    PROVE  AnswersInv'
<1>1. ASSUME NEW r \in Requests
      PROVE  (Shared(r)' <=> Shared(r)) /\ Collected(r)' = Collected(r)
  BY DEF Shared, Collected
<1>2. ASSUME NEW r PROVE NoMorePending(r)
  <2>1. ASSUME NEW phase \in {1, 2}
        PROVE  Delivers(a, r, phase)' => Delivers(a, r, phase)
    BY DEF Delivers
  <2> QED
    BY <2>1, SamePending DEF Known
<1>3. RolesInv'
  BY DEF AnswersInv, RolesInv, Uses
<1>4. PointersInv'
  <2>1. ASSUME NEW b \in Agents, ackPc'[b] # "idle"
        PROVE  ackPtr'[b] \in erased \cup {theMap[idOf[agent'[b].req]]}
    BY <2>1 DEF AnswersInv, PointersInv
  <2> QED
    BY <2>1 DEF AnswersInv, PointersInv
<1>5. CollectsInv'
  <2> SUFFICES ASSUME NEW w \in Agents, NEW r \in Requests, NEW phase \in {1, 2},
                      ~Shared(r), agent'[w].req = r, agent'[w].phase = phase,
                      agent'[w].at \in {"asking", "waiting"}
               PROVE  /\ Collects(w, r, phase)'
                      /\ agent'[w].at = "waiting" => Sees(w, r)'
    BY <1>1 DEF CollectsInv
  <2>1. w # a /\ agent'[w] = agent[w]
    OBVIOUS
  <2>2. Collects(w, r, phase) /\ (agent[w].at = "waiting" => Sees(w, r))
    BY <2>1 DEF AnswersInv, CollectsInv
  <2>3. Collects(w, r, phase)'
    BY <1>1, <1>2, <2>1, <2>2, CollectsKept
  <2>4. ASSUME agent[w].at = "waiting" PROVE Sees(w, r)'
    BY <1>1, <2>1, <2>2, <2>4, SeesKept
  <2> QED
    BY <2>1, <2>3, <2>4
<1>6. GoneInv'
  <2> SUFFICES ASSUME NEW r \in Requests, ~Shared(r), result'[r] = "wrote"
               PROVE  Gone(r)'
    BY <1>1 DEF GoneInv
  <2>1. Gone(r) /\ NoMorePending(r)
    BY <1>2 DEF AnswersInv, GoneInv
  <2> QED
    BY <2>1 DEF Gone, NoMorePending
<1>7. SoundInv'
  <2>1. Sound' => Sound
    BY <1>1 DEF Sound
  <2> QED
    BY <2>1 DEF AnswersInv, SoundInv
<1> QED
  BY <1>3, <1>4, <1>5, <1>6, <1>7 DEF AnswersInv

\* The catch block after the wait, the answer to the client, and the end of a
\* delivery.
LEMMA LeaveKeeps ==
    ASSUME Known, AnswersInv, NEW a \in Agents,
           NotAcknowledged(a) \/ TellError(a) \/ FinishAnswer(a)
    PROVE  AnswersInv'
<1>1. /\ UNCHANGED <<theMap, ackQueue, erased, broken, content, idOf, late>>
      /\ agent[a].at \in {"waiting", "aborting", "call"}
      /\ \A b \in Agents \ {a} : /\ agent'[b] = agent[b] /\ ackPc'[b] = ackPc[b]
                                 /\ ackPtr'[b] = ackPtr[b]
      /\ ackPc'[a] = "idle"
  <2>1. /\ agent \in [Agents -> JobType]
        /\ ackPc \in [Agents -> AckStates] /\ ackPtr \in [Agents -> 0..Len(ackQueue)]
    BY AgentFacts
  <2>2. CASE NotAcknowledged(a)
    BY <2>1, <2>2 DEF NotAcknowledged, At, Becomes, LeaveQueue, AckGoes
  <2>3. CASE TellError(a)
    BY <2>1, <2>3 DEF TellError, At, Becomes, ackVars, AnswersInv, RolesInv, Uses
  <2>4. CASE FinishAnswer(a)
    BY <2>1, <2>4 DEF FinishAnswer, At, Becomes, AddDone, AckGoes
  <2> QED
    BY <2>2, <2>3, <2>4
<1>2. PICK mine \in Requests : mine = agent[a].req
  BY <1>1, AgentFacts
<1>3. CASE NotAcknowledged(a)
  <2>1. /\ result' = result /\ Requests' = Requests
        /\ agent[a].at = "waiting"
        /\ agent'[a] = Job("aborting", mine, agent[a].phase, ReplyCount)
    BY <1>2, <1>3, AgentFacts DEF NotAcknowledged, At, Becomes, Requests
  <2>2. \A b \in Agents : /\ agent'[b].at \in Owning <=> agent[b].at \in Owning
                          /\ agent'[b].req = agent[b].req
    BY <1>1, <1>2, <2>1 DEF Job, Owning
  <2>3. OwnersInv'
    BY <2>1, <2>2 DEF AnswersInv, OwnersInv
  <2>4. agent'[a].at \notin {"asking", "waiting", "call"}
    BY <2>1 DEF Job
  <2> QED
    BY <1>1, <2>1, <2>3, <2>4, LeavingKeeps
<1>4. CASE TellError(a)
  <2>1. /\ Requests' = Requests /\ agent[a].at = "aborting"
        /\ agent'[a] = Session
        /\ result' = [result EXCEPT ![mine] = "error"]
    BY <1>2, <1>4, AgentFacts DEF TellError, At, Becomes, Requests
  <2>2. /\ result'[mine] = "error"
        /\ \A r \in Requests : r # mine => result'[r] = result[r]
    BY <2>1 DEF Requests
  <2>3. agent'[a].at \notin Owning /\ agent[a].at \in Owning
        /\ agent'[a].at \notin {"asking", "waiting", "call"}
    BY <2>1 DEF Session, Job, Owning
  <2>4. ASSUME NEW b \in Agents, agent'[b].at \in Owning
        PROVE  /\ b # a /\ agent'[b] = agent[b] /\ agent[b].req # mine
               /\ agent[b].req \in Requests
    <3>1. b # a /\ agent'[b] = agent[b]
      BY <1>1, <2>3, <2>4
    <3>2. agent[b].req # mine
      BY <1>2, <2>3, <2>4, <3>1 DEF AnswersInv, OwnersInv
    <3> QED
      BY <2>4, <3>1, <3>2, AgentFacts DEF Owning
  <2>5. ASSUME NEW b \in Agents, agent'[b].at \in Owning
        PROVE  /\ result'[agent'[b].req] = "open"
               /\ \A c \in Agents :
                     agent'[c].at \in Owning /\ agent'[c].req = agent'[b].req => b = c
    BY <2>2, <2>4, <2>5 DEF AnswersInv, OwnersInv
  <2>6. ASSUME NEW r \in Requests, result'[r] = "open"
        PROVE  \E b \in Agents : agent'[b].at \in Owning /\ agent'[b].req = r
    <3>1. r # mine /\ result[r] = "open"
      BY <2>2, <2>6
    <3>2. PICK b \in Agents : agent[b].at \in Owning /\ agent[b].req = r
      BY <3>1 DEF AnswersInv, OwnersInv
    <3> QED
      BY <1>1, <1>2, <3>1, <3>2
  <2>7. OwnersInv'
    BY <2>1, <2>5, <2>6 DEF OwnersInv
  <2> QED
    BY <1>1, <2>1, <2>2, <2>3, <2>7, LeavingKeeps
<1>5. CASE FinishAnswer(a)
  <2>1. /\ result' = result /\ Requests' = Requests
        /\ agent[a].at = "call" /\ agent'[a] = Free
    BY <1>5, AgentFacts DEF FinishAnswer, At, Becomes, Requests
  <2>2. \A b \in Agents : \/ agent'[b] = agent[b]
                          \/ agent[b].at \notin Owning /\ agent'[b].at \notin Owning
    BY <1>1, <2>1 DEF Free, Job, Owning
  <2>3. OwnersInv'
    BY <2>1, <2>2 DEF AnswersInv, OwnersInv
  <2>4. agent'[a].at \notin {"asking", "waiting", "call"}
    BY <2>1 DEF Free, Job
  <2> QED
    BY <1>1, <2>1, <2>3, <2>4, LeavingKeeps
<1> QED
  BY <1>3, <1>4, <1>5

\* An answer to come becomes an answer in the queue.
LEMMA AddKeeps ==
    ASSUME Known, AnswersInv, NEW a \in Agents, AddTheAnswer(a)
    PROVE  AnswersInv'
<1>1. PICK mine \in Requests, p \in {1, 2} : mine = agent[a].req /\ p = agent[a].phase
  BY AgentFacts DEF AddTheAnswer, At
<1>2. PICK ok \in BOOLEAN : AddAnswer(a, [req |-> mine, phase |-> p, ok |-> ok])
  BY <1>1 DEF AddTheAnswer
<1> DEFINE answer == [req |-> mine, phase |-> p, ok |-> ok]
<1>3. answer \in Answer
  BY RequestFacts DEF Answer
<1>4. /\ UNCHANGED <<theMap, ackPtr, erased, broken>>
      /\ UNCHANGED <<content, agent, idOf, result, late>>
      /\ Requests' = Requests
      /\ agent[a].at = "call" /\ ackPc[a] = "found"
      /\ ackPc' = [ackPc EXCEPT ![a] = "pushed"]
  BY <1>2 DEF AddTheAnswer, At, AddAnswer, AckGoes, poolVars, Requests
<1>5. ackPc'[a] = "pushed" /\ \A b \in Agents \ {a} : ackPc'[b] = ackPc[b]
  BY <1>4, AgentFacts
<1>6. ASSUME NEW r \in Requests
      PROVE  /\ Shared(r)' <=> Shared(r)
             /\ r = mine => Collected(r)' = Append(Collected(r), answer)
             /\ r # mine /\ ~Shared(r) => Collected(r)' = Collected(r)
  <2>1. Shared(r)' <=> Shared(r)
    BY <1>4 DEF Shared
  <2> QED
    BY <1>1, <1>2, <1>3, <1>4, <2>1, CollectedAdd DEF AnswersInv
<1>7. Delivers(a, mine, p)
  BY <1>1, <1>4 DEF Delivers
<1>8. \A r, phase : ~Delivers(a, r, phase)'
  BY <1>5 DEF Delivers
<1>9. ASSUME NEW r PROVE NoMorePending(r)
  BY <1>4, <1>5, <1>8, SamePending DEF Known
<1>10. Pending(mine, p)' = Pending(mine, p) - 1 /\ Pending(mine, p) \in Nat
       /\ Pending(mine, p) # 0
  <2>1. Pending(mine, p)' = Pending(mine, p)
               + (IF Delivers(a, mine, p)' THEN 1 ELSE 0)
               - (IF Delivers(a, mine, p) THEN 1 ELSE 0)
    BY <1>4, <1>5, PendingTurns DEF Known
  <2>2. Pending(mine, p) # 0
    BY <1>7, NonePending DEF Known
  <2>3. Pending(mine, p) \in Nat
    BY PendingTyped DEF Known
  <2> QED
    BY <1>7, <1>8, <2>1, <2>2, <2>3
<1>11. RolesInv'
  BY <1>4, <1>5 DEF AnswersInv, RolesInv, Uses
<1>12. OwnersInv'
  BY <1>4 DEF AnswersInv, OwnersInv
<1>13. PointersInv'
  <2>1. \A b \in Agents : ackPc'[b] # "idle" => ackPc[b] # "idle"
    BY <1>4, <1>5
  <2> QED
    BY <1>4, <2>1 DEF AnswersInv, PointersInv
<1> HIDE DEF answer
<1>14. CollectsInv'
  <2> SUFFICES ASSUME NEW w \in Agents, NEW r \in Requests, NEW phase \in {1, 2},
                      ~Shared(r), agent[w].req = r, agent[w].phase = phase,
                      agent[w].at \in {"asking", "waiting"}
               PROVE  /\ Collects(w, r, phase)'
                      /\ agent[w].at = "waiting" => Sees(w, r)'
    BY <1>4, <1>6 DEF CollectsInv
  <2>1. Collects(w, r, phase) /\ (agent[w].at = "waiting" => Sees(w, r))
    BY DEF AnswersInv, CollectsInv
  <2>2. w # a
    BY <1>4
  <2>3. CASE r = mine
    <3>1. p = phase
      <4>1. Pending(r, 3 - phase) = 0
        BY <2>1 DEF Collects
      <4>2. p # 3 - phase
        BY <1>10, <2>3, <4>1
      <4> QED
        BY <4>2
    <3>2. /\ agent[w].left + Pending(r, phase) + Len(Collected(r)) <= ReplyCount
          /\ Pending(r, 3 - phase) = 0
      BY <2>1 DEF Collects
    <3>3. /\ Collected(r) \in Seq(Answer) /\ Len(Collected(r)) \in Nat
          /\ agent[w].left \in Nat /\ ReplyCount \in Nat
      BY RequestFacts, AgentFacts, ReplyCountNat
    <3>4. Pending(r, phase)' = Pending(r, phase) - 1 /\ Pending(r, phase) \in Nat
          /\ Pending(r, phase) # 0
      BY <1>10, <2>3, <3>1
    <3>5. Pending(r, 3 - phase)' = 0
      <4>1. Pending(r, 3 - phase)' \in 0..Pending(r, 3 - phase)
        BY <1>9 DEF NoMorePending
      <4> QED
        BY <3>2, <4>1
    <3>6. /\ Len(Collected(r)') = Len(Collected(r)) + 1
          /\ \A i \in 1..Len(Collected(r)') :
                Collected(r)'[i] = IF i <= Len(Collected(r)) THEN Collected(r)[i]
                                   ELSE answer
      BY <1>3, <1>6, <2>3, <3>3, AppendProperties DEF answer
    <3>7. agent'[w].left + Pending(r, phase)' + Len(Collected(r)') <= ReplyCount
      BY <1>4, <3>2, <3>3, <3>4, <3>6
    <3>8. \A i \in 1..Len(Collected(r)') :
              Collected(r)'[i].req = r /\ Collected(r)'[i].phase = phase
      <4>1. answer.req = r /\ answer.phase = phase
        BY <2>3, <3>1 DEF answer
      <4>2. \A i \in 1..Len(Collected(r)) :
              Collected(r)[i].req = r /\ Collected(r)[i].phase = phase
        BY <2>1 DEF Collects
      <4>3. ASSUME NEW i \in 1..Len(Collected(r)')
            PROVE  Collected(r)'[i].req = r /\ Collected(r)'[i].phase = phase
        <5>1. CASE i <= Len(Collected(r))
          BY <3>3, <3>6, <4>2, <5>1
        <5>2. CASE ~(i <= Len(Collected(r)))
          BY <3>6, <4>1, <5>2
        <5> QED
          BY <5>1, <5>2
      <4> QED
        BY <4>3
    <3>9. Collects(w, r, phase)'
      BY <3>5, <3>7, <3>8 DEF Collects
    <3>10. ASSUME agent[w].at = "waiting" PROVE Sees(w, r)'
      <4>1. Sees(w, r) /\ ~(Len(Collected(r)) >= ReplyCount)
        BY <2>1, <3>2, <3>3, <3>4, <3>10
      <4>2. ackPc'[w] \notin {"counted", "looked", "succeeded"}
        BY <1>5, <2>2, <4>1 DEF Sees
      <4> QED
        BY <1>4, <4>1, <4>2 DEF Sees
    <3> QED
      BY <3>9, <3>10
  <2>4. CASE r # mine
    <3>1. Collected(r)' = Collected(r)
      BY <1>6, <2>4
    <3>2. Collects(w, r, phase)'
      BY <1>4, <1>9, <2>1, <3>1, CollectsKept
    <3>3. ASSUME agent[w].at = "waiting" PROVE Sees(w, r)'
      <4>1. Sees(w, r) /\ ackPtr[w] = theMap[idOf[r]]
        BY <2>1, <3>3 DEF Sees
      <4>2. ackPtr[a] # ackPtr[w]
        BY <1>1, <1>4, <2>4, <4>1, QueueOfRequest DEF AnswersInv
      <4> QED
        BY <1>4, <1>5, <2>2, <3>1, <4>1, <4>2, SeesKept
    <3> QED
      BY <3>2, <3>3
  <2> QED
    BY <2>3, <2>4
<1>15. GoneInv'
  <2> SUFFICES ASSUME NEW r \in Requests, ~Shared(r), result[r] = "wrote"
               PROVE  Gone(r)'
    BY <1>4, <1>6 DEF GoneInv
  <2>1. Gone(r) /\ NoMorePending(r)
    BY <1>9 DEF AnswersInv, GoneInv
  <2> QED
    BY <1>4, <2>1 DEF Gone, NoMorePending
<1>16. SoundInv'
  <2>1. Sound' => Sound
    BY <1>4, <1>6 DEF Sound
  <2>2. \A b \in Agents : ackPc'[b] # "idle" => ackPc[b] # "idle"
    BY <1>4, <1>5
  <2> QED
    BY <1>4, <2>1, <2>2 DEF AnswersInv, SoundInv
<1> QED
  BY <1>11, <1>12, <1>13, <1>14, <1>15, <1>16 DEF AnswersInv

-----------------------------------------------------------------------------

LEMMA AnswersNext ==
    ASSUME Known, Known', AnswersInv, [PoolNext]_allVars
    PROVE  AnswersInv'
<1>1. CASE Aside
  BY <1>1, AsideKeeps
<1>2. CASE UNCHANGED allVars
  <2>1. UNCHANGED <<ackVars, poolVars>>
    BY <1>2 DEF allVars
  <2> QED
    BY <1>1, <2>1, SameAside DEF Known
<1>3. ASSUME NEW t \in Threads, SignalAdded(t) PROVE AnswersInv'
  <2>1. UNCHANGED <<ackVars, poolVars>>
    BY <1>3 DEF SignalAdded
  <2> QED
    BY <1>1, <2>1, SameAside DEF Known
<1>4. ASSUME NEW t \in Threads, NEW c \in Clients, Connect(t, c) PROVE AnswersInv'
  BY <1>1, <1>4, ConnectAside DEF Known
<1>5. ASSUME NEW a \in Agents,
             GetEntry(a) \/ Wakeup(a) \/ Leave(a) \/ PeerHalts(a)
      PROVE  AnswersInv'
  <2>1. CASE GetEntry(a)
    BY <1>1, <2>1, GetAside DEF AnswersInv
  <2>2. CASE Wakeup(a)
    <3>1. UNCHANGED <<ackVars, poolVars>>
      BY <2>2 DEF Wakeup
    <3> QED
      BY <1>1, <3>1, SameAside DEF Known
  <2>3. CASE Leave(a) \/ PeerHalts(a)
    BY <1>1, <2>3, EndAside DEF AnswersInv
  <2> QED
    BY <1>5, <2>1, <2>2, <2>3
<1>6. ASSUME NEW a \in Agents, NEW id \in MessageIds, Command(a, id)
      PROVE  AnswersInv'
  BY <1>6, CommandKeeps
<1>7. ASSUME NEW a \in Agents, SessionStep(a) PROVE AnswersInv'
  BY <1>7, BroadcastKeeps, AskKeeps, AwaitKeeps, AcknowledgedKeeps, LeaveKeeps
     DEF SessionStep
<1>8. ASSUME NEW a \in Agents, DeliveryStep(a) PROVE AnswersInv'
  <2>1. CASE DeliverInVain(a)
    BY <1>1, <2>1, EndAside DEF AnswersInv
  <2> QED
    BY <1>8, <2>1, AskKeeps, AddKeeps, LeaveKeeps DEF DeliveryStep
<1>9. ASSUME NEW a \in Agents, Crash(a) PROVE AnswersInv'
  BY <1>1, <1>9, CrashAside DEF AnswersInv
<1> QED
  BY <1>2, <1>3, <1>4, <1>5, <1>6, <1>7, <1>8, <1>9 DEF PoolNext

LEMMA AnswersInit ==
    ASSUME PoolInit
    PROVE  AnswersInv
<1>1. /\ result = <<>> /\ idOf = <<>> /\ erased = {} /\ broken = FALSE
      /\ \A a \in Agents : ackPc[a] = "idle" /\ agent[a].at = "free"
      /\ \A id \in MessageIds : theMap[id] = 0
  BY PoolAssumption DEF PoolInit, AckInit, Free, Job
<1>2. Requests = {}
  BY <1>1 DEF Requests
<1>3. RolesInv
  BY <1>1 DEF RolesInv, Uses
<1>4. OwnersInv
  BY <1>1, <1>2 DEF OwnersInv, Owning
<1>5. PointersInv
  BY <1>1 DEF PointersInv
<1>6. CollectsInv /\ GoneInv
  BY <1>2 DEF CollectsInv, GoneInv
<1>7. SoundInv
  BY <1>1 DEF SoundInv
<1> QED
  BY <1>3, <1>4, <1>5, <1>6, <1>7 DEF AnswersInv

\* The inductive invariant of the answers, for any agents, peers, ids and
\* requests, with answers and time-outs at any moment.
THEOREM AnswersAlways == PoolSpec => [](Known /\ AnswersInv)
<1>1. PoolSpec => []Known
  BY PoolTypedAlways, AckInvAlways, PTL DEF Known
<1>2. PoolInit => AnswersInv
  BY AnswersInit
<1>3. Known /\ Known' /\ AnswersInv /\ [PoolNext]_allVars => AnswersInv'
  BY AnswersNext
<1> QED
  BY <1>1, <1>2, <1>3, PTL DEF PoolSpec

\* A phase that goes on has one positive answer of its own from each peer, and
\* no other, however the peers' answers and the time-outs fall, unless its id
\* was used by another request.
THEOREM AnswersAreOwn == PoolSpec => []OwnAnswers
<1>1. Known /\ AnswersInv => OwnAnswers
  <2> SUFFICES ASSUME Known, AnswersInv, NEW a \in Agents,
                      ackPc[a] = "succeeded", ~Shared(agent[a].req)
               PROVE  /\ Len(Answers(a)) = ReplyCount
                      /\ \A i \in DOMAIN Answers(a) :
                            Answers(a)[i] = [req |-> agent[a].req,
                                             phase |-> agent[a].phase, ok |-> TRUE]
    BY DEF OwnAnswers
  <2>1. agent[a].at = "waiting" /\ ackPtr[a] # 0
    BY DEF AnswersInv, RolesInv, Uses
  <2>2. PICK r \in Requests, p \in {1, 2} : r = agent[a].req /\ p = agent[a].phase
    BY <2>1, AgentFacts
  <2>3. Collects(a, r, p) /\ Sees(a, r)
    BY <2>1, <2>2 DEF AnswersInv, CollectsInv
  <2>4. Answers(a) = Collected(r)
    BY <2>1, <2>3 DEF Answers, Collected, Sees
  <2>5. Len(Collected(r)) = ReplyCount
    BY <2>1, <2>2, NoneToCome
  <2>6. ASSUME NEW i \in 1..Len(Collected(r))
        PROVE  Collected(r)[i] = [req |-> r, phase |-> p, ok |-> TRUE]
    <3>1. Collected(r)[i] \in Answer
      BY RequestFacts
    <3>2. /\ Collected(r)[i].req = r /\ Collected(r)[i].phase = p
          /\ Collected(r)[i].ok
      BY <2>3 DEF Collects, Sees
    <3> QED
      BY <3>1, <3>2 DEF Answer
  <2>7. DOMAIN Collected(r) = 1..Len(Collected(r))
    BY RequestFacts
  <2> QED
    BY <2>2, <2>4, <2>5, <2>6, <2>7
<1> QED
  BY <1>1, AnswersAlways, PTL

\* No agent uses an erased queue unless two requests had one id, or an answer
\* came between the time-out of a wait and its second look.
THEOREM BreaksOnlySo == PoolSpec => []BreaksOnlyIf
<1>1. AnswersInv => BreaksOnlyIf
  BY DEF AnswersInv, SoundInv, Sound, BreaksOnlyIf
<1> QED
  BY <1>1, AnswersAlways, PTL

\* A request that succeeded leaves no queue behind, nor an answer that could
\* make one, unless another request shared its id.
THEOREM LeftoversOfFailures == PoolSpec => []LeftoversOnlyOfFailures
<1>1. Known /\ AnswersInv => LeftoversOnlyOfFailures
  <2> SUFFICES ASSUME Known, AnswersInv,
                      \A a \in Agents : agent[a] \in {Free, Session, Blocked},
                      NEW id \in MessageIds, theMap[id] # 0
               PROVE  \E r \in Requests :
                          idOf[r] = id /\ (result[r] = "error" \/ Shared(r))
    BY DEF LeftoversOnlyOfFailures
  <2>1. PICK r \in Requests : idOf[r] = id
    BY DEF AnswersInv, PointersInv
  <2>2. result[r] # "open"
    BY DEF AnswersInv, OwnersInv, Owning, Free, Session, Blocked, Job
  <2>3. result[r] # "wrote" \/ Shared(r)
    BY <2>1 DEF AnswersInv, GoneInv, Gone
  <2>4. result[r] \in {"open", "wrote", "error"}
    BY DEF Known, PoolTyped, RequestsTyped, Requests
  <2> QED
    BY <2>1, <2>2, <2>3, <2>4
<1> QED
  BY <1>1, AnswersAlways, PTL

=============================================================================
