----------------------------- MODULE ThreadPool -----------------------------
(***************************************************************************)
(* The agents of the b-port pool: each takes an entry of the connection    *)
(* queue and either serves that client until it leaves, or sends that      *)
(* broadcast command to a peer and adds the answer to the acknowledge      *)
(* queue of its message id.  A WRITE or REPLACE waits, inside the client's *)
(* session, for answers that other agents of the same pool must bring.     *)
(* This composes ConnectionQueue and AcknowledgeQueue.                     *)
(***************************************************************************)
EXTENDS ConnectionQueue, AcknowledgeQueue

CONSTANTS
    Clients,      \* those who connect, once each
    MaxRequests   \* bound on the number of WRITE and REPLACE commands

ASSUME PoolAssumption ==
    /\ Callers = Agents
    /\ MaxRequests \in Nat

VARIABLES
    content,     \* what the entries of the connection queue are, in its order
    agent,       \* agent[a]: what a is doing
    connected,   \* the clients that have connected
    idOf,        \* idOf[r]: the message id of request r
    result,      \* result[r]: what became of request r
    late         \* the requests that timed out and then saw enough answers

poolVars == <<content, agent, connected, idOf, result, late>>
allVars  == <<vars, ackVars, poolVars>>

Requests == DOMAIN result

ClientEntry(c) == [type |-> "client", client |-> c]

\* The broadcast of a phase (PRECOMMIT is 1, COMMIT 2), or of UNSUCCESSFUL.
BroadcastEntry(type, job) ==
    [type |-> type, req |-> job.req, phase |-> job.phase]

\* req, phase: the request at hand; left: broadcasts still to be added.
Job(at, req, phase, left) ==
    [at |-> at, req |-> req, phase |-> phase, left |-> left]

Free    == Job("free", 0, 0, 0)
Session == Job("session", 0, 0, 0)
Blocked == Job("blocked", 0, 0, 0)

PoolInit ==
    /\ Init
    /\ AckInit
    /\ content = <<>>
    /\ agent = [a \in Agents |-> Free]
    /\ connected = {}
    /\ idOf = <<>>
    /\ result = <<>>
    /\ late = {}

-----------------------------------------------------------------------------
(* The connection queue. *)

\* add(entry), up to its signal.
Add(t, entry) ==
    /\ ~broken
    /\ Push(t)
    /\ content' = Append(content, entry)

\* A listener passes on a client.
Connect(t, c) ==
    /\ t \in Threads \ Agents
    /\ c \notin connected
    /\ Add(t, ClientEntry(c))
    /\ connected' = connected \cup {c}
    /\ UNCHANGED <<ackVars, agent, idOf, result, late>>

\* What thread_main does with the entry it got.
Dispatch(entry) ==
    IF entry.type = "client" THEN Session
    ELSE Job(entry.type, entry.req, entry.phase, 0)

GetEntry(a) ==
    /\ ~broken
    /\ agent[a] = Free
    /\ Get(a) \/ Resume(a)
    /\ IF connectionQueue = <<>>
       THEN UNCHANGED <<agent, content>>
       ELSE /\ agent' = [agent EXCEPT ![a] = Dispatch(Head(content))]
            /\ content' = Tail(content)
    /\ UNCHANGED <<ackVars, connected, idOf, result, late>>

SignalAdded(t) == ~broken /\ Signal(t) /\ UNCHANGED <<ackVars, poolVars>>

Wakeup(a) == ~broken /\ SpuriousWakeup(a) /\ UNCHANGED <<ackVars, poolVars>>

-----------------------------------------------------------------------------
(* A client's session: process(pool, socket). *)

\* The process runs, and a is at that place and not inside add().
At(a, place) == ~broken /\ agent[a].at = place /\ pc[a] = "out"

Becomes(a, job) == agent' = [agent EXCEPT ![a] = job]

\* The client is silent for ever, or leaves: QUIT, end of file, BYE, or a
\* command that fails to execute.
Leave(a) ==
    /\ At(a, "session")
    /\ Becomes(a, Free)
    /\ UNCHANGED <<vars, ackVars, content, connected, idOf, result, late>>

\* A WRITE, with a new id, or a REPLACE, with any.
Command(a, id) ==
    /\ At(a, "session")
    /\ Len(result) < MaxRequests
    /\ idOf' = Append(idOf, id)
    /\ result' = Append(result, "open")
    /\ Becomes(a, Job("asking", Len(result) + 1, 1, ReplyCount))
    /\ UNCHANGED <<vars, ackVars, content, connected, late>>

\* Deviation: one broadcast command too many.
BroadcastOnceMore(a) ==
    /\ agent[a].at \in {"asking", "aborting"}
    /\ agent[a].left >= 0
    /\ Add(a, BroadcastEntry(IF agent[a].at = "asking" THEN "call" ELSE "abort",
                             agent[a]))
    /\ agent' = [agent EXCEPT ![a].left = @ - 1]
    /\ UNCHANGED <<ackVars, connected, idOf, result, late>>

\* One broadcast command per peer, of a phase or of UNSUCCESSFUL.
Broadcast(a) ==
    /\ agent[a].at \in {"asking", "aborting"}
    /\ agent[a].left > 0
    /\ Add(a, BroadcastEntry(IF agent[a].at = "asking" THEN "call" ELSE "abort",
                             agent[a]))
    /\ agent' = [agent EXCEPT ![a].left = @ - 1]
    /\ UNCHANGED <<ackVars, connected, idOf, result, late>>

\* broadcast_synchronous turns to the queue of its id ...
AskTheOne(a) ==
    /\ At(a, "asking") /\ agent[a].left = 0
    /\ TheOneToCheck(a, idOf[agent[a].req])
    /\ agent' = [agent EXCEPT ![a].at = "waiting"]
    /\ UNCHANGED <<vars, content, connected, idOf, result, late>>

\* ... and waits in check_success.
Await(a) ==
    /\ At(a, "waiting")
    /\ CheckStep(a)
    /\ late' = IF ackPc[a] = "timedOut" /\ ackPc'[a] = "looked"
               THEN late \cup {agent[a].req} ELSE late
    /\ UNCHANGED <<vars, content, agent, connected, idOf, result>>

\* All peers acknowledged: the next phase, or the end of the command.
Acknowledged(a) ==
    /\ At(a, "waiting")
    /\ Erase(a, idOf[agent[a].req])
    /\ IF agent[a].phase = 1
       THEN Becomes(a, Job("asking", agent[a].req, 2, ReplyCount)) /\ UNCHANGED result
       ELSE Becomes(a, Session) /\ result' = [result EXCEPT ![agent[a].req] = "wrote"]
    /\ UNCHANGED <<vars, content, connected, idOf, late>>

\* The catch block broadcasts UNSUCCESSFUL ...
NotAcknowledged(a) ==
    /\ At(a, "waiting")
    /\ LeaveQueue(a)
    /\ Becomes(a, Job("aborting", agent[a].req, agent[a].phase, ReplyCount))
    /\ UNCHANGED <<vars, content, connected, idOf, result, late>>

\* ... and tells the client.
TellError(a) ==
    /\ At(a, "aborting") /\ agent[a].left = 0
    /\ Becomes(a, Session)
    /\ result' = [result EXCEPT ![agent[a].req] = "error"]
    /\ UNCHANGED <<vars, ackVars, content, connected, idOf, late>>

-----------------------------------------------------------------------------
(* A broadcast command: process(pool, command). *)

\* No connection, a connection that ends, a time-out of wait_for, or no answer
\* due (UNSUCCESSFUL).
DeliverInVain(a) ==
    /\ At(a, "call") \/ At(a, "abort")
    /\ ackPc[a] = "idle"
    /\ Becomes(a, Free)
    /\ UNCHANGED <<vars, ackVars, content, connected, idOf, result, late>>

\* The line of the welcome and the ACK of PRECOMMIT are read by fgets, which
\* has no time-out: a peer that is halted and whose connection stands keeps the
\* agent for ever.  (One that goes on in the end is a delivery that takes long.)
PeerHalts(a) ==
    /\ At(a, "call") \/ At(a, "abort")
    /\ ackPc[a] = "idle"
    /\ Becomes(a, Blocked)
    /\ UNCHANGED <<vars, ackVars, content, connected, idOf, result, late>>

\* The answer's command object looks for the queue of its id.
ReceiveAnswer(a) ==
    /\ At(a, "call")
    /\ TheOneToAdd(a, idOf[agent[a].req])
    /\ UNCHANGED <<vars, poolVars>>

\* PRECOMMIT is always answered positively.
AddTheAnswer(a) ==
    /\ At(a, "call")
    /\ \E ok \in {TRUE, agent[a].phase = 1} :
          AddAnswer(a, [req |-> agent[a].req, phase |-> agent[a].phase, ok |-> ok])
    /\ UNCHANGED <<vars, poolVars>>

FinishAnswer(a) ==
    /\ At(a, "call")
    /\ AddDone(a)
    /\ Becomes(a, Free)
    /\ UNCHANGED <<vars, content, connected, idOf, result, late>>

\* The process is in an undefined state, and the model ends there.
Crash(a) == ~broken /\ UseErased(a) /\ UNCHANGED <<vars, poolVars>>

-----------------------------------------------------------------------------

SessionStep(a) ==
    \/ Broadcast(a) \/ AskTheOne(a) \/ Await(a)
    \/ Acknowledged(a) \/ NotAcknowledged(a) \/ TellError(a)

DeliveryStep(a) ==
    DeliverInVain(a) \/ ReceiveAnswer(a) \/ AddTheAnswer(a) \/ FinishAnswer(a)

PoolNext ==
    \/ \E t \in Threads : SignalAdded(t) \/ \E c \in Clients : Connect(t, c)
    \/ \E a \in Agents :
          \/ GetEntry(a) \/ Wakeup(a) \/ Leave(a) \/ PeerHalts(a)
          \/ \E id \in MessageIds : Command(a, id)
          \/ SessionStep(a) \/ DeliveryStep(a) \/ Crash(a)

AgentStep(a) ==
    SignalAdded(a) \/ GetEntry(a) \/ SessionStep(a) \/ DeliveryStep(a) \/ Crash(a)

\* An agent that can step goes on with what it does, one that is free looks for
\* work, and a listener finishes its add().  Clients may be silent for ever, and
\* a delivery may become one whose peer has halted: no step of that is fair.
PoolFairness ==
    /\ \A a \in Agents : WF_allVars(AgentStep(a))
    /\ \A l \in Threads \ Agents : WF_allVars(SignalAdded(l))

PoolSpec == PoolInit /\ [][PoolNext]_allVars

FairPoolSpec == PoolSpec /\ PoolFairness

-----------------------------------------------------------------------------
(* Properties. *)

PoolTypeOK ==
    /\ content \in Seq([type : {"client"}, client : Clients]
                       \cup [type : {"call", "abort"}, req : Nat, phase : {1, 2}])
    /\ Len(content) = Len(connectionQueue)
    /\ agent \in [Agents -> [at : {"free", "session", "asking", "waiting",
                                   "aborting", "call", "abort", "blocked"},
                             req : Nat, phase : 0..2, left : 0..ReplyCount]]
    /\ connected \subseteq Clients
    /\ idOf \in Seq(MessageIds)
    /\ result \in Seq({"open", "wrote", "error"})
    /\ Len(idOf) = Len(result)
    /\ Len(result) <= MaxRequests
    /\ late \subseteq Requests

\* Another request uses the same message id.
Shared(r) == \E q \in Requests : q # r /\ idOf[q] = idOf[r]

\* A phase that goes on has its own answers, one of each peer and all
\* positive, unless another request used the same message id: a late answer
\* that the second look of check_success sees without the mutex is one of
\* them, and answers of the first phase are never counted in the second.
OwnAnswers ==
    \A a \in Agents :
        ackPc[a] = "succeeded" /\ ~Shared(agent[a].req) =>
            /\ Len(Answers(a)) = ReplyCount
            /\ \A i \in DOMAIN Answers(a) :
                  Answers(a)[i] = [req |-> agent[a].req, phase |-> agent[a].phase,
                                   ok |-> TRUE]

\* A queue is erased under the hands of another agent only when two requests
\* share its id, or when an answer came between the time-out of the wait and
\* the second look: an agent that is still inside add() then is the one way a
\* single request can break the server.
BreaksOnlyIf ==
    broken => late # {} \/ \E r \in Requests : Shared(r)

\* Once no request is open and no answer on its way, a queue is left in the map
\* only under the id of a request that failed, or under one that two requests
\* have used: the answers that one of these did not wait for make a new queue.
LeftoversOnlyOfFailures ==
    (connectionQueue = <<>> /\ \A a \in Agents : agent[a] \in {Free, Session, Blocked}) =>
        \A id \in MessageIds : theMap[id] # 0 =>
            \E r \in Requests :
                idOf[r] = id /\ (result[r] = "error" \/ Shared(r))

\* Every request ends, even when all agents wait for broadcasts that only
\* they could send, while silent clients and halted peers hold the rest: again
\* and again no request is open.
RequestsEnd == []<>(broken \/ \A r \in Requests : result[r] # "open")

\* Every agent serves a client that says nothing, or waits for a halted peer.
AllHeld == \A a \in Agents : agent[a] \in {Session, Blocked}

\* The queue is emptied again and again, by the agents that are left, unless
\* silent clients and halted peers come to hold all of them for ever.
EntriesServed == []<>~AllHeld => []<>(broken \/ connectionQueue = <<>>)

=============================================================================
