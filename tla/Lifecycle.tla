------------------------------ MODULE Lifecycle ------------------------------
(***************************************************************************)
(* Start, reload and end of a server: main(), configure(), reinit() and    *)
(* the signal handler, the agents of the two pools and the two listeners,  *)
(* and the two acknowledge queues in which they report that they ended.    *)
(*                                                                         *)
(* A generation is what one configure() makes: pool and listener of the    *)
(* s-port ("s") and of the b-port ("b").  The threads are detached: reinit *)
(* deletes the objects whether or not their threads have ended, and what a *)
(* thread does with a deleted object is undefined.                         *)
(***************************************************************************)
EXTENDS Config, FiniteSets

CONSTANTS
    MaxTmax,         \* the largest number of agents that is configured
    MaxGenerations   \* bound on the number of configure()s

ASSUME LifecycleAssumption ==
    /\ MaxTmax \in Nat
    /\ MaxGenerations \in Nat \ {0}

Ports == {"s", "b"}

Generations == 1..MaxGenerations

\* Pool and listener of each generation and port, and the pools' agents.
Objects  == Generations \X Ports
AgentIds == Generations \X Ports \X (1..MaxTmax)

VARIABLES
    main,      \* the main thread: its step and port, why, and its generation
    fate,      \* of the process
    pool,      \* pool[o]: whether it exists, its flag, the StopIds in its queue
    listener,  \* listener[o]: whether it exists, and its flag
    agent,     \* agent[a]: its state, and the pool it works for
    ear,       \* ear[o]: the same of the thread of listener o
    poolAnswers,   \* the length of the queue of StopPoolId
    listenAnswers  \* the length of the queue of the listeners' StopId

agentVars == <<agent, poolAnswers>>
earVars   == <<ear, listenAnswers>>
lifeVars  == <<main, fate, pool, listener, agentVars, earVars>>

Tmax == config.value["tmax"]

\* The object that the main thread is at.
Current == <<main.gen, main.port>>

PoolSize(p) == IF p = "s" THEN 1 ELSE Tmax

\* No object and no thread.
NoPools     == [o \in Objects |-> [exists |-> FALSE, run |-> FALSE, stopIds |-> 0]]
NoListeners == [o \in Objects |-> [exists |-> FALSE, run |-> FALSE]]
NoAgents    == [a \in AgentIds |-> [state |-> "none", of |-> <<a[1], a[2]>>]]
NoEars      == [o \in Objects |-> [state |-> "none", of |-> o]]

LifeInit ==
    /\ ConfigInit
    /\ main = [at |-> "config", port |-> "s", why |-> "start", gen |-> 1, initialized |-> FALSE,
               timedOut |-> FALSE, nested |-> FALSE]
    /\ fate = "running"
    /\ pool = NoPools /\ listener = NoListeners
    /\ agent = NoAgents /\ ear = NoEars
    /\ poolAnswers = 0 /\ listenAnswers = 0

\* The process ends, and all its threads with it.
Ends(how) ==
    /\ fate' = how
    /\ main' = [main EXCEPT !.at = "ended", !.initialized = FALSE]
    /\ pool' = NoPools /\ listener' = NoListeners
    /\ agent' = NoAgents /\ ear' = NoEars
    /\ poolAnswers' = 0 /\ listenAnswers' = 0
    /\ UNCHANGED configVars

-----------------------------------------------------------------------------
(* main() and configure(). *)

\* main() reads the configuration (module Config), and the command line is
\* not looked at again.  An exception leads past configure() to the wait.
Start ==
    /\ main.at = "config"
    /\ phase \in {"configured", "unconfigured"}
    /\ main' = [main EXCEPT !.at = IF phase = "configured" THEN "fork" ELSE "waiting"]
    /\ phase' = IF phase = "configured" THEN "started" ELSE phase
    /\ given' = [options |-> <<>>, arguments |-> <<>>]
    /\ file' = DefaultFile /\ lineno' = 1 /\ optind' = 1 /\ rescan' = FALSE
    /\ UNCHANGED <<config, fate, pool, listener, agentVars, earVars>>

\* The next step, for the same port.
Goes(from, to) ==
    /\ main.at = from
    /\ main' = [main EXCEPT !.at = to]

\* A daemon goes on in a child, which has no other thread.
Fork ==
    /\ main.at = "fork"
    /\ main' = [main EXCEPT !.at = "make pool", !.port = "s"]
    /\ IF config.value["daemon"] = 1
       THEN agent' = NoAgents /\ ear' = NoEars
       ELSE UNCHANGED <<agent, ear>>
    /\ UNCHANGED <<configVars, fate, pool, listener, poolAnswers, listenAnswers>>

\* A pool and its agents.
MakePool(p) ==
    /\ main.port = p
    /\ Goes("make pool", "make listener")
    /\ pool' = [pool EXCEPT ![<<main.gen, p>>] =
                   [exists |-> TRUE, run |-> TRUE, stopIds |-> 0]]
    /\ agent' = [a \in AgentIds |->
                    IF a[1] = main.gen /\ a[2] = p /\ a[3] <= PoolSize(p)
                    THEN [agent[a] EXCEPT !.state = "ready"] ELSE agent[a]]
    /\ UNCHANGED <<configVars, fate, listener, poolAnswers, earVars>>

\* Deviation: the server is initialized after the first listener.
MakeListenerEarly(p) ==
    LET o == <<main.gen, p>>
    IN  /\ main.at = "make listener" /\ main.port = p
        /\ main' = [main EXCEPT !.at = IF p = "s" THEN "make pool" ELSE "waiting",
                                !.port = "b", !.initialized = TRUE]
        /\ listener' = [listener EXCEPT ![o] = [exists |-> TRUE, run |-> TRUE]]
        /\ ear' = [ear EXCEPT ![o].state = "polling"]
        /\ UNCHANGED <<configVars, fate, pool, agentVars, listenAnswers>>

\* A listener and its thread; after the second the server is initialized.
MakeListener(p) ==
    LET o == <<main.gen, p>>
    IN  /\ main.at = "make listener" /\ main.port = p
        /\ main' = [main EXCEPT !.at = IF p = "s" THEN "make pool" ELSE "waiting",
                                !.port = "b", !.initialized = (p = "b")]
        /\ listener' = [listener EXCEPT ![o] = [exists |-> TRUE, run |-> TRUE]]
        /\ ear' = [ear EXCEPT ![o].state = "polling"]
        /\ UNCHANGED <<configVars, fate, pool, agentVars, listenAnswers>>

-----------------------------------------------------------------------------
(* The console and the signals. *)

Reinit(reason) ==
    main' = [main EXCEPT !.at = "stop pool", !.port = "s", !.why = reason,
                         !.initialized = FALSE, !.timedOut = FALSE,
                         !.nested = main.nested \/ main.at # "waiting"]

\* ENTER: main() stops the server and returns.
Enter ==
    /\ main.at = "waiting"
    /\ Reinit("enter")
    /\ UNCHANGED <<configVars, fate, pool, listener, agentVars, earVars>>

\* configure() installs the handlers before anything else.
Handled == phase = "started" /\ main.at # "ended"

\* The main thread is in the handler of a SIGHUP, which blocks the next one.
Reloading == main.why = "hup" /\ main.at # "waiting"

\* Deviation: a server that is not initialized is reloaded as well.
HupUnguarded ==
    /\ Handled /\ ~Reloading
    /\ main.gen < MaxGenerations
    /\ main' = [main EXCEPT !.at = "stop pool", !.port = "s", !.why = "hup",
                            !.initialized = FALSE, !.timedOut = FALSE]
    /\ UNCHANGED <<configVars, fate, pool, listener, agentVars, earVars>>

\* SIGHUP in the main thread; it is skipped unless the server is initialized.
Hup ==
    /\ Handled /\ ~Reloading
    /\ main.initialized
    /\ main.gen < MaxGenerations
    /\ Reinit("hup")
    /\ UNCHANGED <<configVars, fate, pool, listener, agentVars, earVars>>

\* A SIGHUP amid a reload goes to another thread.  It is skipped there too,
\* but a listener's poll() ends with an error, and nobody catches what the
\* listener throws then.
HupElsewhere ==
    /\ Handled /\ Reloading
    /\ \E o \in Objects : ear[o].state = "polling"
    /\ Ends("poll error")

\* SIGQUIT in the main thread, once.
Quit ==
    /\ Handled
    /\ main.why # "quit"
    /\ Reinit("quit")
    /\ UNCHANGED <<configVars, fate, pool, listener, agentVars, earVars>>

\* Amid a stop the main thread may hold a mutex that the handler of SIGQUIT
\* locks again.
QuitAmidStop ==
    /\ Handled
    /\ main.why # "quit"
    /\ main.at \in {"stop pool", "wait pool", "wait listener"}
    /\ main' = [main EXCEPT !.at = "ended", !.nested = TRUE]
    /\ fate' = "hangs"
    /\ UNCHANGED <<configVars, pool, listener, agentVars, earVars>>

-----------------------------------------------------------------------------
(* reinit(). *)

\* ThreadPool::stop(): the flag, and one StopId for each agent.
StopPool(p) ==
    LET o == <<main.gen, p>>
    IN  /\ main.port = p
        /\ Goes("stop pool", "wait pool")
        /\ pool[o].exists
        /\ pool' = [pool EXCEPT ![o].run = FALSE, ![o].stopIds = @ + PoolSize(p)]
        /\ UNCHANGED <<configVars, fate, listener, agentVars, earVars>>

\* InConnection::stop(): the flag; the socket is closed.
StopListener(p) ==
    LET o == <<main.gen, p>>
    IN  /\ main.port = p
        /\ Goes("stop listener", "wait listener")
        /\ listener[o].exists
        /\ listener' = [listener EXCEPT ![o].run = FALSE]
        /\ UNCHANGED <<configVars, fate, pool, agentVars, earVars>>

\* There is no such object.
StopNothing ==
    /\ \/ main.at = "stop pool" /\ ~pool[Current].exists
       \/ main.at = "stop listener" /\ ~listener[Current].exists
    /\ Ends("null pointer")

Waited(p, step, enough, next) ==
    /\ main.at = step /\ main.port = p
    /\ main' = [next EXCEPT !.timedOut = @ \/ ~enough]
    /\ UNCHANGED <<configVars, fate, pool, listener, agentVars, earVars>>

AfterPool == [main EXCEPT !.at = "stop listener"]

\* Deviation: the wait has no time-out.
WaitPoolForEver(p) ==
    /\ poolAnswers >= PoolSize(p)
    /\ Waited(p, "wait pool", TRUE, AfterPool)

\* Deviation: the wait is for one answer, whatever the pool's size.
WaitPoolForOne(p) ==
    Waited(p, "wait pool", poolAnswers >= 1, AfterPool)

\* check_success(size), on one queue that both pools and all generations
\* share and nobody erases: it succeeds or times out.
WaitPool(p) ==
    Waited(p, "wait pool", poolAnswers >= PoolSize(p), AfterPool)

\* check_success(1), on a queue that both listeners share.
WaitListener(p) ==
    Waited(p, "wait listener", listenAnswers >= 1,
           [main EXCEPT !.at = IF p = "s" THEN "stop pool" ELSE "reset",
                        !.port = "b"])

\* The objects are deleted and the peers forgotten.  The queues go with the
\* objects; who still uses one may find in it what was there.
Reset ==
    /\ Goes("reset", "sleep")
    /\ pool' = [o \in Objects |-> [pool[o] EXCEPT !.exists = FALSE]]
    /\ listener' = NoListeners
    /\ config' = [config EXCEPT !.peers = <<>>]
    /\ UNCHANGED <<given, file, lineno, optind, rescan, phase, fate, agentVars, earVars>>

\* After usleep: configure() again ...
Reconfigure ==
    /\ main.at = "sleep" /\ main.why = "hup"
    /\ main' = [main EXCEPT !.at = "fork", !.gen = @ + 1]
    /\ UNCHANGED <<configVars, fate, pool, listener, agentVars, earVars>>

\* ... or the end.
Exit ==
    /\ main.at = "sleep" /\ main.why \in {"enter", "quit"}
    /\ Ends("exited")

MainStep ==
    \/ Start \/ Fork \/ StopNothing \/ Reset \/ Reconfigure \/ Exit
    \/ \E p \in Ports : \/ MakePool(p) \/ MakeListener(p)
                        \/ StopPool(p) \/ WaitPool(p)
                        \/ StopListener(p) \/ WaitListener(p)

-----------------------------------------------------------------------------
(* The agents: thread_main of ThreadPool.cpp. *)

\* A client comes, or a broadcast, before the StopIds in the queue.
Serve(a) ==
    /\ agent[a].state = "ready"
    /\ pool[agent[a].of].exists /\ pool[agent[a].of].run
    /\ agent' = [agent EXCEPT ![a].state = "busy"]
    /\ UNCHANGED <<configVars, main, fate, pool, listener, poolAnswers, earVars>>

\* The agent is done with what it got, if it was a session, or got a StopId,
\* which is no socket.  A client may keep its agent as long as it likes.
Done(a) ==
    \/ agent[a].state = "busy" /\ UNCHANGED pool
    \/ /\ agent[a].state = "ready" /\ pool[agent[a].of].stopIds > 0
       /\ pool' = [pool EXCEPT ![agent[a].of].stopIds = @ - 1]

\* The agent's pool says no, or was deleted and may say anything.
AgentLeaves(a) ==
    /\ Done(a)
    /\ ~(pool[agent[a].of].exists /\ pool[agent[a].of].run)
    /\ agent' = [agent EXCEPT ![a].state = "gone"]
    /\ poolAnswers' = poolAnswers + 1
    /\ UNCHANGED <<configVars, main, fate, listener, earVars>>

\* It says yes; the memory of a deleted one may be that of a pool made since.
AgentGoesOn(a) ==
    /\ Done(a)
    /\ \E o \in Objects :
           /\ pool[o].exists /\ (pool[o].run \/ o # agent[a].of)
           /\ pool[agent[a].of].exists => o = agent[a].of
           /\ agent' = [agent EXCEPT ![a] = [state |-> "ready", of |-> o]]
    /\ UNCHANGED <<configVars, main, fate, listener, poolAnswers, earVars>>

\* A thread uses a deleted object, and the process ends.
UseDeleted ==
    /\ \/ \E a \in AgentIds :
              /\ ~pool[agent[a].of].exists
              /\ \/ agent[a].state = "busy"
                 \/ agent[a].state = "ready" /\ pool[agent[a].of].stopIds > 0
       \/ \E o \in Objects :
              ear[o].state = "polling" /\ ~listener[ear[o].of].exists
    /\ Ends("deleted object")

-----------------------------------------------------------------------------
(* The listeners: listen_for_clients(). *)

\* poll() times out or finds its socket closed, and the flag is reset or was
\* deleted; or accept() fails, after which a listener ends for good.
EarLeaves(o) ==
    /\ ear[o].state = "polling"
    /\ ear' = [ear EXCEPT ![o].state = "gone"]
    /\ listenAnswers' = listenAnswers + 1
    /\ UNCHANGED <<configVars, main, fate, pool, listener, agentVars>>

\* The memory of the deleted listener is that of one made since.
EarGoesOn(o) ==
    /\ ear[o].state = "polling"
    /\ ~listener[ear[o].of].exists
    /\ \E n \in Objects : /\ listener[n].exists
                          /\ ear' = [ear EXCEPT ![o].of = n]
    /\ UNCHANGED <<configVars, main, fate, pool, listener, agentVars, listenAnswers>>

-----------------------------------------------------------------------------

ConfigStep == ConfigNext /\ UNCHANGED lifeVars

ThreadStep ==
    \/ \E a \in AgentIds : Serve(a) \/ AgentLeaves(a) \/ AgentGoesOn(a)
    \/ \E o \in Objects : EarLeaves(o) \/ EarGoesOn(o)
    \/ UseDeleted

Signal == Hup \/ HupElsewhere \/ Quit \/ QuitAmidStop

LifeNext == ConfigStep \/ MainStep \/ Enter \/ Signal \/ ThreadStep

\* The main thread runs on.  Nothing is assumed of the other threads: the
\* waits for them have time-outs.
LifeFairness == WF_<<configVars, lifeVars>>(ConfigStep \/ MainStep)

LifeSpec ==
    /\ LifeInit /\ [][LifeNext]_<<configVars, lifeVars>>
    /\ LifeFairness

-----------------------------------------------------------------------------
(* Properties. *)

Exists(o) == pool[o].exists /\ listener[o].exists

\* The type invariant.  The flag initialized is set only while there are two
\* pools and two listeners, and those are of the current generation.
LifeTypeOK ==
    /\ main.gen \in Generations
    /\ main.why \in {"start", "hup", "quit", "enter"}
    /\ main.initialized => \A p \in Ports : Exists(<<main.gen, p>>)
    /\ \A o \in Objects : Exists(o) => o[1] = main.gen
    /\ pool \in [Objects -> [exists : BOOLEAN, run : BOOLEAN, stopIds : Nat]]
    /\ listener \in [Objects -> [exists : BOOLEAN, run : BOOLEAN]]
    /\ agent \in [AgentIds -> [state : {"none", "ready", "busy", "gone"},
                               of : Objects]]
    /\ ear \in [Objects -> [state : {"none", "polling", "gone"}, of : Objects]]
    /\ poolAnswers \in Nat /\ listenAnswers \in Nat
    /\ fate \in {"running", "exited", "hangs", "null pointer", "poll error",
                 "deleted object"}

\* reinit() finds the four objects it stops, whenever signals come, unless a
\* SIGQUIT interrupts configure() or reinit(), or main() never got to
\* configure() because of a malformed peer: the flag initialized keeps a
\* SIGHUP from doing the same.
ObjectsFound == fate = "null pointer" => main.nested \/ phase = "unconfigured"

\* ThreadPool::stop() and InConnection::stop() are to let their threads
\* return.  The first time, if no wait times out, at most one agent and one
\* listener have not when the objects are deleted: the other pool or the
\* other listener has answered for them.  A SIGQUIT amid it changes nothing.
FirstStopMissesOne ==
    main.at = "reset" /\ main.gen = 1 /\ ~main.timedOut =>
        /\ Cardinality({a \in AgentIds : agent[a].state \in {"ready", "busy"}}) <= 1
        /\ Cardinality({o \in Objects : ear[o].state = "polling"}) <= 1

\* What SIGHUP, SIGQUIT and ENTER ask for comes: a server that waits for
\* signals again or a process that has ended, whatever clients and listeners
\* do meanwhile.
ReinitEnds == main.at = "stop pool" ~> main.at \in {"waiting", "ended"}

=============================================================================
