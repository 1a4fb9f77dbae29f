-------------------------- MODULE LifecycleProofs --------------------------
(***************************************************************************)
(* Configuration, start, reload and end, for any command lines, config     *)
(* files, numbers of agents and of reloads.  In this order: what objects   *)
(* reinit() finds; what the configuration is; the types, and whose objects *)
(* exist; how many threads the first stop leaves behind.                   *)
(***************************************************************************)
EXTENDS Lifecycle, FiniteSetTheorems, SequenceTheorems, WellFoundedInduction, TLAPS

Stopping == {"stop pool", "wait pool", "stop listener", "wait listener"}

Steps == {"config", "fork", "make pool", "make listener", "waiting", "reset",
          "sleep", "ended"} \cup Stopping

MainType ==
    [at : Steps, port : Ports, why : {"start", "hup", "quit", "enter"},
     gen : Generations, initialized : BOOLEAN, timedOut : BOOLEAN,
     nested : BOOLEAN]

\* The tables have an entry for each object, which says whether it exists.
Tables ==
    /\ DOMAIN pool = Objects /\ DOMAIN listener = Objects
    /\ \A o \in Objects : "exists" \in DOMAIN pool[o] /\ "exists" \in DOMAIN listener[o]

\* configure() ran to where main is, and was not interrupted.
Regular == ~main.nested /\ phase = "started"

\* What exists at each step of configure() and reinit().
Complete ==
    /\ main.at \in Stopping \cup {"waiting"} => \A p \in Ports : Exists(<<main.gen, p>>)
    /\ main.at = "make listener" => pool[Current].exists
    /\ main.at \in {"make pool", "make listener"} /\ main.port = "b" =>
          Exists(<<main.gen, "s">>)

LifeInv ==
    /\ main \in MainType
    /\ Tables
    /\ main.initialized => main.at = "waiting"
    /\ main.why = "hup" /\ main.at \in Stopping \cup {"reset", "sleep"} =>
          main.gen < MaxGenerations
    /\ main.at \notin {"config", "ended"} => phase \in {"started", "unconfigured"}
    /\ Regular => Complete
    /\ ObjectsFound

\* The objects that exist, and the phases that configuration leaves.
LEMMA ObjectTypes ==
    ASSUME LifeInv, NEW p \in Ports
    PROVE  /\ <<main.gen, p>> \in Objects /\ Current \in Objects
           /\ main.gen \in Nat /\ MaxGenerations \in Nat \ {0}
BY LifecycleAssumption DEF LifeInv, MainType, Objects, Generations, Current

\* The process ends by something else than a null pointer.
LEMMA EndsInv ==
    ASSUME LifeInv, NEW how, Ends(how),
           how = "null pointer" => main.nested \/ phase = "unconfigured"
    PROVE  LifeInv'
<1>1. /\ main' = [main EXCEPT !.at = "ended", !.initialized = FALSE]
      /\ main \in MainType
      /\ pool' = NoPools /\ listener' = NoListeners
      /\ fate' = how /\ phase' = phase
  BY DEF Ends, LifeInv, configVars
<1>2. /\ main' \in MainType /\ main'.at = "ended" /\ ~main'.initialized
      /\ main'.nested = main.nested
  BY <1>1 DEF MainType, Steps
<1>3. Tables'
  BY <1>1 DEF Tables, NoPools, NoListeners
<1> QED
  BY <1>1, <1>2, <1>3 DEF LifeInv, Regular, Complete, Stopping, ObjectsFound

\* The process goes on, and no object comes or goes.
LEMMA SameObjects ==
    ASSUME LifeInv, Tables', phase' = phase, fate' = fate, main' = main,
           \A o \in Objects : /\ pool'[o].exists = pool[o].exists
                              /\ listener'[o].exists = listener[o].exists
    PROVE  LifeInv'
<1>1. /\ \A p \in Ports : <<main.gen, p>> \in Objects
      /\ Current \in Objects /\ "s" \in Ports
  BY ObjectTypes DEF Ports
<1> QED
  BY <1>1 DEF LifeInv, Regular, Complete, Exists, ObjectsFound, Current

-----------------------------------------------------------------------------
(* The threads: they change no object's existence. *)

LEMMA ThreadInv ==
    ASSUME LifeInv, ThreadStep
    PROVE  LifeInv'
<1> USE DEF Tables
<1>t. Tables
  BY DEF LifeInv
<1>1. ASSUME NEW a, Done(a)
      PROVE  /\ DOMAIN pool' = Objects
             /\ \A o \in Objects : /\ "exists" \in DOMAIN pool'[o]
                                   /\ pool'[o].exists = pool[o].exists
  <2>1. CASE UNCHANGED pool
    BY <1>t, <2>1
  <2>2. CASE pool' = [pool EXCEPT ![agent[a].of].stopIds = @ - 1]
    BY <1>t, <2>2
  <2> QED
    BY <1>1, <2>1, <2>2 DEF Done
<1>2. ASSUME NEW a \in AgentIds, Serve(a) \/ AgentLeaves(a) \/ AgentGoesOn(a)
      PROVE  LifeInv'
  <2>1. /\ DOMAIN pool' = Objects
        /\ \A o \in Objects : /\ "exists" \in DOMAIN pool'[o]
                              /\ pool'[o].exists = pool[o].exists
    BY <1>1, <1>2, <1>t DEF Serve, AgentLeaves, AgentGoesOn
  <2>2. UNCHANGED <<main, fate, listener, phase>>
    BY <1>2 DEF Serve, AgentLeaves, AgentGoesOn, configVars
  <2> QED
    BY <1>t, <2>1, <2>2, SameObjects
<1>3. ASSUME NEW o \in Objects, EarLeaves(o) \/ EarGoesOn(o) PROVE LifeInv'
  <2>1. UNCHANGED <<main, fate, pool, listener, phase>>
    BY <1>3 DEF EarLeaves, EarGoesOn, configVars
  <2> QED
    BY <1>t, <2>1, SameObjects
<1>4. CASE UseDeleted
  BY <1>4, EndsInv DEF UseDeleted
<1> QED
  BY <1>2, <1>3, <1>4 DEF ThreadStep

-----------------------------------------------------------------------------
(* ENTER and the signals. *)

\* reinit() begins: at its regular place it finds all objects.
LEMMA ReinitInv ==
    ASSUME LifeInv, NEW reason \in {"enter", "hup", "quit"}, Reinit(reason),
           phase \in {"started", "unconfigured"},
           reason = "hup" => main.gen < MaxGenerations,
           UNCHANGED <<configVars, fate, pool, listener>>
    PROVE  LifeInv'
<1>1. main \in MainType
  BY DEF LifeInv
<1>2. /\ main' \in MainType /\ main'.at = "stop pool" /\ ~main'.initialized
      /\ main'.gen = main.gen /\ main'.why = reason
      /\ ~main'.nested => ~main.nested /\ main.at = "waiting"
  BY <1>1 DEF Reinit, MainType, Steps, Stopping, Ports
<1>3. Tables' /\ phase' = phase
  BY DEF LifeInv, Tables, configVars
<1>4. Regular' => Complete'
  BY <1>2, <1>3 DEF LifeInv, Regular, Complete, Exists, Stopping
<1>5. ObjectsFound'
  BY <1>2, <1>3 DEF LifeInv, ObjectsFound
<1> QED
  BY <1>2, <1>3, <1>4, <1>5 DEF LifeInv

LEMMA SignalInv ==
    ASSUME LifeInv, Signal \/ Enter
    PROVE  LifeInv'
<1>1. CASE Enter
  <2>1. phase \in {"started", "unconfigured"}
    BY <1>1 DEF Enter, LifeInv
  <2> QED
    BY <1>1, <2>1, ReinitInv DEF Enter
<1>2. CASE Hup
  BY <1>2, ReinitInv DEF Hup, Handled
<1>3. CASE HupElsewhere
  BY <1>3, EndsInv DEF HupElsewhere
<1>4. CASE Quit
  BY <1>4, ReinitInv DEF Quit, Handled
<1>5. CASE QuitAmidStop
  <2>1. /\ main' = [main EXCEPT !.at = "ended", !.nested = TRUE]
        /\ main \in MainType
        /\ UNCHANGED <<pool, listener, phase>>
    BY <1>5 DEF QuitAmidStop, LifeInv, configVars
  <2>2. main' \in MainType /\ main'.at = "ended" /\ main'.nested
    BY <2>1 DEF MainType, Steps
  <2>3. Tables' /\ ~main'.initialized
    <3>1. main.at # "waiting"
      BY <1>5 DEF QuitAmidStop
    <3> QED
      BY <2>1, <3>1 DEF LifeInv, Tables, MainType
  <2> QED
    BY <1>5, <2>2, <2>3 DEF LifeInv, Regular, Complete, Stopping, ObjectsFound
<1> QED
  BY <1>1, <1>2, <1>3, <1>4, <1>5 DEF Signal

-----------------------------------------------------------------------------
(* configure(). *)

LEMMA ConfigureInv ==
    ASSUME LifeInv,
           \/ Start \/ Fork \/ Reconfigure
           \/ \E p \in Ports : MakePool(p) \/ MakeListener(p)
    PROVE  LifeInv'
<1>t. main \in MainType /\ Tables
  BY DEF LifeInv
<1>1. CASE Start
  <2>1. /\ main' \in MainType
        /\ main'.at = IF phase = "configured" THEN "fork" ELSE "waiting"
        /\ main.at = "config" /\ main'.initialized = main.initialized
        /\ phase' = IF phase = "configured" THEN "started" ELSE "unconfigured"
        /\ UNCHANGED <<pool, listener, fate>> /\ main'.nested = main.nested
    BY <1>1, <1>t DEF Start, MainType, Steps
  <2>2. ~main.initialized
    BY <2>1 DEF LifeInv
  <2>3. fate' # "null pointer" \/ main'.nested \/ phase' = "unconfigured"
    BY <1>1, <2>1 DEF LifeInv, ObjectsFound, Start
  <2> QED
    BY <1>t, <2>1, <2>2, <2>3
       DEF LifeInv, Tables, Regular, Complete, Stopping, ObjectsFound
<1>2. CASE Fork
  <2>1. /\ main' \in MainType /\ main'.at = "make pool" /\ main'.port = "s"
        /\ main.at = "fork" /\ main'.initialized = main.initialized
        /\ main'.nested = main.nested
        /\ UNCHANGED <<pool, listener, fate, phase>>
    BY <1>2, <1>t DEF Fork, MainType, Steps, Ports, configVars
  <2> QED
    BY <1>t, <2>1 DEF LifeInv, Tables, Regular, Complete, Stopping, ObjectsFound
<1>3. CASE Reconfigure
  <2>1. main.gen < MaxGenerations
    BY <1>3 DEF Reconfigure, LifeInv
  <2>2. main.gen + 1 \in Generations
    BY <1>t, <2>1, LifecycleAssumption DEF MainType, Generations
  <2>3. /\ main' \in MainType /\ main'.at = "fork"
        /\ main.at = "sleep" /\ main'.initialized = main.initialized
        /\ main'.nested = main.nested
        /\ UNCHANGED <<pool, listener, fate, phase>>
    BY <1>3, <1>t, <2>2 DEF Reconfigure, MainType, Steps, configVars
  <2> QED
    BY <1>t, <2>3 DEF LifeInv, Tables, Regular, Complete, Stopping, ObjectsFound
<1>4. ASSUME NEW p \in Ports, MakePool(p) PROVE LifeInv'
  <2>1. /\ main' \in MainType /\ main'.at = "make listener" /\ main'.port = p
        /\ main'.gen = main.gen /\ main.port = p
        /\ main.at = "make pool" /\ main'.initialized = main.initialized
        /\ main'.nested = main.nested
        /\ UNCHANGED <<listener, fate, phase>>
        /\ pool' = [pool EXCEPT ![<<main.gen, p>>] =
                       [exists |-> TRUE, run |-> TRUE, stopIds |-> 0]]
    BY <1>4, <1>t DEF MakePool, Goes, MainType, Steps, configVars
  <2>2. /\ <<main.gen, p>> \in Objects /\ <<main.gen, "s">> \in Objects
    BY ObjectTypes DEF Ports
  <2>3. Tables' /\ pool'[<<main.gen, p>>].exists
    BY <1>t, <2>1, <2>2 DEF Tables
  <2>4. p = "b" => pool'[<<main.gen, "s">>] = pool[<<main.gen, "s">>]
    BY <1>t, <2>1, <2>2 DEF Tables
  <2> QED
    BY <2>1, <2>3, <2>4
       DEF LifeInv, Regular, Complete, Stopping, ObjectsFound, Exists, Current
<1>5. ASSUME NEW p \in Ports, MakeListener(p) PROVE LifeInv'
  <2>1. /\ main' \in MainType
        /\ main'.at = IF p = "s" THEN "make pool" ELSE "waiting"
        /\ main'.port = "b" /\ main.port = p
        /\ main'.gen = main.gen
        /\ main.at = "make listener" /\ main'.initialized = (p = "b")
        /\ main'.nested = main.nested
        /\ UNCHANGED <<pool, fate, phase>>
        /\ listener' = [listener EXCEPT ![<<main.gen, p>>] =
                           [exists |-> TRUE, run |-> TRUE]]
    BY <1>5, <1>t DEF MakeListener, MainType, Steps, Ports, configVars
  <2>2. /\ <<main.gen, p>> \in Objects /\ <<main.gen, "s">> \in Objects
        /\ p \in {"s", "b"}
    BY ObjectTypes DEF Ports
  <2>3. Tables' /\ listener'[<<main.gen, p>>].exists
    BY <1>t, <2>1, <2>2 DEF Tables
  <2>4. p = "b" => listener'[<<main.gen, "s">>] = listener[<<main.gen, "s">>]
    BY <1>t, <2>1, <2>2 DEF Tables
  <2>5. Regular' => Complete'
    <3> SUFFICES ASSUME Regular' PROVE Complete'
      OBVIOUS
    <3>1. Complete /\ pool[<<main.gen, p>>].exists
      BY <2>1 DEF LifeInv, Regular, Complete, Current
    <3>2. CASE p = "s"
      BY <2>1, <2>3, <3>1, <3>2 DEF Complete, Exists, Stopping
    <3>3. CASE p = "b"
      BY <2>1, <2>3, <2>4, <3>1, <3>3 DEF Complete, Exists, Ports
    <3> QED
      BY <2>2, <3>2, <3>3
  <2> QED
    BY <2>1, <2>2, <2>3, <2>5 DEF LifeInv, Stopping, ObjectsFound
<1> QED
  BY <1>1, <1>2, <1>3, <1>4, <1>5

-----------------------------------------------------------------------------
(* reinit(). *)

\* A step from one stop or wait to the next, and to the reset.
LEMMA StoppingInv ==
    ASSUME LifeInv, Tables', main.at \in Stopping, main' \in MainType,
           main'.at \in Stopping \cup {"reset"},
           main'.gen = main.gen, main'.why = main.why, main'.nested = main.nested,
           main'.initialized = main.initialized,
           phase' = phase, fate' = fate,
           \A o \in Objects : /\ pool'[o].exists = pool[o].exists
                              /\ listener'[o].exists = listener[o].exists
    PROVE  LifeInv'
<1>1. \A p \in Ports : <<main.gen, p>> \in Objects
  BY ObjectTypes
<1>2. Regular' => Complete'
  BY <1>1 DEF LifeInv, Regular, Complete, Exists, Stopping
<1>3. ~main'.initialized
  BY DEF LifeInv, Stopping
<1> QED
  BY <1>2, <1>3 DEF LifeInv, ObjectsFound, Stopping

LEMMA ReinitStepsInv ==
    ASSUME LifeInv,
           \/ StopNothing \/ Reset \/ Exit
           \/ \E p \in Ports : \/ StopPool(p) \/ WaitPool(p)
                               \/ StopListener(p) \/ WaitListener(p)
    PROVE  LifeInv'
<1>t. main \in MainType /\ Tables
  BY DEF LifeInv
<1>1. CASE StopNothing
  <2>1. /\ main.at \in {"stop pool", "stop listener"}
        /\ ~pool[Current].exists \/ ~listener[Current].exists
        /\ Ends("null pointer")
    BY <1>1 DEF StopNothing
  <2>2. main.port \in Ports
    BY <1>t DEF MainType
  <2>3. ~Regular
    BY <2>1, <2>2 DEF LifeInv, Complete, Stopping, Exists, Current
  <2>4. main.nested \/ phase = "unconfigured"
    BY <2>1, <2>3 DEF LifeInv, Regular
  <2> QED
    BY <2>1, <2>4, EndsInv
<1>2. CASE Exit
  BY <1>2, EndsInv DEF Exit
<1>3. CASE Reset
  <2>1. /\ main' \in MainType /\ main'.at = "sleep" /\ main.at = "reset"
        /\ main'.gen = main.gen /\ main'.why = main.why
        /\ main'.nested = main.nested /\ main'.initialized = main.initialized
        /\ UNCHANGED <<phase, fate>>
        /\ pool' = [o \in Objects |-> [pool[o] EXCEPT !.exists = FALSE]]
        /\ listener' = NoListeners
    BY <1>3, <1>t DEF Reset, Goes, MainType, Steps
  <2>2. Tables'
    BY <1>t, <2>1 DEF Tables, NoListeners
  <2> QED
    BY <2>1, <2>2 DEF LifeInv, Regular, Complete, Stopping, ObjectsFound
<1>4. ASSUME NEW p \in Ports, StopPool(p) PROVE LifeInv'
  <2>1. /\ main.at = "stop pool" /\ main' = [main EXCEPT !.at = "wait pool"]
        /\ UNCHANGED <<phase, fate, listener>>
        /\ pool' = [pool EXCEPT ![<<main.gen, p>>].run = FALSE,
                                ![<<main.gen, p>>].stopIds = @ + PoolSize(p)]
    BY <1>4 DEF StopPool, Goes, configVars
  <2>2. Tables' /\ \A o \in Objects : pool'[o].exists = pool[o].exists
    BY <1>t, <2>1 DEF Tables
  <2>3. /\ main' \in MainType /\ main'.at = "wait pool"
        /\ main'.gen = main.gen /\ main'.why = main.why
        /\ main'.nested = main.nested /\ main'.initialized = main.initialized
    BY <1>t, <2>1 DEF MainType, Steps, Stopping
  <2> QED
    BY <2>1, <2>2, <2>3, StoppingInv DEF Stopping
<1>5. ASSUME NEW p \in Ports, StopListener(p) PROVE LifeInv'
  <2>1. /\ main.at = "stop listener" /\ main' = [main EXCEPT !.at = "wait listener"]
        /\ UNCHANGED <<phase, fate, pool>>
        /\ listener' = [listener EXCEPT ![<<main.gen, p>>].run = FALSE]
    BY <1>5 DEF StopListener, Goes, configVars
  <2>2. Tables' /\ \A o \in Objects : listener'[o].exists = listener[o].exists
    BY <1>t, <2>1 DEF Tables
  <2>3. /\ main' \in MainType /\ main'.at = "wait listener"
        /\ main'.gen = main.gen /\ main'.why = main.why
        /\ main'.nested = main.nested /\ main'.initialized = main.initialized
    BY <1>t, <2>1 DEF MainType, Steps, Stopping
  <2> QED
    BY <2>1, <2>2, <2>3, StoppingInv DEF Stopping
<1>6. ASSUME NEW p \in Ports, WaitPool(p) \/ WaitListener(p) PROVE LifeInv'
  <2>1. /\ main.at \in Stopping
        /\ \E at \in Stopping \cup {"reset"}, port \in Ports, enough \in BOOLEAN :
              main' = [main EXCEPT !.at = at, !.port = port,
                                   !.timedOut = @ \/ ~enough]
        /\ UNCHANGED <<phase, fate, pool, listener>>
    <3>1. CASE WaitPool(p)
      <4>1. main' = [main EXCEPT !.at = "stop listener", !.port = main.port,
                                 !.timedOut = @ \/ ~(poolAnswers >= PoolSize(p))]
        BY <1>t, <3>1 DEF WaitPool, Waited, AfterPool, MainType
      <4>2. /\ main.at \in Stopping /\ main.port \in Ports
            /\ UNCHANGED <<phase, fate, pool, listener>>
        BY <1>t, <3>1 DEF WaitPool, Waited, MainType, Stopping, configVars
      <4> QED
        BY <4>1, <4>2 DEF Stopping
    <3>2. CASE WaitListener(p)
      <4>1. main' = [main EXCEPT !.at = IF p = "s" THEN "stop pool" ELSE "reset",
                                 !.port = "b",
                                 !.timedOut = @ \/ ~(listenAnswers >= 1)]
        BY <1>t, <3>2 DEF WaitListener, Waited, MainType
      <4>2. /\ main.at \in Stopping
            /\ UNCHANGED <<phase, fate, pool, listener>>
        BY <3>2 DEF WaitListener, Waited, Stopping, configVars
      <4> QED
        BY <4>1, <4>2 DEF Stopping, Ports
    <3> QED
      BY <1>6, <3>1, <3>2
  <2>2. /\ main' \in MainType /\ main'.at \in Stopping \cup {"reset"}
        /\ main'.gen = main.gen /\ main'.why = main.why
        /\ main'.nested = main.nested /\ main'.initialized = main.initialized
    BY <1>t, <2>1 DEF MainType, Steps
  <2> QED
    BY <1>t, <2>1, <2>2, StoppingInv DEF Tables
<1> QED
  BY <1>1, <1>2, <1>3, <1>4, <1>5, <1>6

-----------------------------------------------------------------------------
(* Together. *)

LEMMA LifeStep ==
    ASSUME LifeInv, [LifeNext]_<<configVars, lifeVars>>
    PROVE  LifeInv'
<1>1. CASE ConfigStep
  <2>1. /\ phase \in {"reading", "options", "arguments"}
        /\ UNCHANGED <<main, fate, pool, listener>>
        /\ phase' # "started"
    BY <1>1 DEF ConfigStep, ConfigNext, ReadLine, EndOfFile, AtOption, TakeOption,
                TakeConf, Opens, CheckBbfile, AddPeer, AllPeers, lifeVars
  <2>2. main.at \in {"config", "ended"}
    BY <2>1 DEF LifeInv
  <2>3. fate = "null pointer" => main.nested
    BY <2>1 DEF LifeInv, ObjectsFound
  <2> QED
    BY <2>1, <2>2, <2>3 DEF LifeInv, Tables, Regular, ObjectsFound
<1>2. CASE MainStep
  BY <1>2, ConfigureInv, ReinitStepsInv DEF MainStep
<1>3. CASE Enter \/ Signal
  BY <1>3, SignalInv
<1>4. CASE ThreadStep
  BY <1>4, ThreadInv
<1>5. CASE UNCHANGED <<configVars, lifeVars>>
  BY <1>5, SameObjects DEF configVars, lifeVars, LifeInv, Tables
<1> QED
  BY <1>1, <1>2, <1>3, <1>4, <1>5 DEF LifeNext

LEMMA LifeInvInit == LifeInit => LifeInv
<1> SUFFICES ASSUME LifeInit PROVE LifeInv
  OBVIOUS
<1>1. main \in MainType /\ main.at = "config" /\ ~main.initialized
  BY LifecycleAssumption
     DEF LifeInit, MainType, Steps, Ports, Generations
<1>2. Tables
  BY DEF LifeInit, Tables, NoPools, NoListeners
<1>3. phase = "reading" /\ fate = "running"
  BY DEF LifeInit, ConfigInit
<1> QED
  BY <1>1, <1>2, <1>3 DEF LifeInv, Regular, ObjectsFound, Stopping

\* However SIGHUP, ENTER and reloads follow each other, reinit() finds the
\* objects that it stops.
THEOREM FindsObjects == LifeSpec => []ObjectsFound
<1>1. LifeInit => LifeInv
  BY LifeInvInit
<1>2. LifeInv /\ [LifeNext]_<<configVars, lifeVars>> => LifeInv'
  BY LifeStep
<1>3. LifeInv => ObjectsFound
  BY DEF LifeInv
<1> QED
  BY <1>1, <1>2, <1>3, PTL DEF LifeSpec

-----------------------------------------------------------------------------
(* Sequences of options and lines. *)

\* A set of natural numbers has a least element.
LEMMA Least ==
    ASSUME NEW T, T \subseteq Nat, T # {}
    PROVE  \E n \in T : \A m \in T : n <= m
<1> DEFINE R == {ss \in Nat \X Nat : ss[1] < ss[2]}
<1>1. IsWellFoundedOn(R, Nat)
  BY NatLessThanWellFounded DEF OpToRel
<1>2. \A m, n \in Nat : m < n => <<m, n>> \in R
  OBVIOUS
<1> HIDE DEF R
<1>3. PICK n \in T : \A m \in T : ~ (<<m, n>> \in R)
  BY <1>1, WFMin
<1>4. ASSUME NEW m \in T PROVE n <= m
  <2>1. m \in Nat /\ n \in Nat /\ ~ (<<m, n>> \in R)
    BY <1>3
  <2>2. ~ (m < n)
    BY <1>2, <2>1, Zenon
  <2> QED
    BY <2>1, <2>2
<1> QED
  BY <1>4

\* A set of positions of a sequence has a greatest element.
LEMMA Greatest ==
    ASSUME NEW k \in Nat, NEW T, T \subseteq 1..k, T # {}
    PROVE  \E n \in T : \A m \in T : m <= n
<1> DEFINE U == {n \in 0..k : k - n \in T}
<1>1. U \subseteq Nat /\ U # {}
  <2>1. PICK t \in T : TRUE
    OBVIOUS
  <2>2. t \in 1..k
    BY <2>1
  <2>3. PICK u \in 0..k : k - u = t
    <3>1. k - t \in 0..k /\ k - (k - t) = t
      BY <2>2
    <3> QED
      BY <3>1
  <2>4. u \in U
    BY <2>1, <2>3
  <2> QED
    BY <2>4
<1>2. PICK n \in U : \A m \in U : n <= m
  <2> HIDE DEF U
  <2> QED
    BY <1>1, Least
<1>3. ASSUME NEW m \in T PROVE m <= k - n
  <2>1. m \in 1..k /\ n \in 0..k
    BY <1>2
  <2>2. k - m \in 0..k /\ k - (k - m) = m
    BY <2>1
  <2>3. k - m \in U
    BY <2>2
  <2>4. n <= k - m
    BY <1>2, <2>3
  <2> QED
    BY <2>1, <2>4
<1> QED
  BY <1>2, <1>3

\* One more line adds the peers that it lists.
Added(x) == IF x.tag = "peers" THEN x.value ELSE <<>>

LEMMA PeersOfRecursion ==
    ASSUME NEW s, Len(s) \in Nat
    PROVE  /\ PeersOf(s)[0] = <<>>
           /\ \A n \in 1..Len(s) : PeersOf(s)[n] = PeersOf(s)[n - 1] \o Added(s[n])
<1> DEFINE F(f, k) == f = [n \in 0..k |-> IF n = 0 THEN <<>> ELSE f[n - 1] \o Added(s[n])]
           Has(k) == \E f : F(f, k)
           T == {k \in 0..Len(s) : ~ Has(k)}
<1>1. Has(0)
  <2> DEFINE e == [n \in 0..0 |-> <<>>]
  <2>1. F(e, 0)
    OBVIOUS
  <2> QED
    BY <2>1
<1>2. ASSUME NEW k \in Nat \ {0}, Has(k - 1) PROVE Has(k)
  <2> PICK f : F(f, k - 1)
    BY <1>2
  <2> DEFINE g == [n \in 0..k |-> IF n = k THEN f[k - 1] \o Added(s[k]) ELSE f[n]]
  <2>1. \A n \in 0..(k - 1) : f[n] = IF n = 0 THEN <<>> ELSE f[n - 1] \o Added(s[n])
    BY Zenon
  <2>2. g[k] = f[k - 1] \o Added(s[k]) /\ \A n \in 0..(k - 1) : g[n] = f[n]
    OBVIOUS
  <2>3. ASSUME NEW n \in 0..k PROVE g[n] = IF n = 0 THEN <<>> ELSE g[n - 1] \o Added(s[n])
    <3> HIDE DEF g
    <3>1. CASE n = k
      <4>1. k # 0 /\ k - 1 \in 0..(k - 1)
        OBVIOUS
      <4> QED
        BY <2>2, <3>1, <4>1, Zenon
    <3>2. CASE n # k /\ n # 0
      <4>1. n \in 0..(k - 1) /\ n - 1 \in 0..(k - 1)
        BY <3>2
      <4> QED
        BY <2>1, <2>2, <3>2, <4>1, Zenon
    <3>3. CASE n # k /\ n = 0
      <4>1. n \in 0..(k - 1)
        BY <3>3
      <4> QED
        BY <2>1, <2>2, <3>3, <4>1, Zenon
    <3> QED
      BY <3>1, <3>2, <3>3
  <2>4. F(g, k)
    BY <2>3
  <2> QED
    BY <2>4
<1> HIDE DEF Has
<1>3. Has(Len(s))
  <2> SUFFICES ASSUME T # {} PROVE FALSE
    <3>1. Len(s) \in 0..Len(s)
      OBVIOUS
    <3> QED
      BY <3>1, Zenon
  <2>1. PICK k \in T : \A m \in T : k <= m
    <3>1. T \subseteq Nat
      OBVIOUS
    <3> HIDE DEF T
    <3> QED
      BY <3>1, Least
  <2>2. k \in 1..Len(s)
    BY <1>1
  <2>3. Has(k - 1)
    BY <2>1, <2>2
  <2> QED
    BY <1>2, <2>2, <2>3
<1> DEFINE p == PeersOf(s)
<1>4. F(p, Len(s))
  BY <1>3, Zenon DEF Has, PeersOf, Added
<1>5. \A n \in 0..Len(s) : p[n] = IF n = 0 THEN <<>> ELSE p[n - 1] \o Added(s[n])
  <2> HIDE DEF p
  <2> QED
    BY <1>4, Zenon
<1> HIDE DEF p
<1>6. p[0] = <<>>
  <2>1. 0 \in 0..Len(s)
    OBVIOUS
  <2> QED
    BY <1>5, <2>1, Zenon
<1>7. ASSUME NEW n \in 1..Len(s) PROVE p[n] = p[n - 1] \o Added(s[n])
  <2>1. n \in 0..Len(s) /\ n # 0
    OBVIOUS
  <2> QED
    BY <1>5, <2>1, Zenon
<1> QED
  BY <1>6, <1>7 DEF p

\* v is what the first n entries of s give to key, if it was d before.
Gives(s, n, key, d, v) ==
    IF \A i \in 1..n : ~ SetsKey(s[i], key) THEN v = d
    ELSE \A i \in 1..n :
             SetsKey(s[i], key) /\ (\A j \in (i + 1)..n : ~ SetsKey(s[j], key)) =>
                 v = s[i].value

\* What one more entry does to a key.
LEMMA GivesOneMore ==
    ASSUME NEW s, NEW n \in Nat, NEW key, NEW d, NEW v, NEW w,
           Gives(s, n, key, d, v),
           w = IF SetsKey(s[n + 1], key) THEN s[n + 1].value ELSE v
    PROVE  Gives(s, n + 1, key, d, w)
<1>1. n + 1 \in 1..(n + 1) /\ \A i \in 1..n : i \in 1..(n + 1) /\ i # n + 1
  OBVIOUS
<1>2. \A i \in 1..(n + 1) : i \in 1..n \/ i = n + 1
  OBVIOUS
<1>3. CASE SetsKey(s[n + 1], key)
  <2>1. ASSUME NEW i \in 1..(n + 1), SetsKey(s[i], key),
               \A j \in (i + 1)..(n + 1) : ~ SetsKey(s[j], key)
        PROVE  w = s[i].value
    <3>1. n + 1 \in (i + 1)..(n + 1) \/ i = n + 1
      OBVIOUS
    <3> QED
      BY <1>3, <2>1, <3>1, Zenon
  <2> QED
    BY <1>1, <1>3, <2>1, Zenon DEF Gives
<1>4. CASE ~ SetsKey(s[n + 1], key)
  <2>1. w = v
    BY <1>4, Zenon
  <2>2. CASE \A i \in 1..n : ~ SetsKey(s[i], key)
    BY <1>2, <1>4, <2>1, <2>2, Zenon DEF Gives
  <2>3. CASE ~ \A i \in 1..n : ~ SetsKey(s[i], key)
    <3>1. ASSUME NEW i \in 1..(n + 1), SetsKey(s[i], key),
                 \A j \in (i + 1)..(n + 1) : ~ SetsKey(s[j], key)
          PROVE  w = s[i].value
      <4>1. i \in 1..n
        BY <1>2, <1>4, <3>1, Zenon
      <4>2. \A j \in (i + 1)..n : j \in (i + 1)..(n + 1)
        BY <4>1
      <4>3. \A j \in (i + 1)..n : ~ SetsKey(s[j], key)
        BY <3>1, <4>2, Zenon
      <4> QED
        BY <2>1, <2>3, <3>1, <4>1, <4>3, Zenon DEF Gives
    <3>2. ~ \A i \in 1..(n + 1) : ~ SetsKey(s[i], key)
      BY <1>1, <2>3, Zenon
    <3> QED
      BY <3>1, <3>2, Zenon DEF Gives
  <2> QED
    BY <2>2, <2>3
<1> QED
  BY <1>3, <1>4

LEMMA GivesNothing ==
    ASSUME NEW s, NEW key, NEW d
    PROVE  Gives(s, 0, key, d, d)
BY DEF Gives

\* What all entries give is what LastSet says.
LEMMA GivesLastSet ==
    ASSUME NEW s, Len(s) \in Nat, NEW key, NEW d, NEW v,
           Gives(s, Len(s), key, d, v)
    PROVE  v = LastSet(s, key, d)
<1> DEFINE I == {i \in 1..Len(s) : SetsKey(s[i], key)}
           last == IF I # {} THEN Max(I) ELSE 0
<1>1. LastSet(s, key, d) = IF last = 0 THEN d ELSE s[last].value
  BY Zenon DEF LastSet, SelectLastInSeq
<1>2. CASE I = {}
  <2>1. \A i \in 1..Len(s) : ~ SetsKey(s[i], key)
    BY <1>2
  <2>2. v = d
    BY <2>1 DEF Gives
  <2> QED
    BY <1>1, <1>2, <2>2
<1>3. CASE I # {}
  <2>1. \E n \in I : \A m \in I : m <= n
    <3>1. I \subseteq 1..Len(s)
      OBVIOUS
    <3> HIDE DEF I
    <3> QED
      BY <1>3, <3>1, Greatest
  <2>2. Max(I) \in I /\ \A m \in I : Max(I) >= m
    <3>1. \E n \in I : \A m \in I : n >= m
      BY <2>1
    <3> HIDE DEF I
    <3> QED
      BY <3>1, Zenon DEF Max
  <2>3. PICK n \in I : n = Max(I)
    BY <2>2
  <2>4. n \in 1..Len(s) /\ SetsKey(s[n], key)
    BY <2>3
  <2>5. ASSUME NEW j \in (n + 1)..Len(s) PROVE ~ SetsKey(s[j], key)
    <3>1. j \in 1..Len(s) /\ ~ (n >= j)
      BY <2>4
    <3>2. j \notin I
      BY <2>2, <2>3, <3>1
    <3> QED
      BY <3>1, <3>2
  <2>6. v = s[n].value
    BY <2>4, <2>5, Zenon DEF Gives
  <2>7. last = n /\ n # 0
    BY <1>3, <2>3, <2>4
  <2> QED
    BY <1>1, <2>6, <2>7, Zenon
<1> QED
  BY <1>2, <1>3

-----------------------------------------------------------------------------
(* The configuration: a key that no option sets has what the lines read so *)
(* far give to it, and one that some option sets what the options since    *)
(* the last start of their scan give to it.                                *)

\* The singleton.
ConfigShape ==
    /\ config = [value |-> config.value, peers |-> config.peers]
    /\ DOMAIN config.value = DOMAIN Defaults
    /\ config.value["tmax"] \in Nat

\* Where the scan of lines and options is.
Position ==
    /\ given \in CommandLines
    /\ lineno \in 1..(Len(Lines(file)) + 1)
    /\ optind \in 1..(Len(given.options) + 1)
    /\ phase = "reading" => optind = 1
    /\ phase = "options" => lineno = Len(Lines(file)) + 1
    /\ rescan => Lines(file) = NamedLines
    /\ ~rescan => /\ file = DefaultFile
                  /\ \A i \in 1..(optind - 1) : given.options[i].tag # "conf"

\* The value of a key before the first line of the file that is read.
ValueBefore(key) ==
    IF rescan THEN LastSet(Lines(DefaultFile), key, Defaults[key]) ELSE Defaults[key]

SetByOption(key) == \E i \in 1..Len(given.options) : SetsKey(given.options[i], key)

KeysSoFar ==
    \A key \in DOMAIN Defaults :
        IF SetByOption(key)
        THEN \E d : Gives(given.options, optind - 1, key, d, config.value[key])
        ELSE Gives(Lines(file), lineno - 1, key, ValueBefore(key), config.value[key])

PeersSoFar ==
    config.peers = IF rescan
                   THEN AllPeersOf(Lines(DefaultFile)) \o PeersOf(Lines(file))[lineno - 1]
                   ELSE PeersOf(Lines(file))[lineno - 1]

Scanning == Position /\ KeysSoFar /\ PeersSoFar

\* The arguments, after the options.
TakingArguments ==
    /\ given \in CommandLines
    /\ optind \in 1..(Len(given.arguments) + 1)
    /\ phase = "configured" => optind = Len(given.arguments) + 1
    /\ config.peers = AllPeersOf(Lines(DefaultFile)) \o AllPeersOf(NamedLines) \o
                          SubSeq(given.arguments, 1, optind - 1)

ConfigInv ==
    /\ ConfigShape
    /\ phase \in {"reading", "options"} => Scanning
    /\ phase \in {"arguments", "configured"} => TakingArguments
    /\ Precedence

LEMMA EntryTypes ==
    /\ \A f : /\ Len(Lines(f)) \in Nat
              /\ \A i \in 1..Len(Lines(f)) : IsEntry(Lines(f)[i])
    /\ \A c \in CommandLines :
           /\ Len(c.options) \in Nat
           /\ \A i \in 1..Len(c.options) : IsEntry(c.options[i])
           /\ c.arguments \in Seq(PeerNames \cup {Malformed})
<1>1. ASSUME NEW f
      PROVE  /\ Len(Lines(f)) \in Nat
             /\ \A i \in 1..Len(Lines(f)) : IsEntry(Lines(f)[i])
  <2>1. CASE f \in DOMAIN Files
    BY <2>1, EntriesAssumption, Zenon DEF Lines
  <2>2. CASE f \notin DOMAIN Files
    <3>1. Lines(f) = <<>>
      BY <2>2, Zenon DEF Lines
    <3>2. Len(Lines(f)) = 0
      BY <3>1
    <3> QED
      BY <3>2
  <2> QED
    BY <2>1, <2>2
<1>2. \A c \in CommandLines :
           /\ Len(c.options) \in Nat
           /\ \A i \in 1..Len(c.options) : IsEntry(c.options[i])
           /\ c.arguments \in Seq(PeerNames \cup {Malformed})
  BY EntriesAssumption
<1> QED
  BY <1>1, <1>2

\* What the first lines of a file list is a sequence of peers.
LEMMA PeersOfType ==
    ASSUME NEW s, Len(s) \in Nat, \A i \in 1..Len(s) : IsEntry(s[i])
    PROVE  \A n \in 0..Len(s) : PeersOf(s)[n] \in Seq(PeerNames)
<1> DEFINE p == PeersOf(s)
           T == {n \in 0..Len(s) : p[n] \notin Seq(PeerNames)}
<1>1. p[0] = <<>> /\ \A n \in 1..Len(s) : p[n] = p[n - 1] \o Added(s[n])
  BY PeersOfRecursion, Zenon
<1> HIDE DEF p
<1>2. \A n \in 1..Len(s) : Added(s[n]) \in Seq(PeerNames)
  BY DEF IsEntry, Added
<1>3. SUFFICES ASSUME T # {} PROVE FALSE
  BY DEF p
<1>4. PICK n \in T : \A m \in T : n <= m
  <2>1. T \subseteq Nat
    OBVIOUS
  <2> HIDE DEF T
  <2> QED
    BY <1>3, <2>1, Least
<1>5. n \in 1..Len(s)
  <2>1. p[0] \in Seq(PeerNames)
    BY <1>1
  <2> QED
    BY <2>1
<1>6. p[n - 1] \in Seq(PeerNames)
  <2>1. n - 1 \in 0..Len(s) /\ ~ (n <= n - 1)
    BY <1>5
  <2>2. n - 1 \notin T
    BY <1>4, <2>1
  <2> QED
    BY <2>1, <2>2
<1>7. p[n] = p[n - 1] \o Added(s[n]) /\ Added(s[n]) \in Seq(PeerNames)
  BY <1>1, <1>2, <1>5
<1>8. p[n] \in Seq(PeerNames)
  BY <1>6, <1>7, ConcatProperties
<1> QED
  BY <1>8

\* A line or an option that is entered.
LEMMA EnteredEntry ==
    ASSUME ConfigShape, NEW entry, IsEntry(entry), entry.tag \in {"set", "peers"},
           config' = Entered(entry)
    PROVE  /\ ConfigShape'
           /\ \A key \in DOMAIN Defaults :
                  config'.value[key] = IF SetsKey(entry, key) THEN entry.value
                                       ELSE config.value[key]
           /\ config'.peers = IF entry.tag = "peers" THEN config.peers \o entry.value
                              ELSE config.peers
<1>t. "tmax" \in DOMAIN Defaults
  BY FilesAssumption
<1>1. CASE entry.tag = "set"
  <2>1. config' = [config EXCEPT !.value[entry.key] = entry.value]
    BY <1>1 DEF Entered
  <2>2. /\ config' = [value |-> [config.value EXCEPT ![entry.key] = entry.value],
                      peers |-> config.peers]
    BY <2>1 DEF ConfigShape
  <2> QED
    BY <1>t, <1>1, <2>2 DEF ConfigShape, IsEntry, SetsKey
<1>2. CASE entry.tag = "peers"
  <2>1. config' = [value |-> config.value, peers |-> config.peers \o entry.value]
    BY <1>2 DEF Entered, ConfigShape
  <2> QED
    BY <1>t, <1>2, <2>1 DEF ConfigShape, SetsKey
<1> QED
  BY <1>1, <1>2

LEMMA ReadLineInv ==
    ASSUME ConfigInv, ReadLine
    PROVE  ConfigInv'
<1> DEFINE line == Lines(file)[lineno]
<1>1. /\ phase = "reading" /\ Scanning /\ ConfigShape
      /\ lineno \in 1..Len(Lines(file)) /\ lineno' = lineno + 1
      /\ given' = given /\ file' = file /\ optind' = optind /\ rescan' = rescan
      /\ Len(Lines(file)) \in Nat /\ optind = 1
  BY EntryTypes DEF ReadLine, ConfigInv, Scanning, Position
<1>2. CASE line.tag \notin {"set", "peers"}
  <2>1. phase' = "terminated" /\ config' = config
    BY <1>2, Zenon DEF ReadLine
  <2> QED
    BY <1>1, <2>1 DEF ConfigInv, ConfigShape, Precedence
<1>3. CASE line.tag \in {"set", "peers"}
  <2>1. config' = Entered(line) /\ phase' = phase
    BY <1>3, Zenon DEF ReadLine
  <2>2. IsEntry(line)
    BY <1>1, EntryTypes
  <2>3. /\ ConfigShape'
        /\ \A key \in DOMAIN Defaults :
               config'.value[key] = IF SetsKey(line, key) THEN line.value
                                    ELSE config.value[key]
        /\ config'.peers = IF line.tag = "peers" THEN config.peers \o line.value
                           ELSE config.peers
    <3>1. ConfigShape /\ line.tag \in {"set", "peers"}
      BY <1>1, <1>3
    <3> HIDE DEF line
    <3> QED
      BY <2>1, <2>2, <3>1, EnteredEntry
  <2>4. Position'
    <3>1. NamedLines' = NamedLines /\ Lines(file)' = Lines(file)
      BY <1>1, Zenon DEF NamedLines, Lines, SelectInSeq
    <3> QED
      BY <1>1, <2>1, <3>1 DEF Scanning, Position
  <2>5. KeysSoFar'
    <3> SUFFICES ASSUME NEW key \in DOMAIN Defaults
                 PROVE  IF SetByOption(key)'
                        THEN \E d : Gives(given.options, optind - 1, key, d, config.value[key])'
                        ELSE Gives(Lines(file), lineno - 1, key, ValueBefore(key), config.value[key])'
      BY DEF KeysSoFar
    <3>1. SetByOption(key)' = SetByOption(key) /\ ValueBefore(key)' = ValueBefore(key)
      BY <1>1 DEF SetByOption, ValueBefore
    <3>2. CASE SetByOption(key)
      <4>1. optind' - 1 = 0
        BY <1>1
      <4>2. Gives(given', 0, key, config'.value[key], config'.value[key])
        BY GivesNothing
      <4>3. Gives(given'.options, optind' - 1, key, config'.value[key], config'.value[key])
        BY <4>1, GivesNothing
      <4> QED
        BY <3>1, <3>2, <4>3
    <3>3. CASE ~ SetByOption(key)
      <4>1. Gives(Lines(file), lineno - 1, key, ValueBefore(key), config.value[key])
        BY <1>1, <3>3 DEF Scanning, KeysSoFar
      <4>2. lineno - 1 \in Nat /\ lineno - 1 + 1 = lineno /\ lineno' - 1 = lineno - 1 + 1
        BY <1>1
      <4>3. config'.value[key] = IF SetsKey(Lines(file)[lineno - 1 + 1], key)
                                 THEN Lines(file)[lineno - 1 + 1].value
                                 ELSE config.value[key]
        BY <2>3, <4>2
      <4>4. Gives(Lines(file), lineno - 1 + 1, key, ValueBefore(key), config'.value[key])
        BY <4>1, <4>2, <4>3, GivesOneMore
      <4>5. Gives(Lines(file'), lineno' - 1, key, ValueBefore(key)', config'.value[key])
        BY <1>1, <3>1, <4>2, <4>4
      <4> QED
        BY <3>1, <3>3, <4>5
    <3> QED
      BY <3>2, <3>3
  <2>6. PeersSoFar'
    <3> DEFINE p == PeersOf(Lines(file))
               all == AllPeersOf(Lines(DefaultFile))
    <3>1. /\ p[lineno] = p[lineno - 1] \o Added(line)
          /\ p[lineno - 1] \in Seq(PeerNames) /\ all \in Seq(PeerNames)
          /\ Added(line) \in Seq(PeerNames)
      <4>1. Added(line) \in Seq(PeerNames)
        BY <2>2 DEF Added, IsEntry
      <4>2. lineno - 1 \in 0..Len(Lines(file))
        BY <1>1
      <4>3. p[lineno - 1] \in Seq(PeerNames)
        BY <1>1, <4>2, EntryTypes, PeersOfType
      <4>4. all \in Seq(PeerNames)
        <5>1. Len(Lines(DefaultFile)) \in 0..Len(Lines(DefaultFile))
          BY EntryTypes
        <5> QED
          BY <5>1, EntryTypes, PeersOfType DEF AllPeersOf
      <4> QED
        BY <1>1, <4>1, <4>3, <4>4, PeersOfRecursion
    <3>2. config'.peers = config.peers \o Added(line)
      <4>1. CASE line.tag = "peers"
        BY <2>3, <4>1, Zenon DEF Added
      <4>2. CASE line.tag # "peers"
        <5>1. config.peers \in Seq(PeerNames)
          <6>1. all \o p[lineno - 1] \in Seq(PeerNames)
            BY <3>1, ConcatProperties
          <6> QED
            BY <1>1, <3>1, <6>1, Zenon DEF Scanning, PeersSoFar
        <5>2. config'.peers = config.peers /\ Added(line) = <<>>
          BY <2>3, <4>2, Zenon DEF Added
        <5> QED
          BY <5>1, <5>2, ConcatEmptySeq
      <4> QED
        BY <4>1, <4>2
    <3>3. lineno' - 1 = lineno
      BY <1>1
    <3>4. CASE ~ rescan
      <4>1. config'.peers = p[lineno]
        BY <1>1, <3>1, <3>2, <3>4, Zenon DEF Scanning, PeersSoFar
      <4> QED
        BY <1>1, <3>3, <3>4, <4>1, Zenon DEF PeersSoFar
    <3>5. CASE rescan
      <4>0. config.peers = all \o p[lineno - 1]
        BY <1>1, <3>5, Zenon DEF Scanning, PeersSoFar
      <4>1. config'.peers = (all \o p[lineno - 1]) \o Added(line)
        BY <3>2, <4>0, Zenon
      <4> HIDE DEF p, all, line
      <4>2. (all \o p[lineno - 1]) \o Added(line) = all \o (p[lineno - 1] \o Added(line))
        <5>1. \A a, b, c \in Seq(PeerNames) : (a \o b) \o c = a \o (b \o c)
          BY ConcatAssociative
        <5> QED
          BY <3>1, <5>1, Zenon
      <4>3. config'.peers = all \o p[lineno]
        BY <3>1, <4>1, <4>2, Zenon
      <4> QED
        BY <1>1, <3>3, <3>5, <4>3, Zenon DEF PeersSoFar, p, all
    <3> QED
      BY <3>4, <3>5
  <2> QED
    BY <1>1, <2>1, <2>3, <2>4, <2>5, <2>6 DEF ConfigInv, Scanning, Precedence
<1> QED
  BY <1>2, <1>3

LEMMA EndOfFileInv ==
    ASSUME ConfigInv, EndOfFile
    PROVE  ConfigInv'
<1>1. /\ phase = "reading" /\ phase' = "options" /\ Scanning /\ ConfigShape
      /\ lineno > Len(Lines(file))
      /\ UNCHANGED <<given, config, file, lineno, optind, rescan>>
  BY DEF EndOfFile, ConfigInv
<1>2. lineno = Len(Lines(file)) + 1
  BY <1>1, EntryTypes DEF Scanning, Position
<1>3. NamedLines' = NamedLines /\ Lines(file)' = Lines(file)
  BY <1>1, Zenon DEF NamedLines, Lines, SelectInSeq
<1>4. Position'
  BY <1>1, <1>2, <1>3 DEF Scanning, Position
<1>5. KeysSoFar'
  BY <1>1, Zenon DEF Scanning, KeysSoFar, SetByOption, ValueBefore
<1>6. PeersSoFar'
  BY <1>1, Zenon DEF Scanning, PeersSoFar
<1> QED
  BY <1>1, <1>4, <1>5, <1>6 DEF ConfigInv, ConfigShape, Scanning, Precedence

LEMMA TakeOptionInv ==
    ASSUME ConfigInv, TakeOption
    PROVE  ConfigInv'
<1>1. /\ phase = "options" /\ Scanning /\ ConfigShape
      /\ optind \in 1..Len(given.options) /\ optind' = optind + 1
      /\ Option.tag \in {"set", "usage"}
      /\ given' = given /\ file' = file /\ lineno' = lineno /\ rescan' = rescan
      /\ IsEntry(Option) /\ Len(given.options) \in Nat
  BY EntryTypes DEF TakeOption, AtOption, ConfigInv, Scanning, Position, Option
<1>2. CASE Option.tag = "usage"
  <2>1. phase' = "exited" /\ config' = config
    BY <1>2 DEF TakeOption
  <2> QED
    BY <1>1, <2>1 DEF ConfigInv, ConfigShape, Precedence
<1>3. CASE Option.tag = "set"
  <2>1. config' = Entered(Option) /\ phase' = phase
    BY <1>3 DEF TakeOption
  <2>2. /\ ConfigShape'
        /\ \A key \in DOMAIN Defaults :
               config'.value[key] = IF SetsKey(Option, key) THEN Option.value
                                    ELSE config.value[key]
        /\ config'.peers = config.peers
    BY <1>1, <1>3, <2>1, EnteredEntry
  <2>3. NamedLines' = NamedLines /\ Lines(file)' = Lines(file)
    BY <1>1, Zenon DEF NamedLines, Lines, SelectInSeq
  <2>4. Position'
    <3>1. ~rescan => \A i \in 1..(optind' - 1) : given.options[i].tag # "conf"
      <4>1. \A i \in 1..(optind' - 1) : i \in 1..(optind - 1) \/ i = optind
        BY <1>1
      <4> QED
        BY <1>1, <4>1 DEF Scanning, Position, Option
    <3> QED
      BY <1>1, <2>1, <2>3, <3>1 DEF Scanning, Position
  <2>5. KeysSoFar'
    <3> SUFFICES ASSUME NEW key \in DOMAIN Defaults
                 PROVE  IF SetByOption(key)'
                        THEN \E d : Gives(given.options, optind - 1, key, d, config.value[key])'
                        ELSE Gives(Lines(file), lineno - 1, key, ValueBefore(key), config.value[key])'
      BY DEF KeysSoFar
    <3>1. SetByOption(key)' = SetByOption(key) /\ ValueBefore(key)' = ValueBefore(key)
      BY <1>1 DEF SetByOption, ValueBefore
    <3>2. CASE SetByOption(key)
      <4>1. PICK d : Gives(given.options, optind - 1, key, d, config.value[key])
        BY <1>1, <3>2 DEF Scanning, KeysSoFar
      <4>2. optind - 1 \in Nat /\ optind - 1 + 1 = optind /\ optind' - 1 = optind - 1 + 1
        BY <1>1
      <4>3. config'.value[key] = IF SetsKey(given.options[optind - 1 + 1], key)
                                 THEN given.options[optind - 1 + 1].value
                                 ELSE config.value[key]
        BY <2>2, <4>2 DEF Option
      <4>4. Gives(given.options, optind - 1 + 1, key, d, config'.value[key])
        BY <4>1, <4>2, <4>3, GivesOneMore
      <4>5. Gives(given'.options, optind' - 1, key, d, config'.value[key])
        BY <1>1, <4>2, <4>4
      <4> QED
        BY <3>1, <3>2, <4>5
    <3>3. CASE ~ SetByOption(key)
      <4>1. config'.value[key] = config.value[key]
        BY <1>1, <2>2, <3>3 DEF SetByOption, Option
      <4> QED
        BY <1>1, <2>3, <3>1, <3>3, <4>1 DEF Scanning, KeysSoFar
    <3> QED
      BY <3>2, <3>3
  <2>6. PeersSoFar'
    BY <1>1, <2>2, Zenon DEF Scanning, PeersSoFar
  <2> QED
    BY <1>1, <2>1, <2>2, <2>4, <2>5, <2>6 DEF ConfigInv, Scanning, Precedence
<1> QED
  BY <1>1, <1>2, <1>3

\* The file that a first -c names is the one that counts.
LEMMA FirstConf ==
    ASSUME NEW i \in 1..Len(given.options), Len(given.options) \in Nat,
           given.options[i].tag = "conf",
           \A j \in 1..(i - 1) : given.options[j].tag # "conf"
    PROVE  NamedLines = Lines(given.options[i].value)
<1> DEFINE I == {j \in 1..Len(given.options) : given.options[j].tag = "conf"}
           first == IF I # {} THEN Min(I) ELSE 0
<1>1. NamedLines = IF first = 0 THEN <<>> ELSE Lines(given.options[first].value)
  BY Zenon DEF NamedLines, SelectInSeq
<1>2. i \in I /\ \A j \in I : i <= j /\ (j <= i => j = i)
  OBVIOUS
<1>3. Min(I) = i
  <2> HIDE DEF I
  <2> QED
    BY <1>2 DEF Min
<1>4. first = i /\ i # 0
  BY <1>2, <1>3
<1> QED
  BY <1>1, <1>4, Zenon

LEMMA NoConf ==
    ASSUME \A j \in 1..Len(given.options) : given.options[j].tag # "conf"
    PROVE  NamedLines = <<>>
<1> DEFINE I == {j \in 1..Len(given.options) : given.options[j].tag = "conf"}
           first == IF I # {} THEN Min(I) ELSE 0
<1>1. NamedLines = IF first = 0 THEN <<>> ELSE Lines(given.options[first].value)
  BY Zenon DEF NamedLines, SelectInSeq
<1>2. first = 0
  OBVIOUS
<1> QED
  BY <1>1, <1>2, Zenon

LEMMA TakeConfInv ==
    ASSUME ConfigInv, TakeConf
    PROVE  ConfigInv'
<1>1. /\ phase = "options" /\ Scanning /\ ConfigShape
      /\ optind \in 1..Len(given.options) /\ Option.tag = "conf"
      /\ given' = given /\ config' = config /\ rescan'
      /\ Len(given.options) \in Nat /\ lineno = Len(Lines(file)) + 1
      /\ Len(Lines(file)) \in Nat
  BY EntryTypes DEF TakeConf, AtOption, ConfigInv, Scanning, Position
<1>2. NamedLines' = NamedLines
  BY <1>1, Zenon DEF NamedLines, Lines, SelectInSeq
<1>3. CASE rescan
  <2>1. UNCHANGED <<file, lineno, phase>> /\ optind' = optind + 1
    BY <1>3 DEF TakeConf
  <2>2. Lines(file)' = Lines(file)
    BY <2>1
  <2>3. Position'
    BY <1>1, <1>2, <1>3, <2>1, <2>2 DEF Scanning, Position
  <2>4. KeysSoFar'
    <3> SUFFICES ASSUME NEW key \in DOMAIN Defaults
                 PROVE  IF SetByOption(key)'
                        THEN \E d : Gives(given.options, optind - 1, key, d, config.value[key])'
                        ELSE Gives(Lines(file), lineno - 1, key, ValueBefore(key), config.value[key])'
      BY DEF KeysSoFar
    <3>1. SetByOption(key)' = SetByOption(key) /\ ValueBefore(key)' = ValueBefore(key)
      BY <1>1, <1>3 DEF SetByOption, ValueBefore
    <3>2. CASE SetByOption(key)
      <4>1. PICK d : Gives(given.options, optind - 1, key, d, config.value[key])
        BY <1>1, <3>2 DEF Scanning, KeysSoFar
      <4>2. optind - 1 \in Nat /\ optind - 1 + 1 = optind /\ optind' - 1 = optind - 1 + 1
        BY <1>1, <2>1
      <4>3. ~ SetsKey(given.options[optind - 1 + 1], key)
        BY <1>1, <4>2 DEF SetsKey, Option
      <4>4. Gives(given.options, optind - 1 + 1, key, d, config.value[key])
        BY <4>1, <4>2, <4>3, GivesOneMore
      <4>5. Gives(given'.options, optind' - 1, key, d, config'.value[key])
        BY <1>1, <4>2, <4>4
      <4> QED
        BY <3>1, <3>2, <4>5
    <3>3. CASE ~ SetByOption(key)
      BY <1>1, <2>1, <2>2, <3>1, <3>3 DEF Scanning, KeysSoFar
    <3> QED
      BY <3>2, <3>3
  <2>5. PeersSoFar'
    BY <1>1, <1>3, <2>1, Zenon DEF Scanning, PeersSoFar
  <2> QED
    BY <1>1, <2>1, <2>3, <2>4, <2>5 DEF ConfigInv, ConfigShape, Scanning, Precedence
<1>4. CASE ~rescan
  <2>1. /\ optind' = 1 /\ file' = Option.value /\ lineno' = 1 /\ phase' = "reading"
    BY <1>4 DEF TakeConf, Opens
  <2>2. /\ file = DefaultFile
        /\ \A i \in 1..(optind - 1) : given.options[i].tag # "conf"
    BY <1>1, <1>4 DEF Scanning, Position
  <2>3. Lines(file') = NamedLines
    <3>1. NamedLines = Lines(given.options[optind].value)
      BY <1>1, <2>2, FirstConf DEF Option
    <3> QED
      BY <2>1, <3>1 DEF Option
  <2>4. Len(Lines(file')) \in Nat
    BY EntryTypes
  <2>5. Position'
    BY <1>1, <1>2, <2>1, <2>3, <2>4 DEF Scanning, Position
  <2>6. KeysSoFar'
    <3> SUFFICES ASSUME NEW key \in DOMAIN Defaults
                 PROVE  IF SetByOption(key)'
                        THEN \E d : Gives(given.options, optind - 1, key, d, config.value[key])'
                        ELSE Gives(Lines(file), lineno - 1, key, ValueBefore(key), config.value[key])'
      BY DEF KeysSoFar
    <3>1. SetByOption(key)' = SetByOption(key) /\ optind' - 1 = 0 /\ lineno' - 1 = 0
      BY <1>1, <2>1 DEF SetByOption
    <3>2. CASE SetByOption(key)
      <4>1. Gives(given'.options, optind' - 1, key, config'.value[key], config'.value[key])
        BY <3>1, GivesNothing
      <4> QED
        BY <3>1, <3>2, <4>1
    <3>3. CASE ~ SetByOption(key)
      <4>1. Gives(Lines(file), lineno - 1, key, ValueBefore(key), config.value[key])
        BY <1>1, <3>3 DEF Scanning, KeysSoFar
      <4>2. Gives(Lines(DefaultFile), Len(Lines(DefaultFile)), key, Defaults[key],
                  config.value[key])
        <5>1. lineno - 1 = Len(Lines(DefaultFile)) /\ ValueBefore(key) = Defaults[key]
          BY <1>1, <1>4, <2>2 DEF ValueBefore
        <5> QED
          BY <2>2, <4>1, <5>1
      <4>3. config.value[key] = LastSet(Lines(DefaultFile), key, Defaults[key])
        BY <4>2, EntryTypes, GivesLastSet
      <4>4. ValueBefore(key)' = config'.value[key]
        BY <1>1, <4>3, Zenon DEF ValueBefore
      <4>5. Gives(Lines(file'), lineno' - 1, key, config'.value[key], config'.value[key])
        BY <3>1, GivesNothing
      <4> QED
        BY <3>1, <3>3, <4>4, <4>5
    <3> QED
      BY <3>2, <3>3
  <2>7. PeersSoFar'
    <3>1. lineno - 1 = Len(Lines(DefaultFile)) /\ lineno' - 1 = 0
      BY <1>1, <2>1, <2>2
    <3>2. config'.peers = AllPeersOf(Lines(DefaultFile))
      BY <1>1, <1>4, <2>2, <3>1, Zenon DEF Scanning, PeersSoFar, AllPeersOf
    <3>3. AllPeersOf(Lines(DefaultFile)) \in Seq(PeerNames)
      <4>1. Len(Lines(DefaultFile)) \in 0..Len(Lines(DefaultFile))
        BY EntryTypes
      <4> QED
        BY <4>1, EntryTypes, PeersOfType DEF AllPeersOf
    <3>4. PeersOf(Lines(file'))[lineno' - 1] = <<>>
      BY <2>4, <3>1, PeersOfRecursion
    <3>5. AllPeersOf(Lines(DefaultFile)) \o <<>> = AllPeersOf(Lines(DefaultFile))
      BY <3>3, ConcatEmptySeq
    <3> QED
      BY <1>1, <3>2, <3>4, <3>5, Zenon DEF PeersSoFar
  <2> QED
    BY <1>1, <2>1, <2>5, <2>6, <2>7 DEF ConfigInv, ConfigShape, Scanning, Precedence
<1> QED
  BY <1>3, <1>4

\* The scan has ended: the values are those of Precedence.
LEMMA ScanEnds ==
    ASSUME Scanning, optind > Len(given.options), phase = "options",
           NEW key \in DOMAIN Defaults
    PROVE  config.value[key] =
               LastSet(given.options, key,
                   LastSet(NamedLines, key,
                       LastSet(Lines(DefaultFile), key, Defaults[key])))
<1> DEFINE O == given.options
           v == config.value[key]
           D == LastSet(Lines(DefaultFile), key, Defaults[key])
           N == LastSet(NamedLines, key, D)
<1>1. /\ Len(O) \in Nat /\ optind - 1 = Len(O)
      /\ Len(Lines(file)) \in Nat /\ lineno - 1 = Len(Lines(file))
  BY EntryTypes DEF Scanning, Position
<1>2. CASE SetByOption(key)
  <2>1. PICK d : Gives(O, Len(O), key, d, v)
    BY <1>1, <1>2 DEF Scanning, KeysSoFar
  <2>2. Gives(O, Len(O), key, N, v)
    BY <1>2, <2>1, Zenon DEF Gives, SetByOption
  <2> HIDE DEF N, v, O
  <2>3. v = LastSet(O, key, N)
    BY <1>1, <2>2, GivesLastSet
  <2> QED
    BY <2>3 DEF N, v, O
<1>3. CASE ~ SetByOption(key)
  <2>1. Gives(Lines(file), Len(Lines(file)), key, ValueBefore(key), v)
    BY <1>1, <1>3 DEF Scanning, KeysSoFar
  <2>2. v = LastSet(Lines(file), key, ValueBefore(key))
    BY <1>1, <2>1, GivesLastSet
  <2>3. v = N
    <3>1. CASE rescan
      BY <2>2, <3>1, Zenon DEF Scanning, Position, ValueBefore
    <3>2. CASE ~rescan
      <4>1. file = DefaultFile /\ \A i \in 1..Len(O) : O[i].tag # "conf"
        BY <1>1, <3>2 DEF Scanning, Position
      <4>2. NamedLines = <<>>
        BY <4>1, NoConf
      <4>3. N = D
        <5>1. Len(<<>>) = 0 /\ Gives(<<>>, 0, key, D, D)
          BY GivesNothing
        <5>2. Len(<<>>) \in Nat /\ Gives(<<>>, Len(<<>>), key, D, D)
          BY <5>1
        <5> HIDE DEF D
        <5>3. D = LastSet(<<>>, key, D)
          BY <5>2, GivesLastSet
        <5> QED
          BY <4>2, <5>3
      <4> QED
        BY <2>2, <3>2, <4>1, <4>3, Zenon DEF ValueBefore
    <3> QED
      BY <3>1, <3>2
  <2>4. Gives(O, Len(O), key, N, N)
    BY <1>3, Zenon DEF Gives, SetByOption
  <2> HIDE DEF N, v, O
  <2>5. N = LastSet(O, key, N)
    BY <1>1, <2>4, GivesLastSet
  <2> QED
    BY <2>3, <2>5 DEF N, v, O
<1> QED
  BY <1>2, <1>3

LEMMA NoPeers == AllPeersOf(<<>>) = <<>>
<1>1. Len(<<>>) = 0
  OBVIOUS
<1>2. PeersOf(<<>>)[0] = <<>>
  BY <1>1, PeersOfRecursion
<1> QED
  BY <1>1, <1>2, Zenon DEF AllPeersOf

LEMMA AllPeersTypes ==
    /\ AllPeersOf(Lines(DefaultFile)) \in Seq(PeerNames)
    /\ AllPeersOf(NamedLines) \in Seq(PeerNames)
<1>1. ASSUME NEW f PROVE AllPeersOf(Lines(f)) \in Seq(PeerNames)
  <2>1. Len(Lines(f)) \in 0..Len(Lines(f))
    BY EntryTypes
  <2> QED
    BY <2>1, EntryTypes, PeersOfType DEF AllPeersOf
<1>2. NamedLines = <<>> \/ \E f : NamedLines = Lines(f)
  <2> DEFINE I == {i \in 1..Len(given.options) : given.options[i].tag = "conf"}
             first == IF I # {} THEN Min(I) ELSE 0
  <2>1. NamedLines = IF first = 0 THEN <<>> ELSE Lines(given.options[first].value)
    BY Zenon DEF NamedLines, SelectInSeq
  <2> HIDE DEF first
  <2> QED
    BY <2>1, Zenon
<1>3. AllPeersOf(NamedLines) \in Seq(PeerNames)
  <2>1. CASE NamedLines = <<>>
    <3>1. AllPeersOf(NamedLines) = <<>>
      BY <2>1, NoPeers, Zenon
    <3> QED
      BY <3>1
  <2>2. CASE \E f : NamedLines = Lines(f)
    BY <1>1, <2>2, Zenon
  <2> QED
    BY <1>2, <2>1, <2>2
<1> QED
  BY <1>1, <1>3

LEMMA CheckBbfileInv ==
    ASSUME ConfigInv, CheckBbfile
    PROVE  ConfigInv'
<1>1. /\ phase = "options" /\ Scanning /\ ConfigShape
      /\ optind > Len(given.options) /\ optind' = 1
      /\ UNCHANGED <<given, config, file, lineno, rescan>>
      /\ phase' \in {"exited", "arguments"}
      /\ Len(given.options) \in Nat /\ Len(Lines(file)) \in Nat
      /\ given.arguments \in Seq(PeerNames \cup {Malformed})
  BY EntryTypes DEF CheckBbfile, ConfigInv, Scanning, Position
<1>2. NamedLines' = NamedLines /\ UNCHANGED config
  BY <1>1, Zenon DEF NamedLines, Lines, SelectInSeq
<1>3. Precedence'
  <2>1. \A key \in DOMAIN Defaults :
            config.value[key] =
                LastSet(given.options, key,
                    LastSet(NamedLines, key,
                        LastSet(Lines(DefaultFile), key, Defaults[key])))
    BY <1>1, ScanEnds
  <2> QED
    BY <1>1, <1>2, <2>1, Zenon DEF Precedence
<1>4. phase' = "arguments" => TakingArguments'
  <2> DEFINE all == AllPeersOf(Lines(DefaultFile))
             named == AllPeersOf(NamedLines)
  <2>1. all \in Seq(PeerNames) /\ named \in Seq(PeerNames)
    BY AllPeersTypes
  <2>2. config.peers = all \o named
    <3>1. CASE rescan
      <4>1. lineno - 1 = Len(NamedLines) /\ Lines(file) = NamedLines
        BY <1>1, <3>1 DEF Scanning, Position
      <4> QED
        BY <1>1, <3>1, <4>1, Zenon DEF Scanning, PeersSoFar, AllPeersOf
    <3>2. CASE ~rescan
      <4>1. /\ lineno - 1 = Len(Lines(DefaultFile)) /\ file = DefaultFile
            /\ \A i \in 1..Len(given.options) : given.options[i].tag # "conf"
        BY <1>1, <3>2 DEF Scanning, Position
      <4>2. config.peers = all
        BY <1>1, <3>2, <4>1, Zenon DEF Scanning, PeersSoFar, AllPeersOf
      <4>3. NamedLines = <<>>
        BY <4>1, NoConf
      <4>4. named = <<>>
        BY <4>3, NoPeers
      <4> HIDE DEF all, named
      <4> QED
        BY <2>1, <4>2, <4>4, ConcatEmptySeq
    <3> QED
      BY <3>1, <3>2
  <2>3. SubSeq(given'.arguments, 1, optind' - 1) = <<>>
    BY <1>1, SubSeqEmpty
  <2>4. config'.peers = (all \o named) \o SubSeq(given'.arguments, 1, optind' - 1)
    <3> HIDE DEF all, named
    <3>1. (all \o named) \o <<>> = all \o named
      <4>1. all \o named \in Seq(PeerNames)
        BY <2>1, ConcatProperties
      <4> QED
        BY <4>1, ConcatEmptySeq
    <3> QED
      BY <1>2, <2>2, <2>3, <3>1, Zenon
  <2>5. optind' \in 1..(Len(given'.arguments) + 1)
    <3>1. Len(given.arguments) \in Nat
      BY <1>1, LenProperties
    <3> QED
      BY <1>1, <3>1
  <2>6. given' \in CommandLines
    BY <1>1 DEF Scanning, Position
  <2>7. (AllPeersOf(Lines(DefaultFile)) \o AllPeersOf(NamedLines))' = all \o named
    BY <1>2, Zenon
  <2> QED
    BY <1>2, <2>4, <2>5, <2>6, <2>7, Zenon DEF TakingArguments
<1> QED
  BY <1>1, <1>3, <1>4 DEF ConfigInv, ConfigShape

LEMMA ArgumentsInv ==
    ASSUME ConfigInv, AddPeer \/ AllPeers
    PROVE  ConfigInv'
<1> DEFINE A == AllPeersOf(Lines(DefaultFile)) \o AllPeersOf(NamedLines)
           S == PeerNames \cup {Malformed}
<1>1. /\ phase = "arguments" /\ TakingArguments /\ ConfigShape /\ Precedence
      /\ given' = given /\ UNCHANGED <<file, lineno, rescan>>
      /\ given.arguments \in Seq(S) /\ optind \in Nat \ {0}
      /\ Len(given.arguments) \in Nat
  <2>1. /\ phase = "arguments" /\ TakingArguments /\ ConfigShape /\ Precedence
        /\ given' = given /\ UNCHANGED <<file, lineno, rescan>>
    BY DEF AddPeer, AllPeers, ConfigInv
  <2>2. given.arguments \in Seq(S)
    BY <2>1, EntryTypes DEF TakingArguments
  <2> QED
    BY <2>1, <2>2, LenProperties DEF TakingArguments
<1>2. NamedLines' = NamedLines
  BY <1>1, Zenon DEF NamedLines, Lines, SelectInSeq
<1>3. CASE AllPeers
  <2>1. /\ phase' = "configured" /\ config' = config /\ optind' = optind
        /\ optind > Len(given.arguments)
    BY <1>3 DEF AllPeers
  <2>2. optind = Len(given.arguments) + 1
    BY <1>1, <2>1 DEF TakingArguments
  <2>3. TakingArguments'
    BY <1>1, <1>2, <2>1, <2>2 DEF TakingArguments
  <2>4. Precedence'
    BY <1>1, <1>2, <2>1, Zenon DEF Precedence
  <2> QED
    BY <1>1, <2>1, <2>3, <2>4 DEF ConfigInv, ConfigShape
<1>4. CASE AddPeer
  <2>1. CASE given.arguments[optind] = Malformed
    <3>1. phase' = "unconfigured" /\ config' = config
      BY <1>4, <2>1 DEF AddPeer
    <3> QED
      BY <1>1, <3>1 DEF ConfigInv, ConfigShape, Precedence
  <2>2. CASE given.arguments[optind] # Malformed
    <3>1. /\ config' = [config EXCEPT !.peers = Append(@, given.arguments[optind])]
          /\ optind' = optind + 1 /\ phase' = phase
          /\ optind <= Len(given.arguments)
      BY <1>4, <2>2 DEF AddPeer
    <3>2. /\ config'.value = config.value
          /\ config'.peers = Append(config.peers, given.arguments[optind])
          /\ ConfigShape'
      BY <1>1, <3>1 DEF ConfigShape
    <3>3. Precedence'
      BY <1>1, <1>2, <3>1, <3>2, Zenon DEF Precedence
    <3>4. config'.peers = A \o SubSeq(given.arguments, 1, optind' - 1)
      <4> DEFINE B == SubSeq(given.arguments, 1, optind - 1)
                 x == given.arguments[optind]
      <4>1. optind \in 1..Len(given.arguments) /\ optind' - 1 = optind
        BY <1>1, <3>1
      <4>2. SubSeq(given.arguments, 1, optind) = B \o <<x>>
        BY <1>1, <4>1, SubSeqRecursiveSecond
      <4>3. A \in Seq(S) /\ B \in Seq(S) /\ x \in S
        <5>1. A \in Seq(PeerNames)
          BY AllPeersTypes, ConcatProperties
        <5>2. A \in Seq(S)
          <6> HIDE DEF A
          <6> QED
            BY <5>1, SeqMonotonic
        <5>3. \A i \in 1..Len(given.arguments) : given.arguments[i] \in S
          BY <1>1, ElementOfSeq
        <5>4. \A i \in 1..(optind - 1) : given.arguments[i] \in S
          BY <4>1, <5>3
        <5>5. B \in Seq(S)
          BY <4>1, <5>4, SubSeqProperties
        <5> QED
          BY <4>1, <5>2, <5>3, <5>5
      <4>4. Append(A \o B, x) = A \o (B \o <<x>>)
        <5> HIDE DEF A, B, x, S
        <5>1. \A a, b, c \in Seq(S) : (a \o b) \o c = a \o (b \o c)
          BY ConcatAssociative
        <5>2. A \o B \in Seq(S) /\ <<x>> \in Seq(S)
          BY <4>3, ConcatProperties
        <5>3. Append(A \o B, x) = (A \o B) \o <<x>>
          BY <4>3, <5>2, AppendIsConcat
        <5> QED
          BY <4>3, <5>1, <5>2, <5>3, Zenon
      <4>5. config.peers = A \o B
        BY <1>1, Zenon DEF TakingArguments
      <4>6. config'.peers = Append(A \o B, x)
        BY <3>2, <4>5
      <4>7. SubSeq(given.arguments, 1, optind' - 1) = B \o <<x>>
        BY <4>1, <4>2
      <4> HIDE DEF A, B, x
      <4> QED
        BY <4>4, <4>6, <4>7, Zenon
    <3>5. TakingArguments'
      <4>1. A' = A
        BY <1>2, Zenon
      <4>2. optind' \in 1..(Len(given.arguments) + 1) /\ phase' # "configured"
        BY <1>1, <3>1
      <4>3. given \in CommandLines
        BY <1>1 DEF TakingArguments
      <4> QED
        BY <1>1, <3>4, <4>1, <4>2, <4>3, Zenon DEF TakingArguments
    <3> QED
      BY <1>1, <3>1, <3>2, <3>3, <3>5 DEF ConfigInv
  <2> QED
    BY <2>1, <2>2
<1> QED
  BY <1>3, <1>4

LEMMA ConfigInvStep ==
    ASSUME LifeInv, ConfigInv, [LifeNext]_<<configVars, lifeVars>>
    PROVE  ConfigInv'
<1>1. CASE ConfigStep
  BY <1>1, ReadLineInv, EndOfFileInv, TakeOptionInv, TakeConfInv, CheckBbfileInv,
     ArgumentsInv DEF ConfigStep, ConfigNext
<1>2. CASE Start
  <2>1. config' = config /\ phase' \in {"started", "unconfigured"}
    BY <1>2 DEF Start
  <2> QED
    BY <2>1 DEF ConfigInv, ConfigShape, Precedence
<1>3. CASE Reset
  <2>1. phase \in {"started", "unconfigured"} /\ phase' = phase
    BY <1>3 DEF LifeInv, Reset, Goes
  <2>2. config' = [config EXCEPT !.peers = <<>>]
    BY <1>3 DEF Reset
  <2>3. ConfigShape'
    BY <2>2 DEF ConfigInv, ConfigShape
  <2> QED
    BY <2>1, <2>3 DEF ConfigInv, Precedence
<1>4. CASE UNCHANGED configVars
  <2>1. UNCHANGED <<given, config, file, lineno, optind, rescan, phase>>
    BY <1>4 DEF configVars
  <2>2. NamedLines' = NamedLines
    BY <2>1, Zenon DEF NamedLines, Lines, SelectInSeq
  <2>3. Position' = Position /\ TakingArguments' = TakingArguments
    BY <2>1, <2>2 DEF Position, TakingArguments
  <2>4. KeysSoFar' = KeysSoFar /\ PeersSoFar' = PeersSoFar
    BY <2>1 DEF KeysSoFar, PeersSoFar, SetByOption, ValueBefore
  <2>5. Precedence' = Precedence
    BY <2>1, <2>2, Zenon DEF Precedence
  <2>6. ConfigShape' = ConfigShape
    BY <2>1 DEF ConfigShape
  <2> QED
    BY <2>1, <2>3, <2>4, <2>5, <2>6 DEF ConfigInv, Scanning
<1>5. ASSUME MainStep, ~Start, ~Reset PROVE UNCHANGED configVars
  BY <1>5 DEF MainStep, Fork, StopNothing, Reconfigure, Exit, Ends, MakePool,
              MakeListener, StopPool, WaitPool, StopListener, WaitListener, Waited
<1>6. ASSUME Enter \/ Signal \/ ThreadStep PROVE UNCHANGED configVars
  BY <1>6 DEF Enter, Signal, Hup, HupElsewhere, Quit, QuitAmidStop, ThreadStep, Serve,
              AgentLeaves, AgentGoesOn, EarLeaves, EarGoesOn, UseDeleted, Ends
<1> QED
  BY <1>1, <1>2, <1>3, <1>4, <1>5, <1>6 DEF LifeNext

LEMMA ConfigInvInit == LifeInit => ConfigInv
<1> SUFFICES ASSUME LifeInit PROVE ConfigInv
  OBVIOUS
<1>1. /\ given \in CommandLines /\ config = [value |-> Defaults, peers |-> <<>>]
      /\ file = DefaultFile /\ lineno = 1 /\ optind = 1 /\ rescan = FALSE
      /\ phase = "reading"
  BY DEF LifeInit, ConfigInit
<1>2. ConfigShape
  BY <1>1, EntriesAssumption DEF ConfigShape
<1>3. Position
  <2>1. Len(Lines(file)) \in Nat /\ Len(given.options) \in Nat
    BY <1>1, EntryTypes
  <2> QED
    BY <1>1, <2>1 DEF Position
<1>4. KeysSoFar
  <2> SUFFICES ASSUME NEW key \in DOMAIN Defaults
               PROVE  IF SetByOption(key)
                      THEN \E d : Gives(given.options, optind - 1, key, d, config.value[key])
                      ELSE Gives(Lines(file), lineno - 1, key, ValueBefore(key), config.value[key])
    BY DEF KeysSoFar
  <2>1. /\ optind - 1 = 0 /\ lineno - 1 = 0
        /\ config.value[key] = Defaults[key] /\ ValueBefore(key) = Defaults[key]
    BY <1>1 DEF ValueBefore
  <2>2. /\ Gives(given.options, optind - 1, key, Defaults[key], config.value[key])
        /\ Gives(Lines(file), lineno - 1, key, Defaults[key], config.value[key])
    BY <2>1, GivesNothing
  <2> QED
    BY <2>1, <2>2
<1>5. PeersSoFar
  <2>1. PeersOf(Lines(file))[0] = <<>>
    BY EntryTypes, PeersOfRecursion
  <2>2. lineno - 1 = 0 /\ ~rescan /\ config.peers = <<>>
    BY <1>1
  <2> QED
    BY <2>1, <2>2, Zenon DEF PeersSoFar
<1> QED
  BY <1>1, <1>2, <1>3, <1>4, <1>5 DEF ConfigInv, Scanning, Precedence

\* An option wins over the config files wherever it stands, and the first -c's
\* file over the default one, whatever the command line and the files are.
THEOREM OptionsWin == LifeSpec => []Precedence
<1>1. LifeInit => LifeInv /\ ConfigInv
  BY LifeInvInit, ConfigInvInit
<1>2. LifeInv /\ ConfigInv /\ [LifeNext]_<<configVars, lifeVars>> => LifeInv' /\ ConfigInv'
  BY LifeStep, ConfigInvStep
<1>3. ConfigInv => Precedence
  BY DEF ConfigInv
<1> QED
  BY <1>1, <1>2, <1>3, PTL DEF LifeSpec

\* A server that is configured sends to each peer as often as the default
\* file, the first -c's file and the arguments name it, and in that order.
THEOREM PeersAreListed == LifeSpec => []PeersListed
<1>1. LifeInit => LifeInv /\ ConfigInv
  BY LifeInvInit, ConfigInvInit
<1>2. LifeInv /\ ConfigInv /\ [LifeNext]_<<configVars, lifeVars>> => LifeInv' /\ ConfigInv'
  BY LifeStep, ConfigInvStep
<1>3. ConfigInv => PeersListed
  <2> SUFFICES ASSUME ConfigInv, phase = "configured"
               PROVE  config.peers = AllPeersOf(Lines(DefaultFile)) \o
                          AllPeersOf(NamedLines) \o given.arguments
    BY Zenon DEF PeersListed
  <2>1. TakingArguments /\ given.arguments \in Seq(PeerNames \cup {Malformed})
    BY EntryTypes DEF ConfigInv, TakingArguments
  <2>2. optind - 1 = Len(given.arguments)
    BY <2>1, LenProperties DEF TakingArguments
  <2>3. SubSeq(given.arguments, 1, optind - 1) = given.arguments
    BY <2>1, <2>2, SubSeqFull
  <2> QED
    BY <2>1, <2>3, Zenon DEF TakingArguments
<1> QED
  BY <1>1, <1>2, <1>3, PTL DEF LifeSpec

-----------------------------------------------------------------------------
(* The types of pools, listeners and threads, and which objects exist.     *)

PoolState     == [exists : BOOLEAN, run : BOOLEAN, stopIds : Nat]
ListenerState == [exists : BOOLEAN, run : BOOLEAN]
AgentState    == [state : {"none", "ready", "busy", "gone"}, of : Objects]
EarState      == [state : {"none", "polling", "gone"}, of : Objects]

Typed ==
    /\ pool \in [Objects -> PoolState]
    /\ listener \in [Objects -> ListenerState]
    /\ agent \in [AgentIds -> AgentState]
    /\ ear \in [Objects -> EarState]
    /\ poolAnswers \in Nat /\ listenAnswers \in Nat
    /\ fate \in {"running", "exited", "hangs", "null pointer", "poll error",
                 "deleted object"}

LEMMA NothingTyped ==
    /\ NoPools \in [Objects -> PoolState] /\ NoListeners \in [Objects -> ListenerState]
    /\ NoAgents \in [AgentIds -> AgentState] /\ NoEars \in [Objects -> EarState]
<1>1. \A a \in AgentIds : <<a[1], a[2]>> \in Objects
  BY DEF AgentIds, Objects
<1> QED
  BY <1>1 DEF NoPools, NoListeners, NoAgents, NoEars, PoolState, ListenerState,
              AgentState, EarState

LEMMA EndsTyped ==
    ASSUME Typed, NEW how \in {"exited", "null pointer", "poll error", "deleted object"},
           Ends(how)
    PROVE  Typed'
BY NothingTyped DEF Ends, Typed

LEMMA PoolSizes ==
    ASSUME ConfigInv, NEW p
    PROVE  PoolSize(p) \in Nat
BY DEF ConfigInv, ConfigShape, PoolSize, Tmax

LEMMA MainTyped ==
    ASSUME LifeInv, ConfigInv, Typed, MainStep
    PROVE  Typed'
<1>1. CASE Start \/ Reconfigure
  BY <1>1 DEF Start, Reconfigure, Typed, agentVars, earVars
<1>2. CASE Fork
  BY <1>2, NothingTyped DEF Fork, Typed
<1>3. CASE StopNothing \/ Exit
  BY <1>3, EndsTyped DEF StopNothing, Exit
<1>4. CASE Reset
  <2>1. /\ pool' = [o \in Objects |-> [pool[o] EXCEPT !.exists = FALSE]]
        /\ listener' = NoListeners
        /\ UNCHANGED <<fate, agent, ear, poolAnswers, listenAnswers>>
    BY <1>4 DEF Reset, agentVars, earVars
  <2>2. pool' \in [Objects -> PoolState]
    BY <2>1 DEF Typed, PoolState
  <2> QED
    BY <2>1, <2>2, NothingTyped DEF Typed
<1>5. ASSUME NEW p \in Ports, MakePool(p) PROVE Typed'
  <2>1. /\ UNCHANGED <<fate, listener, ear, poolAnswers, listenAnswers>>
        /\ pool' = [pool EXCEPT ![<<main.gen, p>>] =
                       [exists |-> TRUE, run |-> TRUE, stopIds |-> 0]]
        /\ agent' = [a \in AgentIds |->
                        IF a[1] = main.gen /\ a[2] = p /\ a[3] <= PoolSize(p)
                        THEN [agent[a] EXCEPT !.state = "ready"] ELSE agent[a]]
    BY <1>5 DEF MakePool, earVars
  <2>2. pool' \in [Objects -> PoolState]
    BY <2>1 DEF Typed, PoolState
  <2>3. agent' \in [AgentIds -> AgentState]
    <3>1. \A a \in AgentIds : /\ agent[a] \in AgentState
                              /\ [agent[a] EXCEPT !.state = "ready"] \in AgentState
      BY DEF Typed, AgentState
    <3> QED
      BY <2>1, <3>1
  <2> QED
    BY <2>1, <2>2, <2>3 DEF Typed
<1>6. ASSUME NEW p \in Ports, MakeListener(p) PROVE Typed'
  <2>1. /\ UNCHANGED <<fate, pool, agent, poolAnswers, listenAnswers>>
        /\ listener' = [listener EXCEPT ![<<main.gen, p>>] = [exists |-> TRUE, run |-> TRUE]]
        /\ ear' = [ear EXCEPT ![<<main.gen, p>>].state = "polling"]
    BY <1>6 DEF MakeListener, agentVars
  <2> QED
    BY <2>1 DEF Typed, ListenerState, EarState
<1>7. ASSUME NEW p \in Ports, StopPool(p) PROVE Typed'
  <2>1. /\ UNCHANGED <<fate, listener, agent, ear, poolAnswers, listenAnswers>>
        /\ pool' = [pool EXCEPT ![<<main.gen, p>>].run = FALSE,
                                ![<<main.gen, p>>].stopIds = @ + PoolSize(p)]
    BY <1>7 DEF StopPool, agentVars, earVars
  <2>2. pool' \in [Objects -> PoolState]
    <3>1. PoolSize(p) \in Nat
      BY PoolSizes
    <3>2. ASSUME NEW o \in Objects
          PROVE  pool[o] \in PoolState /\ pool[o].stopIds + PoolSize(p) \in Nat
      <4>1. pool[o] \in PoolState
        BY DEF Typed
      <4>2. pool[o].stopIds \in Nat
        BY <4>1 DEF PoolState
      <4> QED
        BY <3>1, <4>1, <4>2
    <3>3. \A o \in Objects :
              pool'[o] = IF o = <<main.gen, p>>
                         THEN [pool[o] EXCEPT !.run = FALSE, !.stopIds = @ + PoolSize(p)]
                         ELSE pool[o]
      BY <2>1 DEF Typed
    <3>4. \A o \in Objects : pool'[o] \in PoolState
      BY <3>2, <3>3 DEF PoolState
    <3>5. pool' = [o \in Objects |-> pool'[o]]
      BY <2>1 DEF Typed
    <3> QED
      BY <3>4, <3>5
  <2> QED
    BY <2>1, <2>2 DEF Typed
<1>8. ASSUME NEW p \in Ports, StopListener(p) PROVE Typed'
  <2>1. /\ UNCHANGED <<fate, pool, agent, ear, poolAnswers, listenAnswers>>
        /\ listener' = [listener EXCEPT ![<<main.gen, p>>].run = FALSE]
    BY <1>8 DEF StopListener, agentVars, earVars
  <2> QED
    BY <2>1 DEF Typed, ListenerState
<1>9. ASSUME NEW p \in Ports, WaitPool(p) \/ WaitListener(p) PROVE Typed'
  BY <1>9 DEF WaitPool, WaitListener, Waited, Typed, agentVars, earVars
<1> QED
  BY <1>1, <1>2, <1>3, <1>4, <1>5, <1>6, <1>7, <1>8, <1>9 DEF MainStep

LEMMA ThreadsTyped ==
    ASSUME Typed, ThreadStep
    PROVE  Typed'
<1>1. ASSUME NEW a \in AgentIds, Serve(a) PROVE Typed'
  <2>1. /\ UNCHANGED <<fate, pool, listener, ear, poolAnswers, listenAnswers>>
        /\ agent' = [agent EXCEPT ![a].state = "busy"]
    BY <1>1 DEF Serve, earVars
  <2> QED
    BY <2>1 DEF Typed, AgentState
<1>2. ASSUME NEW a \in AgentIds, Done(a) PROVE pool' \in [Objects -> PoolState]
  <2>1. CASE UNCHANGED pool
    BY <2>1 DEF Typed
  <2>2. CASE /\ pool[agent[a].of].stopIds > 0
             /\ pool' = [pool EXCEPT ![agent[a].of].stopIds = @ - 1]
    <3>1. PICK o \in Objects : o = agent[a].of
      BY DEF Typed, AgentState
    <3>2. pool[o] \in PoolState /\ pool[o].stopIds > 0
      BY <2>2, <3>1 DEF Typed
    <3>3. pool[o].stopIds - 1 \in Nat
      BY <3>2 DEF PoolState
    <3>4. [pool[o] EXCEPT !.stopIds = @ - 1] \in PoolState
      BY <3>2, <3>3 DEF PoolState
    <3>5. pool' = [pool EXCEPT ![o] = [pool[o] EXCEPT !.stopIds = @ - 1]]
      BY <2>2, <3>1 DEF Typed
    <3> QED
      BY <3>4, <3>5 DEF Typed
  <2> QED
    BY <1>2, <2>1, <2>2 DEF Done
<1>3. ASSUME NEW a \in AgentIds, AgentLeaves(a) PROVE Typed'
  <2>1. /\ UNCHANGED <<fate, listener, ear, listenAnswers>>
        /\ agent' = [agent EXCEPT ![a].state = "gone"]
        /\ poolAnswers' = poolAnswers + 1 /\ Done(a)
    BY <1>3 DEF AgentLeaves, earVars
  <2>2. pool' \in [Objects -> PoolState]
    BY <1>2, <2>1
  <2>3. agent' \in [AgentIds -> AgentState] /\ poolAnswers' \in Nat
    <3>1. poolAnswers' \in Nat
      <4>1. poolAnswers \in Nat
        BY DEF Typed
      <4> QED
        BY <2>1, <4>1
    <3> QED
      BY <2>1, <3>1 DEF Typed, AgentState
  <2> QED
    BY <2>1, <2>2, <2>3 DEF Typed
<1>4. ASSUME NEW a \in AgentIds, AgentGoesOn(a) PROVE Typed'
  <2>1. PICK o \in Objects : agent' = [agent EXCEPT ![a] = [state |-> "ready", of |-> o]]
    BY <1>4 DEF AgentGoesOn
  <2>2. /\ UNCHANGED <<fate, listener, ear, poolAnswers, listenAnswers>> /\ Done(a)
    BY <1>4 DEF AgentGoesOn, earVars
  <2>3. pool' \in [Objects -> PoolState]
    BY <1>2, <2>2
  <2>4. agent' \in [AgentIds -> AgentState]
    BY <2>1 DEF Typed, AgentState
  <2> QED
    BY <2>2, <2>3, <2>4 DEF Typed
<1>5. ASSUME NEW o \in Objects, EarLeaves(o) PROVE Typed'
  <2>1. /\ UNCHANGED <<fate, pool, listener, agent, poolAnswers>>
        /\ ear' = [ear EXCEPT ![o].state = "gone"]
        /\ listenAnswers' = listenAnswers + 1
    BY <1>5 DEF EarLeaves, agentVars
  <2>2. listenAnswers' \in Nat
    <3>1. listenAnswers \in Nat
      BY DEF Typed
    <3> QED
      BY <2>1, <3>1
  <2>3. ear' \in [Objects -> EarState]
    <3>1. ear \in [Objects -> EarState] /\ ear[o] \in EarState
      BY DEF Typed
    <3>2. [ear[o] EXCEPT !.state = "gone"] \in EarState
      BY <3>1 DEF EarState
    <3>3. ear' = [ear EXCEPT ![o] = [ear[o] EXCEPT !.state = "gone"]]
      BY <2>1, <3>1
    <3> QED
      BY <3>1, <3>2, <3>3
  <2> QED
    BY <2>1, <2>2, <2>3 DEF Typed
<1>6. ASSUME NEW o \in Objects, EarGoesOn(o) PROVE Typed'
  <2>1. PICK n \in Objects : ear' = [ear EXCEPT ![o].of = n]
    BY <1>6 DEF EarGoesOn
  <2>2. UNCHANGED <<fate, pool, listener, agent, poolAnswers, listenAnswers>>
    BY <1>6 DEF EarGoesOn, agentVars
  <2> QED
    BY <2>1, <2>2 DEF Typed, EarState
<1>7. CASE UseDeleted
  BY <1>7, EndsTyped DEF UseDeleted
<1> QED
  BY <1>1, <1>3, <1>4, <1>5, <1>6, <1>7 DEF ThreadStep

LEMMA TypedStep ==
    ASSUME LifeInv, ConfigInv, Typed, [LifeNext]_<<configVars, lifeVars>>
    PROVE  Typed'
<1>1. CASE ConfigStep \/ UNCHANGED <<configVars, lifeVars>>
  BY <1>1 DEF ConfigStep, lifeVars, agentVars, earVars, Typed
<1>2. CASE MainStep
  BY <1>2, MainTyped
<1>3. CASE Enter \/ Hup \/ Quit \/ QuitAmidStop
  BY <1>3 DEF Enter, Hup, Quit, QuitAmidStop, agentVars, earVars, Typed
<1>4. CASE HupElsewhere
  BY <1>4, EndsTyped DEF HupElsewhere
<1>5. CASE ThreadStep
  BY <1>5, ThreadsTyped
<1> QED
  BY <1>1, <1>2, <1>3, <1>4, <1>5 DEF LifeNext, Signal

\* What signals and reloads leave: only a SIGQUIT interrupts, the flag
\* initialized is set by a configure() that ran, and what exists is of the
\* current generation.
Course ==
    /\ IF main.at = "config"
       THEN /\ phase # "started"
            /\ \A a \in AgentIds : agent[a].state = "none"
            /\ \A o \in Objects : ear[o].state = "none"
       ELSE phase \in {"started", "unconfigured"}
    /\ main.at \in {"fork", "make pool", "make listener"} \/ main.why = "hup" =>
           phase = "started"
    /\ main.nested => /\ main.at \in Stopping \cup {"reset", "sleep", "ended"}
                      /\ main.at # "ended" => main.why = "quit"
    /\ main.initialized => phase = "started"
    /\ \A o \in Objects : pool[o].exists \/ listener[o].exists => o[1] = main.gen
    /\ main.at \in {"config", "fork", "sleep"} =>
           \A o \in Objects : ~pool[o].exists /\ ~listener[o].exists

\* No object comes or goes, and the generation is the same.
LEMMA SameCourse ==
    ASSUME LifeInv, Course, phase' = phase, main' = main,
           main.at # "config" \/ UNCHANGED <<agent, ear>>,
           \A o \in Objects : /\ pool'[o].exists = pool[o].exists
                              /\ listener'[o].exists = listener[o].exists
    PROVE  Course'
BY DEF Course

LEMMA EndsCourse ==
    ASSUME LifeInv, Course, NEW how, Ends(how), phase \in {"started", "unconfigured"}
    PROVE  Course'
<1>1. /\ main' = [main EXCEPT !.at = "ended", !.initialized = FALSE]
      /\ main \in MainType /\ pool' = NoPools /\ listener' = NoListeners
      /\ phase' = phase
  BY DEF Ends, LifeInv, configVars
<1>2. /\ main'.at = "ended" /\ ~main'.initialized /\ main'.why = main.why
      /\ main'.nested = main.nested
  BY <1>1 DEF MainType
<1>3. \A o \in Objects : ~pool'[o].exists /\ ~listener'[o].exists
  BY <1>1 DEF NoPools, NoListeners
<1> QED
  BY <1>1, <1>2, <1>3 DEF Course, Stopping

LEMMA SignalCourse ==
    ASSUME LifeInv, Course, Signal \/ Enter
    PROVE  Course'
<1>t. main \in MainType
  BY DEF LifeInv
<1>1. ASSUME NEW reason \in {"enter", "hup", "quit"}, Reinit(reason),
             main.at # "config",
             reason = "hup" => phase = "started",
             reason # "quit" => main.at = "waiting",
             UNCHANGED <<phase, pool, listener>>
      PROVE  Course'
  <2>1. /\ main'.at = "stop pool" /\ ~main'.initialized
        /\ main'.gen = main.gen /\ main'.why = reason
        /\ main'.nested = (main.nested \/ main.at # "waiting")
    BY <1>1, <1>t DEF Reinit, MainType
  <2> QED
    BY <1>1, <2>1 DEF Course, Stopping
<1>2. CASE Enter
  <2>1. Reinit("enter") /\ main.at = "waiting" /\ UNCHANGED <<phase, pool, listener>>
    BY <1>2 DEF Enter, configVars
  <2> QED
    BY <1>1, <2>1
<1>3. Handled => phase = "started" /\ main.at # "config"
  BY DEF Handled, Course
<1>4. CASE Hup
  <2>1. /\ Reinit("hup") /\ main.initialized /\ Handled
        /\ UNCHANGED <<phase, pool, listener>>
    BY <1>4 DEF Hup, configVars
  <2>2. main.at = "waiting"
    BY <2>1 DEF LifeInv
  <2> QED
    BY <1>1, <1>3, <2>1, <2>2
<1>5. CASE HupElsewhere
  BY <1>3, <1>5, EndsCourse DEF HupElsewhere
<1>6. CASE Quit
  <2>1. Reinit("quit") /\ Handled /\ UNCHANGED <<phase, pool, listener>>
    BY <1>6 DEF Quit, configVars
  <2> QED
    BY <1>1, <1>3, <2>1
<1>7. CASE QuitAmidStop
  <2>1. /\ main' = [main EXCEPT !.at = "ended", !.nested = TRUE]
        /\ Handled /\ UNCHANGED <<phase, pool, listener>>
    BY <1>7 DEF QuitAmidStop, configVars
  <2>2. /\ main'.at = "ended" /\ main'.initialized = main.initialized
        /\ main'.gen = main.gen /\ main'.why = main.why
    BY <1>t, <2>1 DEF MainType
  <2> QED
    BY <1>3, <2>1, <2>2 DEF Course
<1> QED
  BY <1>2, <1>4, <1>5, <1>6, <1>7 DEF Signal

LEMMA MainCourse ==
    ASSUME LifeInv, Course, MainStep
    PROVE  Course'
<1>t. main \in MainType /\ Tables
  BY DEF LifeInv
<1>1. CASE Start
  <2>1. /\ main'.at = IF phase = "configured" THEN "fork" ELSE "waiting"
        /\ main.at = "config" /\ main'.initialized = main.initialized
        /\ main'.nested = main.nested /\ main'.why = main.why /\ main'.gen = main.gen
        /\ phase' = IF phase = "configured" THEN "started" ELSE "unconfigured"
        /\ UNCHANGED <<pool, listener>>
    BY <1>1, <1>t DEF Start, MainType
  <2>2. ~main.initialized /\ ~main.nested /\ main.why # "hup"
    BY <2>1 DEF LifeInv, Course, Stopping
  <2> QED
    BY <2>1, <2>2 DEF Course
<1>2. CASE Fork \/ Reconfigure
  <2>1. /\ main'.initialized = main.initialized /\ main'.nested = main.nested
        /\ main'.why = main.why /\ UNCHANGED <<phase, pool, listener>>
        /\ \/ main.at = "fork" /\ main'.at = "make pool" /\ main'.gen = main.gen
           \/ main.at = "sleep" /\ main'.at = "fork" /\ main.why = "hup"
    BY <1>2, <1>t DEF Fork, Reconfigure, MainType, configVars
  <2> QED
    BY <2>1 DEF Course, Stopping
<1>3. CASE StopNothing \/ Exit
  <2>1. main.at # "config" /\ \E how : Ends(how)
    BY <1>3 DEF StopNothing, Exit
  <2> QED
    BY <2>1, EndsCourse DEF Course
<1>4. CASE Reset
  <2>1. /\ main.at = "reset" /\ main'.at = "sleep"
        /\ main'.initialized = main.initialized /\ main'.nested = main.nested
        /\ main'.why = main.why /\ phase' = phase
        /\ \A o \in Objects : ~pool'[o].exists /\ ~listener'[o].exists
    BY <1>4, <1>t DEF Reset, Goes, MainType, NoListeners, Tables
  <2> QED
    BY <2>1 DEF Course
<1>5. ASSUME NEW p \in Ports, MakePool(p) PROVE Course'
  <2>1. /\ main.at = "make pool" /\ main'.at = "make listener"
        /\ main'.initialized = main.initialized /\ main'.nested = main.nested
        /\ main'.why = main.why /\ main'.gen = main.gen
        /\ UNCHANGED <<phase, listener>>
        /\ pool' = [pool EXCEPT ![<<main.gen, p>>] =
                       [exists |-> TRUE, run |-> TRUE, stopIds |-> 0]]
    BY <1>5, <1>t DEF MakePool, Goes, MainType, configVars
  <2>2. \A o \in Objects : pool'[o] = pool[o] \/ o[1] = main.gen
    <3> SUFFICES ASSUME NEW o \in Objects, o # <<main.gen, p>>
                 PROVE  pool'[o] = pool[o]
      OBVIOUS
    <3> QED
      BY <1>t, <2>1 DEF Tables
  <2> QED
    BY <2>1, <2>2 DEF Course, Stopping
<1>6. ASSUME NEW p \in Ports, MakeListener(p) PROVE Course'
  <2>1. /\ main.at = "make listener" /\ main'.at \in {"make pool", "waiting"}
        /\ main'.nested = main.nested
        /\ main'.why = main.why /\ main'.gen = main.gen
        /\ UNCHANGED <<phase, pool>>
        /\ listener' = [listener EXCEPT ![<<main.gen, p>>] = [exists |-> TRUE, run |-> TRUE]]
    BY <1>6, <1>t DEF MakeListener, MainType, configVars
  <2>2. \A o \in Objects : listener'[o] = listener[o] \/ o[1] = main.gen
    <3> SUFFICES ASSUME NEW o \in Objects, o # <<main.gen, p>>
                 PROVE  listener'[o] = listener[o]
      OBVIOUS
    <3> QED
      BY <1>t, <2>1 DEF Tables
  <2> QED
    BY <2>1, <2>2 DEF Course, Stopping
<1>7. ASSUME NEW p \in Ports,
             StopPool(p) \/ StopListener(p) \/ WaitPool(p) \/ WaitListener(p)
      PROVE  Course'
  <2>1. /\ main.at \in Stopping /\ main'.at \in Stopping \cup {"reset"}
        /\ main'.initialized = main.initialized /\ main'.nested = main.nested
        /\ main'.why = main.why /\ main'.gen = main.gen /\ phase' = phase
    BY <1>7, <1>t DEF StopPool, StopListener, WaitPool, WaitListener, Waited, AfterPool,
                      Goes, MainType, Stopping, configVars
  <2>2. \A o \in Objects : /\ pool'[o].exists = pool[o].exists
                           /\ listener'[o].exists = listener[o].exists
    <3>1. CASE StopPool(p)
      BY <1>t, <3>1 DEF StopPool, Tables
    <3>2. CASE StopListener(p)
      BY <1>t, <3>2 DEF StopListener, Tables
    <3>3. CASE WaitPool(p) \/ WaitListener(p)
      BY <3>3 DEF WaitPool, WaitListener, Waited
    <3> QED
      BY <1>7, <3>1, <3>2, <3>3
  <2> QED
    BY <2>1, <2>2 DEF Course, Stopping
<1> QED
  BY <1>1, <1>2, <1>3, <1>4, <1>5, <1>6, <1>7 DEF MainStep

LEMMA CourseStep ==
    ASSUME LifeInv, Typed, Course, [LifeNext]_<<configVars, lifeVars>>
    PROVE  Course'
<1>t. Tables
  BY DEF LifeInv
<1>1. CASE ConfigStep
  <2>1. /\ phase \in {"reading", "options", "arguments"} /\ phase' # "started"
        /\ UNCHANGED <<main, pool, listener, agent, ear>>
    BY <1>1 DEF ConfigStep, ConfigNext, ReadLine, EndOfFile, AtOption, TakeOption,
                TakeConf, Opens, CheckBbfile, AddPeer, AllPeers, lifeVars,
                agentVars, earVars
  <2> QED
    BY <2>1 DEF Course
<1>2. CASE MainStep
  BY <1>2, MainCourse
<1>3. CASE Enter \/ Signal
  BY <1>3, SignalCourse
<1>4. CASE ThreadStep
  <2>c. main.at # "config"
    <3>1. ASSUME \A a \in AgentIds : agent[a].state = "none",
                 \A o \in Objects : ear[o].state = "none"
          PROVE  FALSE
      BY <1>4, <3>1 DEF ThreadStep, Serve, AgentLeaves, AgentGoesOn, Done, EarLeaves,
                        EarGoesOn, UseDeleted
    <3> QED
      BY <3>1 DEF Course
  <2>1. ASSUME NEW a \in AgentIds, Serve(a) \/ AgentLeaves(a) \/ AgentGoesOn(a)
        PROVE  Course'
    <3>1. UNCHANGED <<main, listener, phase>> /\ (pool' = pool \/ Done(a))
      BY <2>1 DEF Serve, AgentLeaves, AgentGoesOn, configVars
    <3>2. \A o \in Objects : pool'[o].exists = pool[o].exists
      BY <1>t, <3>1 DEF Done, Tables
    <3> QED
      BY <2>c, <3>1, <3>2, SameCourse
  <2>2. ASSUME NEW o \in Objects, EarLeaves(o) \/ EarGoesOn(o) PROVE Course'
    <3>1. UNCHANGED <<main, pool, listener, phase>>
      BY <2>2 DEF EarLeaves, EarGoesOn, configVars
    <3> QED
      BY <2>c, <3>1, SameCourse
  <2>3. CASE UseDeleted
    BY <2>c, <2>3, EndsCourse DEF UseDeleted, Course
  <2> QED
    BY <1>4, <2>1, <2>2, <2>3 DEF ThreadStep
<1>5. CASE UNCHANGED <<configVars, lifeVars>>
  BY <1>5, SameCourse DEF configVars, lifeVars, agentVars, earVars
<1> QED
  BY <1>1, <1>2, <1>3, <1>4, <1>5 DEF LifeNext

LEMMA CourseInit == LifeInit => Typed /\ Course
<1> SUFFICES ASSUME LifeInit PROVE Typed /\ Course
  OBVIOUS
<1>1. Typed
  BY NothingTyped DEF LifeInit, Typed
<1>2. /\ main.at = "config" /\ main.why = "start" /\ ~main.nested /\ ~main.initialized
      /\ phase = "reading"
  BY DEF LifeInit, ConfigInit
<1>3. /\ \A o \in Objects : ~pool[o].exists /\ ~listener[o].exists /\ ear[o].state = "none"
      /\ \A a \in AgentIds : agent[a].state = "none"
  BY DEF LifeInit, NoPools, NoListeners, NoAgents, NoEars
<1> QED
  BY <1>1, <1>2, <1>3 DEF Course

\* The types of the life cycle: and the flag initialized, by which a SIGHUP is
\* taken or skipped, is set only while both pools and both listeners exist,
\* and no pool with its listener outlives its generation.
THEOREM LifeTypeCorrect == LifeSpec => []LifeTypeOK
<1> DEFINE Inv == LifeInv /\ ConfigInv /\ Typed /\ Course
<1>1. LifeInit => Inv
  BY LifeInvInit, ConfigInvInit, CourseInit
<1>2. Inv /\ [LifeNext]_<<configVars, lifeVars>> => Inv'
  BY LifeStep, ConfigInvStep, TypedStep, CourseStep
<1>3. Inv => LifeTypeOK
  <2> SUFFICES ASSUME Inv PROVE LifeTypeOK
    OBVIOUS
  <2>1. main.gen \in Generations /\ main.why \in {"start", "hup", "quit", "enter"}
    BY DEF LifeInv, MainType
  <2>2. main.initialized => \A p \in Ports : Exists(<<main.gen, p>>)
    BY DEF LifeInv, Course, Regular, Complete, Stopping
  <2>3. \A o \in Objects : Exists(o) => o[1] = main.gen
    BY DEF Course, Exists
  <2> QED
    BY <2>1, <2>2, <2>3
       DEF LifeTypeOK, Typed, PoolState, ListenerState, AgentState, EarState
<1> QED
  BY <1>1, <1>2, <1>3, PTL DEF LifeSpec

-----------------------------------------------------------------------------
(* The first stop: an agent or a listener of the first generation that     *)
(* ended has left one answer, and a wait that does not time out saw as     *)
(* many answers as the last pool has agents, whoever gave them.            *)

GoneAgents == {a \in AgentIds : agent[a].state = "gone"}
GoneEars   == {o \in Objects : ear[o].state = "gone"}

\* configure() has not come to the pool, or to the listener, of this port.
PoolPending(p) ==
    \/ main.at \in {"config", "fork"}
    \/ main.at = "make pool" /\ (main.port = "s" \/ p = "b")
    \/ main.at = "make listener" /\ main.port = "s" /\ p = "b"

ListenerPending(p) ==
    \/ main.at \in {"config", "fork"}
    \/ main.at \in {"make pool", "make listener"} /\ (main.port = "s" \/ p = "b")

\* A thread is one that the first configure() made.
FirstAgents ==
    \A a \in AgentIds : agent[a].state # "none" =>
        a[1] = 1 /\ a[3] <= PoolSize(a[2]) /\ ~PoolPending(a[2])

FirstEars ==
    \A o \in Objects : ear[o].state # "none" => o[1] = 1 /\ ~ListenerPending(o[2])

\* The answers that the last two waits saw.
Heard ==
    ~main.timedOut =>
        /\ \/ main.at \in {"stop listener", "wait listener"} /\ main.port = "b"
           \/ main.at = "reset"
           => poolAnswers >= Tmax
        /\ main.at = "reset" => listenAnswers >= 1

FirstRun ==
    main.gen = 1 =>
        /\ FirstAgents /\ poolAnswers = Cardinality(GoneAgents)
        /\ FirstEars /\ listenAnswers = Cardinality(GoneEars)
        /\ Heard

\* A set with no more elements than 0..n has.
LEMMA InjectedBound ==
    ASSUME NEW M, NEW n \in Nat, NEW f \in Injection(M, 0..n)
    PROVE  IsFiniteSet(M) /\ Cardinality(M) <= n + 1
<1>1. IsFiniteSet(0..n) /\ Cardinality(0..n) = n + 1
  <2>1. 0 \in Int /\ n \in Int /\ ~(0 > n) /\ n - 0 + 1 = n + 1
    OBVIOUS
  <2>2. IsFiniteSet(0..n) /\ Cardinality(0..n) = IF 0 > n THEN 0 ELSE n - 0 + 1
    BY <2>1, FS_Interval
  <2> QED
    BY <2>1, <2>2
<1> QED
  BY <1>1, FS_Injection

\* Two disjoint parts of a set, of which one has all elements but one.
LEMMA OneMissing ==
    ASSUME NEW M, NEW n \in Nat, IsFiniteSet(M), Cardinality(M) <= n + 1,
           NEW L \in SUBSET M, NEW G \in SUBSET M, L \cap G = {},
           Cardinality(G) >= n
    PROVE  Cardinality(L) <= 1
<1>1. /\ IsFiniteSet(L) /\ IsFiniteSet(G)
      /\ Cardinality(L) \in Nat /\ Cardinality(G) \in Nat
  BY FS_Subset, FS_CardinalityType
<1>2. Cardinality(L \cup G) = Cardinality(L) + Cardinality(G)
  <2>1. Cardinality(L \cap G) = 0
    BY FS_EmptySet
  <2>2. Cardinality(L \cup G) = Cardinality(L) + Cardinality(G) - Cardinality(L \cap G)
    BY <1>1, FS_Union
  <2> QED
    BY <1>1, <2>1, <2>2
<1>3. Cardinality(L \cup G) <= Cardinality(M) /\ Cardinality(M) \in Nat
  <2>1. L \cup G \in SUBSET M
    OBVIOUS
  <2> QED
    BY <2>1, FS_Subset, FS_CardinalityType
<1> QED
  BY <1>1, <1>2, <1>3

\* How many threads the first configure() makes.
LEMMA FirstAgentsCount ==
    ASSUME ConfigInv, FirstAgents
    PROVE  LET M == {a \in AgentIds : agent[a].state # "none"}
           IN  IsFiniteSet(M) /\ Cardinality(M) <= Tmax + 1
<1> DEFINE M == {a \in AgentIds : agent[a].state # "none"}
           f == [a \in M |-> IF a[2] = "s" THEN 0 ELSE a[3]]
<1>1. Tmax \in Nat
  BY DEF ConfigInv, ConfigShape, Tmax
<1>2. \A a \in M : /\ a = <<a[1], a[2], a[3]>> /\ a[1] = 1
                   /\ (a[2] = "s" /\ a[3] = 1) \/ (a[2] = "b" /\ a[3] \in 1..Tmax)
  <2> SUFFICES ASSUME NEW a \in M
               PROVE  /\ a = <<a[1], a[2], a[3]>> /\ a[1] = 1
                      /\ (a[2] = "s" /\ a[3] = 1) \/ (a[2] = "b" /\ a[3] \in 1..Tmax)
    OBVIOUS
  <2>1. /\ a = <<a[1], a[2], a[3]>> /\ a[2] \in {"s", "b"} /\ a[3] \in 1..MaxTmax
    BY DEF AgentIds, Ports
  <2>2. a[1] = 1 /\ a[3] <= IF a[2] = "s" THEN 1 ELSE Tmax
    BY DEF FirstAgents, PoolSize
  <2>3. a[3] \in Int /\ a[3] >= 1
    BY <2>1, LifecycleAssumption
  <2>4. CASE a[2] = "s"
    <3>1. a[3] = 1
      BY <2>2, <2>3, <2>4
    <3> QED
      BY <2>1, <2>2, <2>4, <3>1
  <2>5. CASE a[2] = "b"
    <3>1. a[3] \in 1..Tmax
      BY <1>1, <2>2, <2>3, <2>5
    <3> QED
      BY <2>1, <2>2, <2>5, <3>1
  <2> QED
    BY <2>1, <2>4, <2>5
<1>3. f \in [M -> 0..Tmax]
  <2>1. \A a \in M : (IF a[2] = "s" THEN 0 ELSE a[3]) \in 0..Tmax
    BY <1>1, <1>2
  <2> HIDE DEF M
  <2> QED
    BY <2>1
<1>4. IsInjective(f)
  <2> HIDE DEF M
  <2>1. \A a, b \in M :
            (IF a[2] = "s" THEN 0 ELSE a[3]) = (IF b[2] = "s" THEN 0 ELSE b[3]) => a = b
    <3> SUFFICES ASSUME NEW a \in M, NEW b \in M,
                 (IF a[2] = "s" THEN 0 ELSE a[3]) = (IF b[2] = "s" THEN 0 ELSE b[3])
                 PROVE  a = b
      OBVIOUS
    <3>1. a[1] = b[1] /\ a[2] = b[2] /\ a[3] = b[3]
      BY <1>1, <1>2
    <3> QED
      BY <1>2, <3>1
  <2> QED
    BY <2>1 DEF IsInjective
<1>5. f \in Injection(M, 0..Tmax)
  BY <1>3, <1>4 DEF Injection
<1> HIDE DEF M, f
<1>6. IsFiniteSet(M) /\ Cardinality(M) <= Tmax + 1
  BY <1>1, <1>5, InjectedBound
<1> QED
  BY <1>6 DEF M

LEMMA FirstEarsCount ==
    ASSUME FirstEars
    PROVE  LET M == {o \in Objects : ear[o].state # "none"}
           IN  IsFiniteSet(M) /\ Cardinality(M) <= 1 + 1
<1> DEFINE M == {o \in Objects : ear[o].state # "none"}
           f == [o \in M |-> IF o[2] = "s" THEN 0 ELSE 1]
<1>1. \A o \in M : o = <<o[1], o[2]>> /\ o[1] = 1 /\ o[2] \in {"s", "b"}
  BY DEF Objects, Ports, FirstEars
<1>2. f \in [M -> 0..1]
  <2> HIDE DEF M
  <2> QED
    OBVIOUS
<1>3. IsInjective(f)
  <2> HIDE DEF M
  <2>1. \A a, b \in M : (IF a[2] = "s" THEN 0 ELSE 1) = (IF b[2] = "s" THEN 0 ELSE 1) => a = b
    BY <1>1
  <2> QED
    BY <2>1 DEF IsInjective
<1>4. f \in Injection(M, 0..1)
  BY <1>2, <1>3 DEF Injection
<1> HIDE DEF M, f
<1>5. IsFiniteSet(M) /\ Cardinality(M) <= 1 + 1
  BY <1>4, InjectedBound
<1> QED
  BY <1>5 DEF M

\* The type of the counters, which are numbers of the threads that are gone.
LEMMA GoneFinite ==
    ASSUME ConfigInv, FirstAgents, FirstEars
    PROVE  IsFiniteSet(GoneAgents) /\ IsFiniteSet(GoneEars)
<1>1. GoneAgents \in SUBSET {a \in AgentIds : agent[a].state # "none"}
  BY DEF GoneAgents
<1>2. GoneEars \in SUBSET {o \in Objects : ear[o].state # "none"}
  BY DEF GoneEars
<1> QED
  BY <1>1, <1>2, FirstAgentsCount, FirstEarsCount, FS_Subset

LEMMA NoThreads ==
    /\ \A a \in AgentIds : NoAgents[a].state = "none"
    /\ \A o \in Objects : NoEars[o].state = "none"
    /\ {a \in AgentIds : NoAgents[a].state = "gone"} = {}
    /\ {o \in Objects : NoEars[o].state = "gone"} = {}
BY DEF NoAgents, NoEars

LEMMA EndsFirst ==
    ASSUME LifeInv, NEW how, Ends(how)
    PROVE  FirstRun'
<1>1. /\ agent' = NoAgents /\ ear' = NoEars /\ poolAnswers' = 0 /\ listenAnswers' = 0
      /\ main' = [main EXCEPT !.at = "ended", !.initialized = FALSE]
      /\ main \in MainType
  BY DEF Ends, LifeInv
<1>2. main'.at = "ended"
  BY <1>1 DEF MainType
<1>3. GoneAgents' = {} /\ GoneEars' = {}
  BY <1>1, NoThreads DEF GoneAgents, GoneEars
<1>4. FirstAgents' /\ FirstEars'
  BY <1>1, NoThreads DEF FirstAgents, FirstEars
<1>5. Heard'
  BY <1>2 DEF Heard
<1>6. poolAnswers' = Cardinality(GoneAgents)' /\ listenAnswers' = Cardinality(GoneEars)'
  BY <1>1, <1>3, FS_EmptySet
<1> QED
  BY <1>4, <1>5, <1>6 DEF FirstRun

\* The threads are as they were, and main has not made one that it had.
LEMMA SameThreads ==
    ASSUME FirstRun, main'.gen = 1, main.gen = 1,
           UNCHANGED <<agent, ear, poolAnswers, listenAnswers>>,
           Tmax' = Tmax,
           \A p \in Ports : /\ PoolPending(p)' => PoolPending(p)
                            /\ ListenerPending(p)' => ListenerPending(p),
           Heard'
    PROVE  FirstRun'
<1>1. GoneAgents' = GoneAgents /\ GoneEars' = GoneEars
  BY DEF GoneAgents, GoneEars
<1>2. FirstAgents'
  <2>1. \A p : PoolSize(p)' = PoolSize(p)
    BY DEF PoolSize
  <2>2. \A a \in AgentIds : a[2] \in Ports
    BY DEF AgentIds
  <2> QED
    BY <2>1, <2>2 DEF FirstRun, FirstAgents
<1>3. FirstEars'
  <2>1. \A o \in Objects : o[2] \in Ports
    BY DEF Objects
  <2> QED
    BY <2>1 DEF FirstRun, FirstEars
<1> QED
  BY <1>1, <1>2, <1>3 DEF FirstRun

LEMMA ConfigureFirst ==
    ASSUME LifeInv, ConfigInv, Typed, Course, FirstRun, main.gen = 1, main'.gen = 1,
           \/ Start \/ Fork \/ \E p \in Ports : MakePool(p) \/ MakeListener(p)
    PROVE  FirstRun'
<1>t. main \in MainType
  BY DEF LifeInv
<1>1. CASE Start
  <2>1. /\ main'.at \in {"fork", "waiting"} /\ main.at = "config"
        /\ config' = config
        /\ UNCHANGED <<agent, ear, poolAnswers, listenAnswers>>
    BY <1>1, <1>t DEF Start, MainType, agentVars, earVars
  <2>2. Tmax' = Tmax /\ Heard'
    BY <2>1 DEF Tmax, Heard
  <2>3. \A p \in Ports : PoolPending(p) /\ ListenerPending(p)
    BY <2>1 DEF PoolPending, ListenerPending
  <2> QED
    BY <2>1, <2>2, <2>3, SameThreads
<1>2. CASE Fork
  <2>1. /\ main.at = "fork" /\ main'.at = "make pool" /\ main'.port = "s"
        /\ config' = config /\ UNCHANGED <<poolAnswers, listenAnswers>>
    BY <1>2, <1>t DEF Fork, MainType, configVars
  <2>2. Tmax' = Tmax /\ Heard'
    BY <2>1 DEF Tmax, Heard
  <2>3. \A p \in Ports : PoolPending(p) /\ ListenerPending(p)
    BY <2>1 DEF PoolPending, ListenerPending
  <2>4. /\ \A a \in AgentIds : a[2] \in Ports
        /\ \A o \in Objects : o[2] \in Ports
    BY DEF AgentIds, Objects
  <2>5. /\ \A a \in AgentIds : agent[a].state = "none"
        /\ \A o \in Objects : ear[o].state = "none"
    BY <2>3, <2>4 DEF FirstRun, FirstAgents, FirstEars
  <2>6. /\ \A a \in AgentIds : agent'[a].state = "none"
        /\ \A o \in Objects : ear'[o].state = "none"
    BY <1>2, <2>5, NoThreads DEF Fork
  <2>7. GoneAgents' = GoneAgents /\ GoneEars' = GoneEars
    BY <2>5, <2>6 DEF GoneAgents, GoneEars
  <2>8. FirstAgents' /\ FirstEars'
    BY <2>6 DEF FirstAgents, FirstEars
  <2> QED
    BY <2>1, <2>2, <2>7, <2>8 DEF FirstRun
<1>3. ASSUME NEW p \in Ports, MakePool(p) PROVE FirstRun'
  <2>1. /\ main.at = "make pool" /\ main.port = p
        /\ main'.at = "make listener" /\ main'.port = p
        /\ config' = config /\ UNCHANGED <<ear, poolAnswers, listenAnswers>>
        /\ agent' = [a \in AgentIds |->
                        IF a[1] = main.gen /\ a[2] = p /\ a[3] <= PoolSize(p)
                        THEN [agent[a] EXCEPT !.state = "ready"] ELSE agent[a]]
    BY <1>3, <1>t DEF MakePool, Goes, MainType, configVars, earVars
  <2>2. Tmax' = Tmax /\ Heard'
    BY <2>1 DEF Tmax, Heard
  <2>3. PoolPending(p) /\ p \in {"s", "b"}
    BY <2>1 DEF PoolPending, Ports
  <2>4. \A q \in Ports : /\ PoolPending(q)' => PoolPending(q) /\ q # p
                         /\ ListenerPending(q)' => ListenerPending(q)
    BY <2>1, <2>3 DEF PoolPending, ListenerPending
  <2>5. \A a \in AgentIds : /\ a[2] \in Ports /\ "state" \in DOMAIN agent[a]
                            /\ a[2] = p => agent[a].state = "none"
    BY <2>3 DEF AgentIds, FirstRun, FirstAgents, Typed, AgentState
  <2>6. \A a \in AgentIds :
            \/ agent'[a] = agent[a]
            \/ /\ a[1] = 1 /\ a[2] = p /\ a[3] <= PoolSize(p)
               /\ agent'[a].state = "ready"
    BY <2>1, <2>5
  <2>7. \A q : PoolSize(q)' = PoolSize(q)
    BY <2>2 DEF PoolSize
  <2>8. GoneAgents' = GoneAgents /\ GoneEars' = GoneEars
    <3>1. \A a \in AgentIds : agent'[a].state = "gone" <=> agent[a].state = "gone"
      BY <2>5, <2>6
    <3> QED
      BY <2>1, <3>1 DEF GoneAgents, GoneEars
  <2>9. FirstAgents'
    BY <2>4, <2>5, <2>6, <2>7 DEF FirstRun, FirstAgents
  <2>10. FirstEars'
    <3>1. \A o \in Objects : o[2] \in Ports
      BY DEF Objects
    <3> QED
      BY <2>1, <2>4, <3>1 DEF FirstRun, FirstEars
  <2> QED
    BY <2>1, <2>2, <2>8, <2>9, <2>10 DEF FirstRun
<1>4. ASSUME NEW p \in Ports, MakeListener(p) PROVE FirstRun'
  <2>1. /\ main.at = "make listener" /\ main.port = p
        /\ main'.at = IF p = "s" THEN "make pool" ELSE "waiting"
        /\ main'.port = "b"
        /\ config' = config /\ UNCHANGED <<agent, poolAnswers, listenAnswers>>
        /\ ear' = [ear EXCEPT ![<<main.gen, p>>].state = "polling"]
    BY <1>4, <1>t DEF MakeListener, MainType, configVars, agentVars
  <2>2. Tmax' = Tmax /\ Heard'
    BY <2>1 DEF Tmax, Heard
  <2>3. ListenerPending(p) /\ p \in {"s", "b"}
    BY <2>1 DEF ListenerPending, Ports
  <2>4. \A q \in Ports : /\ PoolPending(q)' => PoolPending(q)
                         /\ ListenerPending(q)' => ListenerPending(q) /\ q # p
    BY <2>1, <2>3 DEF PoolPending, ListenerPending
  <2>5. /\ <<1, p>> \in Objects /\ ear[<<1, p>>].state = "none"
        /\ \A o \in Objects : ear[o] \in EarState
    BY <2>3, ObjectTypes DEF FirstRun, FirstEars, Typed
  <2>6. \A o \in Objects :
            IF o = <<1, p>> THEN ear'[o].state = "polling" ELSE ear'[o] = ear[o]
    BY <2>1, <2>5 DEF Typed, EarState
  <2>7. GoneEars' = GoneEars /\ GoneAgents' = GoneAgents
    <3>1. \A o \in Objects : ear'[o].state = "gone" <=> ear[o].state = "gone"
      BY <2>5, <2>6
    <3> QED
      BY <2>1, <3>1 DEF GoneAgents, GoneEars
  <2>8. FirstEars'
    <3>1. \A o \in Objects : o[2] \in Ports
      BY DEF Objects
    <3> QED
      BY <2>4, <2>6, <3>1 DEF FirstRun, FirstEars
  <2>9. FirstAgents'
    <3>1. \A q : PoolSize(q)' = PoolSize(q)
      BY <2>2 DEF PoolSize
    <3>2. \A a \in AgentIds : a[2] \in Ports
      BY DEF AgentIds
    <3> QED
      BY <2>1, <2>4, <3>1, <3>2 DEF FirstRun, FirstAgents
  <2> QED
    BY <2>1, <2>2, <2>7, <2>8, <2>9 DEF FirstRun
<1> QED
  BY <1>1, <1>2, <1>3, <1>4

LEMMA ReinitFirst ==
    ASSUME LifeInv, ConfigInv, Typed, Course, FirstRun, main.gen = 1,
           \/ Enter \/ Hup \/ Quit \/ QuitAmidStop \/ Reset
           \/ \E p \in Ports : \/ StopPool(p) \/ WaitPool(p)
                               \/ StopListener(p) \/ WaitListener(p)
    PROVE  FirstRun'
<1>t. main \in MainType
  BY DEF LifeInv
<1>1. /\ UNCHANGED <<agent, ear, poolAnswers, listenAnswers>>
      /\ config'.value = config.value
  <2>1. CASE Reset
    BY <2>1 DEF Reset, agentVars, earVars, ConfigInv, ConfigShape
  <2>2. CASE ~Reset
    BY <2>2 DEF Enter, Hup, Quit, QuitAmidStop, StopPool, WaitPool, StopListener,
                WaitListener, Waited, configVars, agentVars, earVars
  <2> QED
    BY <2>1, <2>2
<1>2. Tmax' = Tmax
  BY <1>1 DEF Tmax
<1>3. /\ main'.gen = 1
      /\ main'.at \in Stopping \cup {"reset", "sleep", "ended"}
  BY <1>t DEF Enter, Hup, Quit, QuitAmidStop, Reinit, Reset, StopPool, WaitPool,
              StopListener, WaitListener, Waited, AfterPool, Goes, MainType, Stopping
<1>4. \A p \in Ports : ~PoolPending(p)' /\ ~ListenerPending(p)'
  BY <1>3 DEF PoolPending, ListenerPending, Stopping
<1>5. Heard'
  <2>1. CASE Enter \/ Hup \/ Quit \/ QuitAmidStop \/ Reset
    <3>1. main'.at \in {"stop pool", "sleep", "ended"}
      BY <1>t, <2>1 DEF Enter, Hup, Quit, QuitAmidStop, Reinit, Reset, Goes, MainType
    <3> QED
      BY <3>1 DEF Heard
  <2>2. ASSUME NEW p \in Ports, StopPool(p) PROVE Heard'
    <3>1. main'.at = "wait pool"
      BY <1>t, <2>2 DEF StopPool, Goes, MainType
    <3> QED
      BY <3>1 DEF Heard
  <2>3. ASSUME NEW p \in Ports, StopListener(p) PROVE Heard'
    <3>1. /\ main.at = "stop listener" /\ main'.at = "wait listener"
          /\ main'.port = main.port /\ main'.timedOut = main.timedOut
      BY <1>t, <2>3 DEF StopListener, Goes, MainType
    <3> QED
      BY <1>1, <1>2, <3>1 DEF FirstRun, Heard
  <2>4. ASSUME NEW p \in Ports, WaitPool(p) PROVE Heard'
    <3>1. /\ main'.at = "stop listener" /\ main'.port = p
          /\ main'.timedOut = (main.timedOut \/ ~(poolAnswers >= PoolSize(p)))
      BY <1>t, <2>4 DEF WaitPool, Waited, AfterPool, MainType
    <3>2. p = "b" => PoolSize(p) = Tmax
      BY DEF PoolSize
    <3> QED
      BY <1>1, <1>2, <3>1, <3>2 DEF Heard
  <2>5. ASSUME NEW p \in Ports, WaitListener(p) PROVE Heard'
    <3>1. /\ main.at = "wait listener" /\ main.port = p /\ p \in {"s", "b"}
          /\ main'.at = IF p = "s" THEN "stop pool" ELSE "reset"
          /\ main'.timedOut = (main.timedOut \/ ~(listenAnswers >= 1))
      BY <1>t, <2>5 DEF WaitListener, Waited, MainType, Ports
    <3> QED
      BY <1>1, <1>2, <3>1 DEF FirstRun, Heard
  <2> QED
    BY <2>1, <2>2, <2>3, <2>4, <2>5
<1> QED
  BY <1>1, <1>2, <1>3, <1>4, <1>5, SameThreads

LEMMA ThreadsFirst ==
    ASSUME LifeInv, ConfigInv, Typed, Course, FirstRun, main.gen = 1, ThreadStep
    PROVE  FirstRun'
<1>1. FirstAgents /\ FirstEars /\ Heard
  BY DEF FirstRun
<1>2. /\ IsFiniteSet(GoneAgents) /\ IsFiniteSet(GoneEars)
      /\ poolAnswers = Cardinality(GoneAgents) /\ listenAnswers = Cardinality(GoneEars)
      /\ poolAnswers \in Nat /\ listenAnswers \in Nat
  BY <1>1, GoneFinite DEF FirstRun, Typed
<1>3. CASE UseDeleted
  BY <1>3, EndsFirst DEF UseDeleted
<1>4. ASSUME UNCHANGED <<configVars, main>>
      PROVE  /\ Tmax' = Tmax
             /\ \A p : /\ PoolSize(p)' = PoolSize(p)
                       /\ PoolPending(p)' = PoolPending(p)
                       /\ ListenerPending(p)' = ListenerPending(p)
  BY <1>4 DEF configVars, Tmax, PoolSize, PoolPending, ListenerPending
\* What an agent does to the two.
<1>5. ASSUME NEW a \in AgentIds, Serve(a) \/ AgentLeaves(a) \/ AgentGoesOn(a)
      PROVE  FirstRun'
  <2>1. UNCHANGED <<configVars, main, ear, listenAnswers>>
    BY <1>5 DEF Serve, AgentLeaves, AgentGoesOn, earVars
  <2>2. agent[a].state \in {"ready", "busy"}
    BY <1>5 DEF Serve, AgentLeaves, AgentGoesOn, Done
  <2>3. \A b \in AgentIds : b # a => agent'[b] = agent[b]
    BY <1>5 DEF Serve, AgentLeaves, AgentGoesOn, Typed
  <2>4. FirstAgents'
    BY <1>1, <1>4, <2>1, <2>2, <2>3 DEF FirstAgents
  <2>5. FirstEars'
    BY <1>1, <1>4, <2>1 DEF FirstEars
  <2>6. GoneEars' = GoneEars
    BY <2>1 DEF GoneEars
  <2>7. a \notin GoneAgents
    BY <2>2 DEF GoneAgents
  <2>8. poolAnswers' = Cardinality(GoneAgents)' /\ poolAnswers' >= poolAnswers
    <3>1. CASE AgentLeaves(a)
      <4>1. poolAnswers' = poolAnswers + 1 /\ agent'[a].state = "gone"
        BY <3>1 DEF AgentLeaves, Typed, AgentState
      <4>2. GoneAgents' = GoneAgents \cup {a}
        BY <2>3, <4>1 DEF GoneAgents
      <4>3. Cardinality(GoneAgents \cup {a}) = Cardinality(GoneAgents) + 1
        BY <1>2, <2>7, FS_AddElement
      <4>4. poolAnswers' = Cardinality(GoneAgents')
        BY <1>2, <4>1, <4>2, <4>3
      <4> QED
        BY <1>2, <4>1, <4>4
    <3>2. CASE Serve(a) \/ AgentGoesOn(a)
      <4>1. poolAnswers' = poolAnswers
        BY <3>2 DEF Serve, AgentGoesOn
      <4>2. agent'[a].state \in {"ready", "busy"}
        <5>1. CASE Serve(a)
          BY <5>1 DEF Serve, Typed, AgentState
        <5>2. CASE AgentGoesOn(a)
          <6>1. PICK o \in Objects : agent' = [agent EXCEPT ![a] = [state |-> "ready", of |-> o]]
            BY <5>2 DEF AgentGoesOn
          <6> QED
            BY <6>1 DEF Typed
        <5> QED
          BY <3>2, <5>1, <5>2
      <4>3. GoneAgents' = GoneAgents
        BY <2>2, <2>3, <4>2 DEF GoneAgents
      <4> QED
        BY <1>2, <4>1, <4>3
    <3> QED
      BY <1>5, <3>1, <3>2
  <2>9. Heard'
    <3>1. Tmax \in Nat /\ poolAnswers' \in Int
      <4>1. poolAnswers' = poolAnswers \/ poolAnswers' = poolAnswers + 1
        BY <1>5 DEF Serve, AgentLeaves, AgentGoesOn
      <4> QED
        BY <1>2, <4>1 DEF ConfigInv, ConfigShape, Tmax
    <3>2. poolAnswers >= Tmax => poolAnswers' >= Tmax
      BY <1>2, <2>8, <3>1
    <3>3. Tmax' = Tmax /\ main' = main /\ listenAnswers' = listenAnswers
      BY <1>4, <2>1
    <3> QED
      BY <1>1, <3>2, <3>3 DEF Heard
  <2> QED
    BY <1>2, <2>1, <2>4, <2>5, <2>6, <2>8, <2>9 DEF FirstRun
\* What the thread of a listener does.
<1>6. ASSUME NEW o \in Objects, EarLeaves(o) \/ EarGoesOn(o)
      PROVE  FirstRun'
  <2>1. UNCHANGED <<configVars, main, agent, poolAnswers>>
    BY <1>6 DEF EarLeaves, EarGoesOn, agentVars
  <2>2. ear[o].state = "polling"
    BY <1>6 DEF EarLeaves, EarGoesOn
  <2>3. \A n \in Objects : n # o => ear'[n] = ear[n]
    BY <1>6 DEF EarLeaves, EarGoesOn, Typed
  <2>4. FirstEars'
    BY <1>1, <1>4, <2>1, <2>2, <2>3 DEF FirstEars
  <2>5. FirstAgents'
    BY <1>1, <1>4, <2>1 DEF FirstAgents
  <2>6. GoneAgents' = GoneAgents
    BY <2>1 DEF GoneAgents
  <2>7. o \notin GoneEars
    BY <2>2 DEF GoneEars
  <2>8. listenAnswers' = Cardinality(GoneEars)' /\ listenAnswers' \in {listenAnswers, listenAnswers + 1}
    <3>1. CASE EarLeaves(o)
      <4>1. listenAnswers' = listenAnswers + 1 /\ ear'[o].state = "gone"
        BY <3>1 DEF EarLeaves, Typed, EarState
      <4>2. GoneEars' = GoneEars \cup {o}
        BY <2>3, <4>1 DEF GoneEars
      <4> QED
        BY <1>2, <2>7, <4>1, <4>2, FS_AddElement
    <3>2. CASE EarGoesOn(o)
      <4>1. listenAnswers' = listenAnswers
        BY <3>2 DEF EarGoesOn
      <4>2. ear'[o].state = "polling"
        BY <2>2, <3>2 DEF EarGoesOn, Typed, EarState
      <4>3. GoneEars' = GoneEars
        BY <2>2, <2>3, <4>2 DEF GoneEars
      <4> QED
        BY <1>2, <4>1, <4>3
    <3> QED
      BY <1>6, <3>1, <3>2
  <2>9. Heard'
    <3>1. Tmax' = Tmax /\ main' = main /\ poolAnswers' = poolAnswers
      BY <1>4, <2>1
    <3>2. listenAnswers >= 1 => listenAnswers' >= 1
      BY <1>2, <2>8
    <3> QED
      BY <1>1, <3>1, <3>2 DEF Heard
  <2> QED
    BY <1>2, <2>1, <2>4, <2>5, <2>6, <2>8, <2>9 DEF FirstRun
<1> QED
  BY <1>3, <1>5, <1>6 DEF ThreadStep

LEMMA FirstRunStep ==
    ASSUME LifeInv, ConfigInv, Typed, Course, FirstRun,
           [LifeNext]_<<configVars, lifeVars>>
    PROVE  FirstRun'
<1>t. main \in MainType /\ main.gen \in Nat \ {0}
  <2>1. main \in MainType /\ main.gen \in Generations
    BY DEF LifeInv, MainType
  <2> QED
    BY <2>1, LifecycleAssumption DEF Generations
<1>1. CASE ConfigStep
  <2>1. /\ phase \in {"reading", "options", "arguments"}
        /\ UNCHANGED <<main, agent, ear, poolAnswers, listenAnswers>>
    BY <1>1 DEF ConfigStep, ConfigNext, ReadLine, EndOfFile, AtOption, TakeOption,
                TakeConf, Opens, CheckBbfile, AddPeer, AllPeers, lifeVars,
                agentVars, earVars
  <2>2. /\ main.at = "config"
        /\ \A a \in AgentIds : agent[a].state = "none"
        /\ \A o \in Objects : ear[o].state = "none"
    BY <2>1 DEF Course
  <2>3. FirstAgents' /\ FirstEars' /\ Heard'
    BY <2>1, <2>2 DEF FirstAgents, FirstEars, Heard
  <2>4. GoneAgents' = GoneAgents /\ GoneEars' = GoneEars
    BY <2>1 DEF GoneAgents, GoneEars
  <2> QED
    BY <2>1, <2>3, <2>4 DEF FirstRun
<1>2. CASE StopNothing \/ Exit \/ HupElsewhere
  BY <1>2, EndsFirst DEF StopNothing, Exit, HupElsewhere
<1>3. CASE Reconfigure
  <2>1. main'.gen = main.gen + 1
    BY <1>t, <1>3 DEF Reconfigure, MainType
  <2>2. main'.gen # 1
    BY <1>t, <2>1
  <2> QED
    BY <2>2 DEF FirstRun
<1>4. CASE \/ Start \/ Fork \/ \E p \in Ports : MakePool(p) \/ MakeListener(p)
  <2>1. main'.gen = main.gen
    BY <1>t, <1>4 DEF Start, Fork, MakePool, MakeListener, Goes, MainType
  <2>2. CASE main.gen = 1
    BY <1>4, <2>1, <2>2, ConfigureFirst
  <2> QED
    BY <2>1, <2>2 DEF FirstRun
<1>5. CASE \/ Enter \/ Hup \/ Quit \/ QuitAmidStop \/ Reset
           \/ \E p \in Ports : \/ StopPool(p) \/ WaitPool(p)
                               \/ StopListener(p) \/ WaitListener(p)
  <2>1. main'.gen = main.gen
    BY <1>t, <1>5 DEF Enter, Hup, Quit, QuitAmidStop, Reinit, Reset, StopPool, WaitPool,
                      StopListener, WaitListener, Waited, AfterPool, Goes, MainType
  <2>2. CASE main.gen = 1
    BY <1>5, <2>2, ReinitFirst
  <2> QED
    BY <2>1, <2>2 DEF FirstRun
<1>6. CASE ThreadStep
  <2>1. main'.gen = main.gen
    BY <1>t, <1>6 DEF ThreadStep, Serve, AgentLeaves, AgentGoesOn, EarLeaves, EarGoesOn,
                      UseDeleted, Ends, MainType
  <2>2. CASE main.gen = 1
    BY <1>6, <2>2, ThreadsFirst
  <2> QED
    BY <2>1, <2>2 DEF FirstRun
<1>7. CASE UNCHANGED <<configVars, lifeVars>>
  <2>1. UNCHANGED <<config, main, agent, ear, poolAnswers, listenAnswers>>
    BY <1>7 DEF configVars, lifeVars, agentVars, earVars
  <2>2. Tmax' = Tmax
    BY <2>1 DEF Tmax
  <2>3. CASE main.gen = 1
    <3>1. Heard'
      BY <2>1, <2>2, <2>3 DEF FirstRun, Heard
    <3>2. \A p \in Ports : PoolPending(p)' = PoolPending(p) /\ ListenerPending(p)' = ListenerPending(p)
      BY <2>1 DEF PoolPending, ListenerPending
    <3> QED
      BY <2>1, <2>2, <2>3, <3>1, <3>2, SameThreads
  <2> QED
    BY <2>1, <2>3 DEF FirstRun
<1> QED
  BY <1>1, <1>2, <1>3, <1>4, <1>5, <1>6, <1>7 DEF LifeNext, MainStep, Signal

LEMMA FirstRunInit == LifeInit => FirstRun
<1> SUFFICES ASSUME LifeInit PROVE FirstRun
  OBVIOUS
<1>1. /\ agent = NoAgents /\ ear = NoEars /\ poolAnswers = 0 /\ listenAnswers = 0
      /\ main.at = "config"
  BY DEF LifeInit
<1>2. GoneAgents = {} /\ GoneEars = {}
  BY <1>1, NoThreads DEF GoneAgents, GoneEars
<1>3. FirstAgents /\ FirstEars /\ Heard
  BY <1>1, NoThreads DEF FirstAgents, FirstEars, Heard
<1> QED
  BY <1>1, <1>2, <1>3, FS_EmptySet DEF FirstRun

\* The agents and the listeners of a server, however many agents it has, that
\* have not returned when the first stop, without a time-out, deletes what
\* they use: one of each at the most.
THEOREM MissesOne == LifeSpec => []FirstStopMissesOne
<1> DEFINE Inv == LifeInv /\ ConfigInv /\ Typed /\ Course /\ FirstRun
<1>1. LifeInit => Inv
  BY LifeInvInit, ConfigInvInit, CourseInit, FirstRunInit
<1>2. Inv /\ [LifeNext]_<<configVars, lifeVars>> => Inv'
  BY LifeStep, ConfigInvStep, TypedStep, CourseStep, FirstRunStep
<1>3. Inv => FirstStopMissesOne
  <2> SUFFICES ASSUME Inv, main.at = "reset", main.gen = 1, ~main.timedOut
               PROVE  /\ Cardinality({a \in AgentIds : agent[a].state \in {"ready", "busy"}}) <= 1
                      /\ Cardinality({o \in Objects : ear[o].state = "polling"}) <= 1
    BY DEF FirstStopMissesOne
  <2>1. /\ FirstAgents /\ FirstEars /\ Tmax \in Nat
        /\ Cardinality(GoneAgents) >= Tmax /\ Cardinality(GoneEars) >= 1
    BY DEF FirstRun, Heard, ConfigInv, ConfigShape, Tmax
  <2>2. Cardinality({a \in AgentIds : agent[a].state \in {"ready", "busy"}}) <= 1
    <3> DEFINE M == {a \in AgentIds : agent[a].state # "none"}
               L == {a \in AgentIds : agent[a].state \in {"ready", "busy"}}
    <3>1. L \in SUBSET M /\ GoneAgents \in SUBSET M /\ L \cap GoneAgents = {}
      BY DEF GoneAgents
    <3>2. IsFiniteSet(M) /\ Cardinality(M) <= Tmax + 1
      BY <2>1, FirstAgentsCount
    <3> HIDE DEF L, M
    <3>3. Cardinality(L) <= 1
      BY <2>1, <3>1, <3>2, OneMissing
    <3> QED
      BY <3>3 DEF L
  <2>3. Cardinality({o \in Objects : ear[o].state = "polling"}) <= 1
    <3> DEFINE M == {o \in Objects : ear[o].state # "none"}
               L == {o \in Objects : ear[o].state = "polling"}
    <3>1. L \in SUBSET M /\ GoneEars \in SUBSET M /\ L \cap GoneEars = {}
      BY DEF GoneEars
    <3>2. IsFiniteSet(M) /\ Cardinality(M) <= 1 + 1
      BY <2>1, FirstEarsCount
    <3> HIDE DEF L, M
    <3>3. Cardinality(L) <= 1
      <4>1. 1 \in Nat
        OBVIOUS
      <4> QED
        BY <2>1, <3>1, <3>2, <4>1, OneMissing
    <3> QED
      BY <3>3 DEF L
  <2> QED
    BY <2>2, <2>3
<1> QED
  BY <1>1, <1>2, <1>3, PTL DEF LifeSpec


=============================================================================
