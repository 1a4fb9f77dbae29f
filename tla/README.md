# Verification of bbserv

TLA+ models of bbserv, a bulletin board server whose instances replicate a
text file of messages with a two-phase commit of their own. The models are
written from the C++ sources under `src/src`; `src/protocol2pc.txt` and
`src/README.md` are only quoted where code and document disagree. Every
definition that stands for code is listed with its lines in `PROJECT.json`
("map").

## 1. Inventory

| Component | Sources | State | Operations | Talks to |
|---|---|---|---|---|
| Two-phase replication | `CmdWrite`, `CmdReplace`, `CmdPrecommit`, `CmdCommit`, `CmdAcknowledge`, `CmdSuccessful`, `CmdUnsuccessful`, `Broadcast*` | the transaction a thread is in; commands and answers on TCP connections | WRITE, REPLACE, PRECOMMIT, COMMIT, UNSUCCESSFUL, answers | acknowledge queue, connection queue, board file, undo store |
| Acknowledge queue | `AcknowledgeQueue` | a map from message id to a vector of booleans, each with a mutex and a condition | `TheOne` (find, create, erase), `add`, `check_success` (timed wait) | broadcast agents add, the client's agent waits; also used by `stop()` |
| Board file | `CmdWrite`, `CmdReplace`, `CmdRead` | `bbfile`, `bbfile~` (backup), `bbfile.no` (next number) | append, rewrite, truncate, restore, read | guarded by the reader/writer lock, the number file by nothing |
| Undo store | `UndoStore` | the most recent LOCAL command, or none | `set`, `get`, `clear` | set by LOCAL commands, used by UNSUCCESSFUL |
| Reader/writer lock | `RWLock` | four counters, one mutex, two conditions | `aquire_read`, `release_read`, `aquire_write`, `release_write` | every access to the board |
| Connection queue | `ConnectionQueue` | FIFO of sockets and broadcast commands | `add` (two forms), `get` | listeners and client agents add, agents get |
| Thread pool | `ThreadPool` | the agents, `run` | `operate`, `stop`, serve a client, send a broadcast | connection queue, command builder |
| Listener | `InConnection` | the accepting socket, `run` | `operate`, accept, `stop` | connection queue, acknowledge queue (stop) |
| Life cycle | `main.cpp` | two pools, two listeners, `initialized` | `configure`, `reinit`, SIGHUP, SIGQUIT | all of the above |
| Sessions and command builder | `CmdBuilder`, `CmdUser`, `CmdQuit`, `SessionResources` | user name, socket, stream of a connection | build a command from its id; USER, QUIT | thread pool |
| Configuration | `Config` | options and peers | parse, `clear_peers` | everything reads it |

Each server has a *b-port* for clients, with `Tmax` agents, and an *s-port* for
peers, with one. A client's WRITE is executed by a b-port agent: it takes a
message number, puts one PRECOMMIT per peer into the pool's own connection
queue, waits in the acknowledge queue of the number until as many answers as
there are peers are in it, does the same with COMMIT, and appends to its own
board. Another b-port agent takes each of these commands, connects to the
peer's s-port, sends it, and puts the answer into the acknowledge queue. At the
peer, COMMIT is executed as a WRITE or REPLACE with a LOCAL mark and without a
connection queue, and is kept in the undo store. A coordinator that fails
sends UNSUCCESSFUL to all peers, and each undoes what its undo store holds.

### What is hard here

* Answers are keyed by message id alone: not by phase, peer or request, and a
  queue outlives a request that failed.
* Commands of one request travel on connections of their own, so COMMIT and
  UNSUCCESSFUL can arrive in any order, and late.
* A time-out can fire while the answer is on its way; an answer can be lost
  after the peer has written; a process can end between any two file writes.
* Participants draw message numbers of their own.
* The lock's waits test their condition once; wakeups must reach the right
  threads; the queue signals after it has unlocked.
* `check_success` looks at its queue again after it has unlocked it, and a queue
  is erased while other agents may hold a pointer to it.
* Agents wait for agents of the same pool.
* Only part of what a command does to the board is done under the lock: the
  number, opening and creating the file come before, flushing, the undo store
  and the choice of what to undo are outside.
* Threads are detached and are told to end through queues that two pools, two
  listeners and all reloads share; signals come at any step.

`PROJECT.json` ("hazards") lists each such place with its line and the
properties aimed at it.

### What makes each component correct

* *Replication*: the coordinator writes only what every peer has written; an
  aborted request leaves no trace; an acknowledged one is everywhere; ids are
  unique on a board and the same on all; without faults the boards converge;
  every client is answered.
* *Lock*: exclusion; exact counters; nobody sleeps on a lock that is free.
* *Connection queue*: no lost wakeup, each entry once and in order, each served.
* *Acknowledge queue*: an answer counts for its own request; a waiter sees it
  or times out; nobody uses an erased queue.
* *Board file*: a record lands where it was meant to; a read sees whole
  records; number file and board agree.
* *Thread pool*: agents that wait for broadcasts are not for ever the only ones
  that could send them; a phase counts its own answers.
* *Configuration*: an option wins over a file, a peer is listed as often as it
  is named, the scan ends.
* *Life cycle*: `reinit` finds what it stops, ends, and leaves no thread behind
  that still runs.

## 2. Plan

The modules were written in this order; all of the plan but the last item is
there.

1. `Replication`: protocol, faults, undo; type correctness and the decision of
   one coordinator proved.
2. `RWLock`, proved.
3. `ConnectionQueue`, proved.
4. `AtomicBoard`: what the replication promises for a WRITE, without messages;
   `Replication` implements it (checked, and proved for one coordinator).
5. `AcknowledgeQueue`: mutex sections, the unlocked second look, erasure.
6. `ThreadPool`, composing `ConnectionQueue` and `AcknowledgeQueue`: agents that
   wait for agents.
7. `BoardFile`, composing `RWLock`: concurrent commands of one server.
8. `Config` and `Lifecycle`: the command line, configure, reinit, the shared
   stop queues, signals, failing accept.
9. Open: the composition of `Lifecycle` with `ThreadPool` and `BoardFile`, that
   is, what a reload does to sessions in the middle of a command.

## 3. The modules

| Module | Stands for |
|---|---|
| `Replication` | two-phase replication: coordinators, participants, acknowledge queues, undo store, board files, network, faults |
| `MCReplication` | its instances for TLC: `Mesh` (every server lists all others as peers) and `Star` (only the coordinator does), symmetry of the two peers |
| `AtomicBoard` | the abstract specification that `Replication` implements |
| `BoardLines` | what commands do to the lines of a board; used by `Replication` and `BoardFile` |
| `RWLock`, `MCRWLock` | the reader/writer lock |
| `BoardFile`, `MCBoardFile` | the agents of one server at its files; extends `RWLock` |
| `ConnectionQueue` | the queue between listeners and agents |
| `AcknowledgeQueue` | the queues of answers, mutex by mutex |
| `ThreadPool`, `MCThreadPool` | the agents of one pool; composes the two queues |
| `Config` | options, config files, peers |
| `Lifecycle`, `MCLifecycle` | start, reload, signals, end; extends `Config` |
| `ReplicationProofs` | type correctness of `Replication`; the decision of a single coordinator |
| `CoordinatorProofs` | the refinement of `AtomicBoard`; the numbers of peers and the ids on a board (extends `ReplicationProofs`) |
| `ConvergenceProofs` | with REPLACE and waits that last long enough: boards converge, aborted requests vanish (extends `ReplicationProofs`) |
| `RWLockProofs`, `ConnectionQueueProofs` | the invariants of the lock and of the queue |
| `ThreadPoolProofs` | the pool implements the connection queue; the acknowledge queues' invariant; whose answers a request counts |
| `BoardFileProofs` | the board is what atomic commands make of it, but for the accidents (extends `RWLockProofs`) |
| `LifecycleProofs` | `reinit` finds its objects; options win and peers are listed; types; what the first stop leaves behind |

An operator under a comment that begins with *Deviation* is the model of a
plausible mistake in the operator that follows it. No behaviour of the
specifications uses it: it shows, put in the place of the real one, that a
property would notice.

### Replication

| State | In the code |
|---|---|
| `board`, `backup`, `number` | `bbfile`, `bbfile~`, `bbfile.no`: they outlive the process |
| `undo` | the command in `UndoStore` |
| `acks[s]` | all `AcknowledgeQueue`s of server `s`: an answer is in the queue of its `id`, and the model keeps what the code forgets (which request and peer it is from) so that properties can speak of it |
| `coord[s]` | where in `CmdWrite::execute` or `CmdReplace::execute` the agent is that serves a client |
| `sport[s]` | the one agent of the s-port: idle, or in `CmdCommit::execute` |
| `calls`, `replies` | a broadcast command between the coordinator's connection queue and the peer; an answer on its way back |
| `outcome`, `applied`, `requests`, `faults` | history and bounds; no guard of the protocol reads `outcome` or `applied` |

| Action | In the code |
|---|---|
| `WriteRequest`, `StoreNumber` | `update_message_number` reads the number file, then writes the successor; `replicate_command` starts the first broadcast |
| `ReplaceRequest`, `MalformedRequest` | `CmdReplace::execute`, with an id that parses and with one that does not |
| `Precommitted`, `Committed`, `Abort` | `broadcast_synchronous` returns after either phase, or throws: `check_success` found a negative answer or timed out, and the catch block broadcasts UNSUCCESSFUL |
| `ApplyWrite`, `ApplyReplace`, `Flush` | the local part, the answer to the client, and the end of `execute` where the stream of a WRITE is closed |
| `Precommit`, `BeginCommit`, `Unsuccessful` | the s-port agent takes the command off its connection |
| `LocalWrite`, `LocalReplace`, `FinishCommit` | the LOCAL command inside COMMIT, and the answer to it |
| `ReceiveReply` | the broadcast agent reads the answer: `add` to the queue, and undo if it is negative |
| `StorageFault`, `LocalStorageFault` | a file of a WRITE cannot be opened; the catch block of a LOCAL command with peers uses a null connection queue, and the process ends |
| `Refused`, `Lose`, `Crash`, `Restart` | the environment |

What is abstracted, and why the properties do not miss it:

* A file position is the lines that lay before it when it was taken. The program
  seeks and cuts at byte offsets: in a file that does not begin with these lines
  any more the offset is in the middle of a line or behind the end, and what a
  write or a cut makes of such a file is `Debris`, bytes of which the model does
  not say what lines or ids they are (module `BoardLines`). A file that does not
  exist is an empty one. A record is written whole, as the stream buffers do for
  lines of this size.
* The undo of a REPLACE without a backup removes the board, throws, and leaves
  the command in the store; one whose backup is an empty file clears it. With
  absent and empty files alike, `Undo` allows either.
* One client request at a time per server. Several contend for the number file
  and the board inside one process; that is the subject of `BoardFile`. Two
  *servers* can be coordinators at the same time (run `repl_answered`), and
  LOCAL commands run beside a server's own request.
* One agent serves the s-port, as `configure` creates it. The agents of the
  b-port that deliver broadcasts are not told apart: any command that waits may
  be the next to be delivered, in any order, which covers every number of them
  that suffices. That too few of them block each other is the subject of
  `ThreadPool`.
* `check_success` and the erasure after it are one step, as are the read of a
  COMMIT and of the participant's next number. The windows inside
  `check_success` are in `AcknowledgeQueue`.
* `Lose` stands for a connection that breaks and for an agent that stops
  waiting for the answer (`wait_for`): in both cases the peer may or may not
  have executed the command.
* A malformed REPLACE is one whose id does not parse (the extraction stores 0).
  One that lacks the separator is not modelled.
* REPLACE is modelled with one coordinator (`ReplaceAssumption`): with two, the
  rename of the board under an open stream matters.
* Storage faults hit WRITE only.
* `Patient = TRUE` makes a wait time out only when no answer is on its way and
  keeps a client from starting while commands are. It is used where a property
  speaks of runs in which nothing is late; every other run lets the time-out
  fire at any moment.

### RWLock

Each action is what a thread does while it holds the mutex; the wait splits
`aquire_*` in two. `rAsleep` and `wAsleep` threads are inside
`pthread_cond_wait`; a signal makes one *woken*, which may take any time to get
the mutex again. `resumed` is history: who came in from a wait. A signal that
finds nobody asleep is lost. `Spurious` adds the wakeups POSIX permits.

### ConnectionQueue

`Push` and `Signal` are the two halves of `add`, because the signal comes after
the unlock; `Get` and `Resume` are the two ways into the loop of `get`. Entries
are numbered by `added`; what they are (a socket or a command) makes no
difference to the queue. Agents add too: they are the clients' agents that
broadcast.

### AcknowledgeQueue and ThreadPool

| State | In the code |
|---|---|
| `theMap`, `ackQueue`, `erased` | the static map of `TheOne`, the `AcknowledgeQueue` objects ever made, and those that were destroyed |
| `ackPtr[t]`, `ackPc[t]` | the pointer a thread got from `TheOne`, and where it is in `add` or `check_success` |
| `broken` | a thread has used a destroyed queue: whatever follows is undefined, and the model stops |
| `content`, `agent` | the entries of the connection queue, and what each agent of the b-port does with the one it got |
| `idOf`, `result`, `late` | history of the requests: their ids, how they ended, and whether the second look found more than the wait |

`TheOne` is atomic (one mutex guards the map). `add` is split where it holds the
queue's mutex; `check_success` into the wait, the second look and the search for
a negative answer, the last two without the mutex. A vector of bits that is read
while another thread grows it is a data race; the model lets the reader see the
vector before or after the growth, and what a reallocation could do beyond that
is not modelled. An answer remembers its request and phase so that `OwnAnswers`
can speak of them; the code keeps only the bit.

An agent that delivers a broadcast may fail (`DeliverInVain`), look for the
queue of its id and add, or never come back (`PeerHalts`): the line of the
welcome and the ACK of PRECOMMIT are read with `fgets`, which waits for ever for
a peer that is halted and whose connection stands. `wait_for` guards only the
first byte of the welcome and the answer to COMMIT. A request is a WRITE with an id of its own or a REPLACE
with any id. Peers that answer more than once and the queue entries that an
s-port agent adds (`CmdUnsuccessful`) are in `Replication`, not here. The code
creates a queue of answers for a request without peers too; `ReplyCount` is at
least 1 here.

`BreaksOnlyIf` deserves a remark: `AcknowledgeQueue.h:34` and `:41` call `add` and
`check_success` thread-safe, and they are with respect to each other; what is
not safe is the erasure, and it takes either two requests with one id or an
answer within the instant between time-out and second look. The property says
that nothing else does it.

`LeftoversOnlyOfFailures` makes the same exception: of two requests with one id the
first may erase the queue while the second's answers are still to come, and these
make a queue that nobody erases.

### BoardFile

| State | In the code |
|---|---|
| `file`, `orig`, `backup` | inodes, and the ones that `bbfile` and `bbfile~` name; a WRITE's descriptor `fd` keeps its inode through a rename |
| `number` | `bbfile.no` |
| `cmd[t]` | the command agent t executes, its step, id, descriptor and position |
| `undo` | the `UndoStore` |
| `expected`, `latest`, `accidents`, `overlapped` | history: the board of atomic commands, and what has happened that can make the real one another |

The steps of a command follow the code: `StoreNumber`, `OpenBoard` and
`CreateBoard` before the lock; `Put`, `Rename`, `Rewrite`, `Look`, `UndoWrite`,
`UndoReplace` under it; `Tell` and `Close` after it. A client's command may wait
for its peers any length of time before `Lock`, or fail there (`Abort`).

The six accidents are: two WRITEs took one number (`number`); a board was created
over one that had come since (`wiped`); a record went to a file that REPLACE had
renamed (`renamed`); a record was flushed where another had been written
(`overlap`); the command undone was not the last one (`undo`); the lock let two
in (`exclusion`). Each of them happens in the instance, each is a defect of the
code (section 1 names the line of each as a hazard), and `BoardExact` says that
there is no seventh. A record is in the stream's buffer until its WRITE closes the
stream, after it has released the lock; `Settled` are the lines of `expected` that
are not in a buffer, and the board has exactly these, in their order (`LinesAt`).
`IdsDistinct` speaks of boards that consist of whole records: it holds through
renamed, wiped and wrongly undone boards, but the tail of a longer record that a
shorter one has overwritten, or the half of one that a cut has left, may well
begin like a record with an id that is in use. A READ of such a board may find
its id or not (`Look`). An undone REPLACE puts the backup back; where there is none, the board of atomic
commands becomes empty like the real one. `AccidentsNeedOverlap` says that a server which is given one
command at a time has none of them.

Abstractions: a REPLACE's copying is one step, as nothing but its own readers
could see half of it (and they are excluded by the lock, or the accident is
recorded); the unsynchronised reads and writes of the `UndoStore` are atomic; a
file that cannot be opened is in `Replication`; a REPLACE of an id the board
lacks copies the board.

### Config and Lifecycle

`Config` is `main()` up to `configure()`: the default file, line by line (`file`,
`lineno`; phase `"reading"`), then option by option, with `optind` and `rescan` as
in the code, then the peers on the command line. `-c` goes back to the lines, of the
file it names, and from there to the first option. A line of a file and an option
are alike: they set a key, list peers, name a file, or are malformed.
`EntriesAssumption` says what parsing leaves: THMAX and `-T` are numbers whatever the
text is, for `Tmax` is a `size_t`; a peer is one of `PeerNames`, except that an
argument may be `Malformed` (in a file it makes the line malformed).

| State of `Lifecycle` | In the code |
|---|---|
| `main` | the step of the main thread in `configure` or `reinit`, for which port, why (ENTER, SIGHUP, SIGQUIT), `initialized`, and as history whether a wait has timed out and whether a SIGQUIT interrupted something |
| `pool[o]`, `listener[o]` | the objects of each generation and port: whether they exist, `run`, and the StopIds in the pool's queue |
| `agent[a]`, `ear[o]` | the detached threads: ready, busy or gone, and the object they use |
| `poolAnswers`, `listenAnswers` | the lengths of the queues of `StopPoolId` and `StopId`, which are never erased |
| `fate` | how the process ended, if it has |

What was decided in modelling it:

* The signal handler runs in the main thread, where Linux delivers a
  process-directed signal if that thread does not block it. A SIGHUP during a
  reload is blocked there and goes to another thread, where the handler skips
  it, but a `poll` it interrupts fails with EINTR, and nobody catches what the
  listener throws (`HupElsewhere`).
* One SIGQUIT. If it interrupts a stop, the main thread may hold the mutex of a
  queue that the handler locks again (`QuitAmidStop`), or go on.
* What a thread does with a deleted object is undefined. The outcomes in the
  model: it ends, it goes on with an object that was made since in the same
  memory, or the process ends (`UseDeleted`). The build has no optimisation, so
  the test of `this` in `get_accept_socket` is kept and a listener whose socket
  object is gone polls -1, which times out.
* Waits and sleeps have no length: any wait may time out or not.
* ENTER is always possible: a daemon whose standard input is closed gets it at
  once.
* A peer that cannot be parsed leads past `configure()` to the wait for ENTER,
  and `reinit` then dereferences null: the exception of `ObjectsFound`.
* Ports that cannot be bound, threads that cannot be created (a negative `-T` asks
  for more than there can be) and signals before `configure()` has installed the handlers are left out.

## 4. Runs

| Run | Instance | Shows |
|---|---|---|
| `repl_faults` | coordinator and two peers that list each other, two requests (WRITE or malformed), one fault of any kind at any moment | `DecisionIsUnanimous`, `ReplicaNumberBehind`, `UniqueIds`, and that `AtomicBoard` is implemented |
| `repl_answered` | two servers that are coordinators of each other, two requests (some malformed), one fault | `Answered`, a liveness property |
| `repl_normal` | peers without peers, four WRITEs and REPLACEs, two storage faults, patient waits | `Convergence` (when nothing failed), `AbortedVanishes` |
| `rwlock` | four threads with spurious wakeups | `CountersExact`, `NoReaderLeftBehind`, `ExclusionUnlessResumed`, and `ReaderServed` |
| `thread_pool` | one listener, two agents, two clients with a command each, one peer, one message id | the connection queue's `EnoughWakeups`, `TakenInOrder`; `OwnAnswers`, `BreaksOnlyIf`, `LeftoversOnlyOfFailures`; the liveness properties `RequestsEnd` and `EntriesServed` |
| `board_file` | two agents for clients, one for LOCAL commands, three commands | `BoardExact`, `ReadsExact`, `IdsDistinct`, `AccidentsNeedOverlap` |
| `lifecycle` | eight command lines, up to two agents on the b-port, one reload | `Precedence`, `PeersListed`, `ConfigurationEnds`; `ObjectsFound`, `FirstStopMissesOne`, `ReinitEnds` |
| `repl_retry`, `repl_undo`, `repl_ids`, `rwlock_exclusion`, `rwlock_forgotten` | smallest instance that shows it | a disagreement each, see section 5 |

Why the bounds are enough for the cases that matter:

* Two peers are the least at which one peer's second answer could stand for
  another's, and at which some peers can have written and others not. Two
  requests are the least at which something of an earlier request can meet a
  later one; `repl_normal` has four, so that a WRITE, a REPLACE of it, a failure
  and another WRITE fit in. `MaxRequests` and `MaxFaults` are the only bounds on
  the protocol; nothing bounds the messages on their way or the time-outs.
* Time-outs are not faults: they are not counted, and a run without any fault
  still has all the late and early ones.
* The theorem `Decided` removes all the bounds from `DecisionIsUnanimous`, and those
  of `ThreadPoolProofs` and `BoardFileProofs` remove them from the safety properties
  of `thread_pool` and `board_file`. The proofs corrected two properties that the
  small instances had not refuted: `BoardExact` had no place for a record whose
  WRITE is overtaken before it closes its stream, and `LeftoversOnlyOfFailures`
  had overlooked two requests that share an id.
* Four threads give the lock two readers and two writers in each role.
* Two agents are the least pool in which all agents can wait for broadcasts that
  only they could send, and in which one can be about to add while another
  erases; two requests with one id can meet in one queue. `MaxAdds` bounds what
  is ever added to the connection queue, and is what two clients and two
  requests that are aborted in their second phase add: it cuts nothing off.
* Three commands are the least for a WRITE that meets a REPLACE that meets an
  undo; all six accidents happen within them. The two agents for clients are
  interchangeable (symmetry).
* One reload is the least after which threads of two generations meet.
  `SmallReload` bounds what a reload may leave behind to one thread and lets only
  servers with at most one agent on the b-port go on after it; before it the
  instance is unrestricted, and both generations run in full.

`CHECK_DEADLOCK FALSE` is set where the system does stop: `Replication`,
`BoardFile` and `ThreadPool` serve a bounded number of commands; the process of
`Lifecycle` ends; and the lock of `rwlock_exclusion` and `rwlock_forgotten` stops
with everyone asleep once a writer is forgotten. In `rwlock`, whose spurious
wakeups end that, deadlock is checked.

## 5. Where code and documents disagree

* `repl_retry`: a queue of answers is keyed by the message id and survives a
  request that fails. A REPLACE that times out and is sent again finds the old
  answers: late ACKs of the first attempt count as answers to COMMIT, and the
  coordinator goes on before its peer has written.
* `repl_undo`: UNSUCCESSFUL undoes whatever the participant executed last. A
  malformed REPLACE, which no peer has seen, undoes a WRITE of which the client
  was told it was written.
* `repl_ids`: participants number the line themselves. After one aborted WRITE
  the numbers of coordinator and peers differ for ever, and a later REPLACE by
  id changes different messages on different servers.
* `rwlock_exclusion`: the condition is tested once, before the wait. Two threads
  suffice: t1 writes and t2 waits for it, as a reader or as a writer; t1's
  `release_write` signals t2; before t2 has the mutex again t1 comes back and,
  as nobody is inside, gets the write lock once more; t2 returns from its wait
  and enters beside it. With more threads no `release_write` is needed: the
  broadcast with which each grant ends (RWLock.cpp:56) wakes readers too. A
  reader that was kept out by a waiting writer, and waits on because nobody
  signalled that writer, is woken by the next writer's grant and enters beside it.
* `rwlock_forgotten`: `release_read` compares the counter's old value with 0 and
  never signals the writer that waits for the last reader.

## 6. Fairness

* `Replication`: an agent inside a client's request, an s-port agent inside
  COMMIT, and delivery in either direction each go on if they can (weak
  fairness). In the code these are threads between two calls that return:
  waits in the acknowledge queue and in `poll` are timed, which is what
  `Abort` and `Lose` stand for. Nothing is assumed of clients, faults or
  restarts: `Answered` holds if a crashed server never returns. Delivery to a
  server that is down is `Refused`, the failing `connect`.
* `RWLock`: a woken thread gets the mutex in the end, and a holder releases
  (file accesses end). No thread is obliged to come.
* `ThreadPool`: an agent goes on with whatever it does, looks for the next entry
  when it is free, and the listener finishes its `add`. Nothing is assumed of
  clients, which may be silent for ever and hold their agents, nor of peers: a
  delivery either ends, for connecting, the wait for the welcome and the answer to
  COMMIT have time-outs, or it is blocked for ever in an `fgets` (`PeerHalts`,
  which is possible as long as the answer has not come, and never has to
  happen). This is why `EntriesServed` excepts a pool whose agents come to be
  held, all of them and for ever, by silent clients and halted peers.
  `RequestsEnd` needs no exception: `check_success` waits for a limited time,
  whoever is to send the answers.
* `BoardFile`: none; it has safety properties only.
* `Lifecycle`: the main thread goes on. Nothing is assumed of agents and
  listeners, since every wait for them has a time-out.

## 7. Proofs

All theorems hold for every value of the constants that satisfies the `ASSUME`s
of the module; these say that sets of processes are finite, that a server is
not its own peer, that bounds are natural numbers, and that options and lines are
what parsing leaves of them. Every safety property of a passing run is the
statement of a theorem.

* `ReplicationProofs!TypeCorrect`: one lemma per action or helper; the steps
  about records need the type of the record as a fact of its own.
* `ReplicationProofs!Decided`: `DecisionIsUnanimous` for one coordinator whose
  clients do not send REPLACE (`Single`): any number of peers and requests, any
  losses, crashes, restarts, storage faults, and time-outs at any moment. The
  exception of REPLACE is necessary: `repl_retry` refutes the property with it.
  The property is not inductive: it depends on what the queue may contain. The
  invariant `AgreementInv` says
  - `Roles`: who may ask, and who may answer whom;
  - `Fresh`: a message carries the id of the current request exactly if it is
    of that request, since ids are drawn from a number that only grows; this is
    what fails for REPLACE, whose id is chosen by the client;
  - `FirstPhase`, `SecondPhase`: before COMMIT is sent nothing of the second
    phase is about, and after it nothing of the first is left, neither on its
    way nor in the queue;
  - `Once`: a PRECOMMIT is on its way, or its ACK is, or the ACK is in the queue,
    never two of these. With a full queue it follows that all PRECOMMITs are
    answered when the second phase begins (`PrecommittedInv`), which is why an
    erased queue cannot be filled again by the first phase;
  - `Written`: who says SUCCESSFUL has written.

  `OneOfEach` (as many different answers as peers, at most one of each, are one
  of every peer) turns the count in `check_success` into a statement about
  every peer. Most actions only take away from a transaction; `FewerInv` covers
  them together, and each of the others has a lemma of its own.
* `RWLockProofs`: the counters are exact, by counting the sets of threads in
  each state before and after a step; from that the types (no unsigned counter
  wraps), `NoReaderLeftBehind` and `ExclusionUnlessResumed`.
* `ConnectionQueueProofs`: that no entry lies in the queue while agents sleep and
  nobody is about to wake one is not inductive; `EnoughWakeups`, which counts
  signals to come and agents awake against entries, is. `TakenInOrder` is proved
  with it.

* `CoordinatorProofs!Implements`: `Replication` implements `AtomicBoard`, again for
  `Single`. `AtomicBoard` forbids an answer WROTE while a peer has not written,
  a second answer to a request, and a write of what nobody asked for. The first
  is `Decided`; the others need the records `Tracked` (the request an agent is
  at work on is one that was asked and has no answer yet) and `Counted`
  (whatever is on its way belongs to a request), which join the invariant.
* `CoordinatorProofs!NumbersBehind`: `ReplicaNumberBehind` is not inductive, since a
  peer that has begun a COMMIT has not yet stored its number, and a COMMIT on
  its way will take one. `AllBehind` adds up what is owed: the peer's number,
  the COMMITs on their way to it, the one it has begun and the first phase of a
  request stay together at or below the coordinator's number.
* `CoordinatorProofs!IdsUnique`: each line of a board has an id below the server's next
  number, and the coordinator's board has none of the current request's id until
  it writes (`Boards`); an undo only takes lines away from the end. With
  REPLACE the numbers are no longer enough, hence `Single` again.
* `ConvergenceProofs!Converges`: `Convergence`, for one coordinator that lists all
  others as its peers, whose waits last long enough and whose clients REPLACE
  only what there is (`Calm`); WRITE and REPLACE in any order. Neither assumption
  can go: a wait that ends early aborts a WRITE and leaves the numbers apart, as
  a lost message does in `repl_ids`, and a REPLACE that cannot be carried out
  undoes an earlier WRITE (`repl_undo`). `Transit`, the invariant on
  messages, has no use for the ids being new, so that REPLACE is covered:
  - `Standing`: where coordinator and peers are, and that the coordinator has
    nothing in its own undo store;
  - `Mail`: what is on its way is of the current request and phase, except for
    PRECOMMITs and answers under an id for which a negative answer lies in
    the queue (`Spoiled`): every later request for that id fails in its first
    phase, whatever else arrives;
  - `Turn`: while answers decide, each peer is in exactly one of four places:
    asked, at work, its answer on its way, or its answer in the queue. So a
    full queue has heard of everyone (`FullQueue`) and a wait never times out
    (`NoTimeOut`).

  With it, as long as there was no fault, each board is the coordinator's
  before the current request or after it, according to the peer's place
  (`InStep`), no answer is negative, and a LOCAL REPLACE finds its message.
* `ConvergenceProofs!Vanishes`: `AbortedVanishes`, if moreover files may fail to open
  at any server and peers have no peers of their own (`OnlyStorage`; a peer that
  has some ends in its catch block, which `Transit` leaves out). Beside
  `Transit` it needs `Vanishing`: while a request is open no board or backup has a
  line of a failed one, and what an undo would leave at a peer that has
  written (`Undone`) does not have the current one; after a failure the peer
  is clean, or an UNSUCCESSFUL is on its way and the undo will make it so.
* `ThreadPoolProofs`: the pool implements the connection queue (`ImplementsQueue`)
  and uses the acknowledge queues only as their module has them
  (`ImplementsAckQueue`), so the queue's theorems carry over to a pool whose
  agents add as well as take. For the second every entry and every
  agent at work must name a request that exists, with its id and phase
  (`PoolTyped`). With it no queue of the map has been erased and none is there
  under two ids, for ids and requests that meet as they do in the pool
  (`AckTypeOK`).
* `ThreadPoolProofs!AnswersAlways`: the invariant behind `OwnAnswers`, `BreaksOnlyIf`
  and `LeftoversOnlyOfFailures`, which are about one moment each and not
  inductive. It says of a request that is alone with its id:
  - `CollectsInv`: the broadcasts its agent has still to add, the answers to come
    (`Pending`: calls in the connection queue and agents that deliver one) and
    the answers in the queue of its id together never exceed the number of
    peers, all are of its current phase, and of the other phase none is to
    come. So the agent that finds as many answers as peers has them all, no
    agent will add another, and the second phase begins with an empty slate;
  - `Sees` (in the same conjunct): an agent that waits holds the queue which the
    map has under its id, and after enough answers nobody is inside `add()` there
    unless they came after the time-out;
  - `GoneInv`: after success there is no queue and nothing to come that could
    make one;
  - `RolesInv`, `OwnersInv`, `PointersInv` tie an agent's place in the queues to its
    work, an open request to the one agent at it, and an agent's pointer to the
    map or to the erased queues;
  - `SoundInv`: without either cause, no pointer in use is to an erased queue.

  `Pending` counts places in a sequence and members of a set; `PlacesAppend`,
  `PlacesTail` and `DelivererTurns` say how each count changes. Steps that do
  nothing to requests are covered together (`AsideKeeps`).
* `BoardFileProofs`: five results about the agents of one server, for any number of
  agents and commands.
  - `BoardTypeCorrect` rests on `ShapeInv`: the step of a command decides what its
    agent has with the lock and whether it has the board open.
  - `IdsStayDistinct`: a number that was drawn is below the next one, in no file
    before its record is written, and drawn once (`NumberInv`), over all files
    ever made, since a rename or an undo can bring back any. Debris is excepted
    (`FileIds`), the whole records beside it are not.
  - `NoAccidentAlone`: while commands have not overlapped, what the one active
    agent has found is still so (`AloneInv`).
  - `BoardIsExact` and `ReadsAreExact`: `BoardExact` says nothing of a board half way
    in a REPLACE or of the record in a buffer, so it is not inductive. `BoardInv`
    adds where these records will go: the lines of the board lie at increasing
    places of `expected` (`Lays`), each record in a buffer has its own place there
    and its position in the file is behind no line of a later place
    (`HasPlace`); a REPLACE half way has the board of before in the backup and no
    record in any buffer; and the command in the undo store, if it is the
    latest, finds what it needs to be undone (`Undoable`): the position of a WRITE
    still stands for the lines before its own. `WholeInv` says that the board of
    atomic commands has no debris, so that a READ of a board which is as
    expected has one answer. `NameInv` says that the
    number of a command is nowhere before its effect. That the lock excludes,
    or that an accident is recorded, comes from `RWLockProofs`.

* `LifecycleProofs!FindsObjects`: at each step of `configure` and `reinit` the
  objects that the step needs exist (`Complete`), if nothing has interrupted
  main. The invariant ties `initialized`, which SIGHUP looks at, to the step
  at which everything is in place.
* `LifecycleProofs!OptionsWin` and `PeersAreListed`: `Precedence` and `PeersListed` for
  all command lines and files. `ConfigInv` is the invariant of the three loops.
  A key that some option sets is compared with the options since the last start
  of their scan, and one that no option sets with the lines read so far
  (`KeysSoFar`); `Gives` says what a prefix gives to a key without a choice of the
  last position, and `GivesLastSet` that at the end of the sequence this is
  `LastSet`. `Position` ties the file, `optind` and `rescan` to the first `-c` of the
  command line: before the second scan the options behind `optind` may still set
  what the file sets, after it all of them have. `PeersOf` is a recursive
  function, whose equations are proved from the least position at which they
  would fail (`PeersOfRecursion`).
* `LifecycleProofs!LifeTypeCorrect`: `LifeTypeOK`, and with it that `initialized` is set
  only while both pools and both listeners of the current generation exist, and
  that nothing of an earlier one does. `Course` adds to the types which steps are
  reached by whom: only a SIGQUIT interrupts, and before `configure` there is no
  thread.
* `LifecycleProofs!MissesOne`: `FirstStopMissesOne`, for any number of agents. In the first
  generation an answer in a stop queue is a thread that is gone (`FirstRun`), and
  a wait that did not time out saw `Tmax` of them, of either pool (`Heard`). There
  are at most `Tmax + 1` agents and two listeners (`FirstAgentsCount`,
  `FirstEarsCount`), whose number comes from the configuration: hence the
  invariant needs `ConfigInv`. The proof found that the exception for a SIGQUIT
  amid the stop, which the property once made, was not needed, and it was dropped.

Only model-checked:

* the liveness properties (`Answered`, `ReaderServed`, `RequestsEnd`,
  `EntriesServed`, `ConfigurationEnds`, `ReinitEnds`): fairness is out of the
  prover's reach.

The library's induction theorems take the predicate as an operator, which the
provers cannot instantiate. Where a proof needs induction over data, it takes the
least element of the set of counterexamples instead (`Least`, from
`NatLessThanWellFounded` and `WFMin`), and invariants that follow a loop step by
step, as the code does, take the place of most of it.

## 8. Not modelled

* USER and QUIT, and the ownership of streams: a session is served by one agent
  and nothing interferes with it.
* Parsing of commands, of options and of files beyond what it decides; wording
  of answers, logging, and the debug delays.
* The client syntax that lets a client mark its own WRITE as LOCAL.
* What `BroadcastPrecommit::execute` adds if the connection ends before the ACK:
  it parses its buffer all the same, which nothing has initialised. The models
  have this as no answer (`Lose`, `DeliverInVain`); the bytes of an earlier ACK on
  the same stack would be an answer under that one's id.
* Storage faults of REPLACE and READ, ports that cannot be bound, threads that
  cannot be created.
* What a reload does to a command in progress (the peers are cleared under it,
  a daemon's fork takes its agents away while they may hold the lock): hazards
  without a property, the open item of the plan.
