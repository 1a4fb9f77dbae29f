---------------------------- MODULE Replication ----------------------------
(***************************************************************************)
(* The two-phase replication of the bulletin board between bbserv          *)
(* instances: a client's WRITE or REPLACE at a coordinator, PRECOMMIT and  *)
(* COMMIT at its peers, the acknowledge queues that collect the answers,   *)
(* and the undo that an UNSUCCESSFUL command triggers.                     *)
(*                                                                         *)
(* A server serves at most one client request at a time here (module       *)
(* RWLock is about several) and its s-port pool has one worker, as         *)
(* configure() creates it.  Board lines and file positions are those of    *)
(* module BoardLines.                                                      *)
(***************************************************************************)
EXTENDS Integers, Sequences, FiniteSets, BoardLines

CONSTANTS
    Servers,       \* the bbserv processes
    Peers,         \* Peers[s]: the peers configured at server s
    Coordinators,  \* the servers that clients send WRITE and REPLACE to
    Kinds,         \* the commands clients send
    UnknownIds,    \* TRUE: clients may REPLACE a message the board lacks
    Patient,       \* TRUE: a wait times out only if no answer is on its way,
                   \*   and clients let the last broadcasts arrive
    Faults,        \* the faults that may happen
    MaxRequests,   \* bound on the number of client requests
    MaxFaults,     \* bound on the number of faults
    Nobody         \* the origin of a command whose connection is gone

ASSUME ServersAssumption ==
    /\ IsFiniteSet(Servers)
    /\ Nobody \notin Servers
    /\ Coordinators \subseteq Servers
    /\ Peers \in [Servers -> SUBSET Servers]
    /\ \A s \in Servers : s \notin Peers[s]

ASSUME KindsAssumption ==
    /\ Kinds \subseteq {"WRITE", "REPLACE", "MALFORMED"}
    /\ Faults \subseteq {"lose", "crash", "disk"}
    /\ UnknownIds \in BOOLEAN
    /\ Patient \in BOOLEAN
    /\ MaxRequests \in Nat
    /\ MaxFaults \in Nat

(***************************************************************************)
(* A board that is renamed while a WRITE holds it open is left to the      *)
(* model of the board file: REPLACE is checked with one coordinator.       *)
(***************************************************************************)
ASSUME ReplaceAssumption ==
    "REPLACE" \in Kinds => \A c, d \in Coordinators : c = d

VARIABLES
    up,         \* up[s]: the process of s runs
    board,      \* board[s]: the lines of bbfile
    backup,     \* backup[s]: the lines of bbfile~, empty if there is none
    number,     \* number[s]: the next message number, in bbfile.no
    undo,       \* undo[s]: the command in the UndoStore
    acks,       \* acks[s]: the answers in the acknowledge queues of s
    coord,      \* coord[s]: the agent that serves a client's request at s
    sport,      \* sport[s]: the s-port agent of s
    calls,      \* broadcast commands on their way to a peer
    replies,    \* answers on their way back to the coordinator
    requests,   \* number of client requests so far
    outcome,    \* outcome[r]: what the client of request r was told
    applied,    \* applied[s]: the requests that s has written to its board
    faults      \* number of faults so far

disk == <<board, backup, number>>
net  == <<calls, replies>>
vars == <<up, board, backup, number, undo, acks, coord, sport, calls, replies,
          requests, outcome, applied, faults>>

-----------------------------------------------------------------------------
(* Records of the agents and of the UndoStore. *)

IdleCoord ==
    [pc |-> "idle", req |-> 0, kind |-> "WRITE", id |-> 0, pos |-> <<>>]

IdleSport == [pc |-> "idle", req |-> 0, kind |-> "WRITE", id |-> 0,
              from |-> Nobody, num |-> 0, pos |-> <<>>, found |-> FALSE]

NoUndo == [kind |-> "NONE", pos |-> <<>>]

Init ==
    /\ up = [s \in Servers |-> TRUE]
    /\ board = [s \in Servers |-> <<>>]
    /\ backup = [s \in Servers |-> <<>>]
    /\ number = [s \in Servers |-> 0]
    /\ undo = [s \in Servers |-> NoUndo]
    /\ acks = [s \in Servers |-> {}]
    /\ coord = [s \in Servers |-> IdleCoord]
    /\ sport = [s \in Servers |-> IdleSport]
    /\ calls = {}
    /\ replies = {}
    /\ requests = 0
    /\ outcome = [r \in 1..MaxRequests |-> "none"]
    /\ applied = [s \in Servers |-> {}]
    /\ faults = 0

-----------------------------------------------------------------------------
(* Messages and acknowledge queues. *)

\* One command per configured peer.
Broadcast(type, c, req, kind, id) ==
    {[type |-> type, req |-> req, kind |-> kind, id |-> id,
      from |-> c, to |-> p] : p \in Peers[c]}

\* Deviation: the answer echoes the command's type.
ReplyEchoed(m, type) == [m EXCEPT !.from = m.to, !.to = m.from]

Reply(m, type) == [m EXCEPT !.type = type, !.from = m.to, !.to = m.from]

Positive(m) == m.type # "UNSUCCESSFUL"

\* AcknowledgeQueue::TheOne(id): the queues of a server are told apart by the
\* message id alone.
Queue(s, id) == {m \in acks[s] : m.id = id}

AllAnswered(s, id) == Cardinality(Queue(s, id)) >= Cardinality(Peers[s])

CheckSuccess(s, id) ==
    AllAnswered(s, id) /\ \A m \in Queue(s, id) : Positive(m)

\* An answer to c's current request is still on its way.
Outstanding(c) ==
    \/ \E m \in calls \cup replies : m.req = coord[c].req
    \/ \E s \in Servers : sport[s].pc # "idle" /\ sport[s].req = coord[c].req

\* Deviation: pthread_cond_wait for pthread_cond_timedwait.
TimedOutNever(c) == FALSE

TimedOut(c) ==
    /\ ~AllAnswered(c, coord[c].id)
    /\ Patient => ~Outstanding(c)

\* CmdUnsuccessful: the UndoStore's command is undone, whichever it is.  With
\* an empty backup there may have been none to restore: then the board is
\* gone all the same, and the store keeps the REPLACE.
Undo(s) ==
    /\ \/ undo' = [undo EXCEPT ![s] = NoUndo]
       \/ undo[s].kind = "REPLACE" /\ backup[s] = <<>> /\ UNCHANGED undo
    /\ board' = [board EXCEPT ![s] =
                    IF undo[s].kind = "WRITE" THEN Truncate(@, undo[s].pos)
                    ELSE IF undo[s].kind = "REPLACE" THEN backup[s] ELSE @]
    /\ backup' = [backup EXCEPT ![s] =
                    IF undo[s].kind = "REPLACE" THEN <<>> ELSE @]
    /\ UNCHANGED number

-----------------------------------------------------------------------------
(* A process ends: its files stay, all else is lost with it. *)

Dies(s) ==
    /\ up' = [up EXCEPT ![s] = FALSE]
    /\ undo' = [undo EXCEPT ![s] = NoUndo]
    /\ acks' = [acks EXCEPT ![s] = {}]
    /\ coord' = [coord EXCEPT ![s] = IdleCoord]
    /\ sport' = [t \in Servers |->
                    IF t = s THEN IdleSport
                    ELSE IF sport[t].from = s
                         THEN [sport[t] EXCEPT !.from = Nobody]
                         ELSE sport[t]]
    /\ calls' = {m \in calls : m.from # s}
    /\ replies' = {m \in replies : m.to # s}
    /\ outcome' = IF coord[s].pc \in {"number", "precommit", "commit", "apply"}
                  THEN [outcome EXCEPT ![coord[s].req] = "lost"]
                  ELSE outcome

Fault(kind) ==
    /\ kind \in Faults
    /\ faults < MaxFaults
    /\ faults' = faults + 1

-----------------------------------------------------------------------------
(* The coordinator: CmdWrite and CmdReplace with a connection queue. *)

Accept(c) ==
    /\ up[c]
    /\ coord[c].pc = "idle"
    /\ requests < MaxRequests
    /\ Patient => calls = {}
    /\ requests' = requests + 1

\* WRITE: update_message_number reads the next number.
WriteRequest(c) ==
    /\ "WRITE" \in Kinds
    /\ Accept(c)
    /\ coord' = [coord EXCEPT ![c] =
                    [pc |-> "number", req |-> requests + 1, kind |-> "WRITE",
                     id |-> number[c], pos |-> <<>>]]
    /\ UNCHANGED <<up, disk, undo, acks, sport, net, outcome, applied, faults>>

\* Deviation: the successor is not stored.
StoreNumberForgotten(c) ==
    /\ coord[c].pc = "number"
    /\ coord' = [coord EXCEPT ![c].pc = "precommit"]
    /\ calls' = calls \cup Broadcast("PRECOMMIT", c, coord[c].req, "WRITE",
                                     coord[c].id)
    /\ UNCHANGED <<up, disk, undo, acks, sport, replies, requests, outcome,
                   applied, faults>>

\* It stores the successor, and the peers are asked to PRECOMMIT.
StoreNumber(c) ==
    /\ coord[c].pc = "number"
    /\ number' = [number EXCEPT ![c] = coord[c].id + 1]
    /\ coord' = [coord EXCEPT ![c].pc = "precommit"]
    /\ calls' = calls \cup Broadcast("PRECOMMIT", c, coord[c].req, "WRITE",
                                     coord[c].id)
    /\ UNCHANGED <<up, board, backup, undo, acks, sport, replies, requests,
                   outcome, applied, faults>>

\* The catch block: tell the peers, then the client.  The request's
\* acknowledge queue stays as it is.
Fail(c, id) ==
    /\ calls' = calls \cup Broadcast("UNSUCCESSFUL", c, coord[c].req,
                                     coord[c].kind, id)
    /\ coord' = [coord EXCEPT ![c] = IdleCoord]
    /\ outcome' = [outcome EXCEPT ![coord[c].req] = "error"]

\* The number file or the board cannot be written.  In the first case the
\* id is still 0 in the catch block.
StorageFault(c) ==
    /\ coord[c].pc = "number"
    /\ Fault("disk")
    /\ \/ /\ Fail(c, 0)
          /\ UNCHANGED number
       \/ /\ Fail(c, coord[c].id)
          /\ number' = [number EXCEPT ![c] = coord[c].id + 1]
    /\ UNCHANGED <<up, board, backup, undo, acks, sport, replies, requests,
                   applied>>

\* REPLACE id/text: the client's message id is the id of the transaction.
ReplaceRequest(c, id) ==
    /\ "REPLACE" \in Kinds
    /\ UnknownIds \/ id \in Ids(board[c])
    /\ Accept(c)
    /\ coord' = [coord EXCEPT ![c] =
                    [pc |-> "precommit", req |-> requests + 1,
                     kind |-> "REPLACE", id |-> id, pos |-> <<>>]]
    /\ calls' = calls \cup Broadcast("PRECOMMIT", c, requests + 1, "REPLACE", id)
    /\ UNCHANGED <<up, disk, undo, acks, sport, replies, outcome, applied,
                   faults>>

\* A REPLACE whose id does not parse: the extraction sets the id to 0, and
\* the catch block sends UNSUCCESSFUL 0.
MalformedRequest(c) ==
    /\ "MALFORMED" \in Kinds
    /\ Accept(c)
    /\ calls' = calls \cup Broadcast("UNSUCCESSFUL", c, requests + 1, "REPLACE", 0)
    /\ outcome' = [outcome EXCEPT ![requests + 1] = "error"]
    /\ UNCHANGED <<up, disk, undo, acks, coord, sport, replies, applied, faults>>

\* Deviation: the first phase leaves its answers to the second.
AcknowledgedKept(c) == CheckSuccess(c, coord[c].id) /\ UNCHANGED acks

\* broadcast_synchronous returns: the queue of the id is erased.
Acknowledged(c) ==
    /\ CheckSuccess(c, coord[c].id)
    /\ acks' = [acks EXCEPT ![c] = @ \ Queue(c, coord[c].id)]

Precommitted(c) ==
    /\ coord[c].pc = "precommit"
    /\ Acknowledged(c)
    /\ coord' = [coord EXCEPT ![c].pc = "commit"]
    /\ calls' = calls \cup Broadcast("COMMIT", c, coord[c].req, coord[c].kind,
                                     coord[c].id)
    /\ UNCHANGED <<up, disk, undo, sport, replies, requests, outcome, applied,
                   faults>>

Committed(c) ==
    /\ coord[c].pc = "commit"
    /\ Acknowledged(c)
    /\ coord' = [coord EXCEPT ![c].pc = "apply"]
    /\ UNCHANGED <<up, disk, undo, sport, net, requests, outcome, applied,
                   faults>>

\* broadcast_synchronous throws: a negative answer, or not enough in time.
Abort(c) ==
    /\ coord[c].pc \in {"precommit", "commit"}
    /\ \/ AllAnswered(c, coord[c].id) /\ ~CheckSuccess(c, coord[c].id)
       \/ TimedOut(c)
    /\ Fail(c, coord[c].id)
    /\ UNCHANGED <<up, disk, undo, acks, sport, replies, requests, applied,
                   faults>>

\* The local WRITE: seek to the end under the lock, then answer the client.
\* The record is still in the stream's buffer.
ApplyWrite(c) ==
    /\ coord[c].pc = "apply" /\ coord[c].kind = "WRITE"
    /\ coord' = [coord EXCEPT ![c].pc = "flush", ![c].pos = board[c]]
    /\ outcome' = [outcome EXCEPT ![coord[c].req] = "wrote"]
    /\ UNCHANGED <<up, disk, undo, acks, sport, net, requests, applied, faults>>

\* The local REPLACE: rewrite_bbfile, which answers the client.
ApplyReplace(c) ==
    LET id == coord[c].id
        r  == coord[c].req
        found == id \in Ids(board[c])
    IN  /\ coord[c].pc = "apply" /\ coord[c].kind = "REPLACE"
        /\ coord' = [coord EXCEPT ![c].pc = "flush"]
        /\ backup' = [backup EXCEPT ![c] = board[c]]
        /\ board' = [board EXCEPT ![c] = ReplaceRecord(@, id, r)]
        /\ outcome' = [outcome EXCEPT ![r] = IF found THEN "wrote" ELSE "unknown"]
        /\ calls' = IF found THEN calls
                    ELSE calls \cup Broadcast("UNSUCCESSFUL", c, r, "REPLACE", id)
        /\ applied' = IF found THEN [applied EXCEPT ![c] = @ \cup {r}] ELSE applied
        /\ UNCHANGED <<up, number, undo, acks, sport, replies, requests, faults>>

\* The end of execute(): the UndoStore is cleared and the stream of a WRITE
\* is closed, which brings the record to the file.
Flush(c) ==
    /\ coord[c].pc = "flush"
    /\ coord' = [coord EXCEPT ![c] = IdleCoord]
    /\ undo' = [undo EXCEPT ![c] = NoUndo]
    /\ IF coord[c].kind = "WRITE"
       THEN /\ board' = [board EXCEPT ![c] =
                            WriteAt(@, coord[c].pos,
                                    Line(coord[c].id, coord[c].req))]
            /\ applied' = [applied EXCEPT ![c] = @ \cup {coord[c].req}]
       ELSE UNCHANGED <<board, applied>>
    /\ UNCHANGED <<up, backup, number, acks, sport, net, requests, outcome,
                   faults>>

-----------------------------------------------------------------------------
(* The participant: the s-port agent takes one command at a time. *)

Take(m, type) ==
    /\ m.type = type
    /\ up[m.to]
    /\ sport[m.to].pc = "idle"
    /\ calls' = calls \ {m}

\* CmdPrecommit: always a positive ACK.
Precommit(m) ==
    /\ Take(m, "PRECOMMIT")
    /\ replies' = replies \cup {Reply(m, "ACK")}
    /\ UNCHANGED <<up, disk, undo, acks, coord, sport, requests, outcome,
                   applied, faults>>

\* CmdCommit builds the LOCAL command; a WRITE reads its own next number.
BeginCommit(m) ==
    /\ Take(m, "COMMIT")
    /\ sport' = [sport EXCEPT ![m.to] =
                    [pc |-> "begun", req |-> m.req, kind |-> m.kind,
                     id |-> m.id, from |-> m.from, num |-> number[m.to],
                     pos |-> <<>>, found |-> TRUE]]
    /\ UNCHANGED <<up, disk, undo, acks, coord, replies, requests, outcome,
                   applied, faults>>

\* Deviation: the LOCAL WRITE reads its number and does not store the next.
LocalWriteSameNumber(p) ==
    /\ sport[p].pc = "begun" /\ sport[p].kind = "WRITE"
    /\ board' = [board EXCEPT ![p] = Append(@, Line(sport[p].num, sport[p].req))]
    /\ applied' = [applied EXCEPT ![p] = @ \cup {sport[p].req}]
    /\ sport' = [sport EXCEPT ![p].pc = "applied", ![p].pos = board[p]]
    /\ UNCHANGED <<up, number, backup, undo, acks, coord, net, requests, outcome,
                   faults>>

\* The LOCAL WRITE stores the number and appends; std::endl flushes.
LocalWrite(p) ==
    /\ sport[p].pc = "begun" /\ sport[p].kind = "WRITE"
    /\ number' = [number EXCEPT ![p] = sport[p].num + 1]
    /\ board' = [board EXCEPT ![p] = Append(@, Line(sport[p].num, sport[p].req))]
    /\ applied' = [applied EXCEPT ![p] = @ \cup {sport[p].req}]
    /\ sport' = [sport EXCEPT ![p].pc = "applied", ![p].pos = board[p]]
    /\ UNCHANGED <<up, backup, undo, acks, coord, net, requests, outcome, faults>>

\* The LOCAL REPLACE rewrites the board.  An unknown id is broadcast through
\* the connection queue, and a LOCAL command has none: the process ends.
LocalReplace(p) ==
    LET id == sport[p].id
        r  == sport[p].req
        found == id \in Ids(board[p])
    IN  /\ sport[p].pc = "begun" /\ sport[p].kind = "REPLACE"
        /\ backup' = [backup EXCEPT ![p] = board[p]]
        /\ board' = [board EXCEPT ![p] = ReplaceRecord(@, id, r)]
        /\ applied' = IF found THEN [applied EXCEPT ![p] = @ \cup {r}] ELSE applied
        /\ IF ~found /\ Peers[p] # {}
           THEN Dies(p)
           ELSE /\ sport' = [sport EXCEPT ![p].pc = "applied", ![p].found = found]
                /\ UNCHANGED <<up, undo, acks, coord, net, outcome>>
        /\ UNCHANGED <<number, requests, faults>>

\* The number file or the board of a LOCAL WRITE cannot be written: its
\* catch block broadcasts too, if there are peers.
LocalStorageFault(p) ==
    /\ sport[p].pc = "begun" /\ sport[p].kind = "WRITE"
    /\ Fault("disk")
    /\ \/ UNCHANGED number
       \/ number' = [number EXCEPT ![p] = sport[p].num + 1]
    /\ IF Peers[p] # {}
       THEN Dies(p)
       ELSE /\ sport' = [sport EXCEPT ![p] = IdleSport]
            /\ replies' = replies \cup
                 {[type |-> "UNSUCCESSFUL", req |-> sport[p].req,
                   kind |-> sport[p].kind, id |-> sport[p].id, from |-> p,
                   to |-> c] : c \in {sport[p].from} \ {Nobody}}
            /\ UNCHANGED <<up, undo, acks, coord, calls, outcome>>
    /\ UNCHANGED <<board, backup, requests, applied>>

\* Deviation: the LOCAL command is not kept for undo.
FinishCommitForgotten(p) ==
    /\ sport[p].pc = "applied"
    /\ sport' = [sport EXCEPT ![p] = IdleSport]
    /\ replies' = replies \cup
         {[type |-> IF sport[p].found THEN "SUCCESSFUL" ELSE "UNSUCCESSFUL",
           req |-> sport[p].req, kind |-> sport[p].kind, id |-> sport[p].id,
           from |-> p, to |-> c] : c \in {sport[p].from} \ {Nobody}}
    /\ UNCHANGED <<up, disk, undo, acks, coord, calls, requests, outcome,
                   applied, faults>>

\* The LOCAL command is kept for undo and the answer is sent, unless the
\* connection it belongs to is gone.
FinishCommit(p) ==
    /\ sport[p].pc = "applied"
    /\ sport' = [sport EXCEPT ![p] = IdleSport]
    /\ undo' = [undo EXCEPT ![p] = [kind |-> sport[p].kind, pos |-> sport[p].pos]]
    /\ replies' = replies \cup
         {[type |-> IF sport[p].found THEN "SUCCESSFUL" ELSE "UNSUCCESSFUL",
           req |-> sport[p].req, kind |-> sport[p].kind, id |-> sport[p].id,
           from |-> p, to |-> c] : c \in {sport[p].from} \ {Nobody}}
    /\ UNCHANGED <<up, disk, acks, coord, calls, requests, outcome, applied,
                   faults>>

\* UNSUCCESSFUL at a participant: undo, and a negative entry in the
\* participant's own queue of that id.
Unsuccessful(m) ==
    /\ Take(m, "UNSUCCESSFUL")
    /\ Undo(m.to)
    /\ acks' = [acks EXCEPT ![m.to] = @ \cup {m}]
    /\ UNCHANGED <<up, coord, sport, replies, requests, outcome, applied, faults>>

-----------------------------------------------------------------------------
(* The answer reaches the broadcast agent of the coordinator. *)

ReceiveReply(m) ==
    /\ replies' = replies \ {m}
    /\ acks' = [acks EXCEPT ![m.to] = @ \cup {m}]
    /\ IF m.type = "UNSUCCESSFUL" THEN Undo(m.to) ELSE UNCHANGED <<disk, undo>>
    /\ UNCHANGED <<up, coord, sport, calls, requests, outcome, applied, faults>>

-----------------------------------------------------------------------------
(* The network and the processes. *)

\* No connection to a process that does not run: the command is dropped.
Refused(m) ==
    /\ ~up[m.to]
    /\ calls' = calls \ {m}
    /\ UNCHANGED <<up, disk, undo, acks, coord, sport, replies, requests,
                   outcome, applied, faults>>

\* The connection breaks, or the agent at its coordinator's end gives up
\* waiting (wait_for).
Lose(m) ==
    /\ Fault("lose")
    /\ calls' = calls \ {m}
    /\ replies' = replies \ {m}
    /\ UNCHANGED <<up, disk, undo, acks, coord, sport, requests, outcome, applied>>

Crash(s) ==
    /\ up[s]
    /\ Fault("crash")
    /\ Dies(s)
    /\ UNCHANGED <<disk, requests, applied>>

Restart(s) ==
    /\ ~up[s]
    /\ up' = [up EXCEPT ![s] = TRUE]
    /\ UNCHANGED <<disk, undo, acks, coord, sport, net, requests, outcome,
                   applied, faults>>

-----------------------------------------------------------------------------

Request(c) ==
    \/ WriteRequest(c)
    \/ \E id \in 0..MaxRequests : ReplaceRequest(c, id)
    \/ MalformedRequest(c)

CoordinatorStep(c) ==
    \/ StoreNumber(c) \/ Precommitted(c) \/ Committed(c) \/ Abort(c)
    \/ ApplyWrite(c) \/ ApplyReplace(c) \/ Flush(c)

LocalStep(p) == LocalWrite(p) \/ LocalReplace(p) \/ FinishCommit(p)

Deliver(m) == Precommit(m) \/ BeginCommit(m) \/ Unsuccessful(m) \/ Refused(m)

FaultStep ==
    \/ \E s \in Servers : \/ StorageFault(s) \/ LocalStorageFault(s)
                          \/ Crash(s) \/ Restart(s)
    \/ \E m \in calls \cup replies : Lose(m)

Next ==
    \/ \E c \in Coordinators : Request(c) \/ CoordinatorStep(c)
    \/ \E p \in Servers : LocalStep(p)
    \/ \E m \in calls : Deliver(m)
    \/ \E m \in replies : ReceiveReply(m)
    \/ FaultStep

\* Agents that can step do, and a connection that stands delivers; clients,
\* faults and restarts owe nothing.
Fairness ==
    /\ \A c \in Coordinators : WF_vars(CoordinatorStep(c))
    /\ \A p \in Servers : WF_vars(LocalStep(p))
    /\ WF_vars(\E m \in calls : Deliver(m))
    /\ WF_vars(\E m \in replies : ReceiveReply(m))

Spec == Init /\ [][Next]_vars

FairSpec == Spec /\ Fairness

-----------------------------------------------------------------------------
(* Properties. *)

LineType == [id : Int, text : Nat]

CoordType == [pc : {"idle", "number", "precommit", "commit", "apply", "flush"},
              req : Nat, kind : {"WRITE", "REPLACE"}, id : Nat,
              pos : Seq(LineType)]

SportType == [pc : {"idle", "begun", "applied"}, req : Nat,
              kind : {"WRITE", "REPLACE"}, id : Nat,
              from : Servers \cup {Nobody}, num : Nat,
              pos : Seq(LineType), found : BOOLEAN]

MessageType(types) ==
    [type : types, req : Nat, kind : {"WRITE", "REPLACE"}, id : Nat,
     from : Servers, to : Servers]

CallType  == MessageType({"PRECOMMIT", "COMMIT", "UNSUCCESSFUL"})
ReplyType == MessageType({"ACK", "SUCCESSFUL", "UNSUCCESSFUL"})

\* The type invariant: what the files, queues, agents and the network hold.
TypeOK ==
    /\ up \in [Servers -> BOOLEAN]
    /\ board \in [Servers -> Seq(LineType)]
    /\ backup \in [Servers -> Seq(LineType)]
    /\ number \in [Servers -> Nat]
    /\ undo \in [Servers -> [kind : {"NONE", "WRITE", "REPLACE"},
                           pos : Seq(LineType)]]
    /\ acks \in [Servers -> SUBSET ReplyType]
    /\ coord \in [Servers -> CoordType]
    /\ sport \in [Servers -> SportType]
    /\ calls \subseteq CallType
    /\ replies \subseteq ReplyType
    /\ requests \in 0..MaxRequests
    /\ outcome \in [1..MaxRequests ->
                       {"none", "wrote", "unknown", "error", "lost"}]
    /\ applied \in [Servers -> SUBSET Nat]
    /\ faults \in 0..MaxFaults

\* A coordinator that goes on to its own board (the second
\* broadcast_synchronous returned: "All peers acknowledged") knows that every
\* peer has written the same request to its board.  The queues tell neither
\* phases nor requests nor peers apart, so this rests on which entries can
\* still arrive under an id.
DecisionIsUnanimous ==
    \A c \in Coordinators : coord[c].pc \in {"apply", "flush"} =>
        \A p \in Peers[c] : coord[c].req \in applied[p]

\* The participants draw their own message numbers in CmdCommit.  They never
\* run ahead of the coordinator's, whatever is lost or crashes: each request
\* costs the coordinator a number before it can cost a participant one.
ReplicaNumberBehind ==
    \A c \in Coordinators : \A p \in Servers : number[p] <= number[c]

\* No two lines of a board carry the same id, through failed writes, undone
\* writes and restarts (READ and REPLACE find a message by its id alone).
UniqueIds ==
    \A s \in Servers : \A i, j \in DOMAIN board[s] :
        board[s][i].id = board[s][j].id => i = j

\* The board that clients of a single coordinator see when they WRITE.
Board == INSTANCE AtomicBoard
    WITH asked <- requests, told <- outcome, written <- applied

\* The protocol implements it, through lost messages, time-outs, crashes and
\* storage faults: no message is told to be written before every peer has
\* written it, and the coordinator's board only gets what was told.
ImplementsAtomicBoard == Board!Spec

\* Nothing is going on.
Quiet ==
    /\ calls = {} /\ replies = {}
    /\ \A s \in Servers : coord[s].pc = "idle" /\ sport[s].pc = "idle"

\* The aim of the replication: without faults, whenever nothing is going on
\* the boards and the next message numbers of all servers are the same.
Convergence ==
    Quiet /\ faults = 0 =>
        \A s, t \in Servers : board[s] = board[t] /\ number[s] = number[t]

\* A request whose client was told ERROR leaves no line on any board once
\* nothing is going on: what peers have written of it was undone.
AbortedVanishes ==
    Quiet => \A r \in 1..MaxRequests : outcome[r] = "error" =>
                 \A s \in Servers : r \notin Texts(board[s])

\* Every request is answered, or its coordinator has died: no answer that is
\* lost or never sent keeps the client's agent in check_success for ever.
Answered ==
    \A r \in 1..MaxRequests : (requests = r) ~> (outcome[r] # "none")

\* A message that its client was told is written is on the board of every
\* server once nothing is going on.
WrittenEverywhere ==
    Quiet => \A r \in 1..MaxRequests : outcome[r] = "wrote" =>
                 \A s \in Servers : r \in Texts(board[s])

\* The same message has the same id on every board that holds it.
IdsAgree ==
    \A s, t \in Servers :
        \A i \in DOMAIN board[s], j \in DOMAIN board[t] :
            board[s][i].text = board[t][j].text
                => board[s][i].id = board[t][j].id

=============================================================================
