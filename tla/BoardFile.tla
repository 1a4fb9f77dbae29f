------------------------------ MODULE BoardFile ------------------------------
(***************************************************************************)
(* The agents of one server at its board file: WRITE, REPLACE, READ and    *)
(* undo, the lock they take (module RWLock), and what they do outside it:  *)
(* draw a message number, open or create the board before the lock is      *)
(* taken, keep a client's record in the stream's buffer until after it is  *)
(* released, and share the UndoStore.  A file is an inode: a descriptor    *)
(* keeps it when REPLACE gives its name to another.                        *)
(***************************************************************************)
EXTENDS RWLock, BoardLines

CONSTANTS
    SportAgents,  \* the agents of the s-port, which execute LOCAL commands
    Commands,     \* the commands they get
    MaxCommands   \* bound on the number of commands

ASSUME BoardFileAssumption ==
    /\ SportAgents \subseteq Threads
    /\ Commands \subseteq {"WRITE", "REPLACE", "READ", "UNDO"}
    /\ MaxCommands \in Nat

VARIABLES
    number,     \* the next message number, in bbfile.no
    file,       \* file[i]: the lines of inode i
    orig,       \* the inode that is called bbfile, 0 if there is none
    backup,     \* the inode that is called bbfile~, 0 if there is none
    undo,       \* the UndoStore
    cmd,        \* cmd[t]: the command agent t executes
    commands,   \* number of commands so far
    expected,   \* the board, had each command been a single step
    latest,     \* the last command to take effect on it
    accidents,  \* what has happened that could make the board another
    overlapped  \* a command has begun while another was going on

lockVars  == <<readerCount, writerCount, rWaitCount, wWaitCount, pc, resumed>>
fileVars  == <<file, orig, backup>>
ghosts    == <<expected, latest, accidents>>
boardVars == <<number, file, orig, backup, undo, cmd, commands, expected,
               latest, accidents, overlapped>>

\* The steps: "number", "open" and "create" before the lock; "lock" until it
\* is asked for, then "inside" and, half way in a REPLACE, "rewrite"; then
\* "unlock"; and after it "tell" and "close".
IdleCmd == [op |-> "NONE", kind |-> "NONE", step |-> "idle", req |-> 0,
            id |-> 0, fd |-> 0, pos |-> <<>>, found |-> FALSE,
            before |-> <<>>]

NothingToUndo == [kind |-> "NONE", pos |-> <<>>, req |-> 0, before |-> <<>>]

Content == IF orig = 0 THEN <<>> ELSE file[orig]

\* A server that is new, or one with a message on its board.
BoardInit ==
    /\ Init
    /\ \/ number = 0 /\ file = <<>> /\ orig = 0
       \/ number = 1 /\ file = <<<<Line(0, 0)>>>> /\ orig = 1
    /\ backup = 0
    /\ undo = NothingToUndo
    /\ cmd = [t \in Threads |-> IdleCmd]
    /\ commands = 0
    /\ expected = Content
    /\ latest = 0
    /\ accidents = {}
    /\ overlapped = FALSE

-----------------------------------------------------------------------------

Local(t) == t \in SportAgents

At(t, step) == cmd[t].step = step

Goes(t, step) == cmd' = [cmd EXCEPT ![t].step = step]

Accident(names) == accidents' = accidents \cup names

\* t works on the file under the lock; the lock may have let others in.
Excluded(t) == \A u \in Threads : ~Conflict(t, u) /\ ~Conflict(u, t)

Broken(t) == IF Excluded(t) THEN {} ELSE {"exclusion"}

\* Where a command starts: the id is the number a WRITE reads, the message a
\* REPLACE or READ is about; UNDO finds a command in the store, or is done.
Begin(t, op, id) ==
    /\ At(t, "idle")
    /\ commands < MaxCommands
    /\ op \in Commands
    /\ id <= number
    /\ op = "WRITE" => id = number
    /\ op = "UNDO" => id = 0 /\ undo.kind # "NONE"
    /\ op = "READ" => ~Local(t)
    /\ commands' = commands + 1
    /\ cmd' = [cmd EXCEPT ![t] =
                  [IdleCmd EXCEPT !.op = op, !.req = commands + 1, !.id = id,
                                  !.step = IF op = "WRITE" THEN "number" ELSE "lock",
                                  !.kind = IF op = "UNDO" THEN undo.kind ELSE op]]
    /\ overlapped' = (overlapped \/ \E u \in Threads : ~At(u, "idle"))
    /\ UNCHANGED <<lockVars, number, fileVars, undo, ghosts>>

\* Deviation: the successor is not stored.
StoreNumberForgotten(t) ==
    /\ At(t, "number")
    /\ Goes(t, "open")
    /\ UNCHANGED <<lockVars, number, fileVars, undo, commands, ghosts, overlapped>>

\* update_message_number, when its stream is closed.
StoreNumber(t) ==
    /\ At(t, "number")
    /\ number' = cmd[t].id + 1
    /\ Accident(IF number = cmd[t].id THEN {} ELSE {"number"})
    /\ Goes(t, "open")
    /\ UNCHANGED <<lockVars, fileVars, undo, commands, expected, latest,
                   overlapped>>

\* Deviation: a stream that failed to open is used.
OpenBoardUnchecked(t) ==
    /\ At(t, "open")
    /\ cmd' = [cmd EXCEPT ![t].step = "lock", ![t].fd = orig]
    /\ UNCHANGED <<lockVars, number, fileVars, undo, commands, ghosts, overlapped>>

\* open_db: the board that the name stands for now.
OpenBoard(t) ==
    /\ At(t, "open")
    /\ cmd' = [cmd EXCEPT ![t].step = IF orig = 0 THEN "create" ELSE "lock",
                          ![t].fd = orig]
    /\ UNCHANGED <<lockVars, number, fileVars, undo, commands, ghosts, overlapped>>

\* There was none: create it.  A board that has come since is truncated.
CreateBoard(t) ==
    /\ At(t, "create")
    /\ IF orig = 0
       THEN file' = Append(file, <<>>) /\ orig' = Len(file')
       ELSE file' = [file EXCEPT ![orig] = <<>>] /\ UNCHANGED orig
    /\ Accident(IF Content = <<>> THEN {} ELSE {"wiped"})
    /\ cmd' = [cmd EXCEPT ![t].step = "lock", ![t].fd = orig']
    /\ UNCHANGED <<lockVars, number, backup, undo, commands, expected, latest,
                   overlapped>>

\* A client's command goes to the peers first (module Replication): it goes
\* on to Lock when replicate_command returns, and is over when it throws.
Abort(t) ==
    /\ At(t, "lock")
    /\ ~Local(t) /\ cmd[t].op \in {"WRITE", "REPLACE"}
    /\ cmd' = [cmd EXCEPT ![t] = IdleCmd]
    /\ UNCHANGED <<lockVars, number, fileVars, undo, commands, ghosts, overlapped>>

-----------------------------------------------------------------------------
(* Under the lock. *)

Lock(t) ==
    /\ At(t, "lock")
    /\ IF cmd[t].op = "READ" THEN AquireRead(t) ELSE AquireWrite(t)
    /\ Goes(t, "inside")
    /\ UNCHANGED <<number, fileVars, undo, commands, ghosts, overlapped>>

\* Spurious wakeups stay with module RWLock: what one could add here, that
\* the lock lets in whom it should not, happens without them too.
Wake(t) ==
    /\ Resume(t)
    /\ UNCHANGED boardVars

Holds(t, op) ==
    /\ At(t, "inside")
    /\ pc[t] \in {"reading", "writing"}
    /\ cmd[t].op = op

Record(t) == Line(cmd[t].id, cmd[t].req)

\* A record reaches the file of the descriptor at the position it was
\* seeked to: that file may no longer be the board, or no longer end there.
Stray(t, pos) ==
    (IF cmd[t].fd = orig THEN {} ELSE {"renamed"}) \cup
    (IF file[cmd[t].fd] = pos THEN {} ELSE {"overlap"})

\* The command takes effect on the board of atomic commands.
Effect(t, b) ==
    /\ expected' = b
    /\ latest' = cmd[t].req

\* A client's record that has not reached the file.
Pending(t) ==
    /\ cmd[t].op = "WRITE" /\ ~Local(t)
    /\ cmd[t].step \in {"unlock", "tell", "close"}

\* WRITE: seek to the end; std::endl flushes the record of a LOCAL one.
Put(t) ==
    LET end == file[cmd[t].fd]
    IN  /\ Holds(t, "WRITE")
        /\ Effect(t, Append(expected, Record(t)))
        /\ cmd' = [cmd EXCEPT ![t].step = "unlock", ![t].pos = end,
                              ![t].before = expected]
        /\ IF Local(t)
           THEN /\ file' = [file EXCEPT ![cmd[t].fd] = Append(@, Record(t))]
                /\ Accident(Broken(t) \cup Stray(t, end))
           ELSE UNCHANGED file /\ Accident(Broken(t))
        /\ UNCHANGED <<lockVars, number, orig, backup, undo, commands, overlapped>>

\* rewrite_bbfile: the board, if there is one, becomes the backup ...
Rename(t) ==
    /\ Holds(t, "REPLACE")
    /\ orig' = 0
    /\ backup' = IF orig = 0 THEN backup ELSE orig
    /\ Accident(Broken(t) \cup
                IF \E u \in Threads : Pending(u) THEN {"renamed"} ELSE {})
    /\ Goes(t, "rewrite")
    /\ UNCHANGED <<lockVars, number, file, undo, commands, expected, latest,
                   overlapped>>

\* Deviation: other messages are not copied from the backup.
RewriteOnlyOne(t) ==
    /\ At(t, "rewrite")
    /\ file' = Append(file, <<Record(t)>>)
    /\ orig' = Len(file')
    /\ Effect(t, ReplaceRecord(expected, cmd[t].id, cmd[t].req))
    /\ cmd' = [cmd EXCEPT ![t].step = "unlock", ![t].before = expected]
    /\ Accident(Broken(t))
    /\ UNCHANGED <<lockVars, number, backup, undo, commands, overlapped>>

\* ... and is copied from there to a file of its name, record by record.
Rewrite(t) ==
    LET source == IF backup = 0 THEN <<>> ELSE file[backup]
        copy   == ReplaceRecord(source, cmd[t].id, cmd[t].req)
    IN  /\ At(t, "rewrite")
        /\ IF orig = 0
           THEN file' = Append(file, copy) /\ orig' = Len(file')
           ELSE file' = [file EXCEPT ![orig] = copy] /\ UNCHANGED orig
        /\ Effect(t, ReplaceRecord(expected, cmd[t].id, cmd[t].req))
        /\ cmd' = [cmd EXCEPT ![t].step = "unlock", ![t].before = expected]
        /\ Accident(Broken(t))
        /\ UNCHANGED <<lockVars, number, backup, undo, commands, overlapped>>

\* READ: the answer is a record of the board, or none.
Look(t) ==
    /\ Holds(t, "READ")
    /\ \E found \in BOOLEAN :
           /\ Torn(Content) \/ found = (cmd[t].id \in Ids(Content))
           /\ cmd' = [cmd EXCEPT ![t].step = "unlock", ![t].found = found]
    /\ Accident(Broken(t))
    /\ UNCHANGED <<lockVars, number, fileVars, undo, commands, expected, latest,
                   overlapped>>

\* undo() of the command the store held when it was read.  The position is
\* in the store, where it stays when the store is cleared.
Outdated(t) ==
    IF undo.kind = cmd[t].kind /\ undo.req = latest THEN {} ELSE {"undo"}

Cleared == undo' = [undo EXCEPT !.kind = "NONE"]

UndoWrite(t) ==
    /\ Holds(t, "UNDO") /\ cmd[t].kind = "WRITE"
    /\ file' = IF orig = 0 THEN file
               ELSE [file EXCEPT ![orig] = Truncate(@, undo.pos)]
    /\ Effect(t, undo.before)
    /\ Accident(Broken(t) \cup Outdated(t))
    /\ Cleared
    /\ Goes(t, "unlock")
    /\ UNCHANGED <<lockVars, number, orig, backup, commands, overlapped>>

\* restore_backup: without a board or without a backup it throws, and the
\* store is not cleared; in the second case the board is gone, and to undo the
\* same command again changes nothing more.
UndoReplace(t) ==
    /\ Holds(t, "UNDO") /\ cmd[t].kind = "REPLACE"
    /\ IF orig = 0
       THEN UNCHANGED <<orig, backup, undo, expected, latest>> /\ Accident(Broken(t))
       ELSE /\ orig' = backup
            /\ backup' = 0
            /\ expected' = undo.before
            /\ IF backup = 0 THEN UNCHANGED <<undo, latest>>
               ELSE Cleared /\ latest' = cmd[t].req
            /\ Accident(Broken(t) \cup Outdated(t))
    /\ Goes(t, "unlock")
    /\ UNCHANGED <<lockVars, number, file, commands, overlapped>>

-----------------------------------------------------------------------------
(* After it. *)

Unlock(t) ==
    /\ At(t, "unlock")
    /\ Release(t)
    /\ cmd' = [cmd EXCEPT ![t] = IF cmd[t].op \in {"WRITE", "REPLACE"}
                                 THEN [@ EXCEPT !.step = "tell"] ELSE IdleCmd]
    /\ UNCHANGED <<number, fileVars, undo, commands, ghosts, overlapped>>

AfterTell(t) ==
    cmd' = [cmd EXCEPT ![t] = IF Pending(t) THEN [@ EXCEPT !.step = "close"]
                              ELSE IdleCmd]

\* Deviation: a client's command leaves the store as it is.
TellStoreKept(t) ==
    /\ At(t, "tell")
    /\ undo' = IF ~Local(t) THEN undo
               ELSE [kind |-> cmd[t].op, before |-> cmd[t].before,
                     req |-> cmd[t].req,
                     pos |-> IF cmd[t].op = "WRITE" THEN cmd[t].pos ELSE undo.pos]
    /\ AfterTell(t)
    /\ UNCHANGED <<lockVars, number, fileVars, commands, ghosts, overlapped>>

\* The client is told; the store keeps a LOCAL command, and a client's one
\* clears it.  Only a WRITE has a position.
Tell(t) ==
    /\ At(t, "tell")
    /\ IF Local(t)
       THEN undo' = [kind |-> cmd[t].op, before |-> cmd[t].before,
                     req |-> cmd[t].req,
                     pos |-> IF cmd[t].op = "WRITE" THEN cmd[t].pos ELSE undo.pos]
       ELSE Cleared
    /\ AfterTell(t)
    /\ UNCHANGED <<lockVars, number, fileVars, commands, ghosts, overlapped>>

\* The stream is closed: a client's record reaches the file.
Close(t) ==
    /\ At(t, "close")
    /\ file' = [file EXCEPT ![cmd[t].fd] = WriteAt(@, cmd[t].pos, Record(t))]
    /\ Accident(Stray(t, cmd[t].pos))
    /\ cmd' = [cmd EXCEPT ![t] = IdleCmd]
    /\ UNCHANGED <<lockVars, number, orig, backup, undo, commands, expected,
                   latest, overlapped>>

-----------------------------------------------------------------------------

Command(t) ==
    \/ \E op \in Commands, id \in 0..MaxCommands : Begin(t, op, id)
    \/ StoreNumber(t) \/ OpenBoard(t) \/ CreateBoard(t) \/ Abort(t)
    \/ Lock(t) \/ Wake(t)
    \/ Put(t) \/ Rename(t) \/ Rewrite(t) \/ Look(t)
    \/ UndoWrite(t) \/ UndoReplace(t)
    \/ Unlock(t) \/ Tell(t) \/ Close(t)

BoardNext == \E t \in Threads : Command(t)

BoardSpec == BoardInit /\ [][BoardNext]_<<lockVars, boardVars>>

-----------------------------------------------------------------------------
(* Properties. *)

LineType == [id : Int, text : Nat]

CmdType ==
    [op : Commands \cup {"NONE"}, kind : Commands \cup {"NONE"},
     step : {"idle", "number", "open", "create", "lock", "inside",
             "rewrite", "unlock", "tell", "close"},
     req : Nat, id : Nat, fd : 0..Len(file), pos : Seq(LineType),
     found : BOOLEAN, before : Seq(LineType)]

\* The type invariant.  A WRITE has the board open when it takes the lock.
BoardTypeOK ==
    /\ number \in Nat
    /\ file \in Seq(Seq(LineType))
    /\ {orig, backup} \subseteq 0..Len(file)
    /\ undo \in [kind : {"NONE", "WRITE", "REPLACE"}, pos : Seq(LineType),
                 req : Nat, before : Seq(LineType)]
    /\ cmd \in [Threads -> CmdType]
    /\ \A t \in Threads :
           cmd[t].op = "WRITE" /\ cmd[t].step \in {"lock", "inside", "close"}
               => cmd[t].fd # 0
    /\ commands \in 0..MaxCommands
    /\ expected \in Seq(LineType) /\ latest \in Nat
    /\ accidents \subseteq {"number", "wiped", "renamed", "overlap", "undo",
                           "exclusion"}
    /\ overlapped \in BOOLEAN

\* The lines of the board of atomic commands but for those still in a buffer.
Settled ==
    {i \in DOMAIN expected :
        \A t \in Threads : Pending(t) => cmd[t].req # expected[i].text}

\* b has the lines of s at the given places, in their order, and no others.
LinesAt(b, s, places) ==
    \E at \in [DOMAIN b -> places] :
        /\ \A i, j \in DOMAIN b : i < j => at[i] < at[j]
        /\ \A k \in places : \E i \in DOMAIN b : at[i] = k
        /\ \A i \in DOMAIN b : b[i] = s[at[i]]

\* The board is what the commands would have made of it one at a time, each
\* at its step under the lock, except for records still in a stream's buffer
\* (and half way in a REPLACE) - or one of the six accidents has happened:
\* there is no seventh way to lose, duplicate or misplace a message.
BoardExact ==
    accidents = {} /\ (\A t \in Threads : ~At(t, "rewrite"))
        => LinesAt(Content, expected, Settled)

\* A READ finds every message that was written, unless an accident has
\* happened or the record is still in the buffer of its WRITE (which may
\* have told its client already).
ReadsExact ==
    [][\A t \in Threads :
          Look(t) /\ accidents' = {} =>
              (cmd'[t].found <=>
                  \E i \in Settled : expected[i].id = cmd[t].id)]_<<lockVars, boardVars>>

\* No two messages of the board have the same id, through renamed, wiped and
\* wrongly undone boards, unless two WRITEs have drawn the same number - and
\* as long as the board consists of whole records: of the pieces that an
\* overwritten record or a cut in the middle of one leaves, any may pass for
\* a record with an id that is in use.
IdsDistinct ==
    "number" \notin accidents /\ ~Torn(Content) =>
        \A i, j \in DOMAIN Content : Content[i].id = Content[j].id => i = j

\* Accidents need agents that work at the same time: a server that is given
\* one command at a time, LOCAL ones and undo included, has none.
AccidentsNeedOverlap == accidents # {} => overlapped

=============================================================================
