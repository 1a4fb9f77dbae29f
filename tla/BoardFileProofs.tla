--------------------------- MODULE BoardFileProofs ---------------------------
(***************************************************************************)
(* Proofs about BoardFile, for any agents and any number of commands: the  *)
(* board is what atomic commands would have made of it unless one of six   *)
(* accidents has happened, accidents need commands that overlap, and the   *)
(* ids on a board are distinct.                                            *)
(***************************************************************************)
EXTENDS BoardFile, RWLockProofs, SequenceTheorems

\* What an agent does, in terms of the steps of its command.
Active(t) == ~At(t, "idle")

\* It has not had its effect yet.
Early(t) ==
    cmd[t].step \in {"number", "open", "create", "lock", "inside", "rewrite"}

\* It has had its effect, and has not told the store.
Applied(t) ==
    /\ cmd[t].op \in {"WRITE", "REPLACE"}
    /\ cmd[t].step \in {"unlock", "tell", "close"}

\* It has drawn a number that no file has yet.
Unwritten(t) ==
    \/ cmd[t].op = "WRITE" /\ cmd[t].step \in {"open", "create", "lock", "inside"}
    \/ Pending(t)

\* It has the board open.
Opened(t) ==
    /\ cmd[t].op = "WRITE"
    /\ cmd[t].step \in {"lock", "inside", "unlock", "tell", "close"}

-----------------------------------------------------------------------------
(* The steps and the lock. *)

\* Where the lock has an agent at work on a command.
Waiting(t) == IF cmd[t].op = "READ" THEN {"rAsleep", "rWoken", "reading"}
              ELSE {"wAsleep", "wWoken", "writing"}

Holding(t) == IF cmd[t].op = "READ" THEN "reading" ELSE "writing"

\* Which commands have which steps.
StepOK(t) ==
    /\ At(t, "idle") => cmd[t] = IdleCmd
    /\ Active(t) => cmd[t].op \in {"WRITE", "REPLACE", "READ", "UNDO"}
    /\ cmd[t].step \in {"number", "open", "create"} => cmd[t].op = "WRITE"
    /\ At(t, "rewrite") => cmd[t].op = "REPLACE"
    /\ At(t, "tell") => cmd[t].op \in {"WRITE", "REPLACE"}
    /\ At(t, "close") => cmd[t].op = "WRITE" /\ ~Local(t)
    /\ cmd[t].op = "UNDO" => cmd[t].kind \in {"WRITE", "REPLACE"}
    /\ Opened(t) => cmd[t].fd # 0

\* An agent has the lock in the role of its command while it is under it.
LockOK(t) ==
    /\ At(t, "inside") => pc[t] \in Waiting(t)
    /\ cmd[t].step \in {"rewrite", "unlock"} => pc[t] = Holding(t)
    /\ cmd[t].step \notin {"inside", "rewrite", "unlock"} => pc[t] = "out"

ShapeInv ==
    /\ PcOK
    /\ BoardTypeOK
    /\ undo.kind \in Commands \cup {"NONE"}
    /\ \A t \in Threads : StepOK(t) /\ LockOK(t)

-----------------------------------------------------------------------------
(* Message numbers. *)

\* No two lines of b have the same id, and each id is below no.
FileIds(b, no) ==
    /\ \A i \in DOMAIN b : b[i].id < no
    /\ \A i, j \in DOMAIN b : b[i].id = b[j].id /\ b[i].id # -1 => i = j

\* A number that was drawn is in no file until its record is.
NumberInv ==
    "number" \notin accidents =>
        /\ \A n \in DOMAIN file : FileIds(file[n], number)
        /\ \A t \in Threads : Unwritten(t) =>
               /\ cmd[t].id < number
               /\ \A n \in DOMAIN file : cmd[t].id \notin Ids(file[n])
        /\ \A t, u \in Threads :
               Unwritten(t) /\ Unwritten(u) /\ cmd[t].id = cmd[u].id => t = u

-----------------------------------------------------------------------------
(* One command at a time. *)

\* What an agent has found is still so.
Fresh(t) ==
    /\ At(t, "number") => cmd[t].id = number
    /\ At(t, "create") => orig = 0
    /\ Opened(t) => cmd[t].fd = orig
    /\ Pending(t) => file[cmd[t].fd] = cmd[t].pos
    /\ cmd[t].op = "UNDO" /\ cmd[t].step \in {"lock", "inside"} =>
           cmd[t].kind = undo.kind
    /\ Applied(t) => cmd[t].req = latest
    /\ At(t, "close") => undo.kind = "NONE"

\* The store holds the last command, once that has told it.
StoreFresh ==
    undo.kind # "NONE" /\ (\A t \in Threads : ~Applied(t)) => undo.req = latest

AloneInv ==
    ~overlapped =>
        /\ accidents = {}
        /\ \A t, u \in Threads : Active(t) /\ Active(u) => t = u
        /\ \A t \in Threads : Fresh(t)
        /\ StoreFresh

-----------------------------------------------------------------------------
(* The names of the commands. *)

\* The numbers of commands that something carries the effect of.
Seen == {latest} \cup Texts(expected) \cup Texts(undo.before)
            \cup UNION {Texts(cmd[t].before) : t \in Threads}

\* Numbers are not used twice; that of a command is nowhere before its effect.
NameInv ==
    /\ \A x \in Seen \cup {undo.req} : x <= commands
    /\ \A t \in Threads : cmd[t].req <= commands
    /\ \A t \in Threads : Active(t) => cmd[t].req >= 1 /\ undo.req # cmd[t].req
    /\ \A t, u \in Threads :
           Active(t) /\ Active(u) /\ cmd[t].req = cmd[u].req => t = u
    /\ \A t \in Threads : Early(t) => cmd[t].req \notin Seen

-----------------------------------------------------------------------------
(* The board. *)

\* b has the lines of s at the places S: its i-th line is from at[i].
Lays(at, b, s, S) ==
    /\ at \in [DOMAIN b -> S]
    /\ \A i, j \in DOMAIN b : i < j => at[i] < at[j]
    /\ \A k \in S : \E i \in DOMAIN b : at[i] = k
    /\ \A i \in DOMAIN b : b[i] = s[at[i]]

\* A record in a buffer has one place in expected; if it goes to the board it
\* will follow no line of a later place.
HasPlace(p, at) ==
    \E k \in DOMAIN expected :
        /\ \A j \in DOMAIN expected : expected[j].text = cmd[p].req <=> j = k
        /\ expected[k] = Record(p)
        /\ cmd[p].fd = orig =>
               /\ Len(cmd[p].pos) <= Len(Content)
               /\ \A i \in 1..Len(cmd[p].pos) : at[i] < k

Rewriting == \E t \in Threads : At(t, "rewrite")

NonePending == \A p \in Threads : ~Pending(p)

\* The board, if each record in a buffer were written at its place.
Placed ==
    \E at : /\ Lays(at, Content, expected, Settled)
            /\ \A p \in Threads : Pending(p) => HasPlace(p, at)

\* The file before the last REPLACE, or half way in one, had these lines.
BackedUp(b) == IF backup = 0 THEN b = <<>> ELSE file[backup] = b

\* A LOCAL command that the store has, or its agent will give it.
Remembered(kind, req, pos, before) ==
    \/ /\ kind = undo.kind /\ req = undo.req
       /\ pos = undo.pos /\ before = undo.before
    \/ \E t \in Threads :
           /\ Local(t) /\ cmd[t].step \in {"unlock", "tell"}
           /\ kind = cmd[t].op /\ req = cmd[t].req
           /\ pos = cmd[t].pos /\ before = cmd[t].before

\* What undo finds if that command is the latest.
Undoable(kind, pos, before) ==
    /\ kind = "WRITE" =>
           /\ orig # 0 /\ Stands(file[orig], pos) /\ Len(file[orig]) = Len(pos) + 1
           /\ \E id \in Int : expected = Append(before, Line(id, latest))
           /\ \A p \in Threads :
                 Pending(p) /\ cmd[p].fd = orig => Len(cmd[p].pos) <= Len(pos)
    /\ kind = "REPLACE" => NonePending /\ BackedUp(before)

BoardInv ==
    accidents = {} =>
        /\ orig # 0 => orig # backup
        /\ Rewriting => NonePending /\ BackedUp(expected)
        /\ ~Rewriting =>
               /\ orig = 0 => backup = 0
               /\ Placed
               /\ \A kind, req, pos, before :
                     Remembered(kind, req, pos, before) /\ req = latest =>
                         Undoable(kind, pos, before)

-----------------------------------------------------------------------------
(* Lines and files. *)

Board == Seq(LineType)

LEMMA LineIsLine ==
    ASSUME NEW id \in Int, NEW r \in Nat
    PROVE  /\ Line(id, r) \in LineType
           /\ Line(id, r).id = id /\ Line(id, r).text = r
BY DEF Line, LineType

LEMMA DebrisIsLine ==
    /\ Debris \in LineType /\ Debris.id = -1 /\ Debris.text = 0
    /\ <<Debris>> \in Board
BY DEF Debris, LineType, Board

LEMMA LinesOf ==
    ASSUME NEW b \in Board
    PROVE  /\ DOMAIN b = 1..Len(b) /\ Len(b) \in Nat
           /\ \A i \in DOMAIN b :
                 b[i] \in LineType /\ b[i].id \in Int /\ b[i].text \in Nat
<1>1. \A i \in DOMAIN b : b[i] \in LineType
  BY DEF Board
<1>2. \A x \in LineType : x.id \in Int /\ x.text \in Nat
  BY DEF LineType
<1> QED
  BY <1>1, <1>2 DEF Board

\* A board and what the operators of BoardLines make of it.
LEMMA AppendBoard ==
    ASSUME NEW b \in Board, NEW x \in LineType
    PROVE  /\ Append(b, x) \in Board /\ Len(Append(b, x)) = Len(b) + 1
           /\ DOMAIN Append(b, x) = 1..Len(b) + 1
           /\ \A i \in 1..Len(b) : Append(b, x)[i] = b[i]
           /\ Append(b, x)[Len(b) + 1] = x
BY AppendProperties DEF Board

LEMMA WriteAtBoard ==
    ASSUME NEW b \in Board, NEW pos \in Board, NEW x \in LineType
    PROVE  /\ WriteAt(b, pos, x) \in Board
           /\ \E k \in Nat : \A i \in DOMAIN WriteAt(b, pos, x) :
                 \/ i \in DOMAIN b /\ WriteAt(b, pos, x)[i] = b[i]
                 \/ WriteAt(b, pos, x)[i] = Debris
                 \/ i = k /\ WriteAt(b, pos, x)[i] = x
<1>1. CASE b = pos
  <2>1. WriteAt(b, pos, x) = Append(b, x)
    BY <1>1 DEF WriteAt
  <2>2. \A i \in DOMAIN Append(b, x) : \/ i \in DOMAIN b /\ Append(b, x)[i] = b[i]
                                       \/ i = Len(b) + 1 /\ Append(b, x)[i] = x
    BY AppendBoard, LinesOf
  <2> DEFINE w == Append(b, x)
  <2>3. w \in Board /\ WriteAt(b, pos, x) = w
    BY <2>1, AppendBoard
  <2>4. Len(b) + 1 \in Nat
    BY LinesOf
  <2>5. \A i \in DOMAIN w : \/ i \in DOMAIN b /\ w[i] = b[i]
                            \/ w[i] = Debris
                            \/ i = Len(b) + 1 /\ w[i] = x
    BY <2>2
  <2> HIDE DEF w
  <2> QED
    BY <2>3, <2>4, <2>5
<1>2. CASE b # pos
  <2>1. WriteAt(b, pos, x) = <<Debris>>
    BY <1>2 DEF WriteAt
  <2>2. \A i \in DOMAIN <<Debris>> : <<Debris>>[i] = Debris
    OBVIOUS
  <2>3. 0 \in Nat
    OBVIOUS
  <2> QED
    BY <2>1, <2>2, <2>3, DebrisIsLine
<1> QED
  BY <1>1, <1>2

\* The lines that stand are lines of the file.
LEMMA StandingLines ==
    ASSUME NEW b \in Board, NEW pos \in Board, Stands(b, pos)
    PROVE  /\ Len(pos) <= Len(b)
           /\ \A i \in 1..Len(pos) : i \in DOMAIN b /\ pos[i] = b[i]
<1>1. Len(pos) \in Nat /\ Len(b) \in Nat /\ Len(pos) <= Len(b)
  BY LinesOf DEF Stands
<1>2. \A i \in 1..Len(pos) : i \in DOMAIN b /\ b[i] \in LineType
  BY <1>1, LinesOf
<1>3. SubSeq(b, 1, Len(pos)) = pos
  BY DEF Stands
<1>4. \A i \in 1..Len(pos) : SubSeq(b, 1, Len(pos))[i] = b[i]
  BY <1>1, <1>2, SubSeqProperties
<1> QED
  BY <1>1, <1>2, <1>3, <1>4

\* A record at the end leaves what was there.
LEMMA StandsBefore ==
    ASSUME NEW b \in Board, NEW x \in LineType
    PROVE  Stands(Append(b, x), b)
<1> DEFINE d == Append(b, x)
<1>1. /\ Len(b) \in Nat /\ d \in Board /\ Len(d) = Len(b) + 1
      /\ \A i \in 1..Len(b) : d[i] = b[i]
  BY AppendBoard, LinesOf
<1> HIDE DEF d
<1>2. \A i \in 1..Len(b) : d[i] \in LineType
  BY <1>1, LinesOf
<1>3. /\ SubSeq(d, 1, Len(b)) \in Seq(LineType) /\ Len(SubSeq(d, 1, Len(b))) = Len(b)
      /\ \A i \in 1..Len(b) : SubSeq(d, 1, Len(b))[i] = d[i]
  BY <1>1, <1>2, SubSeqProperties
<1>4. SubSeq(d, 1, Len(b)) = b
  BY <1>1, <1>3, SeqEqual DEF Board
<1> QED
  BY <1>1, <1>4 DEF Stands, d

LEMMA TruncateBoard ==
    ASSUME NEW b \in Board, NEW pos \in Board
    PROVE  /\ Truncate(b, pos) \in Board
           /\ \A i \in DOMAIN Truncate(b, pos) :
                 \/ i \in DOMAIN b /\ Truncate(b, pos)[i] = b[i]
                 \/ Truncate(b, pos)[i] = Debris
<1>1. CASE Stands(b, pos)
  <2>1. Truncate(b, pos) = pos
    BY <1>1 DEF Truncate
  <2>2. DOMAIN pos = 1..Len(pos)
    BY LinesOf
  <2> QED
    BY <1>1, <2>1, <2>2, StandingLines
<1>2. CASE ~Stands(b, pos)
  <2>1. Truncate(b, pos) = <<Debris>>
    BY <1>2 DEF Truncate
  <2>2. \A i \in DOMAIN <<Debris>> : <<Debris>>[i] = Debris
    OBVIOUS
  <2> QED
    BY <2>1, <2>2, DebrisIsLine
<1> QED
  BY <1>1, <1>2

LEMMA ReplaceBoard ==
    ASSUME NEW b \in Board, NEW id \in Int, NEW r \in Nat
    PROVE  /\ ReplaceRecord(b, id, r) \in Board
           /\ DOMAIN ReplaceRecord(b, id, r) = DOMAIN b
           /\ Len(ReplaceRecord(b, id, r)) = Len(b)
           /\ \A i \in DOMAIN b :
                 /\ ReplaceRecord(b, id, r)[i].id = b[i].id
                 /\ ReplaceRecord(b, id, r)[i].text \in {b[i].text, r}
<1>1. \A i \in DOMAIN b :
         (IF b[i].id = id THEN Line(id, r) ELSE b[i]) \in LineType
  BY LineIsLine DEF Board
<1>2. ReplaceRecord(b, id, r) \in [1..Len(b) -> LineType]
  BY <1>1 DEF ReplaceRecord, Board
<1>3. ReplaceRecord(b, id, r) \in Board /\ Len(ReplaceRecord(b, id, r)) = Len(b)
  BY <1>2 DEF Board
<1> QED
  BY <1>3, <1>2, LineIsLine DEF ReplaceRecord, Board

\* A file system that gains a file, or one of whose files changes.
LEMMA NewFile ==
    ASSUME NEW fs \in Seq(Board), NEW b \in Board
    PROVE  /\ Append(fs, b) \in Seq(Board) /\ Len(Append(fs, b)) = Len(fs) + 1
           /\ DOMAIN Append(fs, b) = 1..Len(fs) + 1
           /\ \A n \in 1..Len(fs) : Append(fs, b)[n] = fs[n]
           /\ Append(fs, b)[Len(fs) + 1] = b
BY AppendProperties

LEMMA ChangedFile ==
    ASSUME NEW fs \in Seq(Board), NEW b \in Board, NEW m \in DOMAIN fs
    PROVE  /\ [fs EXCEPT ![m] = b] \in Seq(Board)
           /\ Len([fs EXCEPT ![m] = b]) = Len(fs)
           /\ DOMAIN [fs EXCEPT ![m] = b] = DOMAIN fs
           /\ \A n \in DOMAIN fs :
                 [fs EXCEPT ![m] = b][n] = IF n = m THEN b ELSE fs[n]
OBVIOUS

-----------------------------------------------------------------------------
(* The lock and the steps of the commands. *)

\* What a step of t at the lock does to it, and to the others.
LEMMA LockStep ==
    ASSUME PcOK, NEW t \in Threads,
           AquireRead(t) \/ AquireWrite(t) \/ Resume(t) \/ Release(t)
    PROVE  /\ PcOK'
           /\ AquireRead(t) => pc[t] = "out" /\ pc'[t] \in {"rAsleep", "reading"}
           /\ AquireWrite(t) => pc[t] = "out" /\ pc'[t] \in {"wAsleep", "writing"}
           /\ Resume(t) => \/ pc[t] = "rWoken" /\ pc'[t] = "reading"
                           \/ pc[t] = "wWoken" /\ pc'[t] = "writing"
           /\ Release(t) => pc[t] \in {"reading", "writing"} /\ pc'[t] = "out"
           /\ \A u \in Threads \ {t} : \/ pc'[u] = pc[u]
                                       \/ pc[u] = "rAsleep" /\ pc'[u] = "rWoken"
                                       \/ pc[u] = "wAsleep" /\ pc'[u] = "wWoken"
<1> DEFINE Others == \A u \in Threads \ {t} :
                       \/ pc'[u] = pc[u]
                       \/ pc[u] = "rAsleep" /\ pc'[u] = "rWoken"
                       \/ pc[u] = "wAsleep" /\ pc'[u] = "wWoken"
<1>1. ASSUME AquireRead(t)
      PROVE  PcOK' /\ pc[t] = "out" /\ pc'[t] \in {"rAsleep", "reading"} /\ Others
  BY <1>1 DEF AquireRead, GrantRead, MoveAndWakeReaders, PcOK, States
<1>2. ASSUME AquireWrite(t)
      PROVE  PcOK' /\ pc[t] = "out" /\ pc'[t] \in {"wAsleep", "writing"} /\ Others
  BY <1>2 DEF AquireWrite, GrantWrite, MoveAndWakeReaders, PcOK, States
<1>3. ASSUME Resume(t)
      PROVE  /\ PcOK' /\ Others
             /\ \/ pc[t] = "rWoken" /\ pc'[t] = "reading"
                \/ pc[t] = "wWoken" /\ pc'[t] = "writing"
  BY <1>3 DEF Resume, ResumeRead, ResumeWrite, GrantRead, GrantWrite,
     MoveAndWakeReaders, PcOK, States
<1>4. ASSUME Release(t)
      PROVE  PcOK' /\ Others /\ pc[t] \in {"reading", "writing"} /\ pc'[t] = "out"
  <2>1. /\ pc[t] \in {"reading", "writing"}
        /\ resumed' = [resumed EXCEPT ![t] = FALSE]
        /\ \/ pc' = [pc EXCEPT ![t] = "out"]
           \/ \E w \in Threads : \/ pc' = MoveAndSignal(t, w, "rAsleep", "rWoken")
                                 \/ pc' = MoveAndSignal(t, w, "wAsleep", "wWoken")
    BY <1>4 DEF Release, ReleaseRead, ReleaseWrite
  <2>2. PcOK' /\ pc'[t] = "out"
    BY <2>1 DEF MoveAndSignal, PcOK, States
  <2>3. Others
    BY <2>1 DEF MoveAndSignal, PcOK
  <2> QED
    BY <2>1, <2>2, <2>3
<1> QED
  BY <1>1, <1>2, <1>3, <1>4

\* The agents use the lock as module RWLock says.
LEMMA BoardStepIsLockStep == [BoardNext]_<<lockVars, boardVars>> => [Next]_vars
<1> SUFFICES ASSUME [BoardNext]_<<lockVars, boardVars>> PROVE [Next]_vars
  OBVIOUS
<1>1. CASE UNCHANGED <<lockVars, boardVars>>
  BY <1>1 DEF lockVars, vars
<1>2. ASSUME NEW t \in Threads, Command(t) PROVE [Next]_vars
  <2>1. \/ UNCHANGED lockVars
        \/ AquireRead(t) \/ AquireWrite(t) \/ Resume(t) \/ Release(t)
    BY <1>2 DEF Command, Begin, StoreNumber, OpenBoard, CreateBoard, Abort,
       Lock, Wake, Put, Rename, Rewrite, Look, UndoWrite, UndoReplace, Unlock,
       Tell, Close
  <2> QED
    BY <2>1 DEF lockVars, vars, Next
<1> QED
  BY <1>1, <1>2 DEF BoardNext

LEMMA BoardSpecLocks == BoardSpec => Spec
<1>1. BoardInit => Init
  BY DEF BoardInit
<1> QED
  BY <1>1, BoardStepIsLockStep, PTL DEF BoardSpec, Spec

LEMMA ShapeInit == BoardInit => ShapeInv
<1> SUFFICES ASSUME BoardInit PROVE ShapeInv
  OBVIOUS
<1>1. PcOK /\ \A t \in Threads : pc[t] = "out"
  BY DEF BoardInit, Init, PcOK, States
<1>2. /\ <<>> \in Seq(LineType) /\ <<>> \in Seq(Board)
      /\ <<<<Line(0, 0)>>>> \in Seq(Board) /\ Len(<<<<Line(0, 0)>>>>) = 1
      /\ Len(<<>>) = 0
  BY LineIsLine DEF Board
<1>3. /\ file \in Seq(Board) /\ number \in Nat
      /\ orig \in {0, 1} /\ orig \in 0..Len(file) /\ Len(file) \in Nat
  <2>1. CASE file = <<>> /\ orig = 0 /\ number = 0
    BY <1>2, <2>1
  <2>2. CASE file = <<<<Line(0, 0)>>>> /\ orig = 1 /\ number = 1
    BY <1>2, <2>2
  <2> QED
    BY <2>1, <2>2 DEF BoardInit
<1>4. expected \in Board
  BY <1>2, <1>3 DEF BoardInit, Content, Board
<1>5. cmd \in [Threads -> CmdType]
  BY <1>2, <1>3 DEF BoardInit, IdleCmd, CmdType, Board
<1>6. undo \in [kind : {"NONE", "WRITE", "REPLACE"}, pos : Board,
                req : Nat, before : Board]
  BY <1>2 DEF BoardInit, NothingToUndo, Board
<1>7. BoardTypeOK
  <2>1. commands \in 0..MaxCommands
    BY BoardFileAssumption DEF BoardInit
  <2>2. \A t \in Threads : cmd[t].op # "WRITE"
    BY DEF BoardInit, IdleCmd
  <2>3. {orig, backup} \subseteq 0..Len(file) /\ number \in Nat /\ latest \in Nat
    BY <1>3 DEF BoardInit
  <2>4. accidents \subseteq {"number"} /\ overlapped \in BOOLEAN
    BY DEF BoardInit
  <2> QED
    BY <1>3, <1>4, <1>5, <1>6, <2>1, <2>2, <2>3, <2>4 DEF BoardTypeOK, Board
<1>8. \A t \in Threads : StepOK(t) /\ LockOK(t)
  BY <1>1 DEF BoardInit, StepOK, LockOK, At, Active, Opened, IdleCmd
<1> QED
  BY <1>1, <1>7, <1>8 DEF ShapeInv, BoardInit, NothingToUndo

\* What t's command becomes; the others go on with theirs.
LEMMA OthersGoOn ==
    ASSUME ShapeInv, NEW t \in Threads, file' \in Seq(Board),
           Len(file') >= Len(file), NEW c, c \in CmdType',
           cmd' = [cmd EXCEPT ![t] = c]
    PROVE  /\ cmd' \in [Threads -> CmdType'] /\ cmd'[t] = c
           /\ \A u \in Threads \ {t} : cmd'[u] = cmd[u]
<1>0. Len(file) \in Nat /\ Len(file') \in Nat
  BY DEF ShapeInv, BoardTypeOK, Board
<1>1. \A x \in CmdType : x \in CmdType'
  BY <1>0 DEF CmdType
<1> QED
  BY <1>1 DEF ShapeInv, BoardTypeOK

\* The types of what t finds.
LEMMA Found ==
    ASSUME ShapeInv, NEW t \in Threads
    PROVE  /\ file \in Seq(Board) /\ Len(file) \in Nat /\ DOMAIN file = 1..Len(file)
           /\ orig \in 0..Len(file) /\ backup \in 0..Len(file)
           /\ expected \in Board /\ latest \in Nat /\ number \in Nat
           /\ Content \in Board
           /\ undo \in [kind : {"NONE", "WRITE", "REPLACE"}, pos : Board,
                         req : Nat, before : Board]
           /\ cmd \in [Threads -> CmdType] /\ cmd[t] \in CmdType
           /\ cmd[t].op \in Commands \cup {"NONE"} /\ cmd[t].req \in Nat
           /\ cmd[t].id \in Nat /\ cmd[t].fd \in 0..Len(file)
           /\ cmd[t].pos \in Board /\ cmd[t].before \in Board
           /\ cmd[t].fd # 0 => cmd[t].fd \in DOMAIN file /\ file[cmd[t].fd] \in Board
           /\ orig # 0 => orig \in DOMAIN file /\ file[orig] \in Board
           /\ backup # 0 => backup \in DOMAIN file /\ file[backup] \in Board
           /\ Record(t) \in LineType /\ Record(t).id = cmd[t].id
           /\ Record(t).text = cmd[t].req /\ <<>> \in Board
           /\ StepOK(t) /\ LockOK(t)
           /\ undo.kind \in Commands \cup {"NONE"}
           /\ commands \in 0..MaxCommands /\ overlapped \in BOOLEAN
           /\ accidents \subseteq {"number", "wiped", "renamed", "overlap",
                                  "undo", "exclusion"}
<1>1. /\ file \in Seq(Board) /\ orig \in 0..Len(file) /\ backup \in 0..Len(file)
      /\ expected \in Board /\ latest \in Nat /\ number \in Nat
      /\ undo \in [kind : {"NONE", "WRITE", "REPLACE"}, pos : Board,
                    req : Nat, before : Board]
      /\ cmd \in [Threads -> CmdType] /\ StepOK(t) /\ LockOK(t)
      /\ undo.kind \in Commands \cup {"NONE"}
      /\ commands \in 0..MaxCommands /\ overlapped \in BOOLEAN
      /\ accidents \subseteq {"number", "wiped", "renamed", "overlap",
                             "undo", "exclusion"}
  BY DEF ShapeInv, BoardTypeOK, Board
<1>2. Len(file) \in Nat /\ DOMAIN file = 1..Len(file)
  BY <1>1
<1>3. /\ cmd[t] \in CmdType /\ cmd[t].op \in Commands \cup {"NONE"}
      /\ cmd[t].req \in Nat /\ cmd[t].id \in Nat /\ cmd[t].fd \in 0..Len(file)
      /\ cmd[t].pos \in Board /\ cmd[t].before \in Board
  BY <1>1 DEF CmdType, Board
<1>4. \A n \in 1..Len(file) : file[n] \in Board
  BY <1>1, <1>2
<1>5. Content \in Board
  BY <1>1, <1>2, <1>4 DEF Content, Board
<1>6. Record(t) \in LineType /\ Record(t).id = cmd[t].id /\ Record(t).text = cmd[t].req
  BY <1>3, LineIsLine DEF Record
<1> QED
  BY <1>1, <1>2, <1>3, <1>4, <1>5, <1>6 DEF Board

\* What a command may become.
LEMMA NextCmd ==
    ASSUME ShapeInv, NEW t \in Threads, file' \in Seq(Board),
           Len(file') >= Len(file)
    PROVE  /\ cmd[t] \in CmdType' /\ IdleCmd \in CmdType'
           /\ \A c \in CmdType' :
                 \A s \in {"open", "create", "lock", "inside", "rewrite",
                          "unlock", "tell", "close"} :
                     /\ [c EXCEPT !.step = s] \in CmdType'
                     /\ \A n \in 0..Len(file') :
                           [c EXCEPT !.step = s, !.fd = n] \in CmdType'
<1>1. Len(file) \in Nat /\ Len(file') \in Nat /\ cmd[t] \in CmdType
  BY Found
<1>2. cmd[t] \in CmdType'
  BY <1>1 DEF CmdType
<1>3. IdleCmd \in CmdType'
  BY <1>1 DEF IdleCmd, CmdType
<1>4. ASSUME NEW c \in CmdType', NEW n \in 0..Len(file'),
             NEW s \in {"open", "create", "lock", "inside", "rewrite",
                       "unlock", "tell", "close"}
      PROVE  /\ [c EXCEPT !.step = s] \in CmdType'
             /\ [c EXCEPT !.step = s, !.fd = n] \in CmdType'
  <2>1. [c EXCEPT !.step = s] \in CmdType'
    BY DEF CmdType
  <2>2. ASSUME NEW e \in CmdType' PROVE [e EXCEPT !.fd = n] \in CmdType'
    BY DEF CmdType
  <2> QED
    BY <2>1, <2>2
<1>5. 0 \in 0..Len(file')
  BY <1>1
<1> QED
  BY <1>2, <1>3, <1>4, <1>5

\* What a command keeps in its steps.
LEMMA KeepsStep ==
    ASSUME NEW c \in CmdType, NEW s, NEW d, d = [c EXCEPT !.step = s]
    PROVE  /\ d.step = s /\ d.op = c.op /\ d.kind = c.kind /\ d.req = c.req
           /\ d.id = c.id /\ d.fd = c.fd /\ d.pos = c.pos /\ d.before = c.before
BY DEF CmdType

\* A step of t that leaves the lock alone.
LEMMA ShapeKeeps ==
    ASSUME ShapeInv, NEW t \in Threads, UNCHANGED lockVars,
           \A u \in Threads \ {t} : cmd'[u] = cmd[u],
           StepOK(t)', LockOK(t)'
    PROVE  PcOK' /\ \A u \in Threads : StepOK(u)' /\ LockOK(u)'
<1>1. PcOK' /\ pc' = pc
  BY DEF lockVars, PcOK, ShapeInv
<1>2. ASSUME NEW u \in Threads \ {t} PROVE StepOK(u)' /\ LockOK(u)'
  BY <1>1, <1>2 DEF StepOK, LockOK, ShapeInv, At, Active, Opened, Local,
     Waiting, Holding
<1> QED
  BY <1>1, <1>2

\* What is left to show of a step of t that leaves the lock alone.
LEMMA ShapeStep ==
    ASSUME ShapeInv, NEW t \in Threads, UNCHANGED lockVars,
           file' \in Seq(Board), Len(file') >= Len(file),
           orig' \in 0..Len(file'), backup' \in 0..Len(file'),
           expected' \in Board, latest' \in Nat, number' \in Nat,
           undo' \in [kind : {"NONE", "WRITE", "REPLACE"}, pos : Board,
                      req : Nat, before : Board],
           undo'.kind \in Commands \cup {"NONE"},
           accidents' \subseteq {"number", "wiped", "renamed", "overlap", "undo",
                                 "exclusion"},
           commands' \in 0..MaxCommands, overlapped' \in BOOLEAN,
           NEW c, c \in CmdType', cmd' = [cmd EXCEPT ![t] = c],
           cmd'[t] = c => StepOK(t)' /\ LockOK(t)'
    PROVE  /\ ShapeInv' /\ cmd'[t] = c
           /\ \A u \in Threads \ {t} : cmd'[u] = cmd[u]
<1>1. cmd' \in [Threads -> CmdType'] /\ cmd'[t] = c
      /\ \A u \in Threads \ {t} : cmd'[u] = cmd[u]
  BY OthersGoOn
<1>2. PcOK' /\ \A u \in Threads : StepOK(u)' /\ LockOK(u)'
  BY <1>1, ShapeKeeps
<1>3. BoardTypeOK'
  BY <1>1, <1>2 DEF BoardTypeOK, StepOK, Opened, Board
<1> QED
  BY <1>1, <1>2, <1>3 DEF ShapeInv

LEMMA ShapeBegin ==
    ASSUME ShapeInv, NEW t \in Threads, NEW op \in Commands,
           NEW id \in 0..MaxCommands, Begin(t, op, id)
    PROVE  ShapeInv'
<1> DEFINE c == [IdleCmd EXCEPT !.op = op, !.req = commands + 1, !.id = id,
                    !.step = IF op = "WRITE" THEN "number" ELSE "lock",
                    !.kind = IF op = "UNDO" THEN undo.kind ELSE op]
<1>1. commands + 1 \in 0..MaxCommands /\ MaxCommands \in Nat
  BY BoardFileAssumption DEF ShapeInv, BoardTypeOK, Begin
<1>2. c \in CmdType'
  <2>1. undo.kind \in Commands \cup {"NONE"} /\ file' = file /\ Len(file) \in Nat
    BY DEF ShapeInv, BoardTypeOK, Begin, fileVars, Board
  <2> DEFINE k == IF op = "UNDO" THEN undo.kind ELSE op
             s == IF op = "WRITE" THEN "number" ELSE "lock"
  <2>2. k \in Commands \cup {"NONE"} /\ s \in {"number", "lock"}
    BY <2>1
  <2>3. IdleCmd \in CmdType' /\ id \in Nat
    BY <1>1, <2>1 DEF CmdType, IdleCmd
  <2> HIDE DEF k, s
  <2>4. ASSUME NEW i \in CmdType'
        PROVE  [i EXCEPT !.op = op, !.req = commands + 1, !.id = id,
                         !.step = s, !.kind = k] \in CmdType'
    <3>1. commands + 1 \in Nat /\ op \in Commands \cup {"NONE"}
      BY <1>1
    <3> QED
      BY <2>2, <2>3, <3>1, Zenon DEF CmdType
  <2> QED
    BY <2>3, <2>4 DEF k, s
<1>3. cmd' = [cmd EXCEPT ![t] = c] /\ At(t, "idle")
  BY DEF Begin
<1>4. UNCHANGED <<lockVars, number, fileVars, undo, ghosts>> /\ commands' = commands + 1
      /\ overlapped' \in BOOLEAN
  BY DEF Begin, ShapeInv, BoardTypeOK
<1>5. cmd'[t] = c => StepOK(t)' /\ LockOK(t)'
  <2>1. op = "UNDO" => undo.kind \in {"WRITE", "REPLACE"}
    BY DEF Begin, ShapeInv, BoardTypeOK
  <2>2. pc'[t] = "out"
    BY <1>3, <1>4 DEF lockVars, ShapeInv, LockOK, At
  <2> QED
    BY <2>1, <2>2, BoardFileAssumption
       DEF StepOK, LockOK, At, Active, Opened, IdleCmd
<1> HIDE DEF c
<1>6. /\ UNCHANGED <<file, orig, backup, expected, latest, accidents>>
      /\ Len(file') >= Len(file)
  BY <1>4, Found DEF fileVars, ghosts
<1> QED
  BY <1>1, <1>2, <1>3, <1>4, <1>5, <1>6, Found, ShapeStep

LEMMA ShapeBefore ==
    ASSUME ShapeInv, NEW t \in Threads,
           StoreNumber(t) \/ OpenBoard(t) \/ CreateBoard(t) \/ Abort(t)
    PROVE  ShapeInv'
<1>0. /\ UNCHANGED <<lockVars, backup, undo, commands, expected, latest, overlapped>>
      /\ cmd[t].step \in {"number", "open", "create", "lock"}
  BY DEF StoreNumber, OpenBoard, CreateBoard, Abort, fileVars, ghosts, At
<1>a. pc'[t] = "out"
  BY <1>0, Found DEF LockOK, At, lockVars
<1>b. cmd[t].step # "lock" => cmd[t].op = "WRITE"
  BY <1>0, Found DEF StepOK, At
<1>1. CASE StoreNumber(t)
  <2> DEFINE c == [cmd[t] EXCEPT !.step = "open"]
  <2>1. /\ cmd' = [cmd EXCEPT ![t] = c] /\ At(t, "number")
        /\ UNCHANGED <<file, orig>> /\ number' \in Nat
        /\ accidents' \subseteq accidents \cup {"number"}
    BY <1>1, Found DEF StoreNumber, Goes, fileVars, Accident
  <2>0. file' \in Seq(Board) /\ Len(file') >= Len(file)
    BY <2>1, Found
  <2>2. c \in CmdType'
    BY <2>0, NextCmd
  <2>3. cmd'[t] = c => StepOK(t)' /\ LockOK(t)'
    BY <1>a, <1>b, <2>1, <2>2, Found DEF CmdType, StepOK, LockOK, At, Active, Opened
  <2> HIDE DEF c
  <2> QED
    BY <1>0, <2>0, <2>1, <2>2, <2>3, Found, ShapeStep
<1>2. CASE OpenBoard(t)
  <2> DEFINE s == IF orig = 0 THEN "create" ELSE "lock"
             c == [cmd[t] EXCEPT !.step = s, !.fd = orig]
  <2>1. /\ cmd' = [cmd EXCEPT ![t] = c] /\ At(t, "open")
        /\ UNCHANGED <<file, orig, number, accidents>>
    BY <1>2, Found DEF OpenBoard, fileVars, ghosts
  <2>0. file' \in Seq(Board) /\ Len(file') >= Len(file) /\ orig \in 0..Len(file')
    BY <2>1, Found
  <2>2. c \in CmdType'
    BY <2>0, NextCmd
  <2>3. cmd'[t] = c => StepOK(t)' /\ LockOK(t)'
    BY <1>a, <1>b, <2>1, <2>2, Found DEF CmdType, StepOK, LockOK, At, Active, Opened
  <2> HIDE DEF c
  <2> QED
    BY <1>0, <2>0, <2>1, <2>2, <2>3, Found, ShapeStep
<1>3. CASE CreateBoard(t)
  <2>1. /\ file' \in Seq(Board) /\ Len(file') >= Len(file)
        /\ orig' \in 0..Len(file') /\ orig' # 0 /\ backup \in 0..Len(file')
    <3>1. CASE orig = 0
      <4>1. file' = Append(file, <<>>) /\ orig' = Len(file')
        BY <1>3, <3>1 DEF CreateBoard
      <4> QED
        BY <4>1, Found, NewFile
    <3>2. CASE orig # 0
      <4>1. file' = [file EXCEPT ![orig] = <<>>] /\ orig' = orig
        BY <1>3, <3>2 DEF CreateBoard
      <4> QED
        BY <3>2, <4>1, Found, ChangedFile
    <3> QED
      BY <3>1, <3>2
  <2> DEFINE c == [cmd[t] EXCEPT !.step = "lock", !.fd = orig']
  <2>2. /\ cmd' = [cmd EXCEPT ![t] = c] /\ At(t, "create")
        /\ UNCHANGED <<number>> /\ accidents' \subseteq accidents \cup {"wiped"}
    BY <1>3, Found DEF CreateBoard, Accident
  <2>3. c \in CmdType'
    BY <2>1, NextCmd
  <2>4. cmd'[t] = c => StepOK(t)' /\ LockOK(t)'
    BY <1>a, <1>b, <2>1, <2>2, <2>3, Found DEF CmdType, StepOK, LockOK, At, Active, Opened
  <2> HIDE DEF c
  <2> QED
    BY <1>0, <2>1, <2>2, <2>3, <2>4, Found, ShapeStep
<1>4. CASE Abort(t)
  <2>1. /\ cmd' = [cmd EXCEPT ![t] = IdleCmd]
        /\ UNCHANGED <<file, orig, number, accidents>>
    BY <1>4, Found DEF Abort, fileVars, ghosts
  <2>0. file' \in Seq(Board) /\ Len(file') >= Len(file)
    BY <2>1, Found
  <2>2. IdleCmd \in CmdType'
    BY <2>0, NextCmd
  <2>3. cmd'[t] = IdleCmd => StepOK(t)' /\ LockOK(t)'
    BY <1>a DEF IdleCmd, StepOK, LockOK, At, Active, Opened
  <2> QED
    BY <1>0, <2>0, <2>1, <2>2, <2>3, Found, ShapeStep
<1> QED
  BY <1>1, <1>2, <1>3, <1>4

LEMMA ShapeInside ==
    ASSUME ShapeInv, NEW t \in Threads,
           \/ Put(t) \/ Rename(t) \/ Rewrite(t) \/ Look(t)
           \/ UndoWrite(t) \/ UndoReplace(t)
    PROVE  ShapeInv'
<1>0. /\ UNCHANGED <<lockVars, number, commands, overlapped>>
      /\ cmd[t].step \in {"inside", "rewrite"}
  BY DEF Put, Rename, Rewrite, Look, UndoWrite, UndoReplace, fileVars, Holds, At
<1>a. /\ At(t, "rewrite") => pc'[t] = Holding(t)
      /\ At(t, "inside") => pc'[t] \in Waiting(t) \cap {"reading", "writing"}
  BY <1>0, Found DEF LockOK, At, lockVars, Put, Rename, Rewrite, Look, UndoWrite,
     UndoReplace, Holds
<1>b. pc'[t] = Holding(t) /\ (At(t, "rewrite") => cmd[t].op = "REPLACE")
  BY <1>0, <1>a, Found DEF StepOK, At, Waiting, Holding
\* No step keeps more than the file and the command from being well formed.
<1> DEFINE Left(c) == /\ cmd[t].step = "inside" \/ cmd[t].op = "REPLACE"
                      /\ c.op = cmd[t].op /\ c.kind = cmd[t].kind /\ c.fd = cmd[t].fd
                      /\ c.step = "unlock" \/ (c.step = "rewrite" /\ c.op = "REPLACE")
<1>c. ASSUME NEW c, Left(c), cmd'[t] = c PROVE StepOK(t)' /\ LockOK(t)'
  BY <1>0, <1>b, <1>c, Found DEF StepOK, LockOK, At, Active, Opened, Holding
<1>d. accidents \cup {"exclusion", "renamed", "overlap", "undo"} \subseteq
          {"number", "wiped", "renamed", "overlap", "undo", "exclusion"}
  BY Found
<1>1. CASE Put(t)
  <2>0. /\ Holds(t, "WRITE") /\ UNCHANGED <<orig, backup, undo>>
        /\ expected' = Append(expected, Record(t)) /\ latest' = cmd[t].req
        /\ accidents' \subseteq accidents \cup {"exclusion", "renamed", "overlap"}
    BY <1>1 DEF Put, Effect, Accident, Broken, Stray
  <2>1. cmd[t].fd # 0
    BY <2>0, Found DEF Holds, StepOK, Opened, At
  <2>2. file' \in Seq(Board) /\ Len(file') = Len(file)
    <3>1. CASE Local(t)
      <4>1. file' = [file EXCEPT ![cmd[t].fd] = Append(@, Record(t))]
        BY <1>1, <3>1 DEF Put
      <4> QED
        BY <2>1, <4>1, Found, AppendBoard, ChangedFile
    <3>2. CASE ~Local(t)
      BY <1>1, <3>2, Found DEF Put
    <3> QED
      BY <3>1, <3>2
  <2> DEFINE end == file[cmd[t].fd]
             c == [cmd[t] EXCEPT !.step = "unlock", !.pos = end, !.before = expected]
  <2>3. cmd' = [cmd EXCEPT ![t] = c]
    BY <1>1 DEF Put
  <2>4. c \in CmdType'
    <3>0. Len(file') >= Len(file)
      BY <2>2, Found
    <3>2. file[cmd[t].fd] \in Board
      BY <2>1, Found
    <3>3. cmd[t] \in CmdType'
      BY <2>2, <3>0, NextCmd
    <3>1. end \in Seq(LineType) /\ expected \in Seq(LineType) /\ cmd[t] \in CmdType'
      BY <3>2, <3>3, Found DEF Board
    <3> HIDE DEF end
    <3> QED
      BY <3>1 DEF CmdType
  <2>5. Left(c)
    <3>0. c = [cmd[t] EXCEPT !.step = "unlock", !.pos = end, !.before = expected]
      OBVIOUS
    <3> HIDE DEF c
    <3>1. cmd[t] \in CmdType
      BY Found
    <3>2. /\ c.step = "unlock" /\ c.op = cmd[t].op /\ c.kind = cmd[t].kind
          /\ c.fd = cmd[t].fd
      BY <3>0, <3>1 DEF CmdType
    <3> QED
      BY <2>0, <3>2 DEF Holds, At
  <2>6. expected' \in Board
    BY <2>0, Found, AppendBoard
  <2>7. orig' \in 0..Len(file') /\ backup' \in 0..Len(file') /\ Len(file') >= Len(file)
    BY <2>0, <2>2, Found
  <2> HIDE DEF c, Left
  <2> QED
    BY <1>0, <1>c, <1>d, <2>0, <2>2, <2>3, <2>4, <2>5, <2>6, <2>7, Found, ShapeStep
<1>2. CASE Rename(t)
  <2> DEFINE c == [cmd[t] EXCEPT !.step = "rewrite"]
  <2>0. /\ Holds(t, "REPLACE") /\ UNCHANGED <<file, undo, expected, latest>>
        /\ orig' = 0 /\ backup' \in {orig, backup}
        /\ accidents' \subseteq accidents \cup {"exclusion", "renamed"}
        /\ cmd' = [cmd EXCEPT ![t] = c]
    BY <1>2 DEF Rename, Accident, Broken, Goes
  <2>7. /\ orig' \in 0..Len(file') /\ backup' \in 0..Len(file')
        /\ Len(file') >= Len(file) /\ file' \in Seq(Board)
    BY <2>0, Found
  <2>4. c \in CmdType'
    BY <2>7, NextCmd
  <2>5. Left(c)
    <3>0. c = [cmd[t] EXCEPT !.step = "rewrite"]
      OBVIOUS
    <3> HIDE DEF c
    <3>1. cmd[t] \in CmdType
      BY Found
    <3>2. /\ c.step = "rewrite" /\ c.op = cmd[t].op /\ c.kind = cmd[t].kind
          /\ c.fd = cmd[t].fd
      BY <3>0, <3>1, KeepsStep
    <3> QED
      BY <2>0, <3>2 DEF Holds, At
  <2> HIDE DEF c, Left
  <2> QED
    BY <1>0, <1>c, <1>d, <2>0, <2>4, <2>5, <2>7, Found, ShapeStep
<1>3. CASE Rewrite(t)
  <2> DEFINE source == IF backup = 0 THEN <<>> ELSE file[backup]
             copy   == ReplaceRecord(source, cmd[t].id, cmd[t].req)
             c == [cmd[t] EXCEPT !.step = "unlock", !.before = expected]
  <2>0. /\ At(t, "rewrite") /\ UNCHANGED <<backup, undo>>
        /\ latest' = cmd[t].req
        /\ expected' = ReplaceRecord(expected, cmd[t].id, cmd[t].req)
        /\ accidents' \subseteq accidents \cup {"exclusion"}
        /\ cmd' = [cmd EXCEPT ![t] = c]
    BY <1>3 DEF Rewrite, Accident, Broken, Effect
  <2>1. copy \in Board
    BY Found, ReplaceBoard
  <2> HIDE DEF copy
  <2>2. /\ file' \in Seq(Board) /\ Len(file') >= Len(file)
        /\ orig' \in 0..Len(file') /\ Len(file') \in Nat
    <3>1. CASE orig = 0
      <4>1. file' = Append(file, copy) /\ orig' = Len(file')
        BY <1>3, <3>1 DEF Rewrite, copy
      <4> QED
        BY <2>1, <4>1, Found, NewFile
    <3>2. CASE orig # 0
      <4>1. file' = [file EXCEPT ![orig] = copy] /\ orig' = orig
        BY <1>3, <3>2 DEF Rewrite, copy
      <4> QED
        BY <2>1, <3>2, <4>1, Found, ChangedFile
    <3> QED
      BY <3>1, <3>2
  <2>3. c \in CmdType'
    <3>1. expected \in Seq(LineType) /\ cmd[t] \in CmdType'
      BY <2>2, Found, NextCmd DEF Board
    <3> QED
      BY <3>1 DEF CmdType
  <2>5. Left(c)
    <3>0. c = [cmd[t] EXCEPT !.step = "unlock", !.before = expected]
      OBVIOUS
    <3> HIDE DEF c
    <3>1. cmd[t] \in CmdType
      BY Found
    <3>2. /\ c.step = "unlock" /\ c.op = cmd[t].op /\ c.kind = cmd[t].kind
          /\ c.fd = cmd[t].fd
      BY <3>0, <3>1 DEF CmdType
    <3> QED
      BY <1>b, <2>0, <3>2 DEF At
  <2>6. expected' \in Board
    <3>1. expected \in Board /\ cmd[t].id \in Int /\ cmd[t].req \in Nat
      BY Found
    <3> QED
      BY <2>0, <3>1, ReplaceBoard
  <2>7. backup' \in 0..Len(file')
    BY <2>0, <2>2, Found
  <2> HIDE DEF c, Left
  <2> QED
    BY <1>0, <1>c, <1>d, <2>0, <2>2, <2>3, <2>5, <2>6, <2>7, Found, ShapeStep
<1>4. CASE Look(t)
  <2>f. PICK f \in BOOLEAN :
           cmd' = [cmd EXCEPT ![t] = [cmd[t] EXCEPT !.step = "unlock", !.found = f]]
    BY <1>4 DEF Look
  <2> DEFINE c == [cmd[t] EXCEPT !.step = "unlock", !.found = f]
  <2>0. /\ Holds(t, "READ") /\ UNCHANGED <<file, orig, backup, undo, expected, latest>>
        /\ accidents' \subseteq accidents \cup {"exclusion"}
        /\ cmd' = [cmd EXCEPT ![t] = c]
    BY <1>4, <2>f DEF Look, Accident, Broken, fileVars
  <2>7. /\ orig' \in 0..Len(file') /\ backup' \in 0..Len(file')
        /\ Len(file') >= Len(file) /\ file' \in Seq(Board)
    BY <2>0, Found
  <2>4. c \in CmdType'
    <3>1. cmd[t] \in CmdType'
      BY <2>7, NextCmd
    <3> QED
      BY <2>f, <3>1 DEF CmdType
  <2>5. Left(c)
    <3>0. c = [cmd[t] EXCEPT !.step = "unlock", !.found = f]
      OBVIOUS
    <3> HIDE DEF c
    <3>1. cmd[t] \in CmdType
      BY Found
    <3>2. /\ c.step = "unlock" /\ c.op = cmd[t].op /\ c.kind = cmd[t].kind
          /\ c.fd = cmd[t].fd
      BY <3>0, <3>1 DEF CmdType
    <3> QED
      BY <2>0, <3>2 DEF Holds, At
  <2> HIDE DEF c, Left
  <2> QED
    BY <1>0, <1>c, <1>d, <2>0, <2>4, <2>5, <2>7, Found, ShapeStep
<1>5. CASE UndoWrite(t) \/ UndoReplace(t)
  <2> DEFINE c == [cmd[t] EXCEPT !.step = "unlock"]
  <2>0. /\ Holds(t, "UNDO") /\ cmd' = [cmd EXCEPT ![t] = c]
        /\ latest' \in {latest, cmd[t].req} /\ expected' \in {expected, undo.before}
        /\ undo' \in {undo, [undo EXCEPT !.kind = "NONE"]}
        /\ accidents' \subseteq accidents \cup {"exclusion", "undo"}
    BY <1>5 DEF UndoWrite, UndoReplace, Accident, Broken, Outdated, Cleared,
       Effect, Goes
  <2>1. file' \in Seq(Board) /\ Len(file') = Len(file)
    <3>1. CASE file' = file
      BY <3>1, Found
    <3>2. CASE file' # file
      <4>1. orig # 0 /\ file' = [file EXCEPT ![orig] = Truncate(@, undo.pos)]
        BY <1>5, <3>2 DEF UndoWrite, UndoReplace
      <4> QED
        BY <4>1, Found, TruncateBoard, ChangedFile
    <3> QED
      BY <3>1, <3>2
  <2>7. /\ orig' \in 0..Len(file') /\ backup' \in 0..Len(file')
        /\ Len(file') >= Len(file)
    BY <1>5, <2>1, Found DEF UndoWrite, UndoReplace
  <2>4. c \in CmdType'
    BY <2>1, <2>7, NextCmd
  <2>5. Left(c)
    <3>0. c = [cmd[t] EXCEPT !.step = "unlock"]
      OBVIOUS
    <3> HIDE DEF c
    <3>1. cmd[t] \in CmdType
      BY Found
    <3>2. /\ c.step = "unlock" /\ c.op = cmd[t].op /\ c.kind = cmd[t].kind
          /\ c.fd = cmd[t].fd
      BY <3>0, <3>1, KeepsStep
    <3> QED
      BY <2>0, <3>2 DEF Holds, At
  <2>6. /\ undo' \in [kind : {"NONE", "WRITE", "REPLACE"}, pos : Board,
                      req : Nat, before : Board]
        /\ undo'.kind \in Commands \cup {"NONE"}
        /\ expected' \in Board /\ latest' \in Nat
    BY <2>0, Found
  <2> HIDE DEF c, Left
  <2> QED
    BY <1>0, <1>c, <1>d, <2>0, <2>1, <2>4, <2>5, <2>6, <2>7, Found, ShapeStep
<1> QED
  BY <1>1, <1>2, <1>3, <1>4, <1>5

LEMMA ShapeLock ==
    ASSUME ShapeInv, NEW t \in Threads, Lock(t) \/ Wake(t) \/ Unlock(t)
    PROVE  ShapeInv'
<1>0. /\ UNCHANGED <<number, fileVars, undo, commands, ghosts, overlapped>>
      /\ AquireRead(t) \/ AquireWrite(t) \/ Resume(t) \/ Release(t)
      /\ file' \in Seq(Board) /\ Len(file') >= Len(file)
      /\ PcOK
  BY Found DEF Lock, Wake, Unlock, boardVars, fileVars, ghosts, ShapeInv
<1>1. /\ PcOK'
      /\ \A u \in Threads \ {t} : \/ pc'[u] = pc[u]
                                  \/ pc[u] = "rAsleep" /\ pc'[u] = "rWoken"
                                  \/ pc[u] = "wAsleep" /\ pc'[u] = "wWoken"
  BY <1>0, LockStep
<1>2. ASSUME cmd' \in [Threads -> CmdType'], StepOK(t)', LockOK(t)',
             \A u \in Threads \ {t} : cmd'[u] = cmd[u]
      PROVE  ShapeInv'
  <2>1. ASSUME NEW u \in Threads \ {t} PROVE StepOK(u)' /\ LockOK(u)'
    <3>1. cmd'[u] = cmd[u] /\ StepOK(u) /\ LockOK(u)
      BY <1>2, Found
    <3>2. StepOK(u)'
      BY <3>1 DEF StepOK, At, Active, Opened, Local
    <3>3. \/ pc'[u] = pc[u]
          \/ pc[u] = "rAsleep" /\ pc'[u] = "rWoken"
          \/ pc[u] = "wAsleep" /\ pc'[u] = "wWoken"
      BY <1>1
    <3>4. LockOK(u)'
      BY <3>1, <3>3 DEF LockOK, At, Waiting, Holding
    <3> QED
      BY <3>2, <3>4
  <2>2. BoardTypeOK'
    BY <1>0, <1>2, <2>1 DEF BoardTypeOK, ShapeInv, StepOK, Opened, fileVars, ghosts
  <2> QED
    BY <1>0, <1>1, <1>2, <2>1, <2>2 DEF ShapeInv
<1>3. CASE Lock(t)
  <2> DEFINE c == [cmd[t] EXCEPT !.step = "inside"]
  <2>1. cmd' = [cmd EXCEPT ![t] = c] /\ At(t, "lock") /\ cmd[t] \in CmdType
    BY <1>3, Found DEF Lock, Goes
  <2>2. c \in CmdType' /\ c.step = "inside" /\ c.op = cmd[t].op
        /\ c.kind = cmd[t].kind /\ c.fd = cmd[t].fd
    <3>1. c \in CmdType'
      BY <1>0, NextCmd
    <3> QED
      BY <2>1, <3>1, KeepsStep
  <2> HIDE DEF c
  <2>3. cmd' \in [Threads -> CmdType'] /\ cmd'[t] = c
        /\ \A u \in Threads \ {t} : cmd'[u] = cmd[u]
    BY <1>0, <2>1, <2>2, OthersGoOn
  <2>4. StepOK(t)'
    BY <2>1, <2>2, <2>3, Found DEF StepOK, At, Active, Opened
  <2>5. LockOK(t)'
    <3>1. pc'[t] \in IF cmd[t].op = "READ" THEN {"rAsleep", "reading"}
                     ELSE {"wAsleep", "writing"}
      BY <1>0, <1>3, LockStep DEF Lock
    <3> QED
      BY <2>2, <2>3, <3>1 DEF LockOK, At, Waiting, Holding
  <2> QED
    BY <1>2, <2>3, <2>4, <2>5
<1>4. CASE Wake(t)
  <2>1. UNCHANGED cmd /\ Resume(t)
    BY <1>4 DEF Wake, boardVars
  <2>2. \/ pc[t] = "rWoken" /\ pc'[t] = "reading"
        \/ pc[t] = "wWoken" /\ pc'[t] = "writing"
    BY <1>0, <2>1, LockStep
  <2>3. StepOK(t)' /\ LockOK(t)'
    BY <2>1, <2>2, Found DEF StepOK, LockOK, At, Active, Opened, Waiting, Holding
  <2>4. cmd' \in [Threads -> CmdType']
    BY <1>0, <2>1, Found DEF CmdType, fileVars
  <2> QED
    BY <1>2, <2>1, <2>3, <2>4
<1>5. CASE Unlock(t)
  <2> DEFINE c == IF cmd[t].op \in {"WRITE", "REPLACE"}
                  THEN [cmd[t] EXCEPT !.step = "tell"] ELSE IdleCmd
  <2>1. cmd' = [cmd EXCEPT ![t] = c] /\ At(t, "unlock") /\ cmd[t] \in CmdType
    BY <1>5, Found DEF Unlock
  <2>2. c \in CmdType'
    BY <1>0, NextCmd
  <2>3. \/ c = IdleCmd
        \/ /\ c.step = "tell" /\ c.op = cmd[t].op /\ c.op \in {"WRITE", "REPLACE"}
           /\ c.kind = cmd[t].kind /\ c.fd = cmd[t].fd
    BY <2>1, KeepsStep
  <2> HIDE DEF c
  <2>4. cmd' \in [Threads -> CmdType'] /\ cmd'[t] = c
        /\ \A u \in Threads \ {t} : cmd'[u] = cmd[u]
    BY <1>0, <2>1, <2>2, OthersGoOn
  <2>5. StepOK(t)'
    BY <2>1, <2>3, <2>4, Found DEF StepOK, At, Active, Opened, IdleCmd
  <2>6. pc'[t] = "out"
    BY <1>0, <1>5, LockStep DEF Unlock
  <2>7. LockOK(t)'
    BY <2>3, <2>4, <2>6 DEF LockOK, At, IdleCmd
  <2> QED
    BY <1>2, <2>4, <2>5, <2>7
<1> QED
  BY <1>3, <1>4, <1>5

LEMMA ShapeAfter ==
    ASSUME ShapeInv, NEW t \in Threads, Tell(t) \/ Close(t)
    PROVE  ShapeInv'
<1>0. /\ UNCHANGED <<lockVars, number, orig, backup, commands, expected, latest, overlapped>>
      /\ cmd[t].step \in {"tell", "close"}
  BY DEF Tell, Close, fileVars, ghosts, At
<1>a. pc'[t] = "out"
  BY <1>0, Found DEF LockOK, At, lockVars
<1>1. CASE Tell(t)
  <2> DEFINE c == IF Pending(t) THEN [cmd[t] EXCEPT !.step = "close"] ELSE IdleCmd
  <2>0. /\ cmd' = [cmd EXCEPT ![t] = c] /\ At(t, "tell")
        /\ UNCHANGED <<file, accidents>> /\ cmd[t] \in CmdType
        /\ cmd[t].op \in {"WRITE", "REPLACE"}
    BY <1>1, Found DEF Tell, AfterTell, fileVars, ghosts, StepOK
  <2>1. /\ file' \in Seq(Board) /\ Len(file') >= Len(file)
        /\ orig' \in 0..Len(file') /\ backup' \in 0..Len(file')
    BY <1>0, <2>0, Found
  <2>2. c \in CmdType'
    BY <2>1, NextCmd
  <2>3. \/ c = IdleCmd
        \/ /\ Pending(t) /\ c.step = "close" /\ c.op = cmd[t].op
           /\ c.kind = cmd[t].kind /\ c.fd = cmd[t].fd
    BY <2>0, KeepsStep
  <2> HIDE DEF c
  <2>4. cmd'[t] = c => StepOK(t)' /\ LockOK(t)'
    <3>1. CASE c = IdleCmd
      BY <1>a, <3>1 DEF IdleCmd, StepOK, LockOK, At, Active, Opened
    <3>2. CASE c # IdleCmd
      <4>1. StepOK(t) /\ cmd[t].op = "WRITE" /\ ~Local(t)
        BY <2>3, <3>2, Found DEF Pending
      <4> QED
        BY <1>a, <2>0, <2>3, <3>2, <4>1 DEF StepOK, LockOK, At, Active, Opened, Local
    <3> QED
      BY <3>1, <3>2
  <2>5. /\ undo' \in [kind : {"NONE", "WRITE", "REPLACE"}, pos : Board,
                      req : Nat, before : Board]
        /\ undo'.kind \in Commands \cup {"NONE"}
    <3>1. CASE Local(t)
      BY <1>1, <2>0, <3>1, Found DEF Tell
    <3>2. CASE ~Local(t)
      BY <1>1, <3>2, Found DEF Tell, Cleared
    <3> QED
      BY <3>1, <3>2
  <2> QED
    BY <1>0, <2>0, <2>1, <2>2, <2>4, <2>5, Found, ShapeStep
<1>2. CASE Close(t)
  <2>0. /\ cmd' = [cmd EXCEPT ![t] = IdleCmd] /\ At(t, "close")
        /\ UNCHANGED undo
        /\ accidents' \subseteq accidents \cup {"renamed", "overlap"}
    BY <1>2 DEF Close, Accident, Stray
  <2>1. cmd[t].fd # 0
    BY <2>0, Found DEF StepOK, Opened, At
  <2>2. /\ file' \in Seq(Board) /\ Len(file') = Len(file)
    <3>1. file' = [file EXCEPT ![cmd[t].fd] = WriteAt(@, cmd[t].pos, Record(t))]
      BY <1>2 DEF Close
    <3>2. WriteAt(file[cmd[t].fd], cmd[t].pos, Record(t)) \in Board
      BY <2>1, Found, WriteAtBoard
    <3> QED
      BY <2>1, <3>1, <3>2, Found, ChangedFile
  <2>3. /\ Len(file') >= Len(file)
        /\ orig' \in 0..Len(file') /\ backup' \in 0..Len(file')
    BY <1>0, <2>2, Found
  <2>4. IdleCmd \in CmdType'
    BY <2>2, <2>3, NextCmd
  <2>5. cmd'[t] = IdleCmd => StepOK(t)' /\ LockOK(t)'
    BY <1>a DEF IdleCmd, StepOK, LockOK, At, Active, Opened
  <2> QED
    BY <1>0, <2>0, <2>2, <2>3, <2>4, <2>5, Found, ShapeStep
<1> QED
  BY <1>1, <1>2

LEMMA ShapeNext == ShapeInv /\ [BoardNext]_<<lockVars, boardVars>> => ShapeInv'
<1> SUFFICES ASSUME ShapeInv, [BoardNext]_<<lockVars, boardVars>> PROVE ShapeInv'
  OBVIOUS
<1>1. ASSUME NEW t \in Threads, Command(t) PROVE ShapeInv'
  BY <1>1, ShapeBegin, ShapeBefore, ShapeInside, ShapeLock, ShapeAfter DEF Command
<1>2. CASE UNCHANGED <<lockVars, boardVars>>
  BY <1>2 DEF ShapeInv, PcOK, BoardTypeOK, StepOK, LockOK, At, Active, Opened, Local,
     Waiting, Holding, CmdType, lockVars, boardVars
<1> QED
  BY <1>1, <1>2 DEF BoardNext

\* Each agent is at a step its command has, and at the place in the lock that
\* goes with it.
LEMMA ShapeAlways == BoardSpec => []ShapeInv
BY ShapeInit, ShapeNext, PTL DEF BoardSpec

\* Type correctness; a WRITE has the board open whenever it goes on to it.
THEOREM BoardTypeCorrect == BoardSpec => []BoardTypeOK
<1>1. ShapeInv => BoardTypeOK
  BY DEF ShapeInv
<1> QED
  BY <1>1, ShapeAlways, PTL

-----------------------------------------------------------------------------
(* What each step does to the command of its agent. *)

MovesTo(t, s) ==
    /\ cmd'[t].step = s /\ cmd'[t].op = cmd[t].op /\ cmd'[t].kind = cmd[t].kind
    /\ cmd'[t].req = cmd[t].req /\ cmd'[t].id = cmd[t].id

\* It keeps its descriptor, position and the board it found, too.
MovesOn(t, s) ==
    /\ MovesTo(t, s)
    /\ cmd'[t].fd = cmd[t].fd /\ cmd'[t].pos = cmd[t].pos
    /\ cmd'[t].before = cmd[t].before

LEMMA OthersKeep ==
    ASSUME ShapeInv, NEW t \in Threads, Command(t)
    PROVE  \A u \in Threads \ {t} : cmd'[u] = cmd[u]
BY Found DEF Command, Begin, StoreNumber, OpenBoard, CreateBoard, Abort, Lock, Wake,
   Put, Rename, Rewrite, Look, UndoWrite, UndoReplace, Unlock, Tell, AfterTell,
   Close, Goes, boardVars

LEMMA MoveBegin ==
    ASSUME ShapeInv, NEW t \in Threads, NEW op \in Commands, NEW id \in 0..MaxCommands,
           Begin(t, op, id)
    PROVE  /\ At(t, "idle") /\ op \in {"WRITE", "REPLACE", "READ", "UNDO"}
           /\ cmd'[t].step = IF op = "WRITE" THEN "number" ELSE "lock"
           /\ cmd'[t].op = op /\ cmd'[t].req = commands + 1 /\ cmd'[t].id = id
           /\ cmd'[t].kind = IF op = "UNDO" THEN undo.kind ELSE op
           /\ cmd'[t].before = <<>>
BY Found, BoardFileAssumption DEF Begin, IdleCmd

LEMMA MoveBefore ==
    ASSUME ShapeInv, NEW t \in Threads
    PROVE  /\ StoreNumber(t) =>
                 At(t, "number") /\ cmd[t].op = "WRITE" /\ MovesOn(t, "open")
           /\ OpenBoard(t) =>
                 /\ At(t, "open") /\ cmd[t].op = "WRITE"
                 /\ MovesTo(t, IF orig = 0 THEN "create" ELSE "lock")
                 /\ cmd'[t].fd = orig /\ cmd'[t].before = cmd[t].before
           /\ CreateBoard(t) =>
                 /\ At(t, "create") /\ cmd[t].op = "WRITE" /\ MovesTo(t, "lock")
                 /\ cmd'[t].fd = orig' /\ cmd'[t].before = cmd[t].before
           /\ Abort(t) => At(t, "lock") /\ cmd'[t] = IdleCmd
           /\ Lock(t) => At(t, "lock") /\ MovesOn(t, "inside")
           /\ Wake(t) => cmd' = cmd
<1>0. cmd \in [Threads -> CmdType] /\ cmd[t] \in CmdType
      /\ (cmd[t].step \in {"number", "open", "create"} => cmd[t].op = "WRITE")
  BY Found DEF StepOK
<1>1. ASSUME NEW s, At(t, s), Goes(t, IF s = "number" THEN "open" ELSE "inside")
      PROVE  MovesOn(t, IF s = "number" THEN "open" ELSE "inside")
  BY <1>0, <1>1 DEF Goes, MovesOn, MovesTo, CmdType
<1>2. StoreNumber(t) => At(t, "number") /\ cmd[t].op = "WRITE" /\ MovesOn(t, "open")
  BY <1>0, <1>1 DEF StoreNumber, At
<1>3. Lock(t) => At(t, "lock") /\ MovesOn(t, "inside")
  BY <1>0, <1>1 DEF Lock
<1>4. ASSUME OpenBoard(t)
      PROVE  /\ At(t, "open") /\ cmd[t].op = "WRITE"
             /\ MovesTo(t, IF orig = 0 THEN "create" ELSE "lock")
             /\ cmd'[t].fd = orig /\ cmd'[t].before = cmd[t].before
  <2> DEFINE s == IF orig = 0 THEN "create" ELSE "lock"
  <2>1. cmd' = [cmd EXCEPT ![t] = [cmd[t] EXCEPT !.step = s, !.fd = orig]]
    BY <1>4 DEF OpenBoard
  <2> HIDE DEF s
  <2>2. MovesTo(t, s) /\ cmd'[t].fd = orig /\ cmd'[t].before = cmd[t].before
    BY <1>0, <2>1 DEF MovesTo, CmdType
  <2> QED
    BY <1>0, <1>4, <2>2 DEF OpenBoard, At, s
<1>5. ASSUME CreateBoard(t)
      PROVE  /\ At(t, "create") /\ cmd[t].op = "WRITE" /\ MovesTo(t, "lock")
             /\ cmd'[t].fd = orig' /\ cmd'[t].before = cmd[t].before
  <2>1. cmd' = [cmd EXCEPT ![t] = [cmd[t] EXCEPT !.step = "lock", !.fd = orig']]
        /\ At(t, "create")
    BY <1>5 DEF CreateBoard
  <2> QED
    BY <1>0, <2>1 DEF MovesTo, CmdType, At
<1>6. Abort(t) => At(t, "lock") /\ cmd'[t] = IdleCmd
  BY <1>0 DEF Abort
<1>7. Wake(t) => cmd' = cmd
  BY DEF Wake, boardVars
<1> QED
  BY <1>2, <1>3, <1>4, <1>5, <1>6, <1>7

LEMMA MoveInside ==
    ASSUME ShapeInv, NEW t \in Threads
    PROVE  /\ Put(t) =>
                 /\ At(t, "inside") /\ cmd[t].op = "WRITE" /\ cmd[t].fd # 0
                 /\ MovesTo(t, "unlock") /\ cmd'[t].fd = cmd[t].fd
                 /\ cmd'[t].pos = file[cmd[t].fd] /\ cmd'[t].before = expected
           /\ Rename(t) =>
                 At(t, "inside") /\ cmd[t].op = "REPLACE" /\ MovesOn(t, "rewrite")
           /\ Rewrite(t) =>
                 /\ At(t, "rewrite") /\ cmd[t].op = "REPLACE" /\ MovesTo(t, "unlock")
                 /\ cmd'[t].before = expected
           /\ Look(t) => At(t, "inside") /\ cmd[t].op = "READ" /\ MovesOn(t, "unlock")
           /\ UndoWrite(t) \/ UndoReplace(t) =>
                 At(t, "inside") /\ cmd[t].op = "UNDO" /\ MovesOn(t, "unlock")
<1>0. cmd \in [Threads -> CmdType] /\ cmd[t] \in CmdType
      /\ (At(t, "rewrite") => cmd[t].op = "REPLACE")
      /\ (At(t, "inside") /\ cmd[t].op = "WRITE" => cmd[t].fd # 0)
  BY Found DEF StepOK, Opened, At
<1>1. ASSUME Put(t)
      PROVE  /\ At(t, "inside") /\ cmd[t].op = "WRITE" /\ cmd[t].fd # 0
             /\ MovesTo(t, "unlock") /\ cmd'[t].fd = cmd[t].fd
             /\ cmd'[t].pos = file[cmd[t].fd] /\ cmd'[t].before = expected
  <2> DEFINE end == file[cmd[t].fd]
  <2>1. /\ At(t, "inside") /\ cmd[t].op = "WRITE" /\ cmd[t].fd # 0
        /\ cmd' = [cmd EXCEPT ![t] = [cmd[t] EXCEPT !.step = "unlock", !.pos = end,
                                                    !.before = expected]]
    BY <1>0, <1>1 DEF Put, Holds
  <2> HIDE DEF end
  <2>2. MovesTo(t, "unlock") /\ cmd'[t].fd = cmd[t].fd
        /\ cmd'[t].pos = end /\ cmd'[t].before = expected
    BY <1>0, <2>1 DEF MovesTo, CmdType
  <2> QED
    BY <2>1, <2>2 DEF end
<1>2. ASSUME NEW s, cmd' = [cmd EXCEPT ![t].step = s] PROVE MovesOn(t, s)
  BY <1>0, <1>2 DEF MovesOn, MovesTo, CmdType
<1>3. ASSUME Rewrite(t)
      PROVE  /\ At(t, "rewrite") /\ cmd[t].op = "REPLACE" /\ MovesTo(t, "unlock")
             /\ cmd'[t].before = expected
  <2>1. At(t, "rewrite")
        /\ cmd' = [cmd EXCEPT ![t] = [cmd[t] EXCEPT !.step = "unlock", !.before = expected]]
    BY <1>3 DEF Rewrite
  <2> QED
    BY <1>0, <2>1 DEF MovesTo, CmdType
<1>4. ASSUME Look(t)
      PROVE  At(t, "inside") /\ cmd[t].op = "READ" /\ MovesOn(t, "unlock")
  <2>1. PICK f \in BOOLEAN :
           cmd' = [cmd EXCEPT ![t] = [cmd[t] EXCEPT !.step = "unlock", !.found = f]]
    BY <1>4 DEF Look
  <2>2. At(t, "inside") /\ cmd[t].op = "READ"
    BY <1>4 DEF Look, Holds
  <2> QED
    BY <1>0, <2>1, <2>2 DEF MovesOn, MovesTo, CmdType
<1> QED
  BY <1>0, <1>1, <1>2, <1>3, <1>4
     DEF Rename, UndoWrite, UndoReplace, Holds, Goes

LEMMA MoveAfter ==
    ASSUME ShapeInv, NEW t \in Threads
    PROVE  /\ Unlock(t) =>
                 /\ At(t, "unlock")
                 /\ IF cmd[t].op \in {"WRITE", "REPLACE"} THEN MovesOn(t, "tell")
                    ELSE cmd'[t] = IdleCmd
           /\ Tell(t) =>
                 /\ At(t, "tell") /\ cmd[t].op \in {"WRITE", "REPLACE"}
                 /\ IF Pending(t) THEN MovesOn(t, "close") ELSE cmd'[t] = IdleCmd
           /\ Close(t) =>
                 /\ At(t, "close") /\ cmd[t].op = "WRITE" /\ Pending(t)
                 /\ cmd[t].fd # 0 /\ cmd'[t] = IdleCmd
<1>0. cmd \in [Threads -> CmdType] /\ cmd[t] \in CmdType
      /\ (At(t, "tell") => cmd[t].op \in {"WRITE", "REPLACE"})
      /\ (At(t, "close") => cmd[t].op = "WRITE" /\ Pending(t) /\ cmd[t].fd # 0)
  BY Found DEF StepOK, Opened, At, Pending
<1>1. ASSUME NEW s, cmd' = [cmd EXCEPT ![t] = [cmd[t] EXCEPT !.step = s]]
      PROVE  MovesOn(t, s)
  BY <1>0, <1>1 DEF MovesOn, MovesTo, CmdType
<1>2. Unlock(t) =>
         /\ At(t, "unlock")
         /\ IF cmd[t].op \in {"WRITE", "REPLACE"} THEN MovesOn(t, "tell")
            ELSE cmd'[t] = IdleCmd
  BY <1>0, <1>1 DEF Unlock
<1>3. Tell(t) =>
         /\ At(t, "tell")
         /\ IF Pending(t) THEN MovesOn(t, "close") ELSE cmd'[t] = IdleCmd
  BY <1>0, <1>1 DEF Tell, AfterTell
<1>4. Close(t) => At(t, "close") /\ cmd'[t] = IdleCmd
  BY <1>0 DEF Close
<1> QED
  BY <1>0, <1>2, <1>3, <1>4

-----------------------------------------------------------------------------
(* The ids on a board. *)

LEMMA NumberInit == BoardInit => NumberInv
<1> SUFFICES ASSUME BoardInit PROVE NumberInv
  OBVIOUS
<1>1. \A t \in Threads : ~Unwritten(t)
  BY DEF BoardInit, Unwritten, Pending, IdleCmd
<1>2. \A n \in DOMAIN file : FileIds(file[n], number)
  <2>1. CASE file = <<>>
    BY <2>1
  <2>2. CASE file = <<<<Line(0, 0)>>>> /\ number = 1
    <3>1. /\ DOMAIN file = {1} /\ file[1] = <<Line(0, 0)>>
          /\ DOMAIN file[1] = {1} /\ file[1][1].id = 0
      BY <2>2 DEF Line
    <3> QED
      BY <2>2, <3>1 DEF FileIds
  <2> QED
    BY <2>1, <2>2 DEF BoardInit
<1> QED
  BY <1>1, <1>2 DEF NumberInv

\* The files stay well numbered when a step adds no line but that of the
\* number its agent has drawn.
LEMMA NumberKeeps ==
    ASSUME ShapeInv, NumberInv, "number" \notin accidents, NEW t \in Threads,
           number' = number,
           \A n \in DOMAIN file' : FileIds(file'[n], number),
           \A n \in DOMAIN file' : \A x \in Ids(file'[n]) :
               \/ x = -1 \/ \E m \in DOMAIN file : x \in Ids(file[m])
               \/ x = cmd[t].id /\ Unwritten(t) /\ ~Unwritten(t)',
           Unwritten(t)' => Unwritten(t) /\ cmd'[t].id = cmd[t].id,
           \A u \in Threads \ {t} : cmd'[u] = cmd[u]
    PROVE  NumberInv'
<1>1. \A u \in Threads : Unwritten(u)' => Unwritten(u) /\ cmd'[u].id = cmd[u].id
  BY DEF Unwritten, Pending, Local
<1>2. \A u \in Threads : cmd[u].id \in Nat
  BY Found
<1>3. ASSUME NEW u \in Threads, Unwritten(u)', NEW n \in DOMAIN file',
             cmd'[u].id \in Ids(file'[n])
      PROVE  FALSE
  BY <1>1, <1>2, <1>3 DEF NumberInv
<1> QED
  BY <1>1, <1>3 DEF NumberInv

\* c has the ids of b, those of holes, and id at one place.
Adds(c, b, id) ==
    \E k \in Nat : \A i \in DOMAIN c :
        \/ i \in DOMAIN b /\ c[i].id = b[i].id
        \/ c[i].id = -1
        \/ i = k /\ c[i].id = id

LEMMA PutAdds ==
    ASSUME NEW b \in Board, NEW pos \in Board, NEW x \in LineType
    PROVE  Adds(Append(b, x), b, x.id) /\ Adds(WriteAt(b, pos, x), b, x.id)
<1>1. Adds(Append(b, x), b, x.id)
  <2>1. Len(b) + 1 \in Nat
    BY LinesOf
  <2>2. ASSUME NEW i \in DOMAIN Append(b, x)
        PROVE  \/ i \in DOMAIN b /\ Append(b, x)[i].id = b[i].id
               \/ i = Len(b) + 1 /\ Append(b, x)[i].id = x.id
    BY <2>2, AppendBoard, LinesOf
  <2> QED
    BY <2>1, <2>2 DEF Adds
<1>2. Adds(WriteAt(b, pos, x), b, x.id)
  <2> DEFINE w == WriteAt(b, pos, x)
  <2>1. PICK k \in Nat : \A i \in DOMAIN w :
             \/ i \in DOMAIN b /\ w[i] = b[i]
             \/ w[i] = Debris
             \/ i = k /\ w[i] = x
    BY WriteAtBoard
  <2> HIDE DEF w
  <2>2. Adds(w, b, x.id)
    BY <2>1, DebrisIsLine DEF Adds
  <2> QED
    BY <2>2 DEF w
<1> QED
  BY <1>1, <1>2

\* A board all of whose ids are those of another, or a new one.
LEMMA DerivedIds ==
    ASSUME NEW b \in Board, NEW no \in Nat, FileIds(b, no), NEW id \in Nat,
           id < no, id \notin Ids(b), NEW c, Adds(c, b, id)
    PROVE  FileIds(c, no) /\ Ids(c) \subseteq Ids(b) \cup {-1, id}
<1>0. PICK k \in Nat : \A i \in DOMAIN c :
           \/ i \in DOMAIN b /\ c[i].id = b[i].id
           \/ c[i].id = -1
           \/ i = k /\ c[i].id = id
  BY DEF Adds
<1>1. \A i \in DOMAIN b : b[i].id \in Int
  BY LinesOf
<1>2. \A i \in DOMAIN b : b[i].id # id
  BY DEF Ids
<1>3. \A i, j \in DOMAIN b : b[i].id = b[j].id /\ b[i].id # -1 => i = j
  BY DEF FileIds
<1>4. \A i \in DOMAIN b : b[i].id < no
  BY DEF FileIds
<1>5. \A i, j \in DOMAIN c : c[i].id = c[j].id /\ c[i].id # -1 => i = j
  BY <1>0, <1>1, <1>2, <1>3
<1>6. \A i \in DOMAIN c : c[i].id < no
  BY <1>0, <1>1, <1>4
<1> QED
  BY <1>0, <1>5, <1>6 DEF FileIds, Ids

\* The same without a new one.
LEMMA FewerIds ==
    ASSUME NEW b \in Board, NEW no \in Nat, FileIds(b, no), NEW c,
           \A i \in DOMAIN c : \/ i \in DOMAIN b /\ c[i].id = b[i].id
                               \/ c[i].id = -1
    PROVE  FileIds(c, no) /\ Ids(c) \subseteq Ids(b) \cup {-1}
<1>1. \A i \in DOMAIN b : b[i].id \in Int
  BY LinesOf
<1>2. \A i, j \in DOMAIN c : c[i].id = c[j].id /\ c[i].id # -1 => i = j
  BY <1>1 DEF FileIds
<1>3. \A i \in DOMAIN c : c[i].id < no
  BY <1>1 DEF FileIds
<1> QED
  BY <1>2, <1>3 DEF FileIds, Ids

LEMMA NumberBegin ==
    ASSUME ShapeInv, NumberInv, "number" \notin accidents, NEW t \in Threads,
           \/ \E op \in Commands, id \in 0..MaxCommands : Begin(t, op, id)
           \/ OpenBoard(t) \/ Abort(t) \/ Lock(t) \/ Wake(t)
           \/ Rename(t) \/ Look(t) \/ UndoReplace(t) \/ Unlock(t) \/ Tell(t)
    PROVE  NumberInv'
<1>1. Command(t) /\ number' = number /\ file' = file
  BY DEF Command, Begin, OpenBoard, Abort, Lock, Wake, Rename, Look, UndoReplace,
     Unlock, Tell, fileVars, boardVars
<1>2. \A u \in Threads \ {t} : cmd'[u] = cmd[u]
  BY <1>1, OthersKeep
<1>3. Unwritten(t)' => Unwritten(t) /\ cmd'[t].id = cmd[t].id
  <2>1. CASE \E op \in Commands, id \in 0..MaxCommands : Begin(t, op, id)
    BY <2>1, MoveBegin DEF Unwritten, Pending
  <2>2. CASE OpenBoard(t) \/ Abort(t) \/ Lock(t) \/ Wake(t)
    BY <2>2, MoveBefore DEF Unwritten, Pending, Local, MovesTo, MovesOn, At, IdleCmd
  <2>3. CASE Rename(t) \/ Look(t) \/ UndoReplace(t)
    BY <2>3, MoveInside DEF Unwritten, Pending, Local, MovesTo, MovesOn, At
  <2>4. CASE Unlock(t) \/ Tell(t)
    BY <2>4, MoveAfter DEF Unwritten, Pending, Local, MovesTo, MovesOn, At, IdleCmd
  <2> QED
    BY <2>1, <2>2, <2>3, <2>4
<1> QED
  BY <1>1, <1>2, <1>3, NumberKeeps DEF NumberInv

\* Two WRITEs that both find the number draw the same; if it is still as it
\* was found, it is a new one.
LEMMA NumberStore ==
    ASSUME ShapeInv, NumberInv, "number" \notin accidents', NEW t \in Threads,
           StoreNumber(t)
    PROVE  NumberInv'
<1>1. /\ "number" \notin accidents /\ cmd[t].id = number /\ number \in Nat
      /\ number' = number + 1 /\ file' = file /\ At(t, "number")
  BY Found DEF StoreNumber, Accident, fileVars
<1>2. /\ cmd'[t].id = number
      /\ \A u \in Threads \ {t} : cmd'[u] = cmd[u]
  BY <1>1, OthersKeep, MoveBefore DEF Command, MovesOn, MovesTo
<1>3. \A n \in DOMAIN file : FileIds(file[n], number) /\ file[n] \in Board
  BY <1>1, Found DEF NumberInv
<1>4. \A n \in DOMAIN file : FileIds(file[n], number + 1) /\ number \notin Ids(file[n])
  BY <1>1, <1>3, LinesOf DEF FileIds, Ids
<1>5. \A u \in Threads \ {t} : Unwritten(u)' => Unwritten(u)
  BY <1>2 DEF Unwritten, Pending, Local
<1>6. \A u \in Threads \ {t} : Unwritten(u) => cmd[u].id < number /\ cmd[u].id \in Nat
  BY <1>1, Found DEF NumberInv
<1>7. ASSUME NEW u \in Threads, Unwritten(u)'
      PROVE  /\ cmd'[u].id < number'
             /\ \A n \in DOMAIN file : cmd'[u].id \notin Ids(file[n])
  BY <1>1, <1>2, <1>4, <1>5, <1>6, <1>7 DEF NumberInv
<1>8. ASSUME NEW u \in Threads, NEW v \in Threads, Unwritten(u)', Unwritten(v)',
             cmd'[u].id = cmd'[v].id
      PROVE  u = v
  BY <1>1, <1>2, <1>5, <1>6, <1>8 DEF NumberInv
<1> QED
  BY <1>1, <1>4, <1>7, <1>8 DEF NumberInv

\* One file changes, or there is a new one.
LEMMA NumberFile ==
    ASSUME ShapeInv, NumberInv, "number" \notin accidents, NEW t \in Threads,
           Command(t), number' = number,
           Unwritten(t)' => Unwritten(t) /\ cmd'[t].id = cmd[t].id,
           NEW b, FileIds(b, number),
           \A x \in Ids(b) :
               \/ x = -1 \/ \E m \in DOMAIN file : x \in Ids(file[m])
               \/ x = cmd[t].id /\ Unwritten(t) /\ ~Unwritten(t)',
           b \in Board,
           \/ file' = Append(file, b)
           \/ \E m \in DOMAIN file : file' = [file EXCEPT ![m] = b]
    PROVE  NumberInv'
<1>1. ASSUME NEW n \in DOMAIN file'
      PROVE  file'[n] = b \/ (n \in DOMAIN file /\ file'[n] = file[n])
  <2>1. CASE file' = Append(file, b)
    <3>1. file \in Seq(Board) /\ DOMAIN file = 1..Len(file) /\ Len(file) \in Nat
      BY Found
    <3>2. n \in 1..Len(file) + 1
      BY <2>1, <3>1, <1>1, NewFile
    <3>3. CASE n = Len(file) + 1
      BY <2>1, <3>1, <3>3, NewFile
    <3>4. CASE n \in 1..Len(file)
      BY <2>1, <3>1, <3>4, NewFile
    <3> QED
      BY <3>1, <3>2, <3>3, <3>4
  <2>2. ASSUME NEW m \in DOMAIN file, file' = [file EXCEPT ![m] = b]
        PROVE  file'[n] = b \/ (n \in DOMAIN file /\ file'[n] = file[n])
    BY <1>1, <2>2
  <2> QED
    BY <2>1, <2>2
<1>2. \A n \in DOMAIN file : FileIds(file[n], number)
  BY DEF NumberInv
<1>3. \A u \in Threads \ {t} : cmd'[u] = cmd[u]
  BY OthersKeep
<1>4. \A n \in DOMAIN file' : FileIds(file'[n], number)
  BY <1>1, <1>2
<1>5. \A n \in DOMAIN file' : \A x \in Ids(file'[n]) :
          \/ x = -1 \/ \E m \in DOMAIN file : x \in Ids(file[m])
          \/ x = cmd[t].id /\ Unwritten(t) /\ ~Unwritten(t)'
  BY <1>1
<1> QED
  BY <1>3, <1>4, <1>5, NumberKeeps

LEMMA NumberRewrite ==
    ASSUME ShapeInv, NumberInv, "number" \notin accidents, NEW t \in Threads,
           CreateBoard(t) \/ Rewrite(t) \/ UndoWrite(t)
    PROVE  NumberInv'
<1>0. /\ Command(t) /\ number' = number /\ number \in Nat
      /\ \A n \in DOMAIN file : FileIds(file[n], number) /\ file[n] \in Board
  <2>1. Command(t)
    BY DEF Command
  <2>2. number' = number /\ number \in Nat /\ file \in Seq(Board)
    BY Found DEF CreateBoard, Rewrite, UndoWrite
  <2> QED
    BY <2>1, <2>2 DEF NumberInv
<1>1. Unwritten(t)' => Unwritten(t) /\ cmd'[t].id = cmd[t].id
  BY MoveBefore, MoveInside DEF Unwritten, Pending, Local, MovesTo, MovesOn, At
<1>2. /\ <<>> \in Board /\ FileIds(<<>>, number)
      /\ \A x \in Ids(<<>>) : x = -1
  BY Found DEF FileIds, Ids
<1>3. CASE CreateBoard(t)
  <2>1. \/ file' = Append(file, <<>>)
        \/ orig \in DOMAIN file /\ file' = [file EXCEPT ![orig] = <<>>]
    BY <1>3, Found DEF CreateBoard
  <2> QED
    BY <1>0, <1>1, <1>2, <2>1, NumberFile
<1>4. CASE Rewrite(t)
  <2> DEFINE source == IF backup = 0 THEN <<>> ELSE file[backup]
             copy   == ReplaceRecord(source, cmd[t].id, cmd[t].req)
  <2>1. /\ source \in Board /\ FileIds(source, number)
        /\ \A x \in Ids(source) : x = -1 \/ \E m \in DOMAIN file : x \in Ids(file[m])
        /\ cmd[t].id \in Int /\ cmd[t].req \in Nat
    BY <1>0, <1>2, Found
  <2>2. \/ file' = Append(file, copy)
        \/ orig \in DOMAIN file /\ file' = [file EXCEPT ![orig] = copy]
    BY <1>4, Found DEF Rewrite
  <2> HIDE DEF source
  <2>3. copy \in Board /\ DOMAIN copy = DOMAIN source
        /\ \A i \in DOMAIN source : copy[i].id = source[i].id
    BY <2>1, ReplaceBoard
  <2> HIDE DEF copy
  <2>4. FileIds(copy, number) /\ Ids(copy) \subseteq Ids(source) \cup {-1}
    BY <1>0, <2>1, <2>3, FewerIds
  <2> QED
    BY <1>0, <1>1, <2>1, <2>2, <2>3, <2>4, NumberFile
<1>5. CASE UndoWrite(t)
  <2>1. CASE orig = 0
    <3>1. file' = file /\ \A u \in Threads \ {t} : cmd'[u] = cmd[u]
      BY <1>0, <1>5, <2>1, OthersKeep DEF UndoWrite
    <3> QED
      BY <1>0, <1>1, <3>1, NumberKeeps
  <2>2. CASE orig # 0
    <3> DEFINE b == file[orig]
               cut == Truncate(b, undo.pos)
    <3>1. file' = [file EXCEPT ![orig] = cut] /\ orig \in DOMAIN file
          /\ b \in Board /\ FileIds(b, number) /\ undo.pos \in Board
      BY <1>0, <1>5, <2>2, Found DEF UndoWrite
    <3>2. cut \in Board
          /\ \A i \in DOMAIN cut : \/ i \in DOMAIN b /\ cut[i].id = b[i].id
                                   \/ cut[i].id = -1
      <4> HIDE DEF b
      <4> QED
        BY <3>1, TruncateBoard, DebrisIsLine
    <3>3. FileIds(cut, number) /\ Ids(cut) \subseteq Ids(b) \cup {-1}
      <4> HIDE DEF b, cut
      <4> QED
        BY <1>0, <3>1, <3>2, FewerIds
    <3>4. \A x \in Ids(cut) : x = -1 \/ \E m \in DOMAIN file : x \in Ids(file[m])
      BY <3>1, <3>3
    <3> HIDE DEF cut
    <3> QED
      BY <1>0, <1>1, <3>1, <3>2, <3>3, <3>4, NumberFile
  <2> QED
    BY <2>1, <2>2
<1> QED
  BY <1>3, <1>4, <1>5

\* The record that is put into a file has a number that is in no file.
LEMMA NumberPut ==
    ASSUME ShapeInv, NumberInv, "number" \notin accidents, NEW t \in Threads,
           Put(t) \/ Close(t)
    PROVE  NumberInv'
<1> DEFINE b == file[cmd[t].fd]
           x == Record(t)
<1>0. /\ Command(t) /\ number' = number /\ number \in Nat
      /\ cmd[t].fd \in DOMAIN file /\ b \in Board /\ FileIds(b, number)
      /\ cmd[t].pos \in Board /\ x \in LineType /\ x.id = cmd[t].id /\ cmd[t].id \in Nat
  <2>1. cmd[t].fd # 0
    BY MoveInside, MoveAfter
  <2> QED
    BY <2>1, Found DEF Command, Put, Close, NumberInv
<1>1. Unwritten(t)
  BY MoveInside, MoveAfter DEF Unwritten, At
<1>2. /\ cmd[t].id < number /\ cmd[t].id \notin Ids(b)
  BY <1>0, <1>1 DEF NumberInv
<1>3. ASSUME NEW w \in Board, ~Unwritten(t)', Adds(w, b, cmd[t].id),
             file' = [file EXCEPT ![cmd[t].fd] = w]
      PROVE  NumberInv'
  <2> HIDE DEF b, x
  <2>1. FileIds(w, number) /\ Ids(w) \subseteq Ids(b) \cup {-1, cmd[t].id}
    BY <1>0, <1>2, <1>3, DerivedIds
  <2>2. \A y \in Ids(w) :
            \/ y = -1 \/ \E m \in DOMAIN file : y \in Ids(file[m])
            \/ y = cmd[t].id /\ Unwritten(t) /\ ~Unwritten(t)'
    BY <1>0, <1>1, <1>3, <2>1 DEF b
  <2> QED
    BY <1>0, <1>1, <1>3, <2>1, <2>2, NumberFile
<1>4. CASE Put(t)
  <2>1. CASE Local(t)
    <3>1. file' = [file EXCEPT ![cmd[t].fd] = Append(b, x)]
      BY <1>4, <2>1 DEF Put
    <3>2. ~Unwritten(t)'
      BY <1>4, <2>1, MoveInside DEF Unwritten, Pending, Local, MovesTo
    <3> HIDE DEF b, x
    <3>3. Append(b, x) \in Board
      BY <1>0, AppendBoard
    <3>4. Adds(Append(b, x), b, cmd[t].id)
      BY <1>0, PutAdds
    <3> QED
      BY <1>3, <3>1, <3>2, <3>3, <3>4
  <2>2. CASE ~Local(t)
    <3>1. file' = file /\ Unwritten(t)' /\ cmd'[t].id = cmd[t].id
      BY <1>4, <2>2, MoveInside DEF Put, Unwritten, Pending, Local, MovesTo
    <3>2. \A u \in Threads \ {t} : cmd'[u] = cmd[u]
      BY <1>0, OthersKeep
    <3> QED
      BY <1>0, <1>1, <3>1, <3>2, NumberKeeps DEF NumberInv
  <2> QED
    BY <2>1, <2>2
<1>5. CASE Close(t)
  <2>1. file' = [file EXCEPT ![cmd[t].fd] = WriteAt(b, cmd[t].pos, x)]
    BY <1>5 DEF Close
  <2>2. ~Unwritten(t)'
    BY <1>5, MoveAfter DEF Unwritten, Pending, IdleCmd
  <2> QED
    <3> HIDE DEF b, x
    <3>1. WriteAt(b, cmd[t].pos, x) \in Board
      BY <1>0, WriteAtBoard
    <3>2. Adds(WriteAt(b, cmd[t].pos, x), b, cmd[t].id)
      BY <1>0, PutAdds
    <3> QED
      BY <1>3, <2>1, <2>2, <3>1, <3>2
<1> QED
  BY <1>4, <1>5

LEMMA NumberNext ==
    ShapeInv /\ NumberInv /\ [BoardNext]_<<lockVars, boardVars>> => NumberInv'
<1> SUFFICES ASSUME ShapeInv, NumberInv, [BoardNext]_<<lockVars, boardVars>>
             PROVE  NumberInv'
  OBVIOUS
<1>1. CASE UNCHANGED <<lockVars, boardVars>>
  BY <1>1 DEF NumberInv, Unwritten, Pending, Local, lockVars, boardVars
<1>2. ASSUME NEW t \in Threads, Command(t) PROVE NumberInv'
  <2>1. accidents \subseteq accidents'
    BY <1>2 DEF Command, Begin, StoreNumber, OpenBoard, CreateBoard, Abort, Lock,
       Wake, Put, Rename, Rewrite, Look, UndoWrite, UndoReplace, Unlock, Tell,
       Close, Accident, ghosts, boardVars
  <2>2. CASE "number" \in accidents'
    BY <2>2 DEF NumberInv
  <2>3. CASE "number" \notin accidents'
    <3>1. "number" \notin accidents
      BY <2>1, <2>3
    <3> QED
      BY <1>2, <2>3, <3>1, NumberBegin, NumberStore, NumberRewrite, NumberPut
         DEF Command
  <2> QED
    BY <2>2, <2>3
<1> QED
  BY <1>1, <1>2 DEF BoardNext

\* The ids on the board are distinct, whatever accident happens to it, as long
\* as it is whole records and no two WRITEs have drawn the same number.
THEOREM IdsStayDistinct == BoardSpec => []IdsDistinct
<1>1. ShapeInv /\ NumberInv => IdsDistinct
  <2> SUFFICES ASSUME ShapeInv, NumberInv, "number" \notin accidents
               PROVE  ~Torn(Content) => \A i, j \in DOMAIN Content :
                          Content[i].id = Content[j].id => i = j
    BY DEF IdsDistinct
  <2>1. CASE orig = 0
    BY <2>1 DEF Content
  <2>2. CASE orig # 0
    <3>1. orig \in DOMAIN file
      BY <2>2 DEF ShapeInv, BoardTypeOK
    <3>2. ~Torn(Content) => \A i \in DOMAIN Content : Content[i].id # -1
      BY DebrisIsLine DEF Torn, Ids
    <3> QED
      BY <2>2, <3>1, <3>2 DEF NumberInv, FileIds, Content
  <2> QED
    BY <2>1, <2>2
<1> QED
  BY <1>1, ShapeAlways, NumberInit, NumberNext, PTL DEF BoardSpec

-----------------------------------------------------------------------------
(* One command at a time. *)

LEMMA AloneInit == BoardInit => AloneInv
BY DEF BoardInit, AloneInv, Fresh, StoreFresh, Active, Applied, At, Opened, Pending, IdleCmd,
       NothingToUndo

\* An agent at work alone finds the others idle, and out of the lock.
LEMMA OthersIdle ==
    ASSUME ShapeInv, AloneInv, ~overlapped, NEW t \in Threads, Active(t)
    PROVE  /\ \A u \in Threads \ {t} :
                 cmd[u] = IdleCmd /\ pc[u] = "out" /\ ~Pending(u)
           /\ Broken(t) = {} /\ Fresh(t)
<1>1. ASSUME NEW u \in Threads \ {t}
      PROVE  cmd[u] = IdleCmd /\ pc[u] = "out" /\ ~Pending(u)
  <2>1. At(u, "idle")
    BY DEF AloneInv, Active
  <2>2. cmd[u] = IdleCmd /\ pc[u] = "out"
    BY <2>1, Found DEF StepOK, LockOK, At
  <2> QED
    BY <2>2 DEF Pending, IdleCmd
<1>2. Excluded(t)
  BY <1>1 DEF Excluded, Conflict
<1> QED
  BY <1>1, <1>2 DEF Broken, AloneInv

\* What is left to show of a step of t.
LEMMA AloneKeeps ==
    ASSUME ShapeInv, NEW t \in Threads, accidents' = {},
           \A u \in Threads \ {t} : cmd'[u] = IdleCmd,
           Fresh(t)',
           undo'.kind # "NONE" /\ ~Applied(t)' => undo'.req = latest'
    PROVE  AloneInv'
<1>1. \A u \in Threads \ {t} : ~Active(u)' /\ Fresh(u)'
  BY DEF Active, Applied, At, Fresh, Opened, Pending, IdleCmd
<1> QED
  BY <1>1 DEF AloneInv, StoreFresh

LEMMA AloneBegin ==
    ASSUME ShapeInv, AloneInv, ~overlapped', NEW t \in Threads,
           NEW op \in Commands, NEW id \in 0..MaxCommands, Begin(t, op, id)
    PROVE  AloneInv'
<1>1. /\ ~overlapped /\ \A u \in Threads : At(u, "idle")
      /\ UNCHANGED <<number, fileVars, undo, ghosts>>
      /\ op = "WRITE" => id = number
  BY DEF Begin
<1>2. \A u \in Threads : cmd[u] = IdleCmd
  BY <1>1, Found DEF StepOK
<1>3. \A u \in Threads \ {t} : cmd'[u] = IdleCmd
  BY <1>2, OthersKeep DEF Command
<1>4. Fresh(t)'
  BY <1>1, MoveBegin DEF Fresh, Applied, At, Opened, Pending
<1>5. undo.kind # "NONE" => undo.req = latest
  BY <1>1, <1>2 DEF AloneInv, StoreFresh, Applied, IdleCmd
<1> QED
  BY <1>1, <1>3, <1>4, <1>5, AloneKeeps DEF AloneInv, ghosts

LEMMA AloneBefore ==
    ASSUME ShapeInv, AloneInv, ~overlapped, NEW t \in Threads,
           StoreNumber(t) \/ OpenBoard(t) \/ CreateBoard(t) \/ Abort(t) \/ Lock(t) \/ Wake(t)
    PROVE  AloneInv'
<1>0. Command(t) /\ accidents = {} /\ UNCHANGED <<undo, latest>>
  BY DEF Command, StoreNumber, OpenBoard, CreateBoard, Abort, Lock, Wake, AloneInv,
     ghosts, boardVars
<1>1. Active(t) /\ ~Applied(t)
  <2>1. CASE Wake(t)
    <3>1. pc[t] \in {"rWoken", "wWoken"}
      BY <2>1 DEF Wake, Resume, ResumeRead, ResumeWrite
    <3> QED
      BY <3>1, Found DEF LockOK, At, Active, Waiting, Holding, Applied
  <2>2. CASE StoreNumber(t) \/ OpenBoard(t) \/ CreateBoard(t) \/ Abort(t) \/ Lock(t)
    BY <2>2, MoveBefore DEF Active, At, Applied
  <2> QED
    BY <2>1, <2>2
<1>2. /\ \A u \in Threads \ {t} : cmd'[u] = IdleCmd
      /\ Fresh(t)
  BY <1>0, <1>1, OthersIdle, OthersKeep
<1>3. undo'.kind # "NONE" /\ ~Applied(t)' => undo'.req = latest'
  <2>1. \A u \in Threads : ~Applied(u)
    BY <1>1, OthersIdle DEF Applied, IdleCmd
  <2> QED
    BY <1>0, <2>1 DEF AloneInv, StoreFresh
<1>4. CASE StoreNumber(t)
  <2>1. accidents' = {}
    BY <1>0, <1>2, <1>4 DEF Fresh, StoreNumber, Accident
  <2>2. Fresh(t)'
    BY <1>4, MoveBefore DEF Fresh, Applied, MovesOn, MovesTo, At, Opened, Pending
  <2> QED
    BY <1>2, <1>3, <2>1, <2>2, AloneKeeps
<1>5. CASE OpenBoard(t)
  <2>1. accidents' = {} /\ orig' = orig
    BY <1>0, <1>5 DEF OpenBoard, ghosts, fileVars
  <2>2. Fresh(t)'
    BY <1>5, <2>1, MoveBefore DEF Fresh, Applied, MovesTo, At, Opened, Pending
  <2> QED
    BY <1>2, <1>3, <2>1, <2>2, AloneKeeps
<1>6. CASE CreateBoard(t)
  <2>1. accidents' = {}
    BY <1>0, <1>2, <1>6 DEF Fresh, CreateBoard, Accident, Content
  <2>2. Fresh(t)'
    BY <1>6, MoveBefore DEF Fresh, Applied, MovesTo, At, Opened, Pending
  <2> QED
    BY <1>2, <1>3, <2>1, <2>2, AloneKeeps
<1>7. CASE Abort(t)
  <2>1. accidents' = {}
    BY <1>0, <1>7 DEF Abort, ghosts
  <2>2. Fresh(t)'
    BY <1>7, MoveBefore DEF Fresh, Applied, At, Opened, Pending, IdleCmd
  <2> QED
    BY <1>2, <1>3, <2>1, <2>2, AloneKeeps
<1>8. CASE Lock(t) \/ Wake(t)
  <2>1. accidents' = {} /\ UNCHANGED <<orig, undo, file, number, latest>>
    BY <1>0, <1>8 DEF Lock, Wake, ghosts, fileVars, boardVars
  <2>2. Fresh(t)'
    BY <1>2, <1>8, <2>1, MoveBefore DEF Fresh, Applied, MovesOn, MovesTo, At, Opened, Pending
  <2> QED
    BY <1>2, <1>3, <2>1, <2>2, AloneKeeps
<1> QED
  BY <1>4, <1>5, <1>6, <1>7, <1>8

LEMMA AloneInside ==
    ASSUME ShapeInv, AloneInv, ~overlapped, NEW t \in Threads,
           \/ Put(t) \/ Rename(t) \/ Rewrite(t) \/ Look(t)
           \/ UndoWrite(t) \/ UndoReplace(t)
    PROVE  AloneInv'
<1>0. Command(t) /\ accidents = {}
  BY DEF Command, AloneInv
<1>1. Active(t) /\ ~Applied(t) /\ ~Pending(t)
  BY MoveInside DEF Active, Applied, At, Pending
<1>2. /\ \A u \in Threads \ {t} : cmd'[u] = IdleCmd /\ ~Pending(u)
      /\ Fresh(t) /\ Broken(t) = {}
  BY <1>0, <1>1, OthersIdle, OthersKeep
<1>3. undo.kind # "NONE" => undo.req = latest
  <2>1. \A u \in Threads : ~Applied(u)
    BY <1>1, OthersIdle DEF Applied, IdleCmd
  <2> QED
    BY <2>1 DEF AloneInv, StoreFresh
<1>4. CASE Put(t)
  <2>1. cmd[t].fd = orig /\ cmd[t].fd # 0 /\ UNCHANGED <<orig, undo>>
    BY <1>2, <1>4, MoveInside DEF Fresh, Opened, At, Put
  <2>2. accidents' = {}
    BY <1>0, <1>2, <1>4, <2>1 DEF Put, Accident, Stray
  <2>3. Fresh(t)'
    <3>1. Pending(t)' => file' = file
      BY <1>4 DEF Put, Pending, Local
    <3>2. Pending(t)' => file'[cmd'[t].fd] = cmd'[t].pos
      BY <1>4, <3>1, MoveInside
    <3> QED
      BY <1>4, <2>1, <3>2, MoveInside
         DEF Fresh, Applied, MovesTo, At, Opened, Pending, Put, Effect
  <2>4. Applied(t)'
    BY <1>4, MoveInside DEF Applied, MovesTo
  <2> QED
    BY <1>2, <2>2, <2>3, <2>4, AloneKeeps
<1>5. CASE Rename(t)
  <2>1. accidents' = {} /\ UNCHANGED <<undo, latest>>
    BY <1>0, <1>1, <1>2, <1>5 DEF Rename, Accident
  <2>2. Fresh(t)'
    BY <1>5, MoveInside DEF Fresh, Applied, MovesOn, MovesTo, At, Opened, Pending
  <2> QED
    BY <1>2, <1>3, <2>1, <2>2, AloneKeeps
<1>6. CASE Rewrite(t)
  <2>1. accidents' = {}
    BY <1>0, <1>2, <1>6 DEF Rewrite, Accident
  <2>2. /\ cmd'[t].op = "REPLACE" /\ cmd'[t].step = "unlock"
        /\ cmd'[t].req = latest'
    BY <1>6, MoveInside DEF MovesTo, Rewrite, Effect
  <2>3. Fresh(t)' /\ Applied(t)'
    BY <2>2 DEF Fresh, At, Opened, Pending, Applied
  <2> QED
    BY <1>2, <2>1, <2>3, AloneKeeps
<1>7. CASE Look(t)
  <2>1. accidents' = {} /\ UNCHANGED <<undo, latest>>
    BY <1>0, <1>2, <1>7 DEF Look, Accident
  <2>2. Fresh(t)'
    BY <1>7, MoveInside DEF Fresh, Applied, MovesOn, MovesTo, At, Opened, Pending
  <2> QED
    BY <1>2, <1>3, <2>1, <2>2, AloneKeeps
<1>8. CASE UndoWrite(t) \/ UndoReplace(t)
  <2>1. Outdated(t) = {}
    <3>1. cmd[t].op = "UNDO" /\ At(t, "inside") /\ cmd[t].kind # "NONE"
      BY <1>8, MoveInside DEF UndoWrite, UndoReplace
    <3> QED
      BY <1>2, <1>3, <3>1 DEF Outdated, Fresh, At
  <2>2. accidents' = {}
    BY <1>0, <1>2, <1>8, <2>1 DEF UndoWrite, UndoReplace, Accident
  <2>3. Fresh(t)'
    BY <1>8, MoveInside DEF Fresh, Applied, MovesOn, MovesTo, At, Opened, Pending
  <2>4. undo'.kind # "NONE" => undo'.req = latest'
    BY <1>3, <1>8, Found DEF UndoWrite, UndoReplace, Cleared
  <2> QED
    BY <1>2, <2>2, <2>3, <2>4, AloneKeeps
<1> QED
  BY <1>4, <1>5, <1>6, <1>7, <1>8

LEMMA AloneAfter ==
    ASSUME ShapeInv, AloneInv, ~overlapped, NEW t \in Threads,
           Unlock(t) \/ Tell(t) \/ Close(t)
    PROVE  AloneInv'
<1>0. Command(t) /\ accidents = {}
  BY DEF Command, AloneInv
<1>1. Active(t)
  BY MoveAfter DEF Active, At
<1>2. /\ \A u \in Threads \ {t} : cmd[u] = IdleCmd /\ cmd'[u] = IdleCmd
      /\ Fresh(t)
  BY <1>0, <1>1, OthersIdle, OthersKeep
<1>3. CASE Unlock(t)
  <2>1. accidents' = {} /\ UNCHANGED <<file, orig, undo, latest>>
    BY <1>0, <1>3 DEF Unlock, ghosts, fileVars
  <2>2. At(t, "unlock")
    BY <1>3, MoveAfter
  <2>3. Fresh(t)'
    BY <1>2, <1>3, <2>1, <2>2, MoveAfter
       DEF Fresh, Applied, MovesOn, MovesTo, At, Opened, Pending, Local, IdleCmd
  <2>4. undo'.kind # "NONE" /\ ~Applied(t)' => undo'.req = latest'
    <3>1. CASE cmd[t].op \in {"WRITE", "REPLACE"}
      BY <1>3, <3>1, MoveAfter DEF MovesOn, MovesTo, Applied
    <3>2. CASE cmd[t].op \notin {"WRITE", "REPLACE"}
      <4>1. \A u \in Threads : ~Applied(u)
        BY <1>2, <3>2 DEF Applied, IdleCmd
      <4> QED
        BY <2>1, <4>1 DEF AloneInv, StoreFresh
    <3> QED
      BY <3>1, <3>2
  <2> QED
    BY <1>2, <2>1, <2>3, <2>4, AloneKeeps
<1>4. CASE Tell(t)
  <2>1. accidents' = {} /\ UNCHANGED <<file, orig, latest>>
    BY <1>0, <1>4 DEF Tell, ghosts, fileVars
  <2>2. At(t, "tell") /\ Applied(t)
    BY <1>4, MoveAfter DEF Applied, At
  <2>5. ~Local(t) => undo'.kind = "NONE"
    BY <1>4, Found DEF Tell, Cleared
  <2>3. Fresh(t)'
    BY <1>2, <1>4, <2>1, <2>2, <2>5, MoveAfter
       DEF Fresh, Applied, MovesOn, MovesTo, At, Opened, Pending, Local, IdleCmd
  <2>4. undo'.kind # "NONE" => undo'.req = latest'
    BY <1>2, <1>4, <2>1, <2>2, Found DEF Tell, Cleared, Fresh
  <2> QED
    BY <1>2, <2>1, <2>3, <2>4, AloneKeeps
<1>5. CASE Close(t)
  <2>0. /\ cmd[t].fd = orig /\ file[cmd[t].fd] = cmd[t].pos /\ Pending(t)
        /\ undo.kind = "NONE"
    BY <1>2, <1>5, MoveAfter DEF Fresh, Opened, At
  <2>1. accidents' = {} /\ UNCHANGED <<undo, latest>>
    BY <1>0, <1>5, <2>0 DEF Close, Accident, Stray
  <2>2. cmd'[t] = IdleCmd /\ ~Local(t)
    BY <1>5, <2>0, MoveAfter DEF Pending
  <2>3. Fresh(t)'
    BY <2>2 DEF Fresh, Applied, At, Opened, Pending, IdleCmd
  <2> QED
    BY <1>2, <2>0, <2>1, <2>3, AloneKeeps
<1> QED
  BY <1>3, <1>4, <1>5

LEMMA AloneNext ==
    ShapeInv /\ AloneInv /\ [BoardNext]_<<lockVars, boardVars>> => AloneInv'
<1> SUFFICES ASSUME ShapeInv, AloneInv, [BoardNext]_<<lockVars, boardVars>>
             PROVE  AloneInv'
  OBVIOUS
<1>1. CASE UNCHANGED <<lockVars, boardVars>>
  BY <1>1 DEF AloneInv, StoreFresh, Fresh, Active, Applied, At, Opened, Pending,
     Local, boardVars
<1>2. ASSUME NEW t \in Threads, Command(t), ~overlapped' PROVE AloneInv'
  <2>1. CASE \E op \in Commands, id \in 0..MaxCommands : Begin(t, op, id)
    BY <1>2, <2>1, AloneBegin
  <2>2. CASE ~\E op \in Commands, id \in 0..MaxCommands : Begin(t, op, id)
    <3>1. ~overlapped
      BY <1>2, <2>2 DEF Command, StoreNumber, OpenBoard, CreateBoard, Abort, Lock,
         Wake, Put, Rename, Rewrite, Look, UndoWrite, UndoReplace, Unlock, Tell,
         Close, boardVars
    <3> QED
      BY <1>2, <2>2, <3>1, AloneBefore, AloneInside, AloneAfter DEF Command
  <2> QED
    BY <2>1, <2>2
<1> QED
  BY <1>1, <1>2 DEF BoardNext, AloneInv

\* A server that is given one command at a time, LOCAL ones and undo included,
\* has no accident, for any number of commands.
THEOREM NoAccidentAlone == BoardSpec => []AccidentsNeedOverlap
<1>1. AloneInv => AccidentsNeedOverlap
  BY DEF AloneInv, AccidentsNeedOverlap
<1> QED
  BY <1>1, ShapeAlways, AloneInit, AloneNext, PTL DEF BoardSpec

-----------------------------------------------------------------------------
(* The names of the commands. *)

LEMMA NameInit == BoardInit => NameInv
<1> SUFFICES ASSUME BoardInit PROVE NameInv
  OBVIOUS
<1>1. Texts(<<>>) = {} /\ Texts(<<Line(0, 0)>>) = {0}
  BY DEF Texts, Line
<1>2. expected \in {<<>>, <<Line(0, 0)>>}
  BY DEF BoardInit, Content
<1>3. \A t \in Threads : cmd[t] = IdleCmd
  BY DEF BoardInit
<1>4. Texts(expected) \subseteq {0} /\ \A t \in Threads : Texts(cmd[t].before) = {}
  BY <1>1, <1>2, <1>3 DEF IdleCmd
<1>5. Texts(undo.before) = {} /\ undo.req = 0 /\ latest = 0 /\ commands = 0
  BY <1>1 DEF BoardInit, NothingToUndo
<1>6. Seen \subseteq {0}
  BY <1>4, <1>5 DEF Seen
<1> QED
  BY <1>3, <1>5, <1>6 DEF NameInv, Active, Early, At, IdleCmd

\* What is left to show of a step of t after its first.
LEMMA NameKeeps ==
    ASSUME ShapeInv, ShapeInv', NameInv, NEW t \in Threads, commands' = commands,
           \A u \in Threads \ {t} : cmd'[u] = cmd[u],
           Active(t)' => Active(t) /\ cmd'[t].req = cmd[t].req /\ undo'.req = undo.req,
           undo'.req \in {undo.req, cmd[t].req},
           Seen' \subseteq Seen \cup {cmd[t].req},
           Early(t)' => Early(t) /\ Seen' \subseteq Seen,
           Active(t) \/ (Seen' \subseteq Seen /\ undo' = undo)
    PROVE  NameInv'
<1>1. commands \in Nat /\ undo.req \in Nat /\ \A u \in Threads : cmd[u].req \in Nat
  BY Found, BoardFileAssumption
<1>2. ~Active(t)' => cmd'[t].req = 0
  BY DEF ShapeInv, StepOK, Active, IdleCmd
<1>3. \A u \in Threads \ {t} : (Active(u)' <=> Active(u)) /\ (Early(u)' <=> Early(u))
  BY DEF Active, At, Early
<1>4. \A u \in Threads : Early(u) => Active(u)
  BY DEF Active, At, Early
<1>5. /\ \A x \in Seen' \cup {undo'.req} : x <= commands'
      /\ \A u \in Threads : cmd'[u].req <= commands'
  BY <1>1, <1>2 DEF NameInv, Active
<1>6. \A u \in Threads : Active(u)' => cmd'[u].req >= 1 /\ undo'.req # cmd'[u].req
  BY <1>3 DEF NameInv
<1>7. \A u, v \in Threads :
         Active(u)' /\ Active(v)' /\ cmd'[u].req = cmd'[v].req => u = v
  BY <1>3 DEF NameInv
<1>8. ASSUME NEW u \in Threads, Early(u)' PROVE cmd'[u].req \notin Seen'
  <2>1. CASE u = t
    BY <1>8, <2>1, <1>4 DEF NameInv, Active, Early, At
  <2>2. CASE u # t
    BY <1>8, <2>2, <1>3, <1>4 DEF NameInv
  <2> QED
    BY <2>1, <2>2
<1> QED
  BY <1>5, <1>6, <1>7, <1>8 DEF NameInv

\* What carries an effect after a step of t.
LEMMA SeenStep ==
    ASSUME ShapeInv, NEW t \in Threads, \A u \in Threads \ {t} : cmd'[u] = cmd[u],
           NEW S, {latest'} \cup Texts(expected') \cup Texts(undo'.before)
                      \cup Texts(cmd'[t].before) \subseteq Seen \cup S
    PROVE  Seen' \subseteq Seen \cup S
<1>1. ASSUME NEW u \in Threads PROVE Texts(cmd'[u].before) \subseteq Seen \cup S
  BY DEF Seen
<1> QED
  BY <1>1 DEF Seen

LEMMA SeenParts ==
    ASSUME NEW t \in Threads
    PROVE  /\ latest \in Seen /\ Texts(expected) \subseteq Seen
           /\ Texts(undo.before) \subseteq Seen /\ Texts(cmd[t].before) \subseteq Seen
           /\ Texts(<<>>) = {}
BY DEF Seen, Texts

LEMMA NameBegin ==
    ASSUME ShapeInv, ShapeInv', NameInv, NEW t \in Threads, NEW op \in Commands,
           NEW id \in 0..MaxCommands, Begin(t, op, id)
    PROVE  NameInv'
<1>1. /\ commands' = commands + 1 /\ commands \in Nat
      /\ UNCHANGED <<undo, latest, expected>>
      /\ ~Active(t) /\ cmd'[t].req = commands + 1 /\ cmd'[t].before = <<>>
      /\ \A u \in Threads \ {t} : cmd'[u] = cmd[u]
  <2>1. Command(t)
    BY DEF Command
  <2>2. \A u \in Threads \ {t} : cmd'[u] = cmd[u]
    BY <2>1, OthersKeep
  <2>3. commands \in Nat
    BY Found, BoardFileAssumption
  <2>4. /\ ~Active(t) /\ cmd'[t].req = commands + 1 /\ cmd'[t].before = <<>>
    BY MoveBegin DEF Active
  <2> QED
    BY <2>2, <2>3, <2>4 DEF Begin, ghosts
<1>2. Seen' \subseteq Seen
  <2>1. Seen' \subseteq Seen \cup {}
    BY <1>1, SeenParts, SeenStep
  <2> QED
    BY <2>1
<1>3. \A u \in Threads : cmd[u].req \in Nat
  BY Found
<1>4. \A x \in Seen' \cup {undo'.req} : x <= commands
  BY <1>1, <1>2 DEF NameInv
<1>5. \A u \in Threads \ {t} : (Active(u)' <=> Active(u)) /\ (Early(u)' <=> Early(u))
  BY <1>1 DEF Active, At, Early
<1>6. commands + 1 \notin Seen' /\ undo'.req # commands + 1
  BY <1>1, <1>4
<1>7. /\ \A x \in Seen' \cup {undo'.req} : x <= commands'
      /\ \A u \in Threads : cmd'[u].req <= commands'
  <2>1. \A x : x \in Int /\ x <= commands => x <= commands + 1
    BY <1>1
  <2>2. \A x \in Seen' \cup {undo'.req} : x \in Int
    <3>1. ASSUME NEW b \in Board PROVE Texts(b) \subseteq Int
      BY LinesOf DEF Texts
    <3>2. undo'.req \in Int /\ latest' \in Int /\ Texts(expected') \subseteq Int
          /\ Texts(undo'.before) \subseteq Int
      BY <1>1, <3>1, Found
    <3>3. \A u \in Threads : Texts(cmd'[u].before) \subseteq Int
      BY <1>1, <3>1, Found, SeenParts
    <3> QED
      BY <3>2, <3>3 DEF Seen
  <2> QED
    BY <1>1, <1>3, <1>4, <2>1, <2>2 DEF NameInv
<1>8. \A u \in Threads : Active(u)' => cmd'[u].req >= 1 /\ undo'.req # cmd'[u].req
  BY <1>1, <1>5, <1>6 DEF NameInv
<1>9. \A u, v \in Threads :
         Active(u)' /\ Active(v)' /\ cmd'[u].req = cmd'[v].req => u = v
  <2>1. \A u \in Threads : cmd[u].req # commands + 1
    BY <1>1, <1>3 DEF NameInv
  <2> QED
    BY <1>1, <1>5, <2>1 DEF NameInv
<1>10. \A u \in Threads : Early(u)' => cmd'[u].req \notin Seen'
  BY <1>1, <1>2, <1>5, <1>6 DEF NameInv
<1> QED
  BY <1>7, <1>8, <1>9, <1>10 DEF NameInv

LEMMA NameOutside ==
    ASSUME ShapeInv, ShapeInv', NameInv, NEW t \in Threads,
           \/ StoreNumber(t) \/ OpenBoard(t) \/ CreateBoard(t) \/ Abort(t)
           \/ Lock(t) \/ Wake(t) \/ Unlock(t) \/ Tell(t) \/ Close(t)
    PROVE  NameInv'
<1>0. Command(t) /\ UNCHANGED <<commands, expected, latest>>
  BY DEF Command, StoreNumber, OpenBoard, CreateBoard, Abort, Lock, Wake, Unlock,
     Tell, Close, ghosts, boardVars
<1>1. \A u \in Threads \ {t} : cmd'[u] = cmd[u]
  BY <1>0, OthersKeep
<1>2. /\ Active(t)' => Active(t) /\ cmd'[t].req = cmd[t].req
      /\ Early(t)' => Early(t)
      /\ cmd'[t].before \in {cmd[t].before, <<>>}
  <2>1. CASE StoreNumber(t) \/ OpenBoard(t) \/ CreateBoard(t) \/ Abort(t) \/ Lock(t)
    BY <2>1, MoveBefore DEF Active, At, Early, MovesOn, MovesTo, IdleCmd
  <2>2. CASE Wake(t)
    BY <2>2, MoveBefore DEF Active, At, Early
  <2>3. CASE Unlock(t) \/ Tell(t) \/ Close(t)
    BY <2>3, MoveAfter DEF Active, At, Early, MovesOn, MovesTo, IdleCmd
  <2> QED
    BY <2>1, <2>2, <2>3
<1>3. CASE Tell(t)
  <2>1. /\ ~Early(t)' /\ Active(t)
    BY <1>3, MoveAfter DEF Early, Active, At, MovesOn, MovesTo, IdleCmd
  <2>2. /\ undo'.req \in {undo.req, cmd[t].req}
        /\ undo'.before \in {undo.before, cmd[t].before}
        /\ Active(t)' => undo'.req = undo.req
    <3>1. CASE Local(t)
      BY <1>3, <3>1, MoveAfter, Found DEF Tell, Active, At, Pending, IdleCmd
    <3>2. CASE ~Local(t)
      BY <1>3, <3>2, Found DEF Tell, Cleared
    <3> QED
      BY <3>1, <3>2
  <2>3. {latest'} \cup Texts(expected') \cup Texts(undo'.before)
            \cup Texts(cmd'[t].before) \subseteq Seen \cup {}
    BY <1>0, <1>2, <2>2, SeenParts
  <2>4. Seen' \subseteq Seen \cup {}
    BY <1>1, <2>3, SeenStep
  <2> QED
    BY <1>0, <1>1, <1>2, <2>1, <2>2, <2>4, NameKeeps
<1>4. CASE ~Tell(t)
  <2>1. undo' = undo
    BY <1>4 DEF StoreNumber, OpenBoard, CreateBoard, Abort, Lock, Wake, Unlock, Close,
       boardVars
  <2>3. {latest'} \cup Texts(expected') \cup Texts(undo'.before)
            \cup Texts(cmd'[t].before) \subseteq Seen \cup {}
    BY <1>0, <1>2, <2>1, SeenParts
  <2>4. Seen' \subseteq Seen \cup {}
    BY <1>1, <2>3, SeenStep
  <2> QED
    BY <1>0, <1>1, <1>2, <2>1, <2>4, NameKeeps
<1> QED
  BY <1>3, <1>4

LEMMA TextsAppend ==
    ASSUME NEW b \in Board, NEW x \in LineType
    PROVE  Texts(Append(b, x)) \subseteq Texts(b) \cup {x.text}
<1>1. DOMAIN b = 1..Len(b) /\ Len(b) \in Nat
  BY LinesOf
<1>2. \A i \in DOMAIN Append(b, x) : i \in 1..Len(b) \/ i = Len(b) + 1
  BY <1>1, AppendBoard
<1>3. \A i \in DOMAIN Append(b, x) : Append(b, x)[i].text \in Texts(b) \cup {x.text}
  BY <1>1, <1>2, AppendBoard DEF Texts
<1> QED
  BY <1>3 DEF Texts

LEMMA NameInside ==
    ASSUME ShapeInv, ShapeInv', NameInv, NEW t \in Threads,
           \/ Put(t) \/ Rename(t) \/ Rewrite(t) \/ Look(t)
           \/ UndoWrite(t) \/ UndoReplace(t)
    PROVE  NameInv'
<1>0. Command(t) /\ commands' = commands
  BY DEF Command, Put, Rename, Rewrite, Look, UndoWrite, UndoReplace
<1>1. \A u \in Threads \ {t} : cmd'[u] = cmd[u]
  BY <1>0, OthersKeep
<1>2. /\ Active(t) /\ Early(t) /\ cmd'[t].req = cmd[t].req
      /\ cmd'[t].before \in {cmd[t].before, expected}
      /\ Early(t)' => Rename(t)
  BY MoveInside DEF Active, At, Early, MovesOn, MovesTo
<1>3. undo'.req = undo.req /\ undo'.before = undo.before
  BY Found DEF Put, Rename, Rewrite, Look, UndoWrite, UndoReplace, Cleared
<1>4. Rename(t) => UNCHANGED <<expected, latest>> /\ cmd'[t].before = cmd[t].before
  BY MoveInside DEF Rename, MovesOn
<1>5. latest' \in {latest, cmd[t].req}
  BY DEF Put, Rename, Rewrite, Look, UndoWrite, UndoReplace, Effect
<1>6. Texts(expected') \subseteq Seen \cup {cmd[t].req}
  <2>1. CASE Put(t)
    <3>1. expected' = Append(expected, Record(t))
      BY <2>1 DEF Put, Effect
    <3>2. expected \in Board /\ Record(t) \in LineType /\ Record(t).text = cmd[t].req
      BY Found
    <3>3. Texts(expected') \subseteq Texts(expected) \cup {cmd[t].req}
      BY <3>1, <3>2, TextsAppend
    <3> QED
      BY <3>3, SeenParts
  <2>2. CASE Rewrite(t)
    <3>1. expected' = ReplaceRecord(expected, cmd[t].id, cmd[t].req)
      BY <2>2 DEF Rewrite, Effect
    <3>2. expected \in Board /\ cmd[t].id \in Int /\ cmd[t].req \in Nat
      BY Found
    <3> DEFINE c == ReplaceRecord(expected, cmd[t].id, cmd[t].req)
    <3>3. /\ DOMAIN c = DOMAIN expected
          /\ \A i \in DOMAIN expected : c[i].text \in {expected[i].text, cmd[t].req}
      BY <3>2, ReplaceBoard
    <3> HIDE DEF c
    <3>4. Texts(c) \subseteq Texts(expected) \cup {cmd[t].req}
      BY <3>3 DEF Texts
    <3> QED
      BY <3>1, <3>4, SeenParts DEF c
  <2>3. CASE Rename(t) \/ Look(t) \/ UndoWrite(t) \/ UndoReplace(t)
    <3>1. expected' \in {expected, undo.before}
      BY <2>3 DEF Rename, Look, UndoWrite, UndoReplace, Effect
    <3> QED
      BY <3>1, SeenParts
  <2> QED
    BY <2>1, <2>2, <2>3
<1>7. Seen' \subseteq Seen \cup {cmd[t].req}
  <2>1. {latest'} \cup Texts(expected') \cup Texts(undo'.before)
            \cup Texts(cmd'[t].before) \subseteq Seen \cup {cmd[t].req}
    BY <1>2, <1>3, <1>5, <1>6, SeenParts
  <2> QED
    BY <1>1, <2>1, SeenStep
<1>8. Rename(t) => Seen' \subseteq Seen
  <2>1. ASSUME Rename(t)
        PROVE  {latest'} \cup Texts(expected') \cup Texts(undo'.before)
                   \cup Texts(cmd'[t].before) \subseteq Seen \cup {}
    BY <1>3, <1>4, <2>1, SeenParts
  <2>2. Rename(t) => Seen' \subseteq Seen \cup {}
    BY <1>1, <2>1, SeenStep
  <2> QED
    BY <2>2
<1> QED
  BY <1>0, <1>1, <1>2, <1>3, <1>7, <1>8, NameKeeps

LEMMA NameNext ==
    ShapeInv /\ NameInv /\ [BoardNext]_<<lockVars, boardVars>> => NameInv'
<1> SUFFICES ASSUME ShapeInv, NameInv, [BoardNext]_<<lockVars, boardVars>>
             PROVE  NameInv'
  OBVIOUS
<1>0. ShapeInv'
  BY ShapeNext
<1>1. CASE UNCHANGED <<lockVars, boardVars>>
  BY <1>1 DEF NameInv, Seen, Active, Early, At, boardVars
<1>2. ASSUME NEW t \in Threads, Command(t) PROVE NameInv'
  BY <1>0, <1>2, NameBegin, NameOutside, NameInside DEF Command
<1> QED
  BY <1>1, <1>2 DEF BoardNext
-----------------------------------------------------------------------------
(* The lines of a board and their places. *)

\* All the lines, in order: nothing else.
LEMMA LaysAll ==
    ASSUME NEW b \in Board, NEW s \in Board, NEW at, Lays(at, b, s, DOMAIN s)
    PROVE  b = s
<1>0. /\ DOMAIN b = 1..Len(b) /\ Len(b) \in Nat
      /\ DOMAIN s = 1..Len(s) /\ Len(s) \in Nat
  BY LinesOf
<1>1. /\ at \in [1..Len(b) -> 1..Len(s)]
      /\ \A i, j \in 1..Len(b) : i < j => at[i] < at[j]
      /\ \A k \in 1..Len(s) : \E i \in 1..Len(b) : at[i] = k
      /\ \A i \in 1..Len(b) : b[i] = s[at[i]]
  BY <1>0 DEF Lays
<1>2. ASSUME NEW i \in 1..Len(b) PROVE at[i] = i
  <2> DEFINE f == [j \in 1..i |-> at[j]]
  <2>a. \A j \in 1..Len(b) : at[j] \in 1..Len(s)
    BY <1>1
  <2>b. \A j \in 1..i : j \in 1..Len(b)
    BY <1>0
  <2>1. /\ at[i] \in 1..Len(s) /\ at[i] \in Nat /\ i \in Nat
        /\ \A j \in 1..i : j \in 1..Len(b) /\ at[j] \in 1..Len(s)
    BY <2>a, <2>b, <1>0
  <2>2. \A j \in 1..i : at[j] \in 1..at[i]
    <3>1. ASSUME NEW j \in 1..i PROVE at[j] <= at[i]
      <4>1. j < i \/ j = i
        BY <2>1
      <4> QED
        BY <4>1, <2>1, <1>1, <1>0
    <3> QED
      BY <3>1, <2>1, <1>0
  <2>3. f \in [1..i -> 1..at[i]]
    BY <2>2
  <2>4. f \in Injection(1..i, 1..at[i])
    <3>1. ASSUME NEW j \in 1..i, NEW k \in 1..i, at[j] = at[k] PROVE j = k
      BY <3>1, <2>1, <1>1, <1>0
    <3> QED
      BY <2>3, <3>1 DEF Injection, IsInjective
  <2>5. f \in Surjection(1..i, 1..at[i])
    <3>1. ASSUME NEW k \in 1..at[i] PROVE \E j \in 1..i : at[j] = k
      <4>1. k \in 1..Len(s)
        BY <2>1, <1>0
      <4>2. PICK j \in 1..Len(b) : at[j] = k
        BY <4>1, <1>1
      <4>3. ~(i < j)
        BY <4>2, <2>1, <1>1, <1>0
      <4> QED
        BY <4>2, <4>3, <2>1, <1>0
    <3> QED
      BY <2>3, <3>1 DEF Surjection
  <2> HIDE DEF f
  <2>6. ExistsBijection(1..i, 1..at[i])
    BY <2>4, <2>5 DEF ExistsBijection, Bijection
  <2>7. Cardinality(1..at[i]) = i
    BY <2>1, <2>6, FS_CountingElements
  <2>8. Cardinality(1..at[i]) = at[i]
    BY <2>1, FS_Interval
  <2> QED
    BY <2>7, <2>8
<1>3. Len(b) <= Len(s)
  <2>1. Len(b) # 0 => Len(b) \in 1..Len(b)
    BY <1>0
  <2> QED
    BY <2>1, <1>0, <1>1, <1>2
<1>4. Len(s) <= Len(b)
  <2>1. Len(s) # 0 => Len(s) \in 1..Len(s)
    BY <1>0
  <2>2. Len(s) # 0 => \E i \in 1..Len(b) : at[i] = Len(s)
    BY <2>1, <1>1
  <2>3. Len(s) # 0 => Len(s) \in 1..Len(b)
    BY <2>2, <1>2
  <2> QED
    BY <2>3, <1>0
<1>a. Len(b) \in Nat /\ Len(s) \in Nat
  BY <1>0
<1>5. Len(b) = Len(s)
  BY <1>a, <1>3, <1>4
<1>6. \A i \in 1..Len(b) : b[i] = s[i]
  BY <1>1, <1>2
<1>7. b \in Seq(LineType) /\ s \in Seq(LineType)
  BY DEF Board
<1> QED
  BY <1>5, <1>6, <1>7, SeqEqual

LEMMA LaysSelf ==
    ASSUME NEW s \in Board
    PROVE  \E at : Lays(at, s, s, DOMAIN s)
<1>1. Lays([i \in DOMAIN s |-> i], s, s, DOMAIN s)
  BY DEF Lays
<1> QED
  BY <1>1

\* The line of the next place is put after those that are there.
OneMore(at, b, s, S, k) ==
    \E more : /\ Lays(more, Append(b, s[k]), s, S \cup {k})
              /\ \A i \in DOMAIN b : more[i] = at[i]

LEMMA LaysMore ==
    ASSUME NEW b \in Board, NEW s \in Board, NEW S, S \subseteq DOMAIN s, NEW at,
           Lays(at, b, s, S), NEW k \in DOMAIN s, k \notin S,
           \A i \in DOMAIN b : at[i] < k
    PROVE  OneMore(at, b, s, S, k)
<1> DEFINE c == Append(b, s[k])
           more == [i \in 1..Len(b) + 1 |-> IF i \in 1..Len(b) THEN at[i] ELSE k]
<1>0. /\ DOMAIN b = 1..Len(b) /\ Len(b) \in Nat /\ S \subseteq Nat /\ k \in Nat
      /\ s[k] \in LineType
  BY LinesOf
<1>1. /\ DOMAIN c = 1..Len(b) + 1 /\ c[Len(b) + 1] = s[k]
      /\ \A i \in 1..Len(b) : c[i] = b[i]
  BY <1>0, AppendBoard
<1>2. /\ \A i \in 1..Len(b) : i \in 1..Len(b) + 1 /\ more[i] = at[i]
      /\ Len(b) + 1 \in 1..Len(b) + 1 /\ more[Len(b) + 1] = k
      /\ \A i \in 1..Len(b) + 1 : i \in 1..Len(b) \/ i = Len(b) + 1
  BY <1>0
<1>3. DOMAIN more = 1..Len(b) + 1 /\ more = [i \in 1..Len(b) + 1 |-> more[i]]
  OBVIOUS
<1> HIDE DEF c, more
<1>4. /\ \A i \in 1..Len(b) : at[i] \in S /\ b[i] = s[at[i]] /\ at[i] < k
      /\ \A i, j \in 1..Len(b) : i < j => at[i] < at[j]
      /\ \A p \in S : \E i \in 1..Len(b) : at[i] = p
  BY <1>0 DEF Lays
<1>5. more \in [DOMAIN c -> S \cup {k}]
  <2>1. \A i \in 1..Len(b) + 1 : more[i] \in S \cup {k}
    BY <1>2, <1>4
  <2> QED
    BY <1>1, <1>3, <2>1
<1>6. \A i, j \in DOMAIN c : i < j => more[i] < more[j]
  BY <1>0, <1>1, <1>2, <1>4
<1>7. \A p \in S \cup {k} : \E i \in DOMAIN c : more[i] = p
  BY <1>1, <1>2, <1>4
<1>8. \A i \in DOMAIN c : c[i] = s[more[i]]
  BY <1>1, <1>2, <1>4
<1>9. Lays(more, c, s, S \cup {k})
  BY <1>5, <1>6, <1>7, <1>8 DEF Lays
<1> QED
  BY <1>0, <1>2, <1>9 DEF c, OneMore

\* Lines that are elsewhere do not matter.
LEMMA LaysOther ==
    ASSUME NEW b, NEW s, NEW r, NEW S, NEW at, Lays(at, b, s, S),
           \A k \in S : r[k] = s[k]
    PROVE  Lays(at, b, r, S)
BY DEF Lays

\* The last line and its place are gone; pos lines are left.
OneLess(at, c, s, S, pos) ==
    \E less : /\ Lays(less, c, s, S \ {Len(s)})
              /\ \A i \in 1..pos : less[i] = at[i]

LEMMA LaysFewer ==
    ASSUME NEW b \in Board, NEW s \in Board, NEW S, S \subseteq DOMAIN s, NEW at,
           Lays(at, b, s, S), NEW pos \in Nat, Len(b) = pos + 1, Len(s) \in S,
           NEW c \in Board, Len(c) = pos, \A i \in 1..pos : c[i] = b[i]
    PROVE  OneLess(at, c, s, S, pos)
<1> DEFINE n == Len(s)
           less == [i \in 1..pos |-> at[i]]
<1>0. /\ DOMAIN b = 1..pos + 1 /\ DOMAIN c = 1..pos /\ n \in Nat
      /\ S \subseteq 1..n /\ n \in S
  BY LinesOf
<1>1. /\ \A i \in 1..pos + 1 : at[i] \in S /\ b[i] = s[at[i]]
      /\ \A i, j \in 1..pos + 1 : i < j => at[i] < at[j]
      /\ \A k \in S : \E i \in 1..pos + 1 : at[i] = k
  BY <1>0 DEF Lays
<1> HIDE DEF n
<1>2. PICK l \in 1..pos + 1 : at[l] = n
  BY <1>0, <1>1
<1>3. l = pos + 1
  <2>1. ~(l < pos + 1)
    <3>1. l < pos + 1 => at[l] < at[pos + 1] /\ at[pos + 1] \in 1..n
      BY <1>0, <1>1
    <3> QED
      BY <3>1, <1>2, <1>0
  <2> QED
    BY <2>1
<1>4. \A i \in 1..pos : i \in 1..pos + 1 /\ i < pos + 1 /\ less[i] = at[i]
  OBVIOUS
<1>5. \A i \in 1..pos : at[i] \in S \ {n}
  BY <1>0, <1>1, <1>2, <1>3, <1>4
<1>6. less \in [1..pos -> S \ {n}]
  BY <1>5
<1>7. \A i, j \in 1..pos : i < j => less[i] < less[j]
  BY <1>1, <1>4
<1>8. \A k \in S \ {n} : \E i \in 1..pos : less[i] = k
  <2>1. ASSUME NEW k \in S \ {n} PROVE \E i \in 1..pos : less[i] = k
    <3>1. PICK i \in 1..pos + 1 : at[i] = k
      BY <1>1
    <3>2. i # pos + 1
      BY <3>1, <1>2, <1>3
    <3> QED
      BY <3>1, <3>2, <1>4
  <2> QED
    BY <2>1
<1>9. \A i \in 1..pos : c[i] = s[less[i]]
  BY <1>1, <1>4
<1> HIDE DEF less
<1>10. Lays(less, c, s, S \ {n})
  BY <1>0, <1>6, <1>7, <1>8, <1>9 DEF Lays
<1> QED
  BY <1>10, <1>4 DEF n, OneLess
-----------------------------------------------------------------------------
(* The board. *)

LEMMA BoardInitially == BoardInit => BoardInv
<1> SUFFICES ASSUME BoardInit PROVE BoardInv
  OBVIOUS
<1>0. ShapeInv
  BY ShapeInit
<1>1. \A t \in Threads : cmd[t] = IdleCmd
  BY DEF BoardInit
<1>2. NonePending /\ ~Rewriting
  BY <1>1 DEF NonePending, Pending, Rewriting, At, IdleCmd
<1>3. Settled = DOMAIN expected
  BY <1>2 DEF Settled, NonePending
<1>4. expected \in Board /\ Content = expected /\ backup = 0
  BY <1>0, ShapeInit DEF BoardInit, ShapeInv, BoardTypeOK, Board
<1>5. Placed
  BY <1>2, <1>3, <1>4, LaysSelf DEF Placed, NonePending
<1>6. \A kind, req, pos, before :
         Remembered(kind, req, pos, before) => Undoable(kind, pos, before)
  BY <1>1 DEF BoardInit, NothingToUndo, Remembered, Undoable, IdleCmd
<1> QED
  BY <1>2, <1>4, <1>5, <1>6 DEF BoardInv

\* When no record is in a buffer and the board is as expected.
LEMMA WholeBoard ==
    ASSUME ShapeInv', NonePending', Content' = expected'
    PROVE  Placed'
<1>1. expected' \in Board
  BY DEF ShapeInv, BoardTypeOK, Board
<1>2. Settled' = DOMAIN expected'
  BY DEF Settled, NonePending
<1>3. PICK at : Lays(at, expected', expected', DOMAIN expected')
  BY <1>1, LaysSelf
<1>4. Lays(at, Content', expected', Settled')
  BY <1>2, <1>3
<1> QED
  BY <1>4 DEF Placed, NonePending

\* No other agent is half way in a REPLACE at a step of t under the lock.
LEMMA NoOtherRewrites ==
    ASSUME ShapeInv, NEW t \in Threads,
           \/ Put(t) \/ Rename(t) \/ Rewrite(t) \/ Look(t)
           \/ UndoWrite(t) \/ UndoReplace(t),
           accidents' = {}
    PROVE  /\ accidents = {} /\ \A u \in Threads \ {t} : ~At(u, "rewrite")
           /\ Rewrite(t) \/ ~Rewriting
<1>1. accidents = {} /\ Broken(t) = {}
  BY DEF Put, Rename, Rewrite, Look, UndoWrite, UndoReplace, Accident
<1>2. pc[t] \in {"reading", "writing"}
  <2>1. CASE Rewrite(t)
    BY <2>1, Found, MoveInside DEF LockOK, At, Holding
  <2>2. CASE ~Rewrite(t)
    BY <2>2 DEF Put, Rename, Look, UndoWrite, UndoReplace, Holds
  <2> QED
    BY <2>1, <2>2
<1>3. ASSUME NEW u \in Threads \ {t}, At(u, "rewrite") PROVE FALSE
  <2>1. pc[u] = "writing"
    BY <1>3, Found DEF StepOK, LockOK, At, Holding
  <2>2. ~Excluded(t)
    BY <1>2, <2>1 DEF Excluded, Conflict
  <2> QED
    BY <1>1, <2>2 DEF Broken
<1>4. Rewrite(t) \/ ~At(t, "rewrite")
  BY MoveInside DEF At
<1> QED
  BY <1>1, <1>3, <1>4 DEF Rewriting

\* A command that takes effect is the latest; no other is remembered as such.
LEMMA NewlyLatest ==
    ASSUME ShapeInv, NameInv, NEW t \in Threads, Active(t), Active(t)',
           \A u \in Threads \ {t} : cmd'[u] = cmd[u],
           cmd'[t].req = cmd[t].req, undo'.req = undo.req,
           NEW kind, NEW pos, NEW before, Remembered(kind, cmd[t].req, pos, before)'
    PROVE  /\ Local(t) /\ kind = cmd'[t].op /\ pos = cmd'[t].pos
           /\ before = cmd'[t].before
<1>1. undo'.req # cmd[t].req
  BY DEF NameInv
<1>2. ASSUME NEW u \in Threads \ {t}, cmd[u].step \in {"unlock", "tell"}
      PROVE  cmd[u].req # cmd[t].req
  BY <1>2 DEF NameInv, Active, At
<1> QED
  BY <1>1, <1>2 DEF Remembered, Local

\* What is left to show of a step that leaves the board and its backup alone.
LEMMA BoardKeeps ==
    ASSUME ShapeInv, BoardInv, accidents = {}, NEW t \in Threads,
           UNCHANGED <<file, orig, backup, expected, latest>>,
           \A u \in Threads \ {t} : cmd'[u] = cmd[u],
           At(t, "rewrite")' <=> At(t, "rewrite"),
           Pending(t)' <=> Pending(t),
           Pending(t) => /\ cmd'[t].fd = cmd[t].fd /\ cmd'[t].pos = cmd[t].pos
                         /\ cmd'[t].id = cmd[t].id /\ cmd'[t].req = cmd[t].req,
           \A kind, req, pos, before :
               Remembered(kind, req, pos, before)' /\ kind \in {"WRITE", "REPLACE"} =>
                   \E p : /\ Remembered(kind, req, p, before)
                          /\ kind = "WRITE" => p = pos
    PROVE  BoardInv'
<1>1. \A p \in Threads : Pending(p)' <=> Pending(p)
  BY DEF Pending, Local
<1>2. \A p \in Threads : Pending(p) =>
          /\ cmd'[p].fd = cmd[p].fd /\ cmd'[p].pos = cmd[p].pos
          /\ cmd'[p].req = cmd[p].req /\ Record(p)' = Record(p)
  BY DEF Record
<1>3. Rewriting' <=> Rewriting
  BY DEF Rewriting, At
<1>4. NonePending' <=> NonePending
  BY <1>1 DEF NonePending
<1>5. Content' = Content
  BY DEF Content
<1>6. Settled' = Settled
  BY <1>1, <1>2 DEF Settled
<1>7. Placed => Placed'
  <2>1. ASSUME NEW at, NEW p \in Threads, Pending(p), HasPlace(p, at)
        PROVE  HasPlace(p, at)'
    BY <1>2, <1>5, <2>1 DEF HasPlace
  <2> QED
    BY <1>1, <1>5, <1>6, <2>1 DEF Placed
<1>8. \A kind, pos, before : Undoable(kind, pos, before) => Undoable(kind, pos, before)'
  BY <1>1, <1>2, <1>4 DEF Undoable, BackedUp
<1>9. ASSUME ~Rewriting, NEW kind, NEW req, NEW pos, NEW before,
             Remembered(kind, req, pos, before)', req = latest'
      PROVE  Undoable(kind, pos, before)'
  <2>1. CASE kind \in {"WRITE", "REPLACE"}
    <3>1. PICK p : Remembered(kind, req, p, before) /\ (kind = "WRITE" => p = pos)
      BY <1>9, <2>1
    <3>2. Undoable(kind, p, before)'
      BY <1>8, <1>9, <3>1 DEF BoardInv
    <3> QED
      BY <3>1, <3>2 DEF Undoable
  <2>2. CASE kind \notin {"WRITE", "REPLACE"}
    BY <2>2 DEF Undoable
  <2> QED
    BY <2>1, <2>2
<1>10. BackedUp(expected)' <=> BackedUp(expected)
  BY DEF BackedUp
<1> QED
  BY <1>3, <1>4, <1>7, <1>9, <1>10 DEF BoardInv

LEMMA BoardOutside ==
    ASSUME ShapeInv, BoardInv, NEW t \in Threads, accidents' = {},
           \/ \E op \in Commands, id \in 0..MaxCommands : Begin(t, op, id)
           \/ StoreNumber(t) \/ OpenBoard(t) \/ Abort(t) \/ Lock(t) \/ Wake(t)
           \/ Unlock(t) \/ Tell(t)
    PROVE  BoardInv'
<1>0. Command(t) /\ UNCHANGED <<file, orig, backup, expected, latest>> /\ accidents = {}
  BY DEF Command, Begin, StoreNumber, OpenBoard, Abort, Lock, Wake, Unlock, Tell,
     Accident, fileVars, ghosts, boardVars
<1>1. \A u \in Threads \ {t} : cmd'[u] = cmd[u]
  BY <1>0, OthersKeep
<1>2. CASE \/ \E op \in Commands, id \in 0..MaxCommands : Begin(t, op, id)
           \/ StoreNumber(t) \/ OpenBoard(t) \/ Abort(t) \/ Lock(t)
  <2>1. /\ cmd[t].step \in {"idle", "number", "open", "lock"}
        /\ cmd'[t].step \in {"number", "open", "create", "lock", "inside", "idle"}
    <3>1. CASE \E op \in Commands, id \in 0..MaxCommands : Begin(t, op, id)
      BY <3>1, MoveBegin DEF At
    <3>2. CASE StoreNumber(t) \/ OpenBoard(t) \/ Abort(t) \/ Lock(t)
      BY <3>2, MoveBefore DEF At, MovesOn, MovesTo, IdleCmd
    <3> QED
      BY <1>2, <3>1, <3>2
  <2>2. undo' = undo
    BY <1>2 DEF Begin, StoreNumber, OpenBoard, Abort, Lock
  <2>3. \A kind, req, pos, before :
           Remembered(kind, req, pos, before)' => Remembered(kind, req, pos, before)
    BY <1>1, <2>1, <2>2 DEF Remembered, Local
  <2>4. ~Pending(t) /\ ~Pending(t)' /\ ~At(t, "rewrite") /\ ~At(t, "rewrite")'
    BY <2>1 DEF Pending, At
  <2> QED
    BY <1>0, <1>1, <2>3, <2>4, BoardKeeps
<1>3. CASE Wake(t)
  <2>1. cmd' = cmd /\ undo' = undo
    BY <1>3 DEF Wake, boardVars
  <2>2. \A kind, req, pos, before :
           Remembered(kind, req, pos, before)' => Remembered(kind, req, pos, before)
    BY <2>1 DEF Remembered
  <2> QED
    BY <1>0, <1>1, <2>1, <2>2, BoardKeeps DEF Pending, At
<1>4. CASE Unlock(t)
  <2>0. At(t, "unlock") /\ undo' = undo
    BY <1>4, MoveAfter DEF Unlock
  <2>1. CASE cmd[t].op \in {"WRITE", "REPLACE"}
    <3>1. MovesOn(t, "tell")
      BY <1>4, <2>1, MoveAfter
    <3>2. \A kind, req, pos, before :
             Remembered(kind, req, pos, before)' => Remembered(kind, req, pos, before)
      BY <1>1, <2>0, <3>1 DEF Remembered, Local, MovesOn, MovesTo, At
    <3>3. (Pending(t)' <=> Pending(t)) /\ ~At(t, "rewrite") /\ ~At(t, "rewrite")'
      BY <2>0, <3>1 DEF Pending, Local, At, MovesOn, MovesTo
    <3> QED
      BY <1>0, <1>1, <3>1, <3>2, <3>3, BoardKeeps DEF MovesOn, MovesTo
  <2>2. CASE cmd[t].op \notin {"WRITE", "REPLACE"}
    <3>1. cmd'[t] = IdleCmd
      BY <1>4, <2>2, MoveAfter
    <3>2. \A kind, req, pos, before :
             Remembered(kind, req, pos, before)' => Remembered(kind, req, pos, before)
      BY <1>1, <2>0, <3>1 DEF Remembered, Local, IdleCmd
    <3>3. ~Pending(t) /\ ~Pending(t)' /\ ~At(t, "rewrite") /\ ~At(t, "rewrite")'
      BY <2>0, <2>2, <3>1 DEF Pending, At, IdleCmd
    <3> QED
      BY <1>0, <1>1, <3>2, <3>3, BoardKeeps
  <2> QED
    BY <2>1, <2>2
<1>5. CASE Tell(t)
  <2>0. At(t, "tell") /\ cmd[t].op \in {"WRITE", "REPLACE"}
        /\ ~At(t, "rewrite") /\ ~At(t, "rewrite")'
    BY <1>5, MoveAfter DEF At, MovesOn, MovesTo, IdleCmd
  <2>1. Pending(t)' <=> Pending(t)
    BY <1>5, <2>0, MoveAfter DEF Pending, Local, At, MovesOn, MovesTo, IdleCmd
  <2>2. Pending(t) => MovesOn(t, "close")
    BY <1>5, MoveAfter
  <2>3. cmd'[t].step \notin {"unlock", "tell"}
    BY <1>5, MoveAfter DEF MovesOn, MovesTo, IdleCmd
  <2>4. ASSUME NEW kind, NEW req, NEW pos, NEW before,
               Remembered(kind, req, pos, before)', kind \in {"WRITE", "REPLACE"}
        PROVE  \E p : /\ Remembered(kind, req, p, before)
                      /\ kind = "WRITE" => p = pos
    <3>1. CASE \E u \in Threads :
                  /\ Local(u) /\ cmd'[u].step \in {"unlock", "tell"}
                  /\ kind = cmd'[u].op /\ req = cmd'[u].req
                  /\ pos = cmd'[u].pos /\ before = cmd'[u].before
      BY <1>1, <2>3, <3>1 DEF Remembered
    <3>2. CASE /\ kind = undo'.kind /\ req = undo'.req
               /\ pos = undo'.pos /\ before = undo'.before
      <4>1. Local(t)
        BY <1>5, <2>4, <3>2, Found DEF Tell, Cleared
      <4>2. undo' = [kind |-> cmd[t].op, before |-> cmd[t].before,
                     req |-> cmd[t].req,
                     pos |-> IF cmd[t].op = "WRITE" THEN cmd[t].pos ELSE undo.pos]
        BY <1>5, <4>1 DEF Tell
      <4>3. /\ kind = cmd[t].op /\ before = cmd[t].before /\ req = cmd[t].req
            /\ kind = "WRITE" => pos = cmd[t].pos
        BY <3>2, <4>2
      <4>4. Remembered(kind, req, cmd[t].pos, before)
        BY <2>0, <4>1, <4>3 DEF Remembered, At
      <4> QED
        BY <4>3, <4>4
    <3> QED
      BY <2>4, <3>1, <3>2 DEF Remembered, Local
  <2> QED
    BY <1>0, <1>1, <2>0, <2>1, <2>2, <2>4, BoardKeeps DEF MovesOn, MovesTo
<1> QED
  BY <1>2, <1>3, <1>4, <1>5

\* open() truncates, and creates: there was nothing to lose.
LEMMA BoardCreate ==
    ASSUME ShapeInv, BoardInv, NEW t \in Threads, accidents' = {}, CreateBoard(t)
    PROVE  BoardInv'
<1>0. /\ Command(t) /\ UNCHANGED <<backup, undo, expected, latest>> /\ accidents = {}
      /\ Content = <<>>
  BY DEF Command, CreateBoard, Accident
<1>1. \A u \in Threads \ {t} : cmd'[u] = cmd[u]
  BY <1>0, OthersKeep
<1>2. /\ cmd[t].step = "create" /\ cmd'[t].step = "lock"
      /\ ~Pending(t) /\ ~Pending(t)' /\ ~At(t, "rewrite") /\ ~At(t, "rewrite")'
  BY MoveBefore DEF At, MovesTo, Pending
<1>3. \A kind, req, pos, before :
         Remembered(kind, req, pos, before)' => Remembered(kind, req, pos, before)
  BY <1>0, <1>1, <1>2 DEF Remembered, Local
<1>4. CASE orig # 0
  <2>1. /\ UNCHANGED orig /\ orig \in DOMAIN file /\ file \in Seq(Board)
        /\ file[orig] = <<>> /\ file' = [file EXCEPT ![orig] = <<>>]
    BY <1>0, <1>4, Found DEF CreateBoard, Content
  <2>2. file' = file
    BY <2>1
  <2> QED
    BY <1>0, <1>1, <1>2, <1>3, <2>1, <2>2, BoardKeeps
<1>5. CASE orig = 0
  <2>1. /\ file' = Append(file, <<>>) /\ orig' = Len(file') /\ file \in Seq(Board)
        /\ <<>> \in Board /\ Len(file) \in Nat /\ backup \in 0..Len(file)
    BY <1>5, Found DEF CreateBoard
  <2>2. /\ orig' = Len(file) + 1 /\ file'[orig'] = <<>>
        /\ \A n \in 1..Len(file) : file'[n] = file[n]
    BY <2>1, NewFile
  <2>3. orig' # 0 /\ orig' # backup /\ Content' = Content
    BY <1>0, <2>1, <2>2 DEF Content
  <2>4. \A p \in Threads : Pending(p)' <=> Pending(p)
    BY <1>1, <1>2 DEF Pending, Local
  <2>5. \A p \in Threads : Pending(p) => cmd'[p] = cmd[p] /\ cmd'[p].fd # orig'
    <3>1. \A p \in Threads : cmd[p].fd \in 0..Len(file)
      BY Found
    <3> QED
      BY <1>1, <1>2, <2>1, <2>2, <3>1
  <2>6. Settled' = Settled
    BY <1>0, <2>4, <2>5 DEF Settled
  <2>7. BackedUp(expected) => BackedUp(expected)'
    BY <1>0, <2>1, <2>2 DEF BackedUp
  <2>8. Placed => Placed'
    <3>1. ASSUME NEW at, NEW p \in Threads, Pending(p), HasPlace(p, at)
          PROVE  HasPlace(p, at)'
      BY <1>0, <2>5, <3>1 DEF HasPlace, Record
    <3> QED
      BY <1>0, <2>3, <2>4, <2>6, <3>1 DEF Placed
  <2>9. ASSUME NEW kind, NEW pos, NEW before, Undoable(kind, pos, before)
        PROVE  Undoable(kind, pos, before)'
    <3>1. kind # "WRITE"
      BY <1>5, <2>9 DEF Undoable
    <3>2. BackedUp(before) => BackedUp(before)'
      BY <1>0, <2>1, <2>2 DEF BackedUp
    <3> QED
      BY <2>4, <2>9, <3>1, <3>2 DEF Undoable, NonePending
  <2>10. /\ Rewriting' <=> Rewriting
         /\ NonePending' <=> NonePending
    BY <1>1, <1>2, <2>4 DEF Rewriting, At, NonePending
  <2> QED
    BY <1>0, <1>3, <2>3, <2>7, <2>8, <2>9, <2>10 DEF BoardInv
<1> QED
  BY <1>4, <1>5

\* A LOCAL record goes to the end of the board, and of expected.
LEMMA BoardPutLocal ==
    ASSUME ShapeInv, NameInv, BoardInv, NEW t \in Threads, accidents' = {},
           Put(t), Local(t)
    PROVE  BoardInv'
<1>0. /\ accidents = {} /\ ~Rewriting /\ Command(t)
      /\ UNCHANGED <<orig, backup, undo>>
      /\ expected' = Append(expected, Record(t)) /\ latest' = cmd[t].req
  <2>1. ~Rewrite(t)
    BY MoveInside DEF At
  <2> QED
    BY <2>1, NoOtherRewrites DEF Put, Effect, Command
<1>1. \A u \in Threads \ {t} : cmd'[u] = cmd[u]
  BY <1>0, OthersKeep
<1>2. /\ cmd[t].step = "inside" /\ cmd'[t].step = "unlock" /\ cmd'[t].op = "WRITE"
      /\ cmd'[t].pos = file[cmd[t].fd] /\ cmd'[t].before = expected
      /\ cmd'[t].req = cmd[t].req /\ cmd[t].fd # 0
  BY MoveInside DEF At, MovesTo
<1>3. cmd[t].fd = orig
  BY DEF Put, Accident, Stray
<1> DEFINE rec == Record(t)
           n == Len(expected) + 1
<1>4. /\ orig \in DOMAIN file /\ file \in Seq(Board) /\ orig # 0
      /\ Content = file[orig] /\ Content \in Board /\ expected \in Board
      /\ rec \in LineType /\ rec.text = cmd[t].req /\ rec = Line(cmd[t].id, cmd[t].req)
      /\ cmd[t].id \in Int /\ Append(Content, rec) \in Board
      /\ file' = [file EXCEPT ![orig] = Append(Content, rec)]
  <2>1. Content = file[orig] /\ Content \in Board /\ rec \in LineType
    BY <1>2, <1>3, Found DEF Content
  <2>2. Append(Content, rec) \in Board
    BY <2>1, AppendBoard
  <2> QED
    BY <1>2, <1>3, <2>1, <2>2, Found DEF Record, Put
<1>5. Content' = Append(Content, rec) /\ file'[orig] = Append(Content, rec)
  BY <1>0, <1>4, ChangedFile DEF Content
<1>6. /\ DOMAIN expected = 1..Len(expected) /\ DOMAIN Content = 1..Len(Content)
      /\ Len(Content) \in Nat /\ Len(expected) \in Nat
      /\ expected' \in Board /\ DOMAIN expected' = 1..n
      /\ \A i \in 1..Len(expected) : expected'[i] = expected[i]
      /\ expected'[n] = rec /\ Len(Content') = Len(Content) + 1
  BY <1>0, <1>4, <1>5, LinesOf, AppendBoard
<1> HIDE DEF rec, n
<1>7. \A p \in Threads : (Pending(p)' <=> Pending(p)) /\ (Pending(p) => p # t)
  BY <1>1, <1>2 DEF Pending, Local
<1>8. \A p \in Threads : Pending(p) => cmd'[p] = cmd[p] /\ cmd[p].req # cmd[t].req
  <2>1. \A p \in Threads : Pending(p) => Active(p)
    BY DEF Pending, Active, At
  <2>2. Active(t)
    BY <1>2 DEF Active, At
  <2> QED
    BY <1>1, <1>7, <2>1, <2>2 DEF NameInv
<1>9. cmd[t].req \notin Texts(expected)
  BY <1>2, SeenParts DEF NameInv, Early
<1>a. /\ \A i \in DOMAIN expected :
            i < n /\ i \in DOMAIN expected' /\ expected'[i] = expected[i]
      /\ n \in DOMAIN expected' /\ n \notin DOMAIN expected
      /\ \A i \in DOMAIN expected' : (i \in DOMAIN expected) \/ i = n
  <2>1. /\ \A i \in 1..Len(expected) : i < n /\ i \in 1..n
        /\ n \in 1..n /\ n \notin 1..Len(expected)
        /\ \A i \in 1..n : i \in 1..Len(expected) \/ i = n
    BY <1>6 DEF n
  <2> QED
    BY <1>6, <2>1
<1>b. Settled \subseteq DOMAIN expected /\ Settled' \subseteq DOMAIN expected'
  BY DEF Settled
<1>10. Settled' = Settled \cup {n}
  <2>1. \A i \in DOMAIN expected : i \in Settled' <=> i \in Settled
    <3>1. ASSUME NEW i \in DOMAIN expected
          PROVE  i \in Settled' <=> i \in Settled
      <4>1. /\ i \in DOMAIN expected' /\ expected'[i] = expected[i]
        BY <1>a
      <4>2. \A p \in Threads : (Pending(p)' => cmd'[p].req # expected'[i].text)
                               <=> (Pending(p) => cmd[p].req # expected[i].text)
        BY <1>7, <1>8, <4>1
      <4> QED
        BY <4>1, <4>2 DEF Settled
    <3> QED
      BY <3>1
  <2>2. n \in Settled'
    <3>1. \A p \in Threads : Pending(p)' => cmd'[p].req # expected'[n].text
      BY <1>4, <1>6, <1>7, <1>8
    <3> QED
      BY <1>a, <3>1 DEF Settled
  <2> QED
    BY <2>1, <2>2, <1>a, <1>b
<1>11. Placed'
  <2>1. PICK at : /\ Lays(at, Content, expected, Settled)
                  /\ \A p \in Threads : Pending(p) => HasPlace(p, at)
    BY <1>0 DEF BoardInv, Placed
  <2>3. Lays(at, Content, expected', Settled)
    BY <1>a, <1>b, <2>1, LaysOther
  <2>4. \A i \in DOMAIN Content : at[i] \in DOMAIN expected /\ at[i] < n
    BY <1>a, <1>b, <2>1 DEF Lays
  <2>5. PICK more : /\ Lays(more, Append(Content, expected'[n]), expected', Settled \cup {n})
                    /\ \A i \in DOMAIN Content : more[i] = at[i]
    <3>1. n \in DOMAIN expected' /\ n \notin Settled /\ Settled \subseteq DOMAIN expected'
      BY <1>a, <1>b
    <3>2. Content \in Board /\ expected' \in Board
      BY <1>4, <1>6
    <3>3. \A i \in DOMAIN Content : at[i] < n
      BY <2>4
    <3>4. OneMore(at, Content, expected', Settled, n)
      BY <2>3, <3>1, <3>2, <3>3, LaysMore
    <3> QED
      BY <3>4 DEF OneMore
  <2>6. Lays(more, Content', expected', Settled')
    BY <1>5, <1>6, <1>10, <2>5
  <2>7. ASSUME NEW p \in Threads, Pending(p) PROVE HasPlace(p, more)'
    <3>1. PICK k \in DOMAIN expected :
             /\ \A j \in DOMAIN expected : expected[j].text = cmd[p].req <=> j = k
             /\ expected[k] = Record(p)
             /\ cmd[p].fd = orig =>
                    /\ Len(cmd[p].pos) <= Len(Content)
                    /\ \A i \in 1..Len(cmd[p].pos) : at[i] < k
      BY <2>1, <2>7 DEF HasPlace
    <3>2. Len(cmd[p].pos) \in Nat /\ cmd'[p] = cmd[p]
      BY <1>8, <2>7, Found, LinesOf
    <3>3. k \in DOMAIN expected' /\ expected'[k] = Record(p)'
      BY <1>a, <3>1, <3>2 DEF Record
    <3>4. \A j \in DOMAIN expected' : expected'[j].text = cmd'[p].req <=> j = k
      <4>1. expected'[n].text # cmd'[p].req /\ n # k
        BY <1>4, <1>6, <1>8, <1>a, <2>7
      <4> QED
        BY <1>a, <3>1, <3>2, <4>1
    <3>5. ASSUME cmd'[p].fd = orig'
          PROVE  /\ Len(cmd'[p].pos) <= Len(Content')
                 /\ \A i \in 1..Len(cmd'[p].pos) : more[i] < k
      <4>1. cmd[p].fd = orig /\ cmd'[p].pos = cmd[p].pos
        BY <1>0, <3>2, <3>5
      <4>2. /\ Len(cmd[p].pos) <= Len(Content)
            /\ \A i \in 1..Len(cmd[p].pos) : at[i] < k
        BY <3>1, <4>1
      <4>3. \A i \in 1..Len(cmd[p].pos) : i \in DOMAIN Content
        BY <1>6, <3>2, <4>2
      <4>4. Len(Content) \in Nat /\ Len(Content') = Len(Content) + 1
        BY <1>6
      <4>5. Len(cmd[p].pos) <= Len(Content')
        BY <3>2, <4>2, <4>4
      <4> QED
        BY <2>5, <4>1, <4>2, <4>3, <4>5
    <3> QED
      BY <3>3, <3>4, <3>5 DEF HasPlace
  <2> QED
    BY <1>7, <2>6, <2>7 DEF Placed
<1>12. ASSUME NEW kind, NEW req, NEW pos, NEW before,
              Remembered(kind, req, pos, before)', req = latest'
       PROVE  Undoable(kind, pos, before)'
  <2>1. kind = "WRITE" /\ pos = Content /\ before = expected
    <3>1. Active(t) /\ Active(t)' /\ undo'.req = undo.req
      BY <1>0, <1>2 DEF Active, At
    <3>2. Remembered(kind, cmd[t].req, pos, before)'
      BY <1>0, <1>2, <1>12 DEF Remembered
    <3> QED
      BY <1>1, <1>2, <1>3, <1>4, <3>1, <3>2, NewlyLatest
  <2>2. orig' # 0 /\ Stands(file'[orig'], pos) /\ Len(file'[orig']) = Len(pos) + 1
    <3>1. Stands(Append(Content, rec), Content)
      BY <1>4, StandsBefore
    <3> QED
      BY <1>0, <1>4, <1>5, <1>6, <2>1, <3>1
  <2>3. \E id \in Int : expected' = Append(before, Line(id, latest'))
    BY <1>0, <1>4, <2>1 DEF rec
  <2>4. ASSUME NEW p \in Threads, Pending(p)', cmd'[p].fd = orig'
        PROVE  Len(cmd'[p].pos) <= Len(pos)
    <3>1. Pending(p) /\ cmd[p].fd = orig /\ cmd'[p].pos = cmd[p].pos
      BY <1>0, <1>7, <1>8, <2>4
    <3>2. \E at : HasPlace(p, at)
      BY <1>0, <3>1 DEF BoardInv, Placed
    <3> QED
      BY <2>1, <3>1, <3>2 DEF HasPlace
  <2> QED
    BY <2>1, <2>2, <2>3, <2>4 DEF Undoable
<1>13. ~Rewriting' /\ orig' # 0 /\ orig' # backup'
  BY <1>0, <1>1, <1>2, <1>4 DEF Rewriting, At, BoardInv
<1> QED
  BY <1>11, <1>12, <1>13 DEF BoardInv

\* A client's record has its place in expected before it goes to the board.
LEMMA BoardPutClient ==
    ASSUME ShapeInv, NameInv, BoardInv, NEW t \in Threads, accidents' = {},
           Put(t), ~Local(t)
    PROVE  BoardInv'
<1>0. /\ accidents = {} /\ ~Rewriting /\ Command(t)
      /\ UNCHANGED <<file, orig, backup, undo>>
      /\ expected' = Append(expected, Record(t)) /\ latest' = cmd[t].req
  <2>1. ~Rewrite(t)
    BY MoveInside DEF At
  <2> QED
    BY <2>1, NoOtherRewrites DEF Put, Effect, Command
<1>1. \A u \in Threads \ {t} : cmd'[u] = cmd[u]
  BY <1>0, OthersKeep
<1>2. /\ cmd[t].step = "inside" /\ cmd'[t].step = "unlock" /\ cmd'[t].op = "WRITE"
      /\ cmd'[t].pos = file[cmd[t].fd] /\ cmd'[t].fd = cmd[t].fd
      /\ cmd'[t].req = cmd[t].req /\ cmd'[t].id = cmd[t].id
  BY MoveInside DEF At, MovesTo
<1> DEFINE rec == Record(t)
           n == Len(expected) + 1
<1>4. /\ Content \in Board /\ expected \in Board /\ rec \in LineType
      /\ rec.text = cmd[t].req /\ Content' = Content
  BY <1>0, Found DEF Content
<1>6. /\ DOMAIN expected = 1..Len(expected) /\ DOMAIN Content = 1..Len(Content)
      /\ Len(Content) \in Nat /\ Len(expected) \in Nat
      /\ expected' \in Board /\ DOMAIN expected' = 1..n
      /\ \A i \in 1..Len(expected) : expected'[i] = expected[i]
      /\ expected'[n] = rec
  BY <1>0, <1>4, LinesOf, AppendBoard
<1>5. rec = Record(t)'
  BY <1>2 DEF Record
<1> HIDE DEF rec, n
<1>a. /\ \A i \in DOMAIN expected :
            i < n /\ i \in DOMAIN expected' /\ expected'[i] = expected[i]
      /\ n \in DOMAIN expected' /\ n \notin DOMAIN expected
      /\ \A i \in DOMAIN expected' : (i \in DOMAIN expected) \/ i = n
  <2>1. /\ \A i \in 1..Len(expected) : i < n /\ i \in 1..n
        /\ n \in 1..n /\ n \notin 1..Len(expected)
        /\ \A i \in 1..n : i \in 1..Len(expected) \/ i = n
    BY <1>6 DEF n
  <2> QED
    BY <1>6, <2>1
<1>7. /\ ~Pending(t) /\ Pending(t)'
      /\ \A p \in Threads \ {t} : Pending(p)' <=> Pending(p)
  BY <1>1, <1>2 DEF Pending, Local
<1>8. \A p \in Threads : Pending(p) => cmd'[p] = cmd[p] /\ cmd[p].req # cmd[t].req
  <2>1. \A p \in Threads : Pending(p) => Active(p)
    BY DEF Pending, Active, At
  <2>2. Active(t)
    BY <1>2 DEF Active, At
  <2> QED
    BY <1>1, <1>7, <2>1, <2>2 DEF NameInv
<1>9. \A i \in DOMAIN expected : expected[i].text # cmd[t].req
  <2>1. cmd[t].req \notin Texts(expected)
    BY <1>2, SeenParts DEF NameInv, Early
  <2> QED
    BY <2>1 DEF Texts
<1>b. Settled \subseteq DOMAIN expected /\ Settled' \subseteq DOMAIN expected'
  BY DEF Settled
<1>10. Settled' = Settled
  <2>1. ASSUME NEW i \in DOMAIN expected
        PROVE  i \in Settled' <=> i \in Settled
    <3>1. i \in DOMAIN expected' /\ expected'[i] = expected[i]
      BY <1>a
    <3>2. cmd'[t].req # expected'[i].text
      BY <1>2, <1>9, <3>1
    <3>3. \A p \in Threads : (Pending(p)' => cmd'[p].req # expected'[i].text)
                             <=> (Pending(p) => cmd[p].req # expected[i].text)
      BY <1>7, <1>8, <3>1, <3>2
    <3> QED
      BY <3>1, <3>3 DEF Settled
  <2>2. n \notin Settled'
    BY <1>2, <1>4, <1>6, <1>7 DEF Settled
  <2> QED
    BY <2>1, <2>2, <1>a, <1>b
<1>11. Placed'
  <2>1. PICK at : /\ Lays(at, Content, expected, Settled)
                  /\ \A p \in Threads : Pending(p) => HasPlace(p, at)
    BY <1>0 DEF BoardInv, Placed
  <2>2. Lays(at, Content, expected', Settled)
    BY <1>a, <1>b, <2>1, LaysOther
  <2>3. Lays(at, Content', expected', Settled')
    BY <1>4, <1>10, <2>2
  <2>4. \A i \in DOMAIN Content : at[i] \in DOMAIN expected /\ at[i] < n
    BY <1>a, <1>b, <2>1 DEF Lays
  <2>5. HasPlace(t, at)'
    <3>1. n \in DOMAIN expected' /\ expected'[n] = Record(t)'
      BY <1>5, <1>6, <1>a
    <3>2. \A j \in DOMAIN expected' : expected'[j].text = cmd'[t].req <=> j = n
      BY <1>2, <1>4, <1>6, <1>9, <1>a
    <3>3. ASSUME cmd'[t].fd = orig'
          PROVE  /\ Len(cmd'[t].pos) <= Len(Content')
                 /\ \A i \in 1..Len(cmd'[t].pos) : at[i] < n
      <4>1. cmd[t].fd = orig /\ cmd[t].fd # 0
        BY <1>0, <1>2, <3>3, MoveInside
      <4>2. cmd'[t].pos = Content
        BY <1>2, <4>1 DEF Content
      <4> QED
        BY <1>4, <1>6, <2>4, <4>2
    <3> QED
      BY <3>1, <3>2, <3>3 DEF HasPlace
  <2>6. ASSUME NEW p \in Threads, Pending(p) PROVE HasPlace(p, at)'
    <3>1. PICK k \in DOMAIN expected :
             /\ \A j \in DOMAIN expected : expected[j].text = cmd[p].req <=> j = k
             /\ expected[k] = Record(p)
             /\ cmd[p].fd = orig =>
                    /\ Len(cmd[p].pos) <= Len(Content)
                    /\ \A i \in 1..Len(cmd[p].pos) : at[i] < k
      BY <2>1, <2>6 DEF HasPlace
    <3>2. cmd'[p] = cmd[p]
      BY <1>8, <2>6
    <3>3. k \in DOMAIN expected' /\ expected'[k] = Record(p)'
      BY <1>a, <3>1, <3>2 DEF Record
    <3>4. \A j \in DOMAIN expected' : expected'[j].text = cmd'[p].req <=> j = k
      <4>1. expected'[n].text # cmd'[p].req /\ n # k
        BY <1>4, <1>6, <1>8, <1>a, <2>6
      <4> QED
        BY <1>a, <3>1, <3>2, <4>1
    <3>5. cmd'[p].fd = orig' => /\ Len(cmd'[p].pos) <= Len(Content')
                                /\ \A i \in 1..Len(cmd'[p].pos) : at[i] < k
      BY <1>0, <1>4, <3>1, <3>2
    <3> QED
      BY <3>3, <3>4, <3>5 DEF HasPlace
  <2>7. \A p \in Threads : Pending(p)' => HasPlace(p, at)'
    BY <1>7, <2>5, <2>6
  <2> QED
    BY <2>3, <2>7 DEF Placed
<1>12. ASSUME NEW kind, NEW req, NEW pos, NEW before,
              Remembered(kind, req, pos, before)', req = latest'
       PROVE  FALSE
  <2>1. Active(t) /\ Active(t)' /\ undo'.req = undo.req
    BY <1>0, <1>2 DEF Active, At
  <2>2. Remembered(kind, cmd[t].req, pos, before)'
    BY <1>0, <1>2, <1>12 DEF Remembered
  <2> QED
    BY <1>1, <1>2, <2>1, <2>2, NewlyLatest
<1>13. ~Rewriting'
  BY <1>0, <1>1, <1>2 DEF Rewriting, At
<1>14. /\ orig' # 0 => orig' # backup'
       /\ orig' = 0 => backup' = 0
  BY <1>0 DEF BoardInv
<1> QED
  BY <1>11, <1>12, <1>13, <1>14 DEF BoardInv

\* The record of t reaches the board: nothing has come before it.
LEMMA BoardClose ==
    ASSUME ShapeInv, NameInv, BoardInv, NEW t \in Threads, accidents' = {},
           Close(t)
    PROVE  BoardInv'
<1>0. /\ Command(t) /\ UNCHANGED <<orig, backup, undo, expected, latest>>
      /\ accidents = {}
      /\ cmd[t].fd = orig /\ file[cmd[t].fd] = cmd[t].pos
  BY DEF Command, Close, Accident, Stray
<1>1. \A u \in Threads \ {t} : cmd'[u] = cmd[u]
  BY <1>0, OthersKeep
<1>2. /\ cmd[t].step = "close" /\ Pending(t) /\ orig # 0 /\ cmd'[t] = IdleCmd
  BY <1>0, MoveAfter DEF At
<1>3. ~Rewriting /\ Placed
  BY <1>0, <1>2 DEF BoardInv, NonePending
<1> DEFINE rec == Record(t)
<1>4. /\ orig \in DOMAIN file /\ file \in Seq(Board) /\ expected \in Board
      /\ Content = file[orig] /\ Content \in Board /\ Content = cmd[t].pos
      /\ rec \in LineType /\ rec.text = cmd[t].req /\ Append(Content, rec) \in Board
      /\ file' = [file EXCEPT ![orig] = Append(Content, rec)]
  <2>1. /\ Content = file[orig] /\ Content \in Board /\ rec \in LineType
        /\ Content = cmd[t].pos /\ Len(Content) \in Nat
    BY <1>0, <1>2, Found, LinesOf DEF Content
  <2>2. Append(Content, rec) \in Board
    BY <2>1, AppendBoard
  <2>3. WriteAt(file[orig], cmd[t].pos, rec) = Append(Content, rec)
    BY <2>1 DEF WriteAt
  <2> QED
    BY <1>0, <1>2, <2>1, <2>2, <2>3, Found DEF Close
<1>5. /\ Content' = Append(Content, rec) /\ file'[orig] = Append(Content, rec)
      /\ backup # 0 => backup \in DOMAIN file /\ file'[backup] = file[backup]
  <2>1. file'[orig] = Append(Content, rec)
        /\ \A n \in DOMAIN file : n # orig => file'[n] = file[n]
    BY <1>4, ChangedFile
  <2>2. backup # orig /\ (backup # 0 => backup \in DOMAIN file)
    BY <1>0, <1>2, Found DEF BoardInv
  <2> QED
    BY <1>0, <1>2, <2>1, <2>2 DEF Content
<1>6. /\ DOMAIN Content = 1..Len(Content) /\ Len(Content) \in Nat
      /\ Len(Content') = Len(Content) + 1
  BY <1>4, <1>5, LinesOf, AppendBoard
<1> HIDE DEF rec
<1>7. /\ ~Pending(t)' /\ \A p \in Threads \ {t} : Pending(p)' <=> Pending(p)
  BY <1>1, <1>2 DEF Pending, Local, IdleCmd
<1>8. \A p \in Threads \ {t} : Pending(p) => cmd'[p] = cmd[p] /\ cmd[p].req # cmd[t].req
  <2>1. \A p \in Threads : Pending(p) => Active(p)
    BY DEF Pending, Active, At
  <2> QED
    BY <1>1, <1>2, <2>1 DEF NameInv
<1>9. PICK at : /\ Lays(at, Content, expected, Settled)
                /\ \A p \in Threads : Pending(p) => HasPlace(p, at)
  BY <1>3 DEF Placed
<1>10. PICK k \in DOMAIN expected :
          /\ \A j \in DOMAIN expected : expected[j].text = cmd[t].req <=> j = k
          /\ expected[k] = rec
          /\ \A i \in 1..Len(cmd[t].pos) : at[i] < k
  BY <1>0, <1>2, <1>9 DEF HasPlace, rec
<1>11. k \notin Settled /\ Settled' = Settled \cup {k}
  <2>1. k \notin Settled
    BY <1>2, <1>10 DEF Settled
  <2>2. k \in Settled'
    BY <1>0, <1>7, <1>8, <1>10 DEF Settled
  <2>3. ASSUME NEW i \in DOMAIN expected, i # k PROVE i \in Settled' <=> i \in Settled
    <3>1. cmd[t].req # expected[i].text
      BY <1>10, <2>3
    <3>2. \A p \in Threads : (Pending(p)' => cmd'[p].req # expected[i].text)
                             <=> (Pending(p) => cmd[p].req # expected[i].text)
      BY <1>7, <1>8, <3>1
    <3> QED
      BY <1>0, <3>2 DEF Settled
  <2>4. Settled' \subseteq DOMAIN expected /\ Settled \subseteq DOMAIN expected
    BY <1>0 DEF Settled
  <2> QED
    BY <2>1, <2>2, <2>3, <2>4
<1>12. Placed'
  <2>1. OneMore(at, Content, expected, Settled, k)
    <3>1. Settled \subseteq DOMAIN expected /\ \A i \in DOMAIN Content : at[i] < k
      BY <1>4, <1>6, <1>10 DEF Settled
    <3> QED
      BY <1>4, <1>9, <1>10, <1>11, <3>1, LaysMore
  <2>2. PICK more : /\ Lays(more, Append(Content, expected[k]), expected, Settled \cup {k})
                    /\ \A i \in DOMAIN Content : more[i] = at[i]
    BY <2>1 DEF OneMore
  <2>3. Lays(more, Content', expected', Settled')
    BY <1>0, <1>5, <1>10, <1>11, <2>2
  <2>4. ASSUME NEW p \in Threads \ {t}, Pending(p) PROVE HasPlace(p, more)'
    <3>1. PICK m \in DOMAIN expected :
             /\ \A j \in DOMAIN expected : expected[j].text = cmd[p].req <=> j = m
             /\ expected[m] = Record(p)
             /\ cmd[p].fd = orig =>
                    /\ Len(cmd[p].pos) <= Len(Content)
                    /\ \A i \in 1..Len(cmd[p].pos) : at[i] < m
      BY <1>9, <2>4 DEF HasPlace
    <3>2. Len(cmd[p].pos) \in Nat /\ cmd'[p] = cmd[p]
      BY <1>8, <2>4, Found, LinesOf
    <3>3. m \in DOMAIN expected' /\ expected'[m] = Record(p)'
      BY <1>0, <3>1, <3>2 DEF Record
    <3>4. \A j \in DOMAIN expected' : expected'[j].text = cmd'[p].req <=> j = m
      BY <1>0, <3>1, <3>2
    <3>5. ASSUME cmd'[p].fd = orig'
          PROVE  /\ Len(cmd'[p].pos) <= Len(Content')
                 /\ \A i \in 1..Len(cmd'[p].pos) : more[i] < m
      <4>1. cmd[p].fd = orig /\ cmd'[p].pos = cmd[p].pos
        BY <1>0, <3>2, <3>5
      <4>2. /\ Len(cmd[p].pos) <= Len(Content)
            /\ \A i \in 1..Len(cmd[p].pos) : at[i] < m
        BY <3>1, <4>1
      <4>3. \A i \in 1..Len(cmd[p].pos) : i \in DOMAIN Content
        BY <1>6, <3>2, <4>2
      <4>5. Len(cmd[p].pos) <= Len(Content')
        BY <1>6, <3>2, <4>2
      <4> QED
        BY <2>2, <4>1, <4>2, <4>3, <4>5
    <3> QED
      BY <3>3, <3>4, <3>5 DEF HasPlace
  <2>5. \A p \in Threads : Pending(p)' => HasPlace(p, more)'
    BY <1>7, <2>4
  <2> QED
    BY <2>3, <2>5 DEF Placed
<1>13. ASSUME NEW kind, NEW req, NEW pos, NEW before,
              Remembered(kind, req, pos, before)', req = latest'
       PROVE  Undoable(kind, pos, before)'
  <2>1. Remembered(kind, req, pos, before) /\ req = latest
    BY <1>0, <1>1, <1>2, <1>13 DEF Remembered, IdleCmd
  <2>2. Undoable(kind, pos, before)
    BY <1>0, <1>3, <2>1 DEF BoardInv
  <2>3. kind # "REPLACE"
    BY <1>2, <2>2 DEF Undoable, NonePending
  <2>4. kind # "WRITE"
    <3>1. kind = "WRITE" => Len(Content) = Len(pos) + 1 /\ Len(Content) <= Len(pos)
      BY <1>0, <1>2, <1>4, <2>2 DEF Undoable
    <3>2. pos \in Board
      BY <2>1, Found DEF Remembered
    <3>3. Len(pos) \in Nat
      BY <3>2, LinesOf
    <3> QED
      BY <3>1, <3>3
  <2> QED
    BY <2>3, <2>4 DEF Undoable
<1>14. ~Rewriting'
  BY <1>1, <1>2, <1>3 DEF Rewriting, At, IdleCmd
<1>15. orig' # 0 /\ orig' # backup'
  BY <1>0, <1>2 DEF BoardInv
<1> QED
  BY <1>12, <1>13, <1>14, <1>15 DEF BoardInv

\* The board becomes the backup, with all its lines on it.
LEMMA BoardRename ==
    ASSUME ShapeInv, BoardInv, NEW t \in Threads, accidents' = {}, Rename(t)
    PROVE  BoardInv'
<1>0. /\ accidents = {} /\ ~Rewriting /\ Command(t) /\ UNCHANGED <<file, expected>>
      /\ orig' = 0 /\ backup' = IF orig = 0 THEN backup ELSE orig
      /\ NonePending
  <2>1. ~Rewrite(t)
    BY MoveInside DEF At
  <2> QED
    BY <2>1, NoOtherRewrites DEF Rename, Command, Accident, NonePending
<1>1. \A u \in Threads \ {t} : cmd'[u] = cmd[u]
  BY <1>0, OthersKeep
<1>2. cmd'[t].step = "rewrite"
  BY MoveInside DEF MovesOn, MovesTo
<1>3. NonePending' /\ Rewriting'
  BY <1>0, <1>1, <1>2 DEF NonePending, Pending, Local, Rewriting, At
<1>4. Content = expected
  <2>1. Settled = DOMAIN expected
    BY <1>0 DEF Settled, NonePending
  <2>2. PICK at : Lays(at, Content, expected, DOMAIN expected)
    BY <1>0, <2>1 DEF BoardInv, Placed
  <2> QED
    BY <2>2, Found, LaysAll
<1>5. BackedUp(expected)'
  <2>1. CASE orig = 0
    BY <1>0, <1>4, <2>1 DEF BoardInv, BackedUp, Content
  <2>2. CASE orig # 0
    BY <1>0, <1>4, <2>2 DEF BackedUp, Content
  <2> QED
    BY <2>1, <2>2
<1> QED
  BY <1>0, <1>3, <1>5 DEF BoardInv

\* The copy of the backup is the board, with the new text.
LEMMA BoardRewrite ==
    ASSUME ShapeInv, ShapeInv', NameInv, BoardInv, NEW t \in Threads,
           accidents' = {}, Rewrite(t)
    PROVE  BoardInv'
<1>0. /\ accidents = {} /\ \A u \in Threads \ {t} : ~At(u, "rewrite")
      /\ Command(t) /\ UNCHANGED <<backup, undo>>
      /\ latest' = cmd[t].req
      /\ expected' = ReplaceRecord(expected, cmd[t].id, cmd[t].req)
  BY NoOtherRewrites DEF Rewrite, Effect, Command
<1>1. \A u \in Threads \ {t} : cmd'[u] = cmd[u]
  BY <1>0, OthersKeep
<1>2. /\ cmd[t].step = "rewrite" /\ cmd'[t].step = "unlock" /\ cmd'[t].op = "REPLACE"
      /\ cmd'[t].before = expected /\ cmd'[t].req = cmd[t].req
  BY MoveInside DEF At, MovesTo
<1>3. /\ NonePending /\ BackedUp(expected) /\ (orig # 0 => orig # backup)
  BY <1>0, <1>2 DEF BoardInv, Rewriting, At
<1>4. NonePending' /\ ~Rewriting'
  BY <1>0, <1>1, <1>2, <1>3 DEF NonePending, Pending, Local, Rewriting, At
<1> DEFINE source == IF backup = 0 THEN <<>> ELSE file[backup]
           copy   == ReplaceRecord(source, cmd[t].id, cmd[t].req)
<1>5. source = expected /\ copy = expected'
  BY <1>0, <1>3 DEF BackedUp
<1>6. /\ IF orig = 0
         THEN file' = Append(file, copy) /\ orig' = Len(file')
         ELSE file' = [file EXCEPT ![orig] = copy] /\ UNCHANGED orig
  BY DEF Rewrite
<1> HIDE DEF source, copy
<1>7. /\ file \in Seq(Board) /\ Len(file) \in Nat /\ DOMAIN file = 1..Len(file)
      /\ copy \in Board /\ backup \in 0..Len(file)
      /\ orig # 0 => orig \in DOMAIN file
  BY <1>0, <1>5, Found, ReplaceBoard
<1>8. /\ orig' # 0 /\ orig' # backup' /\ file'[orig'] = copy
      /\ backup # 0 => file'[backup] = file[backup]
  <2>1. CASE orig = 0
    <3>1. /\ file' = Append(file, copy) /\ orig' = Len(file) + 1
          /\ file'[orig'] = copy /\ \A n \in 1..Len(file) : file'[n] = file[n]
      BY <1>6, <1>7, <2>1, NewFile
    <3> QED
      BY <1>0, <1>7, <3>1
  <2>2. CASE orig # 0
    <3>1. /\ UNCHANGED orig /\ file'[orig] = copy
          /\ \A n \in DOMAIN file : n # orig => file'[n] = file[n]
      BY <1>6, <1>7, <2>2, ChangedFile
    <3> QED
      BY <1>0, <1>3, <1>7, <2>2, <3>1
  <2> QED
    BY <2>1, <2>2
<1>9. Placed'
  <2>1. Content' = expected'
    BY <1>5, <1>8 DEF Content
  <2> QED
    BY <1>4, <2>1, WholeBoard
<1>10. BackedUp(expected)
  BY <1>3
<1>11. ASSUME NEW kind, NEW req, NEW pos, NEW before,
              Remembered(kind, req, pos, before)', req = latest'
       PROVE  Undoable(kind, pos, before)'
  <2>1. kind = "REPLACE" /\ before = expected
    <3>1. Active(t) /\ Active(t)' /\ undo'.req = undo.req
      BY <1>0, <1>2 DEF Active, At
    <3>2. Remembered(kind, cmd[t].req, pos, before)'
      BY <1>0, <1>2, <1>11 DEF Remembered
    <3> QED
      BY <1>1, <1>2, <3>1, <3>2, NewlyLatest
  <2>2. BackedUp(before)'
    BY <1>0, <1>8, <1>10, <2>1 DEF BackedUp
  <2> QED
    BY <1>4, <2>1, <2>2 DEF Undoable
<1> QED
  BY <1>4, <1>8, <1>9, <1>11 DEF BoardInv

LEMMA BoardLook ==
    ASSUME ShapeInv, BoardInv, NEW t \in Threads, accidents' = {}, Look(t)
    PROVE  BoardInv'
<1>0. /\ accidents = {} /\ Command(t)
      /\ UNCHANGED <<file, orig, backup, undo, expected, latest>>
  BY NoOtherRewrites DEF Look, Command, fileVars
<1>1. \A u \in Threads \ {t} : cmd'[u] = cmd[u]
  BY <1>0, OthersKeep
<1>2. At(t, "inside") /\ cmd[t].op = "READ" /\ MovesOn(t, "unlock")
  BY MoveInside
<1>3. ~Pending(t) /\ ~Pending(t)' /\ ~At(t, "rewrite") /\ ~At(t, "rewrite")'
  BY <1>2 DEF Pending, At, MovesOn, MovesTo
<1>4. \A kind, req, pos, before :
         Remembered(kind, req, pos, before)' /\ kind \in {"WRITE", "REPLACE"} =>
             Remembered(kind, req, pos, before)
  BY <1>0, <1>1, <1>2 DEF Remembered, Local, MovesOn, MovesTo
<1> QED
  BY <1>0, <1>1, <1>3, <1>4, BoardKeeps

\* The line that is cut off is that of the command.
LEMMA BoardUndoWrite ==
    ASSUME ShapeInv, NameInv, BoardInv, NEW t \in Threads, accidents' = {},
           UndoWrite(t)
    PROVE  BoardInv'
<1>0. /\ accidents = {} /\ ~Rewriting /\ Command(t) /\ UNCHANGED <<orig, backup>>
      /\ expected' = undo.before /\ latest' = cmd[t].req
      /\ Outdated(t) = {} /\ cmd[t].kind = "WRITE"
  <2>1. ~Rewrite(t)
    BY MoveInside DEF At
  <2> QED
    BY <2>1, NoOtherRewrites DEF UndoWrite, Effect, Command, Accident
<1>1. \A u \in Threads \ {t} : cmd'[u] = cmd[u]
  BY <1>0, OthersKeep
<1>2. /\ cmd[t].step = "inside" /\ cmd'[t].step = "unlock" /\ cmd'[t].op = "UNDO"
      /\ cmd[t].op = "UNDO" /\ cmd'[t].req = cmd[t].req
  BY MoveInside DEF At, MovesOn, MovesTo
<1>3. undo.kind = "WRITE" /\ undo.req = latest
  BY <1>0 DEF Outdated
<1>4. Undoable("WRITE", undo.pos, undo.before)
  <2>1. Remembered(undo.kind, undo.req, undo.pos, undo.before)
    BY DEF Remembered
  <2> QED
    BY <1>0, <1>3, <2>1 DEF BoardInv
<1> DEFINE pos == undo.pos
           old == undo.before
           n   == Len(expected)
           c   == Truncate(Content, pos)
           m   == Len(pos)
<1>5. PICK id \in Int : expected = Append(old, Line(id, latest))
  BY <1>4 DEF Undoable
<1>6. /\ orig # 0 /\ orig \in DOMAIN file /\ file \in Seq(Board)
      /\ Content = file[orig] /\ Content \in Board /\ expected \in Board
      /\ pos \in Board /\ Stands(Content, pos) /\ Len(Content) = m + 1
      /\ old \in Board /\ m \in Nat
      /\ Line(id, latest) \in LineType /\ Line(id, latest).text = latest
  <2>1. pos \in Board /\ Len(pos) \in Nat
    BY Found, LinesOf
  <2> QED
    BY <1>4, <2>1, Found, LineIsLine DEF Undoable, Content
<1>7. /\ c \in Board /\ Len(c) = m /\ \A i \in 1..m : c[i] = Content[i]
      /\ Len(Content) \in Nat /\ DOMAIN Content = 1..m + 1 /\ DOMAIN c = 1..m
  <2>1. c = pos
    BY <1>6 DEF Truncate
  <2>2. \A i \in 1..m : pos[i] = Content[i]
    BY <1>6, StandingLines
  <2> QED
    BY <1>6, <2>1, <2>2, LinesOf
<1>8. file' = [file EXCEPT ![orig] = c]
  BY <1>6 DEF UndoWrite
<1> HIDE DEF c
<1>9. Content' = c
  BY <1>0, <1>6, <1>7, <1>8, ChangedFile DEF Content
<1>10. /\ n \in DOMAIN expected /\ expected[n].text = undo.req
       /\ \A i \in DOMAIN expected : i # n => i \in DOMAIN old /\ expected[i] = old[i]
       /\ \A i \in DOMAIN old : i \in DOMAIN expected /\ i # n
  <2>1. /\ DOMAIN old = 1..Len(old) /\ Len(old) \in Nat /\ n = Len(old) + 1
        /\ DOMAIN expected = 1..Len(old) + 1 /\ expected[n] = Line(id, latest)
        /\ \A i \in 1..Len(old) : expected[i] = old[i]
    <3> DEFINE x == Line(id, latest)
    <3>1. x \in LineType /\ old \in Board /\ expected = Append(old, x)
      BY <1>5, <1>6
    <3> HIDE DEF x, old, n
    <3>2. /\ DOMAIN old = 1..Len(old) /\ Len(old) \in Nat
          /\ DOMAIN expected = 1..Len(old) + 1 /\ expected[Len(old) + 1] = x
          /\ \A i \in 1..Len(old) : expected[i] = old[i]
          /\ Len(expected) = Len(old) + 1
      BY <3>1, LinesOf, AppendBoard
    <3> QED
      BY <3>2 DEF x, n
  <2>2. /\ \A i \in 1..Len(old) + 1 : i = n \/ i \in 1..Len(old)
        /\ \A i \in 1..Len(old) : i # n /\ i \in 1..Len(old) + 1
        /\ n \in 1..Len(old) + 1
    BY <2>1
  <2> QED
    BY <1>3, <1>6, <2>1, <2>2
<1> HIDE DEF n, pos, old, m
<1>11. \A p \in Threads : Pending(p)' <=> Pending(p)
  BY <1>1, <1>2 DEF Pending, Local
<1>12. \A p \in Threads : Pending(p) => cmd'[p] = cmd[p] /\ cmd[p].req # undo.req
  <2>1. \A p \in Threads : Pending(p) => Active(p) /\ p # t
    BY <1>2 DEF Pending, Active, At
  <2> QED
    BY <1>1, <2>1 DEF NameInv
<1>13. expected' = old
  BY <1>0 DEF old
<1>14. n \in Settled /\ Settled' = Settled \ {n}
  <2>1. n \in Settled
    BY <1>10, <1>12 DEF Settled
  <2>2. ASSUME NEW i \in DOMAIN old PROVE i \in Settled' <=> i \in Settled
    <3>1. /\ i \in DOMAIN expected /\ i \in DOMAIN expected'
          /\ expected'[i].text = expected[i].text
      BY <1>10, <1>13, <2>2
    <3> QED
      BY <1>11, <1>12, <3>1 DEF Settled
  <2>3. Settled' \subseteq DOMAIN old /\ Settled \subseteq DOMAIN expected
    BY <1>13 DEF Settled
  <2> QED
    BY <1>10, <2>1, <2>2, <2>3
<1>15. Placed'
  <2>1. PICK at : /\ Lays(at, Content, expected, Settled)
                  /\ \A p \in Threads : Pending(p) => HasPlace(p, at)
    BY <1>0 DEF BoardInv, Placed
  <2>2. PICK less : /\ Lays(less, c, expected, Settled \ {n})
                    /\ \A i \in 1..m : less[i] = at[i]
    <3>1. Settled \subseteq DOMAIN expected
      BY DEF Settled
    <3>2. Len(expected) \in Settled
      BY <1>14 DEF n
    <3>3. OneLess(at, c, expected, Settled, m)
      BY <1>6, <1>7, <2>1, <3>1, <3>2, LaysFewer
    <3> QED
      BY <3>3 DEF OneLess, n
  <2>3. Lays(less, Content', expected', Settled')
    <3>1. \A k \in Settled \ {n} : expected'[k] = expected[k]
      BY <1>10, <1>13 DEF Settled
    <3> QED
      BY <1>9, <1>14, <2>2, <3>1, LaysOther
  <2>4. ASSUME NEW p \in Threads, Pending(p) PROVE HasPlace(p, less)'
    <3>1. PICK k \in DOMAIN expected :
             /\ \A j \in DOMAIN expected : expected[j].text = cmd[p].req <=> j = k
             /\ expected[k] = Record(p)
             /\ cmd[p].fd = orig =>
                    /\ Len(cmd[p].pos) <= Len(Content)
                    /\ \A i \in 1..Len(cmd[p].pos) : at[i] < k
      BY <2>1, <2>4 DEF HasPlace
    <3>2. Len(cmd[p].pos) \in Nat /\ cmd'[p] = cmd[p]
      BY <1>12, <2>4, Found, LinesOf
    <3>3. k # n
      BY <1>10, <1>12, <2>4, <3>1
    <3>4. k \in DOMAIN expected' /\ expected'[k] = Record(p)'
      BY <1>10, <1>13, <3>1, <3>2, <3>3 DEF Record
    <3>5. \A j \in DOMAIN expected' : expected'[j].text = cmd'[p].req <=> j = k
      BY <1>10, <1>13, <3>1, <3>2
    <3>6. ASSUME cmd'[p].fd = orig'
          PROVE  /\ Len(cmd'[p].pos) <= Len(Content')
                 /\ \A i \in 1..Len(cmd'[p].pos) : less[i] < k
      <4>1. cmd[p].fd = orig /\ cmd'[p].pos = cmd[p].pos
        BY <1>0, <3>2, <3>6
      <4>2. Len(cmd[p].pos) <= m
        BY <1>4, <2>4, <4>1 DEF Undoable, m, pos
      <4>3. \A i \in 1..Len(cmd[p].pos) : i \in 1..m
        BY <1>6, <3>2, <4>2
      <4> QED
        BY <1>7, <1>9, <2>2, <3>1, <4>1, <4>2, <4>3
    <3> QED
      BY <3>4, <3>5, <3>6 DEF HasPlace
  <2> QED
    BY <1>11, <2>3, <2>4 DEF Placed
<1>16. ASSUME NEW kind, NEW req, NEW p, NEW before,
              Remembered(kind, req, p, before)', req = latest'
       PROVE  Undoable(kind, p, before)'
  <2>1. kind = "UNDO"
    <3>1. Active(t) /\ Active(t)' /\ undo'.req = undo.req
      BY <1>2, Found DEF Active, At, UndoWrite, Cleared
    <3>2. Remembered(kind, cmd[t].req, p, before)'
      BY <1>0, <1>2, <1>16 DEF Remembered
    <3> QED
      BY <1>1, <1>2, <3>1, <3>2, NewlyLatest
  <2> QED
    BY <2>1 DEF Undoable
<1>17. ~Rewriting' /\ orig' # 0 /\ orig' # backup'
  BY <1>0, <1>1, <1>2, <1>6 DEF Rewriting, At, BoardInv
<1> QED
  BY <1>15, <1>16, <1>17 DEF BoardInv

\* The backup is the board the command found.
LEMMA BoardUndoReplace ==
    ASSUME ShapeInv, ShapeInv', NameInv, BoardInv, NEW t \in Threads,
           accidents' = {}, UndoReplace(t)
    PROVE  BoardInv'
<1>0. /\ accidents = {} /\ ~Rewriting /\ Command(t) /\ file' = file
  <2>1. ~Rewrite(t)
    BY MoveInside DEF At
  <2> QED
    BY <2>1, NoOtherRewrites DEF UndoReplace, Command
<1>1. \A u \in Threads \ {t} : cmd'[u] = cmd[u]
  BY <1>0, OthersKeep
<1>2. /\ cmd[t].step = "inside" /\ cmd'[t].step = "unlock" /\ cmd'[t].op = "UNDO"
      /\ cmd[t].op = "UNDO" /\ cmd'[t].req = cmd[t].req
  BY MoveInside DEF At, MovesOn, MovesTo
<1>3. ~Pending(t) /\ ~Pending(t)' /\ ~At(t, "rewrite") /\ ~At(t, "rewrite")'
  BY <1>2 DEF Pending, At
<1>4. CASE orig = 0
  <2>1. UNCHANGED <<file, orig, backup, undo, expected, latest>>
    BY <1>0, <1>4 DEF UndoReplace
  <2>2. \A kind, req, pos, before :
           Remembered(kind, req, pos, before)' /\ kind \in {"WRITE", "REPLACE"} =>
               Remembered(kind, req, pos, before)
    BY <1>1, <1>2, <2>1 DEF Remembered, Local
  <2> QED
    BY <1>0, <1>1, <1>3, <2>1, <2>2, BoardKeeps
<1>5. CASE orig # 0
  <2>1. /\ orig' = backup /\ backup' = 0 /\ expected' = undo.before
        /\ Outdated(t) = {} /\ cmd[t].kind = "REPLACE"
        /\ IF backup = 0 THEN UNCHANGED <<undo, latest>>
           ELSE Cleared /\ latest' = cmd[t].req
    BY <1>5 DEF UndoReplace, Accident
  <2>2. undo.kind = "REPLACE" /\ undo.req = latest
    BY <2>1 DEF Outdated
  <2>3. NonePending /\ BackedUp(undo.before)
    <3>1. Remembered(undo.kind, undo.req, undo.pos, undo.before)
      BY DEF Remembered
    <3> QED
      BY <1>0, <2>2, <3>1 DEF BoardInv, Undoable
  <2>4. NonePending' /\ ~Rewriting'
    BY <1>0, <1>1, <1>2, <1>3, <2>3 DEF NonePending, Pending, Local, Rewriting, At
  <2>5. Placed'
    <3>1. Content' = expected'
      BY <1>0, <2>1, <2>3 DEF Content, BackedUp
    <3> QED
      BY <2>4, <3>1, WholeBoard
  <2>6. ASSUME NEW kind, NEW req, NEW pos, NEW before,
               Remembered(kind, req, pos, before)', req = latest'
        PROVE  Undoable(kind, pos, before)'
    <3>1. CASE backup = 0
      <4>1. undo' = undo /\ req = undo.req
        BY <2>1, <2>2, <2>6, <3>1
      <4>2. \A u \in Threads \ {t} :
               cmd'[u].step \in {"unlock", "tell"} => cmd'[u].req # req
        <5>1. ASSUME NEW u \in Threads \ {t}, cmd'[u].step \in {"unlock", "tell"}
              PROVE  cmd'[u].req # req
          <6>1. Active(u) /\ cmd'[u] = cmd[u]
            BY <1>1, <5>1 DEF Active, At
          <6> QED
            BY <4>1, <6>1 DEF NameInv
        <5> QED
          BY <5>1
      <4>3. kind \in {"REPLACE", "UNDO"}
            /\ (kind = "REPLACE" => before = undo.before)
        BY <1>2, <2>2, <2>6, <4>1, <4>2 DEF Remembered
      <4>4. kind = "REPLACE" => BackedUp(before)'
        BY <2>1, <2>3, <3>1, <4>3 DEF BackedUp
      <4> QED
        BY <2>4, <4>3, <4>4 DEF Undoable
    <3>2. CASE backup # 0
      <4>1. Active(t) /\ Active(t)' /\ undo'.req = undo.req /\ latest' = cmd[t].req
        BY <1>2, <2>1, <3>2, Found DEF Active, At, Cleared
      <4>2. Remembered(kind, cmd[t].req, pos, before)'
        BY <1>2, <2>6, <4>1 DEF Remembered
      <4>3. kind = "UNDO"
        BY <1>1, <1>2, <4>1, <4>2, NewlyLatest
      <4> QED
        BY <4>3 DEF Undoable
    <3> QED
      BY <3>1, <3>2
  <2> QED
    BY <2>1, <2>4, <2>5, <2>6 DEF BoardInv
<1> QED
  BY <1>4, <1>5

LEMMA BoardStep ==
    /\ ShapeInv /\ NameInv /\ BoardInv /\ [BoardNext]_<<lockVars, boardVars>>
    => BoardInv'
<1> SUFFICES ASSUME ShapeInv, NameInv, BoardInv, [BoardNext]_<<lockVars, boardVars>>
             PROVE  BoardInv'
  OBVIOUS
<1>0. ShapeInv'
  BY ShapeNext
<1>1. CASE UNCHANGED <<lockVars, boardVars>>
  <2>1. /\ UNCHANGED <<file, orig, backup, undo, cmd, expected, latest, accidents>>
        /\ \A t \in Threads : /\ Pending(t)' <=> Pending(t)
                              /\ At(t, "rewrite")' <=> At(t, "rewrite")
    BY <1>1 DEF boardVars, Pending, Local, At
  <2>2. /\ Content' = Content /\ Settled' = Settled
        /\ (Rewriting' <=> Rewriting) /\ (NonePending' <=> NonePending)
    BY <2>1 DEF Content, Settled, Rewriting, NonePending
  <2>3. \A at : \A p \in Threads : HasPlace(p, at) => HasPlace(p, at)'
    BY <2>1, <2>2 DEF HasPlace, Record
  <2>4. \A kind, req, pos, before :
           Remembered(kind, req, pos, before)' => Remembered(kind, req, pos, before)
    BY <2>1 DEF Remembered
  <2>5. \A kind, pos, before : Undoable(kind, pos, before) => Undoable(kind, pos, before)'
    BY <2>1, <2>2 DEF Undoable, BackedUp
  <2>6. Placed => Placed'
    BY <2>1, <2>2, <2>3 DEF Placed
  <2>7. BackedUp(expected) => BackedUp(expected)'
    BY <2>1 DEF BackedUp
  <2> QED
    BY <2>1, <2>2, <2>4, <2>5, <2>6, <2>7 DEF BoardInv
<1>2. ASSUME NEW t \in Threads, Command(t), accidents' = {} PROVE BoardInv'
  BY <1>0, <1>2, BoardOutside, BoardCreate, BoardPutLocal, BoardPutClient,
     BoardRename, BoardRewrite, BoardLook, BoardUndoWrite, BoardUndoReplace,
     BoardClose DEF Command
<1> QED
  BY <1>1, <1>2 DEF BoardNext, BoardInv

-----------------------------------------------------------------------------
(* The board of atomic commands has no debris on it. *)

WholeInv ==
    /\ ~Torn(expected) /\ ~Torn(undo.before)
    /\ \A t \in Threads : ~Torn(cmd[t].before)

LEMMA WholeIs ==
    ASSUME NEW b
    PROVE  ~Torn(b) <=> \A i \in DOMAIN b : b[i].id # -1
BY DebrisIsLine DEF Torn, Ids

LEMMA WholeInit == BoardInit => WholeInv
<1> SUFFICES ASSUME BoardInit PROVE WholeInv
  OBVIOUS
<1>1. ~Torn(<<>>)
  BY WholeIs
<1>2. ~Torn(<<Line(0, 0)>>)
  BY WholeIs DEF Line
<1>3. expected \in {<<>>, <<Line(0, 0)>>}
  BY DEF BoardInit, Content
<1>4. undo.before = <<>> /\ \A t \in Threads : cmd[t].before = <<>>
  BY DEF BoardInit, NothingToUndo, IdleCmd
<1> QED
  BY <1>1, <1>2, <1>3, <1>4 DEF WholeInv

\* What a step can make of the boards of the commands.
LEMMA BoardsStep ==
    ASSUME ShapeInv, NEW t \in Threads, Command(t)
    PROVE  /\ expected' \in {expected, Append(expected, Record(t)), undo.before,
                            ReplaceRecord(expected, cmd[t].id, cmd[t].req)}
           /\ undo'.before \in {undo.before, cmd[t].before}
           /\ cmd'[t].before \in {cmd[t].before, expected, <<>>}
<1>1. CASE \E op \in Commands, id \in 0..MaxCommands : Begin(t, op, id)
  <2>1. cmd'[t].before = <<>>
    BY <1>1, MoveBegin
  <2> QED
    BY <1>1, <2>1 DEF Begin, ghosts
<1>2. CASE StoreNumber(t) \/ OpenBoard(t) \/ CreateBoard(t) \/ Abort(t) \/ Lock(t)
  <2>1. cmd'[t].before \in {cmd[t].before, <<>>}
    BY <1>2, MoveBefore DEF MovesOn, MovesTo, IdleCmd
  <2> QED
    BY <1>2, <2>1 DEF StoreNumber, OpenBoard, CreateBoard, Abort, Lock, ghosts
<1>3. CASE Wake(t)
  BY <1>3 DEF Wake, boardVars
<1>4. CASE Unlock(t) \/ Tell(t) \/ Close(t)
  <2>1. cmd'[t].before \in {cmd[t].before, <<>>}
    BY <1>4, MoveAfter DEF MovesOn, MovesTo, IdleCmd
  <2>2. expected' = expected
    BY <1>4 DEF Unlock, Tell, Close, ghosts
  <2>3. undo'.before \in {undo.before, cmd[t].before}
    BY <1>4, Found DEF Unlock, Tell, Close, Cleared
  <2> QED
    BY <2>1, <2>2, <2>3
<1>5. CASE \/ Put(t) \/ Rename(t) \/ Rewrite(t) \/ Look(t)
           \/ UndoWrite(t) \/ UndoReplace(t)
  <2>1. cmd'[t].before \in {cmd[t].before, expected}
    BY <1>5, MoveInside DEF MovesOn, MovesTo
  <2>2. undo'.before = undo.before
    BY <1>5, Found DEF Put, Rename, Rewrite, Look, UndoWrite, UndoReplace, Cleared
  <2>3. expected' \in {expected, Append(expected, Record(t)), undo.before,
                      ReplaceRecord(expected, cmd[t].id, cmd[t].req)}
    BY <1>5 DEF Put, Rename, Rewrite, Look, UndoWrite, UndoReplace, Effect
  <2> QED
    BY <2>1, <2>2, <2>3
<1> QED
  BY <1>1, <1>2, <1>3, <1>4, <1>5 DEF Command

LEMMA WholeNext ==
    ShapeInv /\ WholeInv /\ [BoardNext]_<<lockVars, boardVars>> => WholeInv'
<1> SUFFICES ASSUME ShapeInv, WholeInv, [BoardNext]_<<lockVars, boardVars>>
             PROVE  WholeInv'
  OBVIOUS
<1>1. CASE UNCHANGED <<lockVars, boardVars>>
  BY <1>1 DEF WholeInv, boardVars
<1>2. ASSUME NEW t \in Threads, Command(t) PROVE WholeInv'
  <2>1. /\ expected \in Board /\ Record(t) \in LineType
        /\ cmd[t].id \in Nat /\ cmd[t].req \in Nat /\ Record(t).id = cmd[t].id
    BY Found DEF Record, Line
  <2>2. ~Torn(<<>>) /\ ~Torn(expected)
    BY WholeIs DEF WholeInv
  <2>3. ~Torn(Append(expected, Record(t)))
    <3>1. /\ \A i \in DOMAIN Append(expected, Record(t)) :
               i \in DOMAIN expected \/ i = Len(expected) + 1
          /\ \A i \in DOMAIN expected : Append(expected, Record(t))[i] = expected[i]
          /\ Append(expected, Record(t))[Len(expected) + 1] = Record(t)
      <4>1. /\ DOMAIN expected = 1..Len(expected) /\ Len(expected) \in Nat
            /\ DOMAIN Append(expected, Record(t)) = 1..Len(expected) + 1
        BY <2>1, AppendBoard, LinesOf
      <4>2. /\ \A i \in 1..Len(expected) : Append(expected, Record(t))[i] = expected[i]
            /\ Append(expected, Record(t))[Len(expected) + 1] = Record(t)
        BY <2>1, AppendBoard
      <4>3. \A i \in 1..Len(expected) + 1 : i \in 1..Len(expected) \/ i = Len(expected) + 1
        BY <4>1
      <4> QED
        BY <4>1, <4>2, <4>3
    <3>2. Record(t).id # -1 /\ \A i \in DOMAIN expected : expected[i].id # -1
      BY <2>1, <2>2, WholeIs
    <3>3. \A i \in DOMAIN Append(expected, Record(t)) :
             Append(expected, Record(t))[i].id # -1
      BY <3>1, <3>2
    <3> QED
      BY <3>3, WholeIs
  <2>4. ~Torn(ReplaceRecord(expected, cmd[t].id, cmd[t].req))
    <3> DEFINE r == ReplaceRecord(expected, cmd[t].id, cmd[t].req)
    <3>1. DOMAIN r = DOMAIN expected /\ \A i \in DOMAIN expected : r[i].id = expected[i].id
      BY DEF ReplaceRecord, Line
    <3>2. \A i \in DOMAIN expected : expected[i].id # -1
      BY <2>2, WholeIs
    <3> HIDE DEF r
    <3>3. ~Torn(r)
      BY <3>1, <3>2, WholeIs
    <3> QED
      BY <3>3 DEF r
  <2>5. ~Torn(expected') /\ ~Torn(undo'.before) /\ ~Torn(cmd'[t].before)
    BY <1>2, <2>2, <2>3, <2>4, BoardsStep DEF WholeInv
  <2>6. \A u \in Threads \ {t} : cmd'[u] = cmd[u]
    BY <1>2, OthersKeep
  <2> QED
    BY <2>5, <2>6 DEF WholeInv
<1> QED
  BY <1>1, <1>2 DEF BoardNext

LEMMA BoardAlways == BoardSpec => [](ShapeInv /\ NameInv /\ BoardInv /\ WholeInv)
BY ShapeInit, ShapeNext, NameInit, NameNext, BoardInitially, BoardStep,
   WholeInit, WholeNext, PTL DEF BoardSpec

\* Whatever the agents do at the same time: the board is what atomic commands
\* would have made of it but for records in a buffer, unless one of the six
\* accidents has happened.
THEOREM BoardIsExact == BoardSpec => []BoardExact
<1>1. BoardInv => BoardExact
  <2> SUFFICES ASSUME BoardInv, accidents = {}, \A t \in Threads : ~At(t, "rewrite")
               PROVE  LinesAt(Content, expected, Settled)
    BY DEF BoardExact
  <2>1. PICK at : Lays(at, Content, expected, Settled)
    BY DEF BoardInv, Rewriting, Placed
  <2> QED
    BY <2>1 DEF Lays, LinesAt
<1> QED
  BY <1>1, BoardAlways, PTL

\* A READ answers what the board of atomic commands has, but for records in a
\* buffer, unless one of the accidents has happened.
THEOREM ReadsAreExact == BoardSpec => ReadsExact
<1>1. ASSUME ShapeInv, BoardInv, WholeInv, NEW t \in Threads, Look(t), accidents' = {}
      PROVE  cmd'[t].found <=> \E i \in Settled : expected[i].id = cmd[t].id
  <2>1. accidents = {} /\ ~Rewriting
    <3>1. ~Rewrite(t)
      BY <1>1, MoveInside DEF At
    <3> QED
      BY <1>1, <3>1, NoOtherRewrites
  <2>2. PICK at : Lays(at, Content, expected, Settled)
    BY <1>1, <2>1 DEF BoardInv, Placed
  <2>3. ~Torn(Content)
    <3>1. \A i \in DOMAIN Content : at[i] \in DOMAIN expected
                                     /\ Content[i] = expected[at[i]]
      BY <2>2 DEF Lays, Settled
    <3> QED
      BY <1>1, <3>1, WholeIs DEF WholeInv
  <2>4. cmd'[t].found <=> cmd[t].id \in Ids(Content)
    <3>1. PICK f \in BOOLEAN :
             /\ f = (cmd[t].id \in Ids(Content))
             /\ cmd' = [cmd EXCEPT ![t].step = "unlock", ![t].found = f]
      BY <1>1, <2>3 DEF Look
    <3>2. cmd \in [Threads -> CmdType] /\ cmd[t] \in CmdType
      BY <1>1, Found
    <3>3. cmd'[t].found = f
      BY <3>1, <3>2 DEF CmdType
    <3> QED
      BY <3>1, <3>3
  <2>5. cmd[t].id \in Ids(Content) <=> \E i \in Settled : expected[i].id = cmd[t].id
    BY <2>2 DEF Lays, Ids
  <2> QED
    BY <2>4, <2>5
<1>2. /\ ShapeInv /\ BoardInv /\ WholeInv /\ [BoardNext]_<<lockVars, boardVars>>
      => [\A t \in Threads :
             Look(t) /\ accidents' = {} =>
                 (cmd'[t].found <=>
                     \E i \in Settled : expected[i].id = cmd[t].id)]_<<lockVars, boardVars>>
  BY <1>1
<1> QED
  BY <1>2, BoardAlways, PTL DEF BoardSpec, ReadsExact
=============================================================================
