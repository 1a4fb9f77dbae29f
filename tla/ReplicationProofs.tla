------------------------- MODULE ReplicationProofs -------------------------
(***************************************************************************)
(* Proofs about Replication, for any number of servers, requests and       *)
(* faults.  First its types; then, for one coordinator whose clients send  *)
(* WRITE, that it goes on only after every peer has written.               *)
(***************************************************************************)
EXTENDS Replication, FiniteSetTheorems, SequenceTheorems, TLAPS

-----------------------------------------------------------------------------
(* The board file. *)

\* A record that reaches the file late leaves a sequence of lines.
LEMMA WriteAtType ==
    ASSUME NEW b \in Seq(LineType), NEW pos \in Seq(LineType),
           NEW line \in LineType
    PROVE  WriteAt(b, pos, line) \in Seq(LineType)
<1>1. Append(b, line) \in Seq(LineType)
  BY AppendProperties
<1>2. Debris \in LineType
  BY DEF Debris, LineType
<1>3. <<Debris>> \in Seq(LineType)
  BY <1>2
<1> QED
  BY <1>1, <1>3 DEF WriteAt

\* So does a file that is cut or lengthened by truncate().
LEMMA TruncateType ==
    ASSUME NEW b \in Seq(LineType), NEW pos \in Seq(LineType)
    PROVE  Truncate(b, pos) \in Seq(LineType)
<1>1. Debris \in LineType
  BY DEF Debris, LineType
<1>2. <<Debris>> \in Seq(LineType)
  BY <1>1
<1> QED
  BY <1>2 DEF Truncate

\* The lines that stand are lines of the file.
LEMMA StandingLines ==
    ASSUME NEW b \in Seq(LineType), NEW pos \in Seq(LineType), Stands(b, pos)
    PROVE  \A i \in 1..Len(pos) : i \in 1..Len(b) /\ pos[i] = b[i]
<1>1. Len(pos) \in Nat /\ Len(b) \in Nat /\ Len(pos) <= Len(b)
  BY LenProperties DEF Stands
<1>2. \A i \in 1..Len(pos) : b[i] \in LineType /\ i \in 1..Len(b)
  BY <1>1, ElementOfSeq
<1>3. SubSeq(b, 1, Len(pos)) = pos
  BY DEF Stands
<1>4. \A i \in 1..Len(pos) : SubSeq(b, 1, Len(pos))[i] = b[i]
  BY <1>1, <1>2, SubSeqProperties
<1> QED
  BY <1>2, <1>3, <1>4

\* A file begins with its own lines, and still does when one is added.
LEMMA StandsSelf ==
    ASSUME NEW b \in Seq(LineType)
    PROVE  Stands(b, b)
<1>1. Len(b) \in Nat /\ \A i \in 1..Len(b) : b[i] \in LineType
  BY LenProperties, ElementOfSeq
<1>2. SubSeq(b, 1, Len(b)) \in Seq(LineType) /\ Len(SubSeq(b, 1, Len(b))) = Len(b)
      /\ \A i \in 1..Len(b) : SubSeq(b, 1, Len(b))[i] = b[i]
  BY <1>1, SubSeqProperties
<1>3. SubSeq(b, 1, Len(b)) = b
  BY <1>1, <1>2, SeqEqual
<1> QED
  BY <1>1, <1>3 DEF Stands

LEMMA StandsLonger ==
    ASSUME NEW b \in Seq(LineType), NEW line \in LineType,
           NEW pos \in Seq(LineType), Stands(b, pos)
    PROVE  Stands(Append(b, line), pos)
<1> DEFINE d == Append(b, line)
           n == Len(pos)
<1>1. /\ Len(b) \in Nat /\ d \in Seq(LineType) /\ Len(d) = Len(b) + 1
      /\ \A i \in 1..Len(b) : d[i] = b[i]
  BY AppendProperties, LenProperties
<1>2. n \in Nat /\ n <= Len(b)
  BY LenProperties DEF Stands
<1> HIDE DEF d, n
<1>3. \A i \in 1..n : d[i] \in LineType /\ b[i] \in LineType
  BY <1>1, <1>2, ElementOfSeq
<1>4. /\ SubSeq(d, 1, n) \in Seq(LineType) /\ Len(SubSeq(d, 1, n)) = n
      /\ \A i \in 1..n : SubSeq(d, 1, n)[i] = d[i]
  BY <1>2, <1>3, SubSeqProperties
<1>5. /\ SubSeq(b, 1, n) \in Seq(LineType) /\ Len(SubSeq(b, 1, n)) = n
      /\ \A i \in 1..n : SubSeq(b, 1, n)[i] = b[i]
  BY <1>2, <1>3, SubSeqProperties
<1>6. SubSeq(d, 1, n) = SubSeq(b, 1, n)
  BY <1>1, <1>2, <1>4, <1>5, SeqEqual
<1> QED
  BY <1>1, <1>2, <1>6 DEF Stands, d, n

\* And a file that replace_record has rewritten.
LEMMA ReplaceRecordType ==
    ASSUME NEW b \in Seq(LineType), NEW id \in Nat, NEW r \in Nat
    PROVE  ReplaceRecord(b, id, r) \in Seq(LineType)
<1>1. /\ Len(b) \in Nat
      /\ DOMAIN b = 1..Len(b)
      /\ \A i \in 1..Len(b) : b[i] \in LineType
  BY ElementOfSeq, LenProperties
<1>2. Line(id, r) \in LineType
  BY DEF Line, LineType
<1>3. ReplaceRecord(b, id, r) \in [1..Len(b) -> LineType]
  BY <1>1, <1>2 DEF ReplaceRecord
<1> QED
  BY <1>1, <1>3, IsASeq

-----------------------------------------------------------------------------
(* Types of the steps that several actions share. *)

LEMMA BroadcastType ==
    ASSUME NEW c \in Servers, NEW req \in Nat, NEW id \in Nat,
           NEW type \in {"PRECOMMIT", "COMMIT", "UNSUCCESSFUL"},
           NEW kind \in {"WRITE", "REPLACE"}
    PROVE  Broadcast(type, c, req, kind, id) \subseteq CallType
BY ServersAssumption DEF Broadcast, CallType, MessageType

\* Undo leaves lines, numbers and an UndoStore.
LEMMA UndoType ==
    ASSUME TypeOK, NEW s \in Servers, Undo(s)
    PROVE  /\ board' \in [Servers -> Seq(LineType)]
           /\ backup' \in [Servers -> Seq(LineType)]
           /\ number' \in [Servers -> Nat]
           /\ undo' \in [Servers -> [kind : {"NONE", "WRITE", "REPLACE"},
                                     pos : Seq(LineType)]]
<1>1. /\ board[s] \in Seq(LineType) /\ backup[s] \in Seq(LineType)
      /\ undo[s] \in [kind : {"NONE", "WRITE", "REPLACE"}, pos : Seq(LineType)]
  BY DEF TypeOK
<1>2. Truncate(board[s], undo[s].pos) \in Seq(LineType)
  BY <1>1, TruncateType
<1>3. NoUndo \in [kind : {"NONE", "WRITE", "REPLACE"}, pos : Seq(LineType)]
  BY EmptySeq DEF NoUndo
<1>4. <<>> \in Seq(LineType)
  BY EmptySeq
<1>5. /\ undo[s].kind = "WRITE" \/ undo[s].kind = "REPLACE" \/ undo[s].kind = "NONE"
  BY <1>1
<1>6. board' \in [Servers -> Seq(LineType)]
  <2>1. CASE undo[s].kind = "WRITE"
    BY <2>1, <1>2 DEF Undo, TypeOK
  <2>2. CASE undo[s].kind = "REPLACE"
    BY <2>2, <1>1 DEF Undo, TypeOK
  <2>3. CASE undo[s].kind = "NONE"
    BY <2>3, <1>1 DEF Undo, TypeOK
  <2> QED
    BY <1>5, <2>1, <2>2, <2>3
<1> QED
  <2>1. undo' \in [Servers -> [kind : {"NONE", "WRITE", "REPLACE"},
                               pos : Seq(LineType)]]
    BY <1>3 DEF Undo, TypeOK
  <2>2. backup' \in [Servers -> Seq(LineType)]
    BY <1>1, <1>4 DEF Undo, TypeOK
  <2> QED
    BY <1>6, <2>1, <2>2 DEF Undo, TypeOK

\* The end of a process loses messages and agents and changes no type.
LEMMA DiesType ==
    ASSUME TypeOK, NEW s \in Servers, Dies(s)
    PROVE  /\ up' \in [Servers -> BOOLEAN]
           /\ undo' \in [Servers -> [kind : {"NONE", "WRITE", "REPLACE"},
                                     pos : Seq(LineType)]]
           /\ acks' \in [Servers -> SUBSET ReplyType]
           /\ coord' \in [Servers -> CoordType]
           /\ sport' \in [Servers -> SportType]
           /\ calls' \subseteq CallType
           /\ replies' \subseteq ReplyType
           /\ outcome' \in [1..MaxRequests ->
                               {"none", "wrote", "unknown", "error", "lost"}]
<1>1. IdleCoord \in CoordType /\ IdleSport \in SportType
  BY EmptySeq DEF IdleCoord, IdleSport, CoordType, SportType
<1>2. ASSUME NEW t \in Servers
      PROVE  [sport[t] EXCEPT !.from = Nobody] \in SportType
  <2>1. sport[t] \in SportType
    BY DEF TypeOK
  <2> QED
    BY <2>1 DEF SportType
<1>3. sport' \in [Servers -> SportType]
  BY <1>1, <1>2 DEF Dies, TypeOK
<1>4. NoUndo \in [kind : {"NONE", "WRITE", "REPLACE"}, pos : Seq(LineType)]
  BY EmptySeq DEF NoUndo
<1>5. /\ up' \in [Servers -> BOOLEAN]
      /\ undo' \in [Servers -> [kind : {"NONE", "WRITE", "REPLACE"}, pos : Seq(LineType)]]
  BY <1>4 DEF Dies, TypeOK
<1>6. acks' \in [Servers -> SUBSET ReplyType] /\ coord' \in [Servers -> CoordType]
  BY <1>1 DEF Dies, TypeOK
<1>7. calls' \subseteq CallType /\ replies' \subseteq ReplyType
  BY DEF Dies, TypeOK
<1>8. outcome' \in [1..MaxRequests ->
                       {"none", "wrote", "unknown", "error", "lost"}]
  BY DEF Dies, TypeOK
<1> QED
  BY <1>3, <1>5, <1>6, <1>7, <1>8

\* The catch block.
LEMMA FailType ==
    ASSUME TypeOK, NEW c \in Servers, NEW id \in Nat, Fail(c, id)
    PROVE  /\ calls' \subseteq CallType
           /\ coord' \in [Servers -> CoordType]
           /\ outcome' \in [1..MaxRequests ->
                               {"none", "wrote", "unknown", "error", "lost"}]
<1>1. coord[c].req \in Nat /\ coord[c].kind \in {"WRITE", "REPLACE"}
  BY DEF TypeOK, CoordType
<1>2. Broadcast("UNSUCCESSFUL", c, coord[c].req, coord[c].kind, id) \subseteq CallType
  BY <1>1, BroadcastType
<1>3. IdleCoord \in CoordType
  BY EmptySeq DEF IdleCoord, CoordType
<1> QED
  BY <1>2, <1>3 DEF Fail, TypeOK

-----------------------------------------------------------------------------
(* Every action keeps the types. *)

\* The initial state has the types.
LEMMA InitType == Init => TypeOK
<1> SUFFICES ASSUME Init PROVE TypeOK
  OBVIOUS
<1>1. /\ IdleCoord \in CoordType /\ IdleSport \in SportType
      /\ NoUndo \in [kind : {"NONE", "WRITE", "REPLACE"}, pos : Seq(LineType)]
  BY EmptySeq DEF IdleCoord, IdleSport, CoordType, SportType, NoUndo
<1>2. <<>> \in Seq(LineType)
  BY EmptySeq
<1>3. 0 \in 0..MaxRequests /\ 0 \in 0..MaxFaults
  BY KindsAssumption
<1> QED
  BY <1>1, <1>2, <1>3 DEF Init, TypeOK

\* A coordinator's record with another position in its code has the type.
LEMMA CoordMoves ==
    ASSUME TypeOK, NEW c \in Servers,
           NEW pc \in {"idle", "number", "precommit", "commit", "apply", "flush"}
    PROVE  [coord EXCEPT ![c].pc = pc] \in [Servers -> CoordType]
BY DEF TypeOK, CoordType

\* A client's request.
LEMMA RequestType ==
    ASSUME TypeOK, NEW c \in Coordinators, Request(c)
    PROVE  TypeOK'
<1>c. c \in Servers
  BY ServersAssumption
<1>1. CASE WriteRequest(c)
  <2>1. requests' \in 0..MaxRequests
    BY <1>1, KindsAssumption DEF WriteRequest, Accept, TypeOK
  <2>2. coord' \in [Servers -> CoordType]
    BY <1>1, <1>c DEF WriteRequest, Accept, TypeOK, CoordType
  <2> QED
    BY <1>1, <2>1, <2>2 DEF WriteRequest, TypeOK, disk, net
<1>2. ASSUME NEW id \in 0..MaxRequests, ReplaceRequest(c, id)
      PROVE  TypeOK'
  <2>1. requests' \in 0..MaxRequests /\ requests + 1 \in Nat
    BY <1>2, KindsAssumption DEF ReplaceRequest, Accept, TypeOK
  <2>2. coord' \in [Servers -> CoordType]
    BY <1>2, <1>c, <2>1 DEF ReplaceRequest, TypeOK, CoordType
  <2>3. Broadcast("PRECOMMIT", c, requests + 1, "REPLACE", id) \subseteq CallType
    BY <1>c, <2>1, BroadcastType
  <2> QED
    BY <1>2, <2>1, <2>2, <2>3 DEF ReplaceRequest, TypeOK, disk
<1>3. CASE MalformedRequest(c)
  <2>1. requests' \in 0..MaxRequests /\ requests + 1 \in Nat
    BY <1>3, KindsAssumption DEF MalformedRequest, Accept, TypeOK
  <2>3. Broadcast("UNSUCCESSFUL", c, requests + 1, "REPLACE", 0) \subseteq CallType
    BY <1>c, <2>1, BroadcastType
  <2> QED
    BY <1>3, <2>1, <2>3 DEF MalformedRequest, TypeOK, disk
<1> QED
  BY <1>1, <1>2, <1>3 DEF Request

\* The coordinator goes on.
LEMMA CoordinatorStepType ==
    ASSUME TypeOK, NEW c \in Coordinators, CoordinatorStep(c)
    PROVE  TypeOK'
<1>c. c \in Servers
  BY ServersAssumption
<1>r. /\ coord[c].req \in Nat /\ coord[c].id \in Nat /\ coord[c].pos \in Seq(LineType)
      /\ coord[c].kind \in {"WRITE", "REPLACE"}
      /\ board[c] \in Seq(LineType)
  BY <1>c DEF TypeOK, CoordType
<1>1. CASE StoreNumber(c)
  <2>1. Broadcast("PRECOMMIT", c, coord[c].req, "WRITE", coord[c].id) \subseteq CallType
    BY <1>c, <1>r, BroadcastType
  <2>2. coord' \in [Servers -> CoordType]
    BY <1>1, <1>c, CoordMoves DEF StoreNumber
  <2>3. coord[c].id + 1 \in Nat
    BY <1>r
  <2>4. number' \in [Servers -> Nat]
    BY <1>1, <2>3 DEF StoreNumber, TypeOK
  <2> QED
    BY <1>1, <2>1, <2>2, <2>4 DEF StoreNumber, TypeOK
<1>2. CASE Precommitted(c)
  <2>1. Broadcast("COMMIT", c, coord[c].req, coord[c].kind, coord[c].id) \subseteq CallType
    BY <1>c, <1>r, BroadcastType
  <2>2. coord' \in [Servers -> CoordType]
    BY <1>2, <1>c, CoordMoves DEF Precommitted
  <2>3. acks' \in [Servers -> SUBSET ReplyType]
    BY <1>2 DEF Precommitted, Acknowledged, TypeOK
  <2> QED
    BY <1>2, <2>1, <2>2, <2>3 DEF Precommitted, TypeOK, disk
<1>3. CASE Committed(c)
  <2>2. coord' \in [Servers -> CoordType]
    BY <1>3, <1>c, CoordMoves DEF Committed
  <2>3. acks' \in [Servers -> SUBSET ReplyType]
    BY <1>3 DEF Committed, Acknowledged, TypeOK
  <2> QED
    BY <1>3, <2>2, <2>3 DEF Committed, TypeOK, disk, net
<1>4. CASE Abort(c)
  <2>1. Fail(c, coord[c].id)
    BY <1>4 DEF Abort
  <2> QED
    BY <1>4, <1>c, <1>r, <2>1, FailType DEF Abort, TypeOK, disk
<1>5. CASE ApplyWrite(c)
  <2>2. [coord[c] EXCEPT !.pc = "flush", !.pos = board[c]] \in CoordType
    <3>1. coord[c] \in CoordType
      BY <1>c DEF TypeOK
    <3> QED
      BY <1>r, <3>1 DEF CoordType
  <2>3. coord' = [coord EXCEPT ![c] = [coord[c] EXCEPT !.pc = "flush",
                                                      !.pos = board[c]]]
    BY <1>5 DEF ApplyWrite
  <2>4. coord' \in [Servers -> CoordType]
    BY <2>2, <2>3 DEF TypeOK
  <2> QED
    BY <1>5, <2>4 DEF ApplyWrite, TypeOK, disk, net
<1>6. CASE ApplyReplace(c)
  <2>1. ReplaceRecord(board[c], coord[c].id, coord[c].req) \in Seq(LineType)
    BY <1>r, ReplaceRecordType
  <2>2. board' \in [Servers -> Seq(LineType)] /\ backup' \in [Servers -> Seq(LineType)]
    BY <1>6, <1>r, <2>1 DEF ApplyReplace, TypeOK
  <2>3. coord' \in [Servers -> CoordType]
    BY <1>6, <1>c, CoordMoves DEF ApplyReplace
  <2>4. Broadcast("UNSUCCESSFUL", c, coord[c].req, "REPLACE", coord[c].id) \subseteq CallType
    BY <1>c, <1>r, BroadcastType
  <2>5. calls' \subseteq CallType
    BY <1>6, <2>4 DEF ApplyReplace, TypeOK
  <2>6. outcome' \in [1..MaxRequests ->
                         {"none", "wrote", "unknown", "error", "lost"}]
    BY <1>6 DEF ApplyReplace, TypeOK
  <2>7. applied' \in [Servers -> SUBSET Nat]
    BY <1>6, <1>r DEF ApplyReplace, TypeOK
  <2> QED
    BY <1>6, <2>2, <2>3, <2>5, <2>6, <2>7 DEF ApplyReplace, TypeOK
<1>7. CASE Flush(c)
  <2>1. /\ IdleCoord \in CoordType
        /\ NoUndo \in [kind : {"NONE", "WRITE", "REPLACE"}, pos : Seq(LineType)]
    BY EmptySeq DEF IdleCoord, CoordType, NoUndo
  <2>2. Line(coord[c].id, coord[c].req) \in LineType
    BY <1>r DEF Line, LineType
  <2>3. WriteAt(board[c], coord[c].pos, Line(coord[c].id, coord[c].req)) \in Seq(LineType)
    BY <1>r, <2>2, WriteAtType
  <2>4. board' \in [Servers -> Seq(LineType)]
    BY <1>7, <2>3 DEF Flush, TypeOK
  <2>5. applied' \in [Servers -> SUBSET Nat]
    <3>1. applied[c] \cup {coord[c].req} \in SUBSET Nat
      BY <1>c, <1>r DEF TypeOK
    <3> QED
      BY <1>7, <3>1 DEF Flush, TypeOK
  <2> QED
    BY <1>7, <2>1, <2>4, <2>5 DEF Flush, TypeOK, net
<1> QED
  BY <1>1, <1>2, <1>3, <1>4, <1>5, <1>6, <1>7 DEF CoordinatorStep

\* What UNSUCCESSFUL, wherever it is received, adds to a queue.
LEMMA AcksType ==
    ASSUME TypeOK, NEW s \in Servers, NEW m \in ReplyType,
           acks' = [acks EXCEPT ![s] = @ \cup {m}]
    PROVE  acks' \in [Servers -> SUBSET ReplyType]
BY DEF TypeOK

\* A command is delivered.
LEMMA DeliverType ==
    ASSUME TypeOK, NEW m \in calls, Deliver(m)
    PROVE  TypeOK'
<1>m. /\ m \in CallType
      /\ m.req \in Nat /\ m.id \in Nat /\ m.kind \in {"WRITE", "REPLACE"}
      /\ m.from \in Servers /\ m.to \in Servers
  BY DEF TypeOK, CallType, MessageType
<1>1. CASE Precommit(m)
  <2>1. Reply(m, "ACK") \in ReplyType
    BY <1>m DEF Reply, CallType, ReplyType, MessageType
  <2> QED
    BY <1>1, <2>1 DEF Precommit, Take, TypeOK, disk
<1>2. CASE BeginCommit(m)
  <2>1. number[m.to] \in Nat
    BY <1>m DEF TypeOK
  <2>2. [pc |-> "begun", req |-> m.req, kind |-> m.kind, id |-> m.id,
         from |-> m.from, num |-> number[m.to], pos |-> <<>>, found |-> TRUE] \in SportType
    BY <1>m, <2>1, EmptySeq DEF SportType
  <2> QED
    BY <1>2, <2>2 DEF BeginCommit, Take, TypeOK, disk
<1>3. CASE Unsuccessful(m)
  <2>1. m \in ReplyType
    BY <1>m, <1>3 DEF Unsuccessful, Take, CallType, ReplyType, MessageType
  <2>2. acks' \in [Servers -> SUBSET ReplyType]
    BY <1>m, <1>3, <2>1, AcksType DEF Unsuccessful
  <2>3. /\ board' \in [Servers -> Seq(LineType)]
        /\ backup' \in [Servers -> Seq(LineType)]
        /\ number' \in [Servers -> Nat]
        /\ undo' \in [Servers -> [kind : {"NONE", "WRITE", "REPLACE"}, pos : Seq(LineType)]]
    BY <1>m, <1>3, UndoType DEF Unsuccessful
  <2> QED
    BY <1>3, <2>2, <2>3 DEF Unsuccessful, Take, TypeOK
<1>4. CASE Refused(m)
  BY <1>4 DEF Refused, TypeOK, disk
<1> QED
  BY <1>1, <1>2, <1>3, <1>4 DEF Deliver

\* An answer is received.
LEMMA ReceiveReplyType ==
    ASSUME TypeOK, NEW m \in replies, ReceiveReply(m)
    PROVE  TypeOK'
<1>m. m \in ReplyType /\ m.to \in Servers
  BY DEF TypeOK, ReplyType, MessageType
<1>1. acks' \in [Servers -> SUBSET ReplyType]
  BY <1>m, AcksType DEF ReceiveReply
<1>2. /\ board' \in [Servers -> Seq(LineType)]
      /\ backup' \in [Servers -> Seq(LineType)]
      /\ number' \in [Servers -> Nat]
      /\ undo' \in [Servers -> [kind : {"NONE", "WRITE", "REPLACE"}, pos : Seq(LineType)]]
  <2>1. CASE m.type = "UNSUCCESSFUL"
    BY <2>1, <1>m, UndoType DEF ReceiveReply
  <2>2. CASE m.type # "UNSUCCESSFUL"
    BY <2>2 DEF ReceiveReply, TypeOK, disk
  <2> QED
    BY <2>1, <2>2
<1> QED
  BY <1>1, <1>2 DEF ReceiveReply, TypeOK

\* A participant's answer to COMMIT, if there is somebody to send it to.
LEMMA AnswerType ==
    ASSUME TypeOK, NEW p \in Servers, NEW type \in {"SUCCESSFUL", "UNSUCCESSFUL"}
    PROVE  {[type |-> type, req |-> sport[p].req, kind |-> sport[p].kind,
             id |-> sport[p].id, from |-> p, to |-> c] :
                c \in {sport[p].from} \ {Nobody}} \subseteq ReplyType
<1>1. /\ sport[p].req \in Nat /\ sport[p].id \in Nat
      /\ sport[p].kind \in {"WRITE", "REPLACE"}
      /\ sport[p].from \in Servers \cup {Nobody}
  BY DEF TypeOK, SportType
<1> QED
  BY <1>1 DEF ReplyType, MessageType

\* The participant goes on.
LEMMA LocalStepType ==
    ASSUME TypeOK, NEW p \in Servers, LocalStep(p)
    PROVE  TypeOK'
<1>p. /\ sport[p] \in SportType
      /\ sport[p].req \in Nat /\ sport[p].id \in Nat /\ sport[p].num \in Nat
      /\ sport[p].pos \in Seq(LineType) /\ sport[p].found \in BOOLEAN
      /\ sport[p].kind \in {"WRITE", "REPLACE"}
      /\ board[p] \in Seq(LineType)
  BY DEF TypeOK, SportType
<1>a. applied[p] \cup {sport[p].req} \in SUBSET Nat
  BY <1>p DEF TypeOK
<1>1. CASE LocalWrite(p)
  <2>1. Line(sport[p].num, sport[p].req) \in LineType
    BY <1>p DEF Line, LineType
  <2>2. Append(board[p], Line(sport[p].num, sport[p].req)) \in Seq(LineType)
    BY <1>p, <2>1, AppendProperties
  <2>3. sport[p].num + 1 \in Nat
    BY <1>p
  <2>4. [sport[p] EXCEPT !.pc = "applied", !.pos = board[p]] \in SportType
    BY <1>p, <2>3 DEF SportType
  <2>5. sport' \in [Servers -> SportType]
    BY <1>1, <2>4 DEF LocalWrite, TypeOK
  <2> QED
    BY <1>1, <1>a, <2>2, <2>3, <2>5 DEF LocalWrite, TypeOK, net
<1>2. CASE LocalReplace(p)
  <2>1. ReplaceRecord(board[p], sport[p].id, sport[p].req) \in Seq(LineType)
    BY <1>p, ReplaceRecordType
  <2>2. board' \in [Servers -> Seq(LineType)] /\ backup' \in [Servers -> Seq(LineType)]
    BY <1>2, <1>p, <2>1 DEF LocalReplace, TypeOK
  <2>3. applied' \in [Servers -> SUBSET Nat]
    BY <1>2, <1>a DEF LocalReplace, TypeOK
  <2>4. CASE sport[p].id \notin Ids(board[p]) /\ Peers[p] # {}
    <3>1. Dies(p)
      BY <1>2, <2>4 DEF LocalReplace
    <3> QED
      BY <1>2, <2>2, <2>3, <3>1, DiesType DEF LocalReplace, TypeOK
  <2>5. CASE ~(sport[p].id \notin Ids(board[p]) /\ Peers[p] # {})
    <3> DEFINE found == sport[p].id \in Ids(board[p])
    <3>1. [sport[p] EXCEPT !.pc = "applied", !.found = found] \in SportType
      <4>1. found \in BOOLEAN
        OBVIOUS
      <4> HIDE DEF found
      <4> QED
        BY <1>p, <4>1 DEF SportType
    <3>2. sport' \in [Servers -> SportType]
      BY <1>2, <2>5, <3>1 DEF LocalReplace, TypeOK
    <3>3. UNCHANGED <<up, undo, acks, coord, net, outcome, number, requests, faults>>
      BY <1>2, <2>5 DEF LocalReplace
    <3> QED
      BY <2>2, <2>3, <3>2, <3>3 DEF TypeOK, net
  <2> QED
    BY <2>4, <2>5
<1>3. CASE FinishCommit(p)
  <2>1. IdleSport \in SportType
    BY DEF IdleSport, SportType
  <2>2. [kind |-> sport[p].kind, pos |-> sport[p].pos]
            \in [kind : {"NONE", "WRITE", "REPLACE"}, pos : Seq(LineType)]
    BY <1>p
  <2>3. replies' \subseteq ReplyType
    <3>1. CASE sport[p].found
      BY <1>3, <3>1, AnswerType DEF FinishCommit, TypeOK
    <3>2. CASE ~sport[p].found
      BY <1>3, <3>2, AnswerType DEF FinishCommit, TypeOK
    <3> QED
      BY <3>1, <3>2
  <2> QED
    BY <1>3, <2>1, <2>2, <2>3 DEF FinishCommit, TypeOK, disk
<1> QED
  BY <1>1, <1>2, <1>3 DEF LocalStep

\* Something fails, or a process comes back.
LEMMA FaultStepType ==
    ASSUME TypeOK, FaultStep
    PROVE  TypeOK'
<1>f. \A kind : Fault(kind) => faults' \in 0..MaxFaults
  BY KindsAssumption DEF Fault, TypeOK
<1>1. ASSUME NEW s \in Servers, StorageFault(s)
      PROVE  TypeOK'
  <2>1. coord[s].id \in Nat /\ coord[s].id + 1 \in Nat
    BY DEF TypeOK, CoordType
  <2>2. \/ Fail(s, 0) \/ Fail(s, coord[s].id)
    BY <1>1 DEF StorageFault
  <2>3. /\ calls' \subseteq CallType
        /\ coord' \in [Servers -> CoordType]
        /\ outcome' \in [1..MaxRequests ->
                            {"none", "wrote", "unknown", "error", "lost"}]
    BY <2>1, <2>2, FailType
  <2>4. number' \in [Servers -> Nat]
    BY <1>1, <2>1 DEF StorageFault, TypeOK
  <2> QED
    BY <1>1, <1>f, <2>3, <2>4 DEF StorageFault, TypeOK
<1>2. ASSUME NEW s \in Servers, LocalStorageFault(s)
      PROVE  TypeOK'
  <2>1. sport[s].num + 1 \in Nat
    BY DEF TypeOK, SportType
  <2>2. number' \in [Servers -> Nat]
    BY <1>2, <2>1 DEF LocalStorageFault, TypeOK
  <2>3. faults' \in 0..MaxFaults
    BY <1>2, <1>f DEF LocalStorageFault
  <2>4. CASE Peers[s] # {}
    <3>1. Dies(s)
      BY <1>2, <2>4 DEF LocalStorageFault
    <3> QED
      BY <1>2, <2>2, <2>3, <3>1, DiesType DEF LocalStorageFault, TypeOK
  <2>5. CASE Peers[s] = {}
    <3>1. IdleSport \in SportType
      BY DEF IdleSport, SportType
    <3>2. replies' \subseteq ReplyType
      BY <1>2, <2>5, AnswerType DEF LocalStorageFault, TypeOK
    <3> QED
      BY <1>2, <2>2, <2>3, <2>5, <3>1, <3>2 DEF LocalStorageFault, TypeOK
  <2> QED
    BY <2>4, <2>5
<1>3. ASSUME NEW s \in Servers, Crash(s)
      PROVE  TypeOK'
  <2>1. faults' \in 0..MaxFaults
    BY <1>3, <1>f DEF Crash
  <2>2. Dies(s)
    BY <1>3 DEF Crash
  <2> QED
    BY <1>3, <2>1, <2>2, DiesType DEF Crash, TypeOK, disk
<1>4. ASSUME NEW s \in Servers, Restart(s)
      PROVE  TypeOK'
  BY <1>4 DEF Restart, TypeOK, disk, net
<1>5. ASSUME NEW m \in calls \cup replies, Lose(m)
      PROVE  TypeOK'
  BY <1>5, <1>f DEF Lose, TypeOK, disk
<1> QED
  BY <1>1, <1>2, <1>3, <1>4, <1>5 DEF FaultStep

\* The type invariant of the replication, for any servers and peers, any
\* commands, and any number of requests and faults.
THEOREM TypeCorrect == Spec => []TypeOK
<1>1. TypeOK /\ [Next]_vars => TypeOK'
  <2> SUFFICES ASSUME TypeOK, [Next]_vars PROVE TypeOK'
    OBVIOUS
  <2>1. CASE Next
    BY <2>1, RequestType, CoordinatorStepType, LocalStepType, DeliverType,
       ReceiveReplyType, FaultStepType DEF Next
  <2>2. CASE UNCHANGED vars
    BY <2>2 DEF vars, disk, net, TypeOK
  <2> QED
    BY <2>1, <2>2
<1> QED
  BY <1>1, InitType, PTL DEF Spec

-----------------------------------------------------------------------------
(* One coordinator whose clients do not send REPLACE: whatever is lost,    *)
(* late or crashes, it goes on to its own board only after every peer has  *)
(* written.  The acknowledge queues are told apart by message ids only, so *)
(* the argument is about which answers can still arrive under the id of    *)
(* the current request.                                                    *)

\* The assumption: c is the only coordinator.
Single(c) == Coordinators = {c} /\ "REPLACE" \notin Kinds

\* The commands of a transaction, and the answers that c has or will get.
Open == {m \in calls : m.type # "UNSUCCESSFUL"}

Answers(c) == replies \cup acks[c]

Busy == {p \in Servers : sport[p].pc # "idle"}

\* Only c asks, only its peers answer, and all of it is about WRITEs.
Roles(c) ==
    /\ \A m \in calls : m.from = c /\ m.to \in Peers[c]
    /\ \A m \in Open : m.kind = "WRITE"
    /\ \A m \in Answers(c) : m.to = c /\ m.from \in Peers[c] /\ m.kind = "WRITE"
    /\ \A s \in Servers : s # c => coord[s].pc = "idle"
    /\ coord[c].kind = "WRITE"
    /\ \A p \in Busy : /\ p \in Peers[c]
                       /\ sport[p].kind = "WRITE"
                       /\ sport[p].from \in {c, Nobody}

\* x, a message or the command of a busy participant, has an id below the
\* next number, and the current id exactly if it is of the current request.
Belongs(x, c) ==
    /\ x.req <= requests
    /\ x.id < number[c]
    /\ coord[c].pc # "idle" => (x.id = coord[c].id <=> x.req = coord[c].req)

Fresh(c) ==
    /\ coord[c].pc = "number" => coord[c].id = number[c]
    /\ coord[c].pc # "idle" => coord[c].req <= requests
    /\ coord[c].pc \notin {"idle", "number"} => coord[c].id < number[c]
    /\ \A m \in Open : Belongs(m, c)
    /\ \A m \in Answers(c) : Belongs(m, c)
    /\ \A p \in Busy : Belongs(sport[p], c)

\* Before COMMIT is sent nothing of the second phase is about.
FirstPhase(c) ==
    coord[c].pc \in {"number", "precommit"} =>
        /\ \A m \in Open : m.type = "COMMIT" => m.req # coord[c].req
        /\ \A m \in Answers(c) : m.type # "ACK" => m.req # coord[c].req
        /\ \A p \in Busy : sport[p].req # coord[c].req

\* Once it is sent nothing of the first phase is left.
SecondPhase(c) ==
    coord[c].pc \in {"commit", "apply", "flush"} =>
        /\ \A m \in Open : m.type = "PRECOMMIT" => m.req # coord[c].req
        /\ \A m \in Answers(c) : m.type = "ACK" => m.req # coord[c].req

\* A PRECOMMIT is on its way, or its answer is, or the answer is in the queue.
Once(c) ==
    /\ \A m \in Open : m.type = "PRECOMMIT" => Reply(m, "ACK") \notin Answers(c)
    /\ \A m \in replies : m.type = "ACK" => m \notin acks[c]

\* Who says SUCCESSFUL has written.
Written(c) ==
    /\ \A p \in Busy : sport[p].pc = "applied" => sport[p].req \in applied[p]
    /\ \A m \in Answers(c) : m.type = "SUCCESSFUL" => m.req \in applied[m.from]

AgreementInv(c) ==
    /\ Roles(c) /\ Fresh(c) /\ FirstPhase(c) /\ SecondPhase(c)
    /\ Once(c) /\ Written(c)

-----------------------------------------------------------------------------
(* A set of as many answers as there are peers, at most one of each, has   *)
(* one of every peer.                                                      *)

LEMMA OneOfEach ==
    ASSUME NEW P, IsFiniteSet(P), NEW f, NEW E,
           E \subseteq {f[p] : p \in P},
           Cardinality(E) >= Cardinality(P)
    PROVE  \A p \in P : f[p] \in E
<1> DEFINE F == {f[p] : p \in P}
           g == [p \in P |-> f[p]]
<1>1. g \in Surjection(P, F)
  BY DEF Surjection
<1>2. IsFiniteSet(F) /\ Cardinality(F) <= Cardinality(P)
  BY <1>1, FS_Surjection
<1> HIDE DEF F
<1>3. IsFiniteSet(E) /\ Cardinality(E) <= Cardinality(F)
      /\ (Cardinality(F) = Cardinality(E) => F = E)
  BY <1>2, FS_Subset DEF F
<1>4. Cardinality(E) \in Nat /\ Cardinality(F) \in Nat /\ Cardinality(P) \in Nat
  BY <1>2, <1>3, FS_CardinalityType
<1>5. F = E
  BY <1>2, <1>3, <1>4
<1> QED
  BY <1>5 DEF F

\* The answer of p to the current request.
Answer(type, p, c) ==
    [type |-> type, req |-> coord[c].req, kind |-> "WRITE", id |-> coord[c].id,
     from |-> p, to |-> c]

\* An answer is determined by its type and the peer that gave it.
LEMMA AnswerIs ==
    ASSUME NEW c \in Servers, TypeOK, Roles(c), Fresh(c), coord[c].pc # "idle",
           NEW m \in Answers(c),
           m.id = coord[c].id
    PROVE  m = Answer(m.type, m.from, c) /\ m.from \in Peers[c]
<1>1. m \in ReplyType
  BY DEF TypeOK, Answers
<1>2. m = [type |-> m.type, req |-> m.req, kind |-> m.kind, id |-> m.id,
           from |-> m.from, to |-> m.to]
  BY <1>1 DEF ReplyType, MessageType
<1>3. m.req = coord[c].req /\ m.kind = "WRITE" /\ m.to = c /\ m.from \in Peers[c]
  BY DEF Roles, Fresh, Belongs
<1> QED
  BY <1>2, <1>3 DEF Answer

\* If check_success finds only answers of one type in the queue of the
\* current request, it is that answer of every peer.
LEMMA QueueIsFull ==
    ASSUME NEW c \in Servers, TypeOK, Roles(c), Fresh(c), coord[c].pc # "idle",
           CheckSuccess(c, coord[c].id), NEW type,
           \A m \in Queue(c, coord[c].id) : m.type = type
    PROVE  \A p \in Peers[c] : Answer(type, p, c) \in Queue(c, coord[c].id)
<1> DEFINE E == Queue(c, coord[c].id)
           f == [p \in Peers[c] |-> Answer(type, p, c)]
<1>1. IsFiniteSet(Peers[c])
  BY ServersAssumption, FS_Subset
<1>2. Cardinality(E) >= Cardinality(Peers[c])
  BY DEF CheckSuccess, AllAnswered
<1>3. \A m \in E : m = Answer(type, m.from, c) /\ m.from \in Peers[c]
  BY AnswerIs DEF Queue, Answers
<1>4. \A m \in E : m = f[m.from] /\ m.from \in Peers[c]
  BY <1>3
<1>5. \A p \in Peers[c] : f[p] = Answer(type, p, c)
  OBVIOUS
<1> HIDE DEF E, f
<1>6. E \subseteq {f[p] : p \in Peers[c]}
  BY <1>4
<1>7. \A p \in Peers[c] : f[p] \in E
  BY <1>1, <1>2, <1>6, OneOfEach
<1> QED
  BY <1>5, <1>7 DEF E

-----------------------------------------------------------------------------
(* Most actions only take things away from a transaction.                  *)

\* c stays in its phase, or gives its request up.
Stays(c) ==
    \/ /\ coord'[c].pc = "idle"
       /\ number'[c] >= number[c]
    \/ /\ coord'[c].req = coord[c].req /\ coord'[c].id = coord[c].id
       /\ \/ coord'[c].pc = coord[c].pc
          \/ {coord[c].pc, coord'[c].pc} \subseteq {"commit", "apply", "flush"}
       /\ number'[c] = number[c]

Fewer(c) ==
    /\ requests' >= requests
    /\ Stays(c)
    /\ coord'[c].kind = "WRITE"
    /\ \A s \in Servers : s # c => coord'[s].pc = "idle"
    /\ \A m \in calls' : m.from = c /\ m.to \in Peers[c]
    /\ Open' \subseteq Open
    /\ replies' \subseteq replies
    /\ acks'[c] \subseteq acks[c]
    /\ \A p \in Busy' : /\ p \in Busy
                        /\ sport'[p].pc = sport[p].pc
                        /\ sport'[p].req = sport[p].req
                        /\ sport'[p].id = sport[p].id
                        /\ sport'[p].kind = sport[p].kind
                        /\ sport'[p].from \in {sport[p].from, Nobody}
    /\ \A p \in Servers : applied[p] \subseteq applied'[p]

\* Types of what the invariant compares.
LEMMA Numbers ==
    ASSUME NEW c \in Servers, TypeOK
    PROVE  /\ requests \in Nat /\ number[c] \in Nat
           /\ coord[c].id \in Nat /\ coord[c].req \in Nat
           /\ \A m \in Open : m.id \in Nat /\ m.req \in Nat
           /\ \A m \in Answers(c) : m.id \in Nat /\ m.req \in Nat /\ m.from \in Servers
           /\ \A p \in Busy : sport[p].id \in Nat /\ sport[p].req \in Nat
<1>1. requests \in Nat
  BY KindsAssumption DEF TypeOK
<1>2. number[c] \in Nat /\ coord[c].id \in Nat /\ coord[c].req \in Nat
  BY DEF TypeOK, CoordType
<1>3. \A m \in Open : m.id \in Nat /\ m.req \in Nat
  BY DEF TypeOK, Open, CallType, MessageType
<1>4. \A m \in Answers(c) : m.id \in Nat /\ m.req \in Nat /\ m.from \in Servers
  BY DEF TypeOK, Answers, ReplyType, MessageType
<1>5. \A p \in Busy : sport[p].id \in Nat /\ sport[p].req \in Nat
  BY DEF TypeOK, Busy, SportType
<1> QED
  BY <1>1, <1>2, <1>3, <1>4, <1>5

LEMMA FewerInv ==
    ASSUME NEW c \in Servers, TypeOK, TypeOK', AgreementInv(c), Fewer(c)
    PROVE  AgreementInv(c)'
<1>a. Answers(c)' \subseteq Answers(c)
  BY DEF Fewer, Answers
<1>n. /\ requests' \in Nat /\ number'[c] \in Nat /\ requests \in Nat /\ number[c] \in Nat
      /\ coord'[c].id \in Nat /\ coord'[c].req \in Nat
      /\ \A m \in Open : m.id \in Nat /\ m.req \in Nat
      /\ \A m \in Answers(c) : m.id \in Nat /\ m.req \in Nat /\ m.from \in Servers
      /\ \A p \in Busy : sport[p].id \in Nat /\ sport[p].req \in Nat
  <2>1. /\ requests' \in Nat /\ number'[c] \in Nat
        /\ coord'[c].id \in Nat /\ coord'[c].req \in Nat
    <3>1. requests' \in Nat
      BY KindsAssumption DEF TypeOK
    <3> QED
      BY <3>1 DEF TypeOK, CoordType
  <2> QED
    BY <2>1, Numbers
<1>1. Roles(c)'
  BY <1>a DEF Fewer, AgreementInv, Roles
<1>b. ASSUME NEW x, x.req \in Nat, x.id \in Nat, Belongs(x, c)
      PROVE  /\ x.req <= requests'
             /\ x.id < number'[c]
             /\ coord'[c].pc # "idle" => (x.id = coord'[c].id <=> x.req = coord'[c].req)
  BY <1>b, <1>n DEF Fewer, Stays, Belongs
<1>2. Fresh(c)'
  <2>1. /\ coord'[c].pc = "number" => coord'[c].id = number'[c]
        /\ coord'[c].pc # "idle" => coord'[c].req <= requests'
        /\ coord'[c].pc \notin {"idle", "number"} => coord'[c].id < number'[c]
    BY <1>n DEF Fewer, Stays, AgreementInv, Fresh
  <2>2. \A m \in Open' : Belongs(m, c)'
    BY <1>b, <1>n DEF Fewer, AgreementInv, Fresh, Belongs
  <2>3. \A m \in Answers(c)' : Belongs(m, c)'
    BY <1>a, <1>b, <1>n DEF AgreementInv, Fresh, Belongs
  <2>4. \A p \in Busy' : Belongs(sport[p], c)'
    <3> SUFFICES ASSUME NEW p \in Busy' PROVE Belongs(sport[p], c)'
      OBVIOUS
    <3>1. /\ p \in Busy
          /\ sport'[p].req = sport[p].req /\ sport'[p].id = sport[p].id
      BY DEF Fewer
    <3>2. Belongs(sport[p], c)
      BY <3>1 DEF AgreementInv, Fresh
    <3> QED
      BY <3>1, <3>2, <1>b, <1>n DEF Belongs
  <2> QED
    BY <2>1, <2>2, <2>3, <2>4 DEF Fresh
<1>3. FirstPhase(c)'
  BY <1>a DEF Fewer, Stays, AgreementInv, FirstPhase
<1>4. SecondPhase(c)'
  BY <1>a DEF Fewer, Stays, AgreementInv, SecondPhase
<1>5. Once(c)'
  BY <1>a DEF Fewer, AgreementInv, Once, Reply
<1>6. Written(c)'
  <2>1. Busy \subseteq Servers
    BY DEF Busy
  <2> QED
    BY <1>a, <1>n, <2>1 DEF Fewer, AgreementInv, Written
<1> QED
  BY <1>1, <1>2, <1>3, <1>4, <1>5, <1>6 DEF AgreementInv

-----------------------------------------------------------------------------
(* The steps of c that lead into a phase.                                  *)

\* The next number is an id that nothing carries yet.
LEMMA WriteRequestInv ==
    ASSUME NEW c \in Servers, TypeOK, AgreementInv(c), WriteRequest(c)
    PROVE  AgreementInv(c)'
<1>1. /\ coord'[c].pc = "number" /\ coord'[c].req = requests + 1
      /\ coord'[c].kind = "WRITE" /\ coord'[c].id = number[c]
      /\ \A s \in Servers : s # c => coord'[s] = coord[s]
      /\ requests' = requests + 1
  BY DEF WriteRequest, Accept, TypeOK
<1>2. /\ Open' = Open /\ Answers(c)' = Answers(c) /\ Busy' = Busy
      /\ UNCHANGED <<calls, replies, acks, sport, number, applied>>
  BY DEF WriteRequest, net, disk, Open, Answers, Busy
<1>n. /\ requests \in Nat /\ number[c] \in Nat
      /\ \A m \in Open : m.id \in Nat /\ m.req \in Nat
      /\ \A m \in Answers(c) : m.id \in Nat /\ m.req \in Nat
      /\ \A p \in Busy : sport[p].id \in Nat /\ sport[p].req \in Nat
  BY Numbers
<1>3. ASSUME NEW x, x.req \in Nat, x.id \in Nat, Belongs(x, c)
      PROVE  /\ x.req <= requests'
             /\ x.id < number'[c]
             /\ (x.id = coord'[c].id <=> x.req = coord'[c].req)
             /\ x.req # requests + 1
  BY <1>1, <1>2, <1>3, <1>n DEF Belongs
<1>4. Roles(c)'
  BY <1>1, <1>2 DEF AgreementInv, Roles
<1>5. Fresh(c)'
  <2>1. \A m \in Open' : Belongs(m, c)'
    BY <1>2, <1>3, <1>n DEF AgreementInv, Fresh, Belongs
  <2>2. \A m \in Answers(c)' : Belongs(m, c)'
    BY <1>2, <1>3, <1>n DEF AgreementInv, Fresh, Belongs
  <2>3. \A p \in Busy' : Belongs(sport[p], c)'
    BY <1>2, <1>3, <1>n DEF AgreementInv, Fresh, Belongs
  <2> QED
    BY <1>1, <1>2, <1>n, <2>1, <2>2, <2>3 DEF Fresh
<1>6. FirstPhase(c)'
  BY <1>1, <1>2, <1>3, <1>n DEF AgreementInv, Fresh, FirstPhase
<1>7. SecondPhase(c)'
  BY <1>1 DEF SecondPhase
<1>8. Once(c)' /\ Written(c)'
  BY <1>2 DEF AgreementInv, Once, Written
<1> QED
  BY <1>4, <1>5, <1>6, <1>7, <1>8 DEF AgreementInv

\* What a broadcast puts on the way.
LEMMA BroadcastIs ==
    ASSUME NEW c \in Servers, NEW type, NEW req, NEW kind, NEW id,
           NEW m \in Broadcast(type, c, req, kind, id)
    PROVE  /\ m.type = type /\ m.req = req /\ m.kind = kind /\ m.id = id
           /\ m.from = c /\ m.to \in Peers[c]
  BY DEF Broadcast

\* The PRECOMMITs: the id was nobody's, so no ACK of it is about.
LEMMA StoreNumberInv ==
    ASSUME NEW c \in Servers, TypeOK, AgreementInv(c), StoreNumber(c)
    PROVE  AgreementInv(c)'
<1> DEFINE B == Broadcast("PRECOMMIT", c, coord[c].req, "WRITE", coord[c].id)
<1>1. /\ coord[c].pc = "number" /\ coord'[c].pc = "precommit"
      /\ coord'[c].req = coord[c].req /\ coord'[c].id = coord[c].id
      /\ coord'[c].kind = coord[c].kind
      /\ \A s \in Servers : s # c => coord'[s] = coord[s]
      /\ number'[c] = coord[c].id + 1
  BY CoordMoves DEF StoreNumber, TypeOK
<1>2. /\ Open' = Open \cup B /\ Answers(c)' = Answers(c) /\ Busy' = Busy
      /\ calls' = calls \cup B
      /\ UNCHANGED <<replies, acks, sport, applied, requests>>
  BY DEF StoreNumber, Open, Answers, Busy, Broadcast
<1>3. \A m \in B : /\ m.type = "PRECOMMIT" /\ m.req = coord[c].req
                   /\ m.kind = "WRITE" /\ m.id = coord[c].id
                   /\ m.from = c /\ m.to \in Peers[c]
  BY BroadcastIs
<1> HIDE DEF B
<1>n. /\ requests \in Nat /\ number[c] \in Nat
      /\ coord[c].id \in Nat /\ coord[c].req \in Nat
      /\ \A m \in Open : m.id \in Nat /\ m.req \in Nat
      /\ \A m \in Answers(c) : m.id \in Nat /\ m.req \in Nat
      /\ \A p \in Busy : sport[p].id \in Nat /\ sport[p].req \in Nat
  BY Numbers
<1>4. coord[c].id = number[c] /\ coord[c].req <= requests
  BY <1>1 DEF AgreementInv, Fresh
<1>5. ASSUME NEW x, x.req \in Nat, x.id \in Nat, Belongs(x, c)
      PROVE  /\ x.req <= requests'
             /\ x.id < number'[c]
             /\ (x.id = coord'[c].id <=> x.req = coord'[c].req)
             /\ x.req # coord[c].req
  BY <1>1, <1>2, <1>4, <1>5, <1>n DEF Belongs
<1>6. Roles(c)'
  BY <1>1, <1>2, <1>3 DEF AgreementInv, Roles
<1>7. Fresh(c)'
  <2>1. \A m \in Open : Belongs(m, c)'
    BY <1>2, <1>5, <1>n DEF AgreementInv, Fresh, Belongs
  <2>2. \A m \in B : Belongs(m, c)'
    BY <1>1, <1>2, <1>3, <1>4, <1>n DEF Belongs
  <2>3. \A m \in Answers(c)' : Belongs(m, c)'
    BY <1>2, <1>5, <1>n DEF AgreementInv, Fresh, Belongs
  <2>4. \A p \in Busy' : Belongs(sport[p], c)'
    BY <1>2, <1>5, <1>n DEF AgreementInv, Fresh, Belongs
  <2> QED
    BY <1>1, <1>2, <1>4, <1>n, <2>1, <2>2, <2>3, <2>4 DEF Fresh
<1>8. FirstPhase(c)'
  BY <1>1, <1>2, <1>3 DEF AgreementInv, FirstPhase
<1>9. SecondPhase(c)'
  BY <1>1 DEF SecondPhase
<1>10. Once(c)'
  <2>1. ASSUME NEW m \in B PROVE Reply(m, "ACK") \notin Answers(c)
    <3>1. \A a \in Answers(c) : a.req # coord[c].req
      BY <1>5, <1>n DEF AgreementInv, Fresh
    <3>2. m = [type |-> m.type, req |-> m.req, kind |-> m.kind, id |-> m.id,
               from |-> m.from, to |-> m.to]
      BY DEF B, Broadcast
    <3>3. Reply(m, "ACK").req = m.req
      BY <3>2 DEF Reply
    <3> QED
      BY <1>3, <3>1, <3>3
  <2> QED
    BY <1>2, <2>1 DEF AgreementInv, Once
<1>11. Written(c)'
  BY <1>2 DEF AgreementInv, Written
<1> QED
  BY <1>6, <1>7, <1>8, <1>9, <1>10, <1>11 DEF AgreementInv

\* What answers a PRECOMMIT.
LEMMA ReplyIs ==
    ASSUME TypeOK, NEW m \in calls, NEW type
    PROVE  Reply(m, type) = [type |-> type, req |-> m.req, kind |-> m.kind,
                             id |-> m.id, from |-> m.to, to |-> m.from]
<1>1. m = [type |-> m.type, req |-> m.req, kind |-> m.kind, id |-> m.id,
           from |-> m.from, to |-> m.to]
  BY DEF TypeOK, CallType, MessageType
<1> DEFINE R == [type : {m.type, type}, req : {m.req}, kind : {m.kind},
                 id : {m.id}, from : {m.from, m.to}, to : {m.to, m.from}]
<1>2. m \in R
  BY <1>1
<1>3. Reply(m, type) \in R
  BY <1>2 DEF Reply
<1>4. /\ Reply(m, type).type = type /\ Reply(m, type).from = m.to
      /\ Reply(m, type).to = m.from
  BY <1>2 DEF Reply
<1> QED
  BY <1>3, <1>4

\* The COMMITs: every peer has answered its PRECOMMIT, so none of them and
\* no ACK is on its way, and those in the queue are erased.
LEMMA PrecommittedInv ==
    ASSUME NEW c \in Servers, TypeOK, AgreementInv(c), Precommitted(c)
    PROVE  AgreementInv(c)'
<1> DEFINE B == Broadcast("COMMIT", c, coord[c].req, coord[c].kind, coord[c].id)
           Q == Queue(c, coord[c].id)
<1>1. /\ coord[c].pc = "precommit" /\ coord'[c].pc = "commit"
      /\ coord'[c].req = coord[c].req /\ coord'[c].id = coord[c].id
      /\ coord'[c].kind = coord[c].kind
      /\ \A s \in Servers : s # c => coord'[s] = coord[s]
  BY CoordMoves DEF Precommitted, TypeOK
<1>2. /\ Open' = Open \cup B /\ Busy' = Busy
      /\ calls' = calls \cup B
      /\ acks'[c] = acks[c] \ Q
      /\ UNCHANGED <<replies, sport, applied, requests, number>>
  BY DEF Precommitted, Acknowledged, Open, Busy, Broadcast, disk, TypeOK
<1>3. \A m \in B : /\ m.type = "COMMIT" /\ m.req = coord[c].req
                   /\ m.kind = "WRITE" /\ m.id = coord[c].id
                   /\ m.from = c /\ m.to \in Peers[c]
  BY BroadcastIs DEF AgreementInv, Roles
<1>4. \A p \in Peers[c] : Answer("ACK", p, c) \in Q
  <2>1. \A m \in Q : m.type = "ACK"
    BY <1>1 DEF Queue, AgreementInv, FirstPhase, Fresh, Belongs, Answers
  <2> QED
    BY <1>1, <2>1, QueueIsFull DEF AgreementInv, Precommitted, Acknowledged
<1>5. Q \subseteq acks[c] /\ \A m \in acks[c] \ Q : m.id # coord[c].id
  BY DEF Queue
<1> HIDE DEF B, Q
<1>6. Answers(c)' \subseteq Answers(c)
  BY <1>2 DEF Answers
<1>7. Roles(c)'
  BY <1>1, <1>2, <1>3, <1>6 DEF AgreementInv, Roles
<1>8. Fresh(c)'
  BY <1>1, <1>2, <1>3, <1>6 DEF AgreementInv, Fresh, Belongs
<1>9. FirstPhase(c)'
  BY <1>1 DEF FirstPhase
<1>10. SecondPhase(c)'
  <2>1. ASSUME NEW m \in Open, m.type = "PRECOMMIT" PROVE m.req # coord[c].req
    <3> SUFFICES ASSUME m.req = coord[c].req PROVE FALSE
      OBVIOUS
    <3>1. m \in calls /\ m.kind = "WRITE" /\ m.from = c /\ m.to \in Peers[c]
          /\ m.id = coord[c].id
      BY <1>1 DEF Open, AgreementInv, Roles, Fresh, Belongs
    <3>2. Reply(m, "ACK") = Answer("ACK", m.to, c)
      BY <3>1, ReplyIs DEF Answer
    <3> QED
      BY <1>4, <1>5, <2>1, <3>1, <3>2 DEF Answers, AgreementInv, Once
  <2>2. ASSUME NEW m \in Answers(c)', m.type = "ACK" PROVE m.req # coord[c].req
    <3> SUFFICES ASSUME m.req = coord[c].req PROVE FALSE
      OBVIOUS
    <3>1. m \in Answers(c) /\ m.id = coord[c].id
      BY <1>1, <1>6 DEF AgreementInv, Fresh, Belongs
    <3>2. m = Answer("ACK", m.from, c) /\ m.from \in Peers[c]
      BY <1>1, <2>2, <3>1, AnswerIs DEF AgreementInv
    <3>3. m \in acks[c] /\ m \in Q
      BY <1>4, <1>5, <3>2
    <3>4. m \in replies
      BY <1>2, <3>3 DEF Answers
    <3> QED
      BY <2>2, <3>3, <3>4 DEF AgreementInv, Once
  <2> QED
    BY <1>1, <1>2, <1>3, <2>1, <2>2 DEF SecondPhase
<1>11. Once(c)'
  BY <1>2, <1>3, <1>6 DEF AgreementInv, Once, Reply
<1>12. Written(c)'
  BY <1>2, <1>6 DEF AgreementInv, Written
<1> QED
  BY <1>7, <1>8, <1>9, <1>10, <1>11, <1>12 DEF AgreementInv

-----------------------------------------------------------------------------
(* The steps of the peers, and the answers.                                *)

\* A step at which c and the numbers stay as they are.
Still(c) == UNCHANGED <<coord, number[c], requests>>

\* The ACK takes the place of the PRECOMMIT.
LEMMA PrecommitInv ==
    ASSUME NEW c \in Servers, TypeOK, AgreementInv(c),
           NEW m \in calls, Precommit(m)
    PROVE  AgreementInv(c)'
<1> DEFINE a == Reply(m, "ACK")
<1>1. /\ m.type = "PRECOMMIT" /\ m \in Open
      /\ m.kind = "WRITE" /\ m.from = c /\ m.to \in Peers[c] /\ Belongs(m, c)
  BY DEF Precommit, Take, Open, AgreementInv, Roles, Fresh
<1>2. /\ Open' = Open \ {m} /\ calls' = calls \ {m} /\ Busy' = Busy
      /\ Answers(c)' = Answers(c) \cup {a}
      /\ replies' = replies \cup {a}
      /\ UNCHANGED <<acks, sport, applied>>
  BY DEF Precommit, Take, Open, Answers, Busy
<1>3. Still(c)
  BY DEF Still, Precommit, disk
<1>4. a = [type |-> "ACK", req |-> m.req, kind |-> m.kind, id |-> m.id,
           from |-> m.to, to |-> m.from]
  BY ReplyIs
<1>5. /\ a.type = "ACK" /\ a.req = m.req /\ a.kind = m.kind /\ a.id = m.id
      /\ a.from = m.to /\ a.to = m.from
  BY <1>4
<1>6. a \notin Answers(c)
  BY <1>1 DEF AgreementInv, Once
<1>7. ASSUME NEW n \in Open, n.type = "PRECOMMIT", Reply(n, "ACK") = a
      PROVE  n = m
  <2>1. n \in calls
    BY DEF Open
  <2>2. Reply(n, "ACK") = [type |-> "ACK", req |-> n.req, kind |-> n.kind,
                           id |-> n.id, from |-> n.to, to |-> n.from]
    BY <2>1, ReplyIs
  <2>3. /\ n.req = m.req /\ n.kind = m.kind /\ n.id = m.id /\ n.from = m.from
        /\ n.to = m.to
    BY <1>5, <1>7, <2>2
  <2>4. n \in CallType /\ m \in CallType
    BY <2>1 DEF TypeOK
  <2> QED
    BY <1>1, <1>7, <2>3, <2>4 DEF CallType, MessageType
<1> HIDE DEF a
<1>8. Roles(c)'
  BY <1>1, <1>2, <1>3, <1>5 DEF AgreementInv, Roles, Still
<1>9. Fresh(c)'
  <2>1. \A x \in Answers(c) \cup {a} : x.req <= requests' /\ x.id < number'[c]
          /\ (coord'[c].pc # "idle" => (x.id = coord'[c].id <=> x.req = coord'[c].req))
    BY <1>1, <1>3, <1>5 DEF AgreementInv, Fresh, Still, Belongs
  <2> QED
    BY <1>2, <1>3, <2>1 DEF AgreementInv, Fresh, Still, Belongs
<1>10. FirstPhase(c)'
  BY <1>2, <1>3, <1>5 DEF AgreementInv, FirstPhase, Still
<1>11. SecondPhase(c)'
  BY <1>1, <1>2, <1>3, <1>5 DEF AgreementInv, SecondPhase, Still
<1>12. Once(c)'
  BY <1>2, <1>6, <1>7 DEF AgreementInv, Once, Answers
<1>13. Written(c)'
  BY <1>2, <1>5 DEF AgreementInv, Written
<1> QED
  BY <1>8, <1>9, <1>10, <1>11, <1>12, <1>13 DEF AgreementInv

\* The participant takes over what the COMMIT says.
LEMMA BeginCommitInv ==
    ASSUME NEW c \in Servers, TypeOK, AgreementInv(c),
           NEW m \in calls, BeginCommit(m)
    PROVE  AgreementInv(c)'
<1>1. /\ m.type = "COMMIT" /\ m \in Open
      /\ m.kind = "WRITE" /\ m.from = c /\ m.to \in Peers[c] /\ Belongs(m, c)
  BY DEF BeginCommit, Take, Open, AgreementInv, Roles, Fresh
<1>2. m.to \in Servers /\ m.to \notin Busy
  BY DEF BeginCommit, Take, Busy, TypeOK, CallType, MessageType
<1>3. /\ Open' = Open \ {m} /\ calls' = calls \ {m}
      /\ Answers(c)' = Answers(c)
      /\ UNCHANGED <<replies, acks, applied>>
  BY DEF BeginCommit, Take, Open, Answers
<1>4. Still(c)
  BY DEF Still, BeginCommit, disk
<1>5. /\ sport'[m.to].pc = "begun" /\ sport'[m.to].req = m.req
      /\ sport'[m.to].id = m.id /\ sport'[m.to].kind = m.kind
      /\ sport'[m.to].from = m.from
      /\ \A p \in Servers : p # m.to => sport'[p] = sport[p]
  BY <1>2 DEF BeginCommit, TypeOK
<1>6. Busy' = Busy \cup {m.to}
  BY <1>2, <1>5 DEF Busy
<1>7. \A p \in Busy : p # m.to /\ p \in Servers /\ sport'[p] = sport[p]
  BY <1>2, <1>5 DEF Busy
<1>8. Roles(c)'
  BY <1>1, <1>3, <1>4, <1>5, <1>6, <1>7 DEF AgreementInv, Roles, Still
<1>9. Fresh(c)'
  <2>1. \A p \in Busy' : Belongs(sport[p], c)'
    <3>1. Belongs(sport[m.to], c)'
      BY <1>1, <1>4, <1>5 DEF Still, Belongs
    <3> QED
      BY <1>4, <1>6, <1>7, <3>1 DEF AgreementInv, Fresh, Still, Belongs
  <2> QED
    BY <1>3, <1>4, <2>1 DEF AgreementInv, Fresh, Still, Belongs
<1>10. FirstPhase(c)'
  BY <1>1, <1>3, <1>4, <1>5, <1>6, <1>7 DEF AgreementInv, FirstPhase, Still
<1>11. SecondPhase(c)'
  BY <1>3, <1>4 DEF AgreementInv, SecondPhase, Still
<1>12. Once(c)'
  BY <1>3 DEF AgreementInv, Once
<1>13. Written(c)'
  BY <1>3, <1>5, <1>6, <1>7 DEF AgreementInv, Written
<1> QED
  BY <1>8, <1>9, <1>10, <1>11, <1>12, <1>13 DEF AgreementInv

\* It writes, and only then can it say so.
LEMMA LocalWriteInv ==
    ASSUME NEW c \in Servers, TypeOK, AgreementInv(c),
           NEW p \in Servers, LocalWrite(p)
    PROVE  AgreementInv(c)'
<1>1. p \in Busy /\ p \in Peers[c] /\ p # c
  BY ServersAssumption DEF LocalWrite, Busy, AgreementInv, Roles
<1>2. /\ sport'[p].pc = "applied" /\ sport'[p].req = sport[p].req
      /\ sport'[p].id = sport[p].id /\ sport'[p].kind = sport[p].kind
      /\ sport'[p].from = sport[p].from
      /\ \A q \in Servers : q # p => sport'[q] = sport[q]
  BY DEF LocalWrite, TypeOK, SportType
<1>3. /\ UNCHANGED <<calls, replies, acks>>
      /\ applied'[p] = applied[p] \cup {sport[p].req}
      /\ \A q \in Servers : applied[q] \subseteq applied'[q]
  BY DEF LocalWrite, net, TypeOK
<1>4. Still(c)
  BY <1>1 DEF Still, LocalWrite, TypeOK
<1>5. Open' = Open /\ Answers(c)' = Answers(c) /\ Busy' = Busy /\ Busy \subseteq Servers
  <2>1. Busy' = Busy
    BY <1>1, <1>2 DEF Busy
  <2> QED
    BY <1>3, <2>1 DEF Open, Answers, Busy
<1>6. \A q \in Busy : /\ sport'[q].req = sport[q].req /\ sport'[q].id = sport[q].id
                      /\ sport'[q].kind = sport[q].kind
                      /\ sport'[q].from = sport[q].from
  BY <1>2, <1>5
<1>7. Roles(c)'
  BY <1>3, <1>4, <1>5, <1>6 DEF AgreementInv, Roles, Still
<1>8. Fresh(c)'
  BY <1>3, <1>4, <1>5, <1>6 DEF AgreementInv, Fresh, Still, Belongs
<1>9. FirstPhase(c)'
  BY <1>3, <1>4, <1>5, <1>6 DEF AgreementInv, FirstPhase, Still
<1>10. SecondPhase(c)'
  BY <1>3, <1>4, <1>5 DEF AgreementInv, SecondPhase, Still
<1>11. Once(c)'
  BY <1>3, <1>5 DEF AgreementInv, Once
<1>12. Written(c)'
  <2>1. \A q \in Busy : sport'[q].pc = "applied" => sport'[q].req \in applied'[q]
    BY <1>2, <1>3, <1>5 DEF AgreementInv, Written
  <2>2. \A m \in Answers(c) : m.from \in Servers
    BY Numbers
  <2>3. \A m \in Answers(c) : m.type = "SUCCESSFUL" => m.req \in applied'[m.from]
    BY <1>3, <2>2 DEF AgreementInv, Written
  <2> QED
    BY <1>5, <2>1, <2>3 DEF Written
<1> QED
  BY <1>7, <1>8, <1>9, <1>10, <1>11, <1>12 DEF AgreementInv

\* The participant p answers with a record of that type, if the connection
\* still stands, and is idle again.
Answering(p, type) ==
    /\ sport' = [sport EXCEPT ![p] = IdleSport]
    /\ replies' = replies \cup
         {[type |-> type, req |-> sport[p].req, kind |-> sport[p].kind,
           id |-> sport[p].id, from |-> p, to |-> d] :
             d \in {sport[p].from} \ {Nobody}}
    /\ UNCHANGED <<acks, coord, calls, requests, applied>>

LEMMA AnsweringInv ==
    ASSUME NEW c \in Servers, TypeOK, AgreementInv(c), NEW p \in Servers,
           sport[p].pc # "idle", number'[c] = number[c],
           NEW type \in {"SUCCESSFUL", "UNSUCCESSFUL"}, Answering(p, type),
           type = "SUCCESSFUL" => sport[p].pc = "applied"
    PROVE  AgreementInv(c)'
<1> DEFINE R == {[type |-> type, req |-> sport[p].req, kind |-> sport[p].kind,
                  id |-> sport[p].id, from |-> p, to |-> d] :
                    d \in {sport[p].from} \ {Nobody}}
<1>1. p \in Busy /\ p \in Peers[c] /\ Belongs(sport[p], c)
  BY DEF Busy, AgreementInv, Roles, Fresh
<1>2. \A m \in R : /\ m.type = type /\ m.req = sport[p].req /\ m.kind = "WRITE"
                   /\ m.id = sport[p].id /\ m.from = p /\ m.to = c
  BY <1>1 DEF AgreementInv, Roles
<1>3. /\ replies' = replies \cup R /\ Answers(c)' = Answers(c) \cup R
      /\ UNCHANGED <<calls, acks, applied>> /\ Open' = Open
  BY DEF Answering, Answers, Open
<1> HIDE DEF R
<1>4. Still(c)
  BY DEF Still, Answering
<1>5. /\ Busy' \subseteq Busy
      /\ \A q \in Busy' : sport'[q] = sport[q] /\ q \in Busy
  <2>1. sport'[p].pc = "idle" /\ \A q \in Servers : q # p => sport'[q] = sport[q]
    BY DEF Answering, IdleSport, TypeOK
  <2> QED
    BY <2>1 DEF Busy
<1>6. Roles(c)'
  BY <1>1, <1>2, <1>3, <1>4, <1>5 DEF AgreementInv, Roles, Still
<1>7. Fresh(c)'
  <2>1. \A m \in R : Belongs(m, c)
    BY <1>1, <1>2 DEF Belongs
  <2> QED
    BY <1>3, <1>4, <1>5, <2>1 DEF AgreementInv, Fresh, Still, Belongs
<1>8. FirstPhase(c)'
  BY <1>1, <1>2, <1>3, <1>4, <1>5 DEF AgreementInv, FirstPhase, Still
<1>9. SecondPhase(c)'
  BY <1>2, <1>3, <1>4 DEF AgreementInv, SecondPhase, Still
<1>10. Once(c)'
  <2>1. ASSUME NEW m \in Open PROVE Reply(m, "ACK") \notin R
    <3>1. Reply(m, "ACK").type = "ACK"
      <4>1. m \in calls
        BY DEF Open
      <4> QED
        BY <4>1, ReplyIs
    <3> QED
      BY <1>2, <3>1
  <2> QED
    BY <1>2, <1>3, <2>1 DEF AgreementInv, Once
<1>11. Written(c)'
  BY <1>1, <1>2, <1>3, <1>5 DEF AgreementInv, Written
<1> QED
  BY <1>6, <1>7, <1>8, <1>9, <1>10, <1>11 DEF AgreementInv

\* An answer moves from the network to the queue.
LEMMA ReceiveReplyInv ==
    ASSUME NEW c \in Servers, TypeOK, AgreementInv(c),
           NEW m \in replies, ReceiveReply(m)
    PROVE  AgreementInv(c)'
<1>1. m.to = c
  BY DEF AgreementInv, Roles, Answers
<1>2. /\ replies' = replies \ {m} /\ acks'[c] = acks[c] \cup {m}
      /\ Answers(c)' = Answers(c) /\ Open' = Open /\ Busy' = Busy
      /\ UNCHANGED <<calls, sport, applied>>
  <2>1. replies' = replies \ {m} /\ acks'[c] = acks[c] \cup {m}
    BY <1>1 DEF ReceiveReply, TypeOK
  <2> QED
    BY <2>1 DEF ReceiveReply, Answers, Open, Busy
<1>3. Still(c)
  BY DEF Still, ReceiveReply, Undo, disk
<1>4. Roles(c)'
  BY <1>2, <1>3 DEF AgreementInv, Roles, Still
<1>5. Fresh(c)'
  BY <1>2, <1>3 DEF AgreementInv, Fresh, Still, Belongs
<1>6. FirstPhase(c)' /\ SecondPhase(c)'
  BY <1>2, <1>3 DEF AgreementInv, FirstPhase, SecondPhase, Still
<1>7. Once(c)'
  BY <1>2 DEF AgreementInv, Once
<1>8. Written(c)'
  BY <1>2 DEF AgreementInv, Written
<1> QED
  BY <1>4, <1>5, <1>6, <1>7, <1>8 DEF AgreementInv

-----------------------------------------------------------------------------
(* The steps that only take away.                                          *)

\* An UNSUCCESSFUL command is not open.
LEMMA BroadcastUnsuccessful ==
    ASSUME NEW c \in Servers, AgreementInv(c), NEW req, NEW kind, NEW id,
           calls' = calls \cup Broadcast("UNSUCCESSFUL", c, req, kind, id)
    PROVE  /\ \A m \in calls' : m.from = c /\ m.to \in Peers[c]
           /\ Open' \subseteq Open
<1>1. \A m \in Broadcast("UNSUCCESSFUL", c, req, kind, id) :
          m.type = "UNSUCCESSFUL" /\ m.from = c /\ m.to \in Peers[c]
  BY BroadcastIs
<1> QED
  BY <1>1 DEF Open, AgreementInv, Roles

LEMMA MalformedFewer ==
    ASSUME NEW c \in Servers, TypeOK, AgreementInv(c), MalformedRequest(c)
    PROVE  Fewer(c)
<1>1. requests' = requests + 1 /\ requests \in Nat
  BY Numbers DEF MalformedRequest, Accept
<1>2. /\ \A m \in calls' : m.from = c /\ m.to \in Peers[c]
      /\ Open' \subseteq Open
  BY BroadcastUnsuccessful DEF MalformedRequest
<1>3. Stays(c)
  BY DEF MalformedRequest, Stays, disk
<1> QED
  BY <1>1, <1>2, <1>3 DEF MalformedRequest, Fewer, AgreementInv, Roles, Busy, disk

LEMMA FailFewer ==
    ASSUME NEW c \in Servers, TypeOK, AgreementInv(c), NEW id, Fail(c, id),
           number'[c] >= number[c],
           UNCHANGED <<requests, replies, acks, sport, applied>>
    PROVE  Fewer(c)
<1>1. coord'[c] = IdleCoord /\ \A s \in Servers : s # c => coord'[s] = coord[s]
  BY DEF Fail, TypeOK
<1>2. /\ \A m \in calls' : m.from = c /\ m.to \in Peers[c]
      /\ Open' \subseteq Open
  BY BroadcastUnsuccessful DEF Fail
<1>3. requests' >= requests
  BY Numbers
<1>4. Stays(c)
  BY <1>1 DEF Stays, IdleCoord
<1> QED
  BY <1>1, <1>2, <1>3, <1>4 DEF Fewer, AgreementInv, Roles, Busy, IdleCoord

LEMMA StorageFaultFewer ==
    ASSUME NEW c \in Servers, TypeOK, AgreementInv(c), StorageFault(c)
    PROVE  Fewer(c)
<1>1. number[c] \in Nat /\ coord[c].id = number[c]
  BY Numbers DEF StorageFault, AgreementInv, Fresh
<1>2. CASE Fail(c, 0) /\ UNCHANGED number
  <2>1. number'[c] >= number[c]
    BY <1>1, <1>2
  <2> QED
    BY <1>2, <2>1, FailFewer DEF StorageFault
<1>3. CASE Fail(c, coord[c].id) /\ number' = [number EXCEPT ![c] = coord[c].id + 1]
  <2>1. number'[c] >= number[c]
    BY <1>1, <1>3 DEF TypeOK
  <2> QED
    BY <1>3, <2>1, FailFewer DEF StorageFault
<1> QED
  BY <1>2, <1>3 DEF StorageFault

LEMMA AbortFewer ==
    ASSUME NEW c \in Servers, TypeOK, AgreementInv(c), Abort(c)
    PROVE  Fewer(c)
<1>1. number'[c] >= number[c]
  BY Numbers DEF Abort, disk
<1> QED
  BY <1>1, FailFewer DEF Abort

\* The local write and what ends the second phase.
LEMMA SecondFewer ==
    ASSUME NEW c \in Servers, TypeOK, AgreementInv(c),
           Committed(c) \/ ApplyWrite(c) \/ Flush(c)
    PROVE  Fewer(c)
<1>1. /\ coord'[c].pc = "idle"
         \/ /\ coord'[c].req = coord[c].req /\ coord'[c].id = coord[c].id
            /\ {coord[c].pc, coord'[c].pc} \subseteq {"commit", "apply", "flush"}
      /\ coord'[c].kind = "WRITE"
      /\ \A s \in Servers : s # c => coord'[s] = coord[s]
  <2>1. coord[c] \in CoordType /\ coord \in [Servers -> CoordType]
    BY DEF TypeOK
  <2>2. coord[c].kind = "WRITE"
    BY DEF AgreementInv, Roles
  <2>3. CASE Committed(c)
    BY <2>1, <2>2, <2>3 DEF Committed, CoordType
  <2>4. CASE ApplyWrite(c)
    BY <2>1, <2>2, <2>4 DEF ApplyWrite, CoordType
  <2>5. CASE Flush(c)
    BY <2>1, <2>5 DEF Flush, IdleCoord
  <2> QED
    BY <2>3, <2>4, <2>5
<1>2. UNCHANGED <<calls, replies, requests, number, sport>>
  BY DEF Committed, ApplyWrite, Flush, disk, net
<1>3. acks'[c] \subseteq acks[c]
  BY DEF Committed, Acknowledged, ApplyWrite, Flush, TypeOK
<1>4. \A p \in Servers : applied[p] \subseteq applied'[p]
  <2>1. \/ UNCHANGED applied
        \/ applied' = [applied EXCEPT ![c] = @ \cup {coord[c].req}]
    BY DEF Committed, ApplyWrite, Flush
  <2> QED
    BY <2>1 DEF TypeOK
<1>5. requests' >= requests /\ number'[c] >= number[c]
  BY <1>2, Numbers
<1>6. Stays(c)
  BY <1>1, <1>2, <1>5 DEF Stays
<1> QED
  BY <1>1, <1>2, <1>3, <1>4, <1>5, <1>6 DEF Fewer, AgreementInv, Roles, Open, Busy

\* A death of any process.
LEMMA DiesFewer ==
    ASSUME NEW c \in Servers, TypeOK, AgreementInv(c), NEW s \in Servers, Dies(s),
           number'[c] = number[c], UNCHANGED <<requests, applied>>
    PROVE  Fewer(c)
<1>1. /\ coord'[c].pc = "idle" \/ coord'[c] = coord[c]
      /\ coord'[c].kind = "WRITE"
      /\ \A t \in Servers : t # c => coord'[t].pc = "idle"
  BY DEF Dies, IdleCoord, TypeOK, AgreementInv, Roles
<1>2. /\ calls' \subseteq calls /\ Open' \subseteq Open /\ replies' \subseteq replies
      /\ acks'[c] \subseteq acks[c]
  BY DEF Dies, Open, TypeOK
<1>3. requests' >= requests /\ number'[c] >= number[c]
  BY Numbers
<1>4. Stays(c)
  BY <1>1, <1>3 DEF Stays
<1>5. ASSUME NEW p \in Busy'
      PROVE  /\ p \in Busy
             /\ sport'[p].pc = sport[p].pc /\ sport'[p].req = sport[p].req
             /\ sport'[p].id = sport[p].id /\ sport'[p].kind = sport[p].kind
             /\ sport'[p].from \in {sport[p].from, Nobody}
  <2>1. p \in Servers /\ sport'[p].pc # "idle" /\ sport[p] \in SportType
    BY DEF Busy, TypeOK
  <2>2. p # s
    BY <2>1 DEF Dies, IdleSport
  <2>3. sport'[p] = IF sport[p].from = s THEN [sport[p] EXCEPT !.from = Nobody]
                    ELSE sport[p]
    BY <2>1, <2>2 DEF Dies
  <2> QED
    BY <2>1, <2>3 DEF Busy, SportType
<1> QED
  BY <1>1, <1>2, <1>3, <1>4, <1>5 DEF Fewer, AgreementInv, Roles

\* Commands that are not answered, what is lost, and restarts.
LEMMA DroppedFewer ==
    ASSUME NEW c \in Servers, TypeOK, AgreementInv(c),
           \/ \E m \in calls : Unsuccessful(m) \/ Refused(m)
           \/ \E m \in calls \cup replies : Lose(m)
           \/ \E s \in Servers : Restart(s)
    PROVE  Fewer(c)
<1>1. /\ calls' \subseteq calls /\ replies' \subseteq replies
      /\ UNCHANGED <<requests, coord, sport, applied, number>>
  BY DEF Unsuccessful, Take, Undo, Refused, Lose, Restart, disk, net
<1>2. acks'[c] \subseteq acks[c]
  <2>1. CASE \E m \in calls : Unsuccessful(m)
    <3>1. PICK m \in calls : Unsuccessful(m)
      BY <2>1
    <3>2. m.to # c
      BY ServersAssumption DEF AgreementInv, Roles
    <3> QED
      BY <3>1, <3>2 DEF Unsuccessful, TypeOK
  <2> QED
    BY <2>1 DEF Refused, Lose, Restart
<1>3. requests' >= requests
  BY <1>1, Numbers
<1>4. Stays(c)
  BY <1>1 DEF Stays
<1> QED
  BY <1>1, <1>2, <1>3, <1>4 DEF Fewer, AgreementInv, Roles, Open, Busy

-----------------------------------------------------------------------------
(* Together.                                                               *)

LEMMA AgreementInit ==
    ASSUME NEW c \in Servers, Init
    PROVE  AgreementInv(c)
<1>1. /\ Open = {} /\ Answers(c) = {} /\ calls = {} /\ replies = {}
      /\ \A s \in Servers : coord[s] = IdleCoord
  BY DEF Init, Open, Answers
<1>2. Busy = {}
  BY DEF Init, Busy, IdleSport
<1> QED
  BY <1>1, <1>2 DEF AgreementInv, Roles, Fresh, FirstPhase, SecondPhase, Once,
                    Written, IdleCoord

LEMMA AgreementCoordinator ==
    ASSUME NEW c \in Servers, Single(c), TypeOK, TypeOK', AgreementInv(c),
           NEW d \in Coordinators, Request(d) \/ CoordinatorStep(d)
    PROVE  AgreementInv(c)'
<1>d. d = c
  BY DEF Single
<1>1. CASE WriteRequest(c)
  BY <1>1, WriteRequestInv
<1>2. CASE \E id \in 0..MaxRequests : ReplaceRequest(c, id)
  BY <1>2 DEF ReplaceRequest, Single
<1>3. CASE MalformedRequest(c)
  BY <1>3, MalformedFewer, FewerInv
<1>4. CASE StoreNumber(c)
  BY <1>4, StoreNumberInv
<1>5. CASE Precommitted(c)
  BY <1>5, PrecommittedInv
<1>6. CASE Committed(c) \/ ApplyWrite(c) \/ Flush(c)
  BY <1>6, SecondFewer, FewerInv
<1>7. CASE Abort(c)
  BY <1>7, AbortFewer, FewerInv
<1>8. CASE ApplyReplace(c)
  BY <1>8 DEF ApplyReplace, AgreementInv, Roles
<1> QED
  BY <1>d, <1>1, <1>2, <1>3, <1>4, <1>5, <1>6, <1>7, <1>8 DEF Request, CoordinatorStep

LEMMA AgreementLocal ==
    ASSUME NEW c \in Servers, TypeOK, TypeOK', AgreementInv(c),
           NEW p \in Servers, LocalStep(p)
    PROVE  AgreementInv(c)'
<1>1. CASE LocalWrite(p)
  BY <1>1, LocalWriteInv
<1>2. CASE LocalReplace(p)
  BY <1>2 DEF LocalReplace, Busy, AgreementInv, Roles
<1>3. CASE FinishCommit(p)
  <2> DEFINE type == IF sport[p].found THEN "SUCCESSFUL" ELSE "UNSUCCESSFUL"
  <2>1. type \in {"SUCCESSFUL", "UNSUCCESSFUL"}
    OBVIOUS
  <2>2. sport[p].pc = "applied" /\ number'[c] = number[c] /\ Answering(p, type)
    BY <1>3 DEF FinishCommit, Answering, disk
  <2> HIDE DEF type
  <2> QED
    BY <2>1, <2>2, AnsweringInv
<1> QED
  BY <1>1, <1>2, <1>3 DEF LocalStep

LEMMA AgreementFault ==
    ASSUME NEW c \in Servers, Single(c), TypeOK, TypeOK', AgreementInv(c), FaultStep
    PROVE  AgreementInv(c)'
<1>1. CASE \E s \in Servers : StorageFault(s)
  <2>1. PICK s \in Servers : StorageFault(s)
    BY <1>1
  <2>2. s = c
    BY <2>1 DEF StorageFault, AgreementInv, Roles
  <2> QED
    BY <2>1, <2>2, StorageFaultFewer, FewerInv
<1>2. CASE \E p \in Servers : LocalStorageFault(p)
  <2>1. PICK p \in Servers : LocalStorageFault(p)
    BY <1>2
  <2>2. p # c /\ sport[p].pc # "idle"
    BY <2>1, ServersAssumption DEF LocalStorageFault, AgreementInv, Roles, Busy
  <2>3. number'[c] = number[c]
    BY <2>1, <2>2 DEF LocalStorageFault, TypeOK
  <2>4. CASE Peers[p] # {}
    <3>1. Dies(p) /\ UNCHANGED <<requests, applied>>
      BY <2>1, <2>4 DEF LocalStorageFault
    <3> QED
      BY <2>3, <3>1, DiesFewer, FewerInv
  <2>5. CASE Peers[p] = {}
    <3>1. Answering(p, "UNSUCCESSFUL")
      BY <2>1, <2>5 DEF LocalStorageFault, Answering
    <3> QED
      BY <2>2, <2>3, <3>1, AnsweringInv
  <2> QED
    BY <2>4, <2>5
<1>3. CASE \E s \in Servers : Crash(s)
  <2>1. PICK s \in Servers : Crash(s)
    BY <1>3
  <2>2. Dies(s) /\ number'[c] = number[c] /\ UNCHANGED <<requests, applied>>
    BY <2>1 DEF Crash, disk
  <2> QED
    BY <2>2, DiesFewer, FewerInv
<1>4. CASE \/ \E s \in Servers : Restart(s)
           \/ \E m \in calls \cup replies : Lose(m)
  BY <1>4, DroppedFewer, FewerInv
<1> QED
  BY <1>1, <1>2, <1>3, <1>4 DEF FaultStep

LEMMA AgreementStep ==
    ASSUME NEW c \in Servers, Single(c), TypeOK, TypeOK', AgreementInv(c),
           [Next]_vars
    PROVE  AgreementInv(c)'
<1>1. CASE \E d \in Coordinators : Request(d) \/ CoordinatorStep(d)
  BY <1>1, AgreementCoordinator
<1>2. CASE \E p \in Servers : LocalStep(p)
  BY <1>2, AgreementLocal
<1>3. CASE \E m \in calls : Deliver(m)
  <2>1. PICK m \in calls : Deliver(m)
    BY <1>3
  <2>2. CASE Precommit(m)
    BY <2>2, PrecommitInv
  <2>3. CASE BeginCommit(m)
    BY <2>3, BeginCommitInv
  <2>4. CASE Unsuccessful(m) \/ Refused(m)
    BY <2>4, DroppedFewer, FewerInv
  <2> QED
    BY <2>1, <2>2, <2>3, <2>4 DEF Deliver
<1>4. CASE \E m \in replies : ReceiveReply(m)
  BY <1>4, ReceiveReplyInv
<1>5. CASE FaultStep
  BY <1>5, AgreementFault
<1>6. CASE UNCHANGED vars
  BY <1>6 DEF vars, AgreementInv, Roles, Fresh, FirstPhase, SecondPhase, Once,
              Written, Open, Answers, Busy, Belongs
<1> QED
  BY <1>1, <1>2, <1>3, <1>4, <1>5, <1>6 DEF Next

\* The inductive invariant holds, whatever is lost, late or crashes.
THEOREM Agreement ==
    ASSUME NEW c \in Servers, Single(c)
    PROVE  Spec => []AgreementInv(c)
<1>1. Init => AgreementInv(c)
  BY AgreementInit
<1>2. TypeOK /\ TypeOK' /\ AgreementInv(c) /\ [Next]_vars => AgreementInv(c)'
  BY AgreementStep
<1> QED
  BY <1>1, <1>2, TypeCorrect, PTL DEF Spec

-----------------------------------------------------------------------------
(* The decision.                                                           *)

Unanimous(c) ==
    coord[c].pc \in {"apply", "flush"} =>
        \A p \in Peers[c] : coord[c].req \in applied[p]

\* The peers' answers to the COMMITs are all there when c goes on.
LEMMA CommittedUnanimous ==
    ASSUME NEW c \in Servers, TypeOK, AgreementInv(c), Committed(c)
    PROVE  Unanimous(c)'
<1>1. /\ coord[c].pc = "commit" /\ coord'[c].req = coord[c].req
      /\ UNCHANGED applied
  BY CoordMoves DEF Committed, TypeOK
<1>2. CheckSuccess(c, coord[c].id)
  BY DEF Committed, Acknowledged
<1>3. \A m \in Queue(c, coord[c].id) : m.type = "SUCCESSFUL"
  <2> SUFFICES ASSUME NEW m \in Queue(c, coord[c].id)
               PROVE  m.type = "SUCCESSFUL"
    OBVIOUS
  <2>1. m \in Answers(c) /\ m \in ReplyType /\ m.id = coord[c].id
    BY DEF Queue, Answers, TypeOK
  <2>2. m.req = coord[c].req
    BY <1>1, <2>1 DEF AgreementInv, Fresh, Belongs
  <2>3. m.type \in {"ACK", "SUCCESSFUL", "UNSUCCESSFUL"}
    BY <2>1 DEF ReplyType, MessageType
  <2> QED
    BY <1>1, <1>2, <2>1, <2>2, <2>3
       DEF AgreementInv, SecondPhase, CheckSuccess, Positive
<1>4. \A p \in Peers[c] : Answer("SUCCESSFUL", p, c) \in Queue(c, coord[c].id)
  BY <1>1, <1>2, <1>3, QueueIsFull DEF AgreementInv
<1>5. \A p \in Peers[c] : coord[c].req \in applied[p]
  <2> SUFFICES ASSUME NEW p \in Peers[c] PROVE coord[c].req \in applied[p]
    OBVIOUS
  <2> DEFINE m == Answer("SUCCESSFUL", p, c)
  <2>1. m.type = "SUCCESSFUL" /\ m.req = coord[c].req /\ m.from = p
    BY DEF Answer
  <2>2. m \in Answers(c)
    BY <1>4 DEF Queue, Answers
  <2> HIDE DEF m
  <2> QED
    BY <2>1, <2>2 DEF AgreementInv, Written
<1> QED
  BY <1>1, <1>5 DEF Unanimous

\* No server forgets what it has written.
LEMMA AppliedGrows ==
    ASSUME TypeOK, [Next]_vars, NEW p \in Servers
    PROVE  applied[p] \subseteq applied'[p]
<1>1. \/ UNCHANGED applied
      \/ \E s \in Servers : \E r : applied' = [applied EXCEPT ![s] = @ \cup {r}]
  <2>1. ASSUME NEW c \in Coordinators, Request(c) \/ CoordinatorStep(c)
        PROVE  \/ UNCHANGED applied
               \/ \E s \in Servers : \E r : applied' = [applied EXCEPT ![s] = @ \cup {r}]
    <3>1. c \in Servers
      BY ServersAssumption
    <3>2. CASE Flush(c)
      BY <3>1, <3>2 DEF Flush
    <3>3. CASE ApplyReplace(c)
      BY <3>1, <3>3 DEF ApplyReplace
    <3>4. CASE Request(c)
      BY <3>4 DEF Request, WriteRequest, ReplaceRequest, MalformedRequest
    <3>5. CASE StoreNumber(c) \/ Precommitted(c) \/ Committed(c) \/ Abort(c)
               \/ ApplyWrite(c)
      BY <3>5 DEF StoreNumber, Precommitted, Committed, Abort, ApplyWrite
    <3> QED
      BY <2>1, <3>2, <3>3, <3>4, <3>5 DEF CoordinatorStep
  <2>2. ASSUME NEW s \in Servers, LocalStep(s)
        PROVE  \/ UNCHANGED applied
               \/ \E t \in Servers : \E r : applied' = [applied EXCEPT ![t] = @ \cup {r}]
    BY <2>2 DEF LocalStep, LocalWrite, LocalReplace, FinishCommit
  <2>3. ASSUME \/ \E m \in calls : Deliver(m)
               \/ \E m \in replies : ReceiveReply(m)
               \/ FaultStep
        PROVE  UNCHANGED applied
    BY <2>3 DEF Deliver, Precommit, BeginCommit, Unsuccessful, Refused,
                ReceiveReply, FaultStep, StorageFault, LocalStorageFault, Crash,
                Restart, Lose
  <2>4. ASSUME UNCHANGED vars
        PROVE  UNCHANGED applied
    BY <2>4 DEF vars
  <2> QED
    BY <2>1, <2>2, <2>3, <2>4 DEF Next
<1> QED
  BY <1>1 DEF TypeOK

\* c comes to its own board by Committed only.
LEMMA OnlyCommitted ==
    ASSUME NEW c \in Servers, TypeOK, [Next]_vars, ~Committed(c),
           coord'[c].pc \in {"apply", "flush"}
    PROVE  coord[c].pc \in {"apply", "flush"} /\ coord'[c].req = coord[c].req
<1> DEFINE Goal == /\ coord[c].pc \in {"apply", "flush"}
                   /\ coord'[c].req = coord[c].req
<1>1. coord \in [Servers -> CoordType] /\ coord[c] \in CoordType
  BY DEF TypeOK
<1>2. ASSUME NEW s \in Servers, s # c, NEW x, coord' = [coord EXCEPT ![s] = x]
      PROVE  Goal
  BY <1>1, <1>2
<1>3. ASSUME UNCHANGED coord PROVE Goal
  BY <1>3
<1>4. ASSUME NEW s \in Servers, Dies(s) PROVE Goal
  BY <1>1, <1>4 DEF Dies, IdleCoord
<1>5. ASSUME NEW d \in Coordinators, Request(d) \/ CoordinatorStep(d)
      PROVE  Goal
  <2>1. d \in Servers
    BY ServersAssumption
  <2>2. CASE d # c
    <3>1. UNCHANGED coord \/ \E x : coord' = [coord EXCEPT ![d] = x]
      BY <1>5 DEF Request, WriteRequest, ReplaceRequest, MalformedRequest,
                  CoordinatorStep, StoreNumber, Precommitted, Committed, Abort,
                  Fail, ApplyWrite, ApplyReplace, Flush
    <3> QED
      BY <1>2, <1>3, <2>1, <2>2, <3>1
  <2>3. CASE d = c
    <3>1. CASE WriteRequest(c) \/ \E id \in 0..MaxRequests : ReplaceRequest(c, id)
      BY <1>1, <3>1 DEF WriteRequest, ReplaceRequest
    <3>2. CASE MalformedRequest(c)
      BY <1>3, <3>2 DEF MalformedRequest
    <3>3. CASE StoreNumber(c) \/ Precommitted(c)
      BY <1>1, <3>3 DEF StoreNumber, Precommitted, CoordType
    <3>4. CASE Abort(c) \/ Flush(c)
      BY <1>1, <3>4 DEF Abort, Fail, Flush, IdleCoord
    <3>5. CASE ApplyWrite(c)
      BY <1>1, <3>5 DEF ApplyWrite, CoordType
    <3>6. CASE ApplyReplace(c)
      BY <1>1, <3>6 DEF ApplyReplace, CoordType
    <3> QED
      BY <1>5, <2>3, <3>1, <3>2, <3>3, <3>4, <3>5, <3>6
         DEF Request, CoordinatorStep
  <2> QED
    BY <2>2, <2>3
<1>6. ASSUME NEW p \in Servers, LocalStep(p) PROVE Goal
  <2>1. UNCHANGED coord \/ Dies(p)
    BY <1>6 DEF LocalStep, LocalWrite, LocalReplace, FinishCommit
  <2> QED
    BY <1>3, <1>4, <2>1
<1>7. ASSUME (\E m \in calls : Deliver(m)) \/ (\E m \in replies : ReceiveReply(m))
      PROVE  Goal
  <2>1. UNCHANGED coord
    BY <1>7 DEF Deliver, Precommit, BeginCommit, Unsuccessful, Refused, ReceiveReply
  <2> QED
    BY <1>3, <2>1
<1>8. ASSUME FaultStep PROVE Goal
  <2>1. CASE \E s \in Servers : StorageFault(s)
    BY <1>1, <2>1 DEF StorageFault, Fail, IdleCoord
  <2>2. CASE \E s \in Servers : LocalStorageFault(s) \/ Crash(s)
    <3>1. PICK s \in Servers : LocalStorageFault(s) \/ Crash(s)
      BY <2>2
    <3>2. UNCHANGED coord \/ Dies(s)
      BY <3>1 DEF LocalStorageFault, Crash
    <3> QED
      BY <1>3, <1>4, <3>2
  <2>3. CASE (\E s \in Servers : Restart(s)) \/ (\E m \in calls \cup replies : Lose(m))
    BY <1>3, <2>3 DEF Restart, Lose
  <2> QED
    BY <1>8, <2>1, <2>2, <2>3 DEF FaultStep
<1>9. ASSUME UNCHANGED vars PROVE Goal
  BY <1>3, <1>9 DEF vars
<1> QED
  BY <1>5, <1>6, <1>7, <1>8, <1>9 DEF Next

LEMMA UnanimousStep ==
    ASSUME NEW c \in Servers, TypeOK, AgreementInv(c), Unanimous(c), [Next]_vars
    PROVE  Unanimous(c)'
<1>1. CASE Committed(c)
  BY <1>1, CommittedUnanimous
<1>2. CASE ~Committed(c)
  <2>1. \A p \in Peers[c] : p \in Servers
    BY ServersAssumption
  <2> QED
    BY <1>2, <2>1, AppliedGrows, OnlyCommitted DEF Unanimous
<1> QED
  BY <1>1, <1>2

\* Whatever is lost, late or crashes, and for any peers and any number of
\* requests: a single coordinator that goes on to its own board knows that
\* every peer has written the same request.
THEOREM Decided ==
    ASSUME NEW c \in Servers, Single(c)
    PROVE  Spec => []DecisionIsUnanimous
<1>1. Init => Unanimous(c)
  BY DEF Init, Unanimous, IdleCoord
<1>2. TypeOK /\ AgreementInv(c) /\ Unanimous(c) /\ [Next]_vars => Unanimous(c)'
  BY UnanimousStep
<1>3. Unanimous(c) => DecisionIsUnanimous
  BY DEF Unanimous, DecisionIsUnanimous, Single
<1>4. Spec => []AgreementInv(c)
  BY Agreement
<1> QED
  BY <1>1, <1>2, <1>3, <1>4, TypeCorrect, PTL DEF Spec

=============================================================================
