-------------------------- MODULE ConvergenceProofs --------------------------
(***************************************************************************)
(* Replication with one coordinator whose waits last long enough, for any  *)
(* number of peers and requests, WRITE and REPLACE.  Without faults the    *)
(* boards and numbers of all servers are the same whenever nothing is      *)
(* going on; and if files may fail to open, a request whose client was     *)
(* told ERROR leaves no line on any board.                                 *)
(***************************************************************************)
EXTENDS ReplicationProofs

\* The assumption of this module: c is the only coordinator, everyone else
\* is its peer, no answer is late, and clients send what can be carried out.
Calm(c) ==
    /\ c \in Servers /\ Coordinators = {c} /\ Peers[c] = Servers \ {c}
    /\ Patient /\ ~UnknownIds /\ "MALFORMED" \notin Kinds

\* Nobody has died and nothing is lost: a peer that cannot write says so.
Undisturbed(c) ==
    \/ faults = 0
    \/ Faults \subseteq {"disk"} /\ \A p \in Peers[c] : Peers[p] = {}

\* x, a message or the command of a busy participant, is of c's request.
Current(x, c) ==
    x.req = requests /\ x.kind = coord[c].kind /\ x.id = coord[c].id

\* A negative answer to a request that failed stays in the queue of its id,
\* and every later request for that id fails with it.
Spoiled(c, id) == \E m \in acks[c] : m.id = id /\ ~Positive(m)

\* c waits for answers that decide.
Collecting(c) ==
    \/ coord[c].pc = "commit"
    \/ coord[c].pc = "precommit" /\ ~Spoiled(c, coord[c].id)

Standing(c) ==
    /\ \A s \in Servers : up[s]
    /\ \A s \in Servers : s # c => coord[s].pc = "idle"
    /\ sport[c].pc = "idle"
    /\ undo[c].kind = "NONE"
    /\ coord[c].pc # "idle" => coord[c].req = requests
    /\ coord[c].pc = "number" => coord[c].kind = "WRITE" /\ coord[c].id = number[c]
    /\ coord[c].pc \notin {"idle", "number"} => coord[c].id < number[c]
    /\ \A i \in 1..Len(board[c]) : board[c][i].id < number[c]
    /\ coord[c].kind = "REPLACE" /\ coord[c].pc \in {"precommit", "commit", "apply"} =>
          coord[c].id \in Ids(board[c])

\* What is on its way and in the queue, of the current request or spoiled.
CallIn(m, c) ==
    /\ m.from = c /\ m.to \in Peers[c] /\ m.req = requests
    /\ \/ m.type = "UNSUCCESSFUL" /\ coord[c].pc = "idle"
       \/ m.type = "PRECOMMIT" /\ coord[c].pc = "idle" /\ Spoiled(c, m.id)
       \/ m.type = "PRECOMMIT" /\ coord[c].pc = "precommit" /\ Current(m, c)
       \/ m.type = "COMMIT" /\ coord[c].pc = "commit" /\ Current(m, c)

AnswerIn(m, c) ==
    /\ m.to = c /\ m.from \in Peers[c] /\ m.id < number[c]
    /\ Collecting(c) /\ m.id = coord[c].id =>
          Current(m, c) /\ (m.type = "ACK" <=> coord[c].pc = "precommit")
    /\ ~(Collecting(c) /\ m.id = coord[c].id) => Spoiled(c, m.id)

WorkIn(p, c) ==
    /\ p \in Peers[c] /\ coord[c].pc = "commit"
    /\ Current(sport[p], c) /\ sport[p].from = c

Mail(c) ==
    /\ \A m \in calls : CallIn(m, c)
    /\ \A m \in Answers(c) : AnswerIn(m, c)
    /\ \A p \in Busy : WorkIn(p, c)

\* Where peer p is with the phase: exactly one of the four.
Asked(p)    == \E m \in calls : m.to = p
Told(p, c)  == \E m \in replies : m.from = p /\ m.id = coord[c].id
Heard(p, c) == \E m \in acks[c] : m.from = p /\ m.id = coord[c].id

OnePlace(p, c) ==
    /\ Asked(p) \/ p \in Busy \/ Told(p, c) \/ Heard(p, c)
    /\ Asked(p) => p \notin Busy /\ ~Told(p, c) /\ ~Heard(p, c)
    /\ p \in Busy => ~Told(p, c) /\ ~Heard(p, c)
    /\ Told(p, c) => ~Heard(p, c)

OneAnswer(c) ==
    \A m, n \in Answers(c) :
        m.id = coord[c].id /\ n.id = coord[c].id /\ m.from = n.from => m = n

Turn(c) == Collecting(c) => OneAnswer(c) /\ \A p \in Peers[c] : OnePlace(p, c)

Transit(c) == Standing(c) /\ Mail(c) /\ Turn(c)

-----------------------------------------------------------------------------
(* What check_success finds. *)

\* Calls, answers and agents have types.
LEMMA CallTypes ==
    ASSUME TypeOK
    PROVE  /\ \A m \in calls : m \in CallType
           /\ \A m \in replies : m \in ReplyType
           /\ \A s \in Servers : \A m \in acks[s] : m \in ReplyType
           /\ \A s \in Servers : /\ sport[s] \in SportType /\ coord[s] \in CoordType
                                 /\ number[s] \in Nat
           /\ requests \in Nat /\ \A s \in Servers : coord[s].id \in Nat
BY KindsAssumption DEF TypeOK, CoordType

\* A record is what its fields say.
LEMMA SameCall ==
    ASSUME TypeOK, NEW m \in calls, NEW n \in calls,
           m.type = n.type, m.req = n.req, m.kind = n.kind, m.id = n.id,
           m.from = n.from, m.to = n.to
    PROVE  m = n
<1>1. m \in CallType /\ n \in CallType
  BY CallTypes
<1> QED
  BY <1>1 DEF CallType, MessageType

\* While c collects, its queue is full exactly if it has heard of everyone.
LEMMA FullQueue ==
    ASSUME NEW c \in Servers, TypeOK, Transit(c), Collecting(c)
    PROVE  AllAnswered(c, coord[c].id) <=> \A p \in Peers[c] : Heard(p, c)
<1> DEFINE Q == Queue(c, coord[c].id)
           P == Peers[c]
           f == [m \in Q |-> m.from]
<1>1. IsFiniteSet(P)
  BY ServersAssumption, FS_Subset
<1>2. \A m \in Q : m \in Answers(c) /\ m.id = coord[c].id
  BY DEF Queue, Answers
<1>3. \A m \in Q : m.from \in P
  BY <1>2 DEF Transit, Mail, AnswerIn
<1>4. \A m, n \in Q : m.from = n.from => m = n
  BY <1>2 DEF Transit, Turn, OneAnswer
<1>5. \A p \in P : Heard(p, c) <=> \E m \in Q : m.from = p
  BY DEF Heard, Queue
<1>6. AllAnswered(c, coord[c].id) <=> Cardinality(Q) >= Cardinality(P)
  BY DEF AllAnswered
<1> HIDE DEF Q, P
<1>7. f \in Injection(Q, P)
  BY <1>3, <1>4 DEF Injection, IsInjective
<1>8. /\ IsFiniteSet(Q) /\ Cardinality(Q) <= Cardinality(P)
      /\ (Cardinality(Q) = Cardinality(P) <=> f \in Surjection(Q, P))
  BY <1>1, <1>7, FS_Injection
<1>9. Cardinality(Q) \in Nat /\ Cardinality(P) \in Nat
  BY <1>1, <1>8, FS_CardinalityType
<1>10. f \in Surjection(Q, P) <=> \A p \in P : \E m \in Q : m.from = p
  BY <1>3 DEF Surjection
<1> QED
  BY <1>5, <1>6, <1>8, <1>9, <1>10 DEF P

\* An answer that is not there yet is on its way: c does not time out.
LEMMA NoTimeOut ==
    ASSUME NEW c, Calm(c), TypeOK, Transit(c), Collecting(c), ~AllAnswered(c, coord[c].id)
    PROVE  Outstanding(c)
<1>c. c \in Servers /\ Patient
  BY DEF Calm
<1>1. PICK p \in Peers[c] : ~Heard(p, c)
  BY <1>c, FullQueue
<1>2. coord[c].req = requests
  BY DEF Transit, Standing, Collecting
<1>3. Asked(p) \/ p \in Busy \/ Told(p, c)
  BY <1>1 DEF Transit, Turn, OnePlace
<1>4. CASE Asked(p)
  <2>1. PICK m \in calls : m.to = p
    BY <1>4 DEF Asked
  <2>2. m.req = requests
    BY <2>1 DEF Transit, Mail, CallIn
  <2> QED
    BY <1>2, <2>2 DEF Outstanding
<1>5. CASE p \in Busy
  <2>1. p \in Servers /\ sport[p].pc # "idle" /\ sport[p].req = requests
    BY <1>5 DEF Busy, Transit, Mail, WorkIn, Current
  <2> QED
    BY <1>2, <2>1 DEF Outstanding
<1>6. CASE Told(p, c)
  <2>1. PICK m \in replies : m.from = p /\ m.id = coord[c].id
    BY <1>6 DEF Told
  <2>2. m.req = requests
    BY <2>1 DEF Transit, Mail, AnswerIn, Current, Answers
  <2> QED
    BY <1>2, <2>2 DEF Outstanding
<1> QED
  BY <1>3, <1>4, <1>5, <1>6

\* Whoever was heard of is asked nothing more and says nothing more.
LEMMA AllHeard ==
    ASSUME NEW c \in Servers, TypeOK, Transit(c), Collecting(c),
           AllAnswered(c, coord[c].id)
    PROVE  /\ calls = {}
           /\ \A m \in replies : m.id # coord[c].id
           /\ Busy = {}
           /\ \A p \in Peers[c] : Heard(p, c) /\ ~Asked(p) /\ p \notin Busy /\ ~Told(p, c)
<1>1. \A p \in Peers[c] : Heard(p, c) /\ ~Asked(p) /\ p \notin Busy /\ ~Told(p, c)
  BY FullQueue DEF Transit, Turn, OnePlace
<1>2. calls = {}
  BY <1>1 DEF Asked, Transit, Mail, CallIn
<1>3. \A m \in replies : m.id # coord[c].id
  BY <1>1 DEF Told, Transit, Mail, AnswerIn, Answers
<1>4. Busy = {}
  BY <1>1 DEF Transit, Mail, WorkIn
<1> QED
  BY <1>1, <1>2, <1>3, <1>4

-----------------------------------------------------------------------------
(* The steps of c. *)

\* The lines of a board.
LEMMA LinesTyped ==
    ASSUME NEW b \in Seq(LineType)
    PROVE  /\ Len(b) \in Nat /\ DOMAIN b = 1..Len(b)
           /\ \A i \in 1..Len(b) : b[i] \in LineType /\ b[i].id \in Int /\ b[i].text \in Nat
<1>1. Len(b) \in Nat /\ DOMAIN b = 1..Len(b) /\ \A i \in 1..Len(b) : b[i] \in LineType
  BY ElementOfSeq, LenProperties
<1> QED
  BY <1>1 DEF LineType

\* replace_record changes lines of one id, and no line's place.
LEMMA ReplacedLines ==
    ASSUME NEW b \in Seq(LineType), NEW id \in Nat, NEW r \in Nat
    PROVE  /\ Len(ReplaceRecord(b, id, r)) = Len(b)
           /\ \A i \in 1..Len(b) :
                 ReplaceRecord(b, id, r)[i] = IF b[i].id = id THEN Line(id, r) ELSE b[i]
           /\ \A i \in 1..Len(b) : \/ ReplaceRecord(b, id, r)[i].id = id
                                   \/ ReplaceRecord(b, id, r)[i] = b[i]
<1>1. Len(b) \in Nat /\ DOMAIN b = 1..Len(b)
  BY LinesTyped
<1>2. /\ ReplaceRecord(b, id, r) \in Seq(LineType)
      /\ DOMAIN ReplaceRecord(b, id, r) = 1..Len(b)
      /\ \A i \in 1..Len(b) :
            ReplaceRecord(b, id, r)[i] = IF b[i].id = id THEN Line(id, r) ELSE b[i]
  BY <1>1, ReplaceRecordType DEF ReplaceRecord
<1>3. Line(id, r).id = id
  BY DEF Line
<1> HIDE DEF ReplaceRecord
<1>4. Len(ReplaceRecord(b, id, r)) = Len(b)
  BY <1>1, <1>2, LenProperties
<1> QED
  BY <1>2, <1>3, <1>4

\* What a file holds after a record reached it late.
LEMMA WrittenLines ==
    ASSUME NEW b \in Seq(LineType), NEW pos \in Seq(LineType),
           NEW line \in LineType, NEW i \in 1..Len(WriteAt(b, pos, line))
    PROVE  \/ WriteAt(b, pos, line)[i] = line
           \/ WriteAt(b, pos, line)[i] = Debris
           \/ i \in 1..Len(b) /\ WriteAt(b, pos, line)[i] = b[i]
<1>1. CASE b = pos
  <2>1. WriteAt(b, pos, line) = Append(b, line)
    BY <1>1 DEF WriteAt
  <2> QED
    BY <2>1, AppendProperties, LenProperties
<1>2. CASE b # pos
  <2>1. WriteAt(b, pos, line) = <<Debris>>
    BY <1>2 DEF WriteAt
  <2> QED
    BY <2>1
<1> QED
  BY <1>1, <1>2

\* An id stays spoiled as long as its negative answer is in the queue.
LEMMA SpoiledStays ==
    ASSUME NEW c \in Servers, \A m \in acks[c] : ~Positive(m) => m \in acks'[c],
           NEW id, Spoiled(c, id)
    PROVE  Spoiled(c, id)'
BY DEF Spoiled, Positive

\* Between requests nothing that c has is of the current one.
LEMMA NotCollecting ==
    ASSUME NEW c \in Servers, Transit(c), ~Collecting(c)
    PROVE  /\ \A m \in Answers(c) : /\ m.to = c /\ m.from \in Peers[c]
                                    /\ m.id < number[c] /\ Spoiled(c, m.id)
           /\ Busy = {}
           /\ coord[c].pc \notin {"idle", "precommit"} => calls = {}
BY DEF Transit, Mail, AnswerIn, WorkIn, CallIn, Collecting

\* A step after which c does not collect and nobody works.
LEMMA Settles ==
    ASSUME NEW c \in Servers, TypeOK, TypeOK', Transit(c), Standing(c)', ~Collecting(c)',
           Busy' = {}, \A m \in calls' : CallIn(m, c)', number'[c] >= number[c],
           \A m \in Answers(c)' : m \in Answers(c) /\ Spoiled(c, m.id)'
    PROVE  Transit(c)'
<1>1. /\ \A m \in Answers(c) : m.to = c /\ m.from \in Peers[c] /\ m.id < number[c]
      /\ \A m \in Answers(c) : m.id \in Nat
      /\ number[c] \in Nat /\ number'[c] \in Nat
  BY Numbers DEF Transit, Mail, AnswerIn, TypeOK
<1>2. \A m \in Answers(c)' : AnswerIn(m, c)'
  <2> SUFFICES ASSUME NEW m \in Answers(c)' PROVE AnswerIn(m, c)'
    OBVIOUS
  <2>1. m.to = c /\ m.from \in Peers[c] /\ m.id < number'[c]
    BY <1>1
  <2> QED
    BY <2>1 DEF AnswerIn
<1> QED
  BY <1>2 DEF Transit, Mail, Turn

\* What a broadcast puts on the way, if nothing else is there.
LEMMA BroadcastIn ==
    ASSUME NEW c \in Servers, NEW type, NEW req, NEW kind, NEW id,
           calls' = Broadcast(type, c, req, kind, id),
           req = requests',
           \/ type = "UNSUCCESSFUL" /\ coord'[c].pc = "idle"
           \/ /\ \/ type = "PRECOMMIT" /\ coord'[c].pc = "precommit"
                 \/ type = "COMMIT" /\ coord'[c].pc = "commit"
              /\ kind = coord'[c].kind /\ id = coord'[c].id
    PROVE  /\ \A m \in calls' : CallIn(m, c)'
           /\ \A p \in Peers[c] : Asked(p)'
<1>1. \A m \in calls' : /\ m.type = type /\ m.req = req /\ m.kind = kind
                        /\ m.id = id /\ m.from = c /\ m.to \in Peers[c]
  BY BroadcastIs
<1>2. ASSUME NEW p \in Peers[c] PROVE \E m \in calls' : m.to = p
  <2> DEFINE m == [type |-> type, req |-> req, kind |-> kind, id |-> id,
                   from |-> c, to |-> p]
  <2>1. m \in calls' /\ m.to = p
    BY DEF Broadcast
  <2> QED
    BY <2>1
<1> QED
  BY <1>1, <1>2 DEF CallIn, Asked, Current

\* A phase begins: everyone is asked, and of no one was heard.
LEMMA Begins ==
    ASSUME NEW c \in Servers, TypeOK, TypeOK', Standing(c)',
           coord'[c].pc \in {"precommit", "commit"},
           Busy' = {}, \A m \in calls' : CallIn(m, c)', \A p \in Peers[c] : Asked(p)',
           \A m \in Answers(c)' : /\ m.to = c /\ m.from \in Peers[c] /\ m.id < number'[c]
                                  /\ Spoiled(c, m.id)',
           coord'[c].pc = "commit" => \A m \in Answers(c)' : m.id # coord'[c].id
    PROVE  Transit(c)'
<1>1. ASSUME NEW m \in Answers(c)', Collecting(c)', m.id = coord'[c].id PROVE FALSE
  BY <1>1 DEF Collecting
<1>2. \A m \in Answers(c)' : AnswerIn(m, c)'
  BY <1>1 DEF AnswerIn
<1>3. Turn(c)'
  <2> SUFFICES ASSUME Collecting(c)' PROVE OneAnswer(c)' /\ \A p \in Peers[c] : OnePlace(p, c)'
    BY DEF Turn
  <2>1. OneAnswer(c)'
    BY <1>1 DEF OneAnswer
  <2>2. ASSUME NEW p \in Peers[c] PROVE OnePlace(p, c)'
    <3>1. ~Told(p, c)' /\ ~Heard(p, c)'
      BY <1>1 DEF Told, Heard, Answers
    <3> QED
      BY <3>1 DEF OnePlace
  <2> QED
    BY <2>1, <2>2
<1> QED
  BY <1>2, <1>3 DEF Transit, Mail

LEMMA WriteRequestTransit ==
    ASSUME NEW c, Calm(c), TypeOK, TypeOK', Transit(c), WriteRequest(c)
    PROVE  Transit(c)'
<1>c. c \in Servers
  BY DEF Calm
<1>1. /\ coord[c].pc = "idle" /\ calls = {}
      /\ coord'[c].pc = "number" /\ coord'[c].req = requests + 1
      /\ coord'[c].kind = "WRITE" /\ coord'[c].id = number[c]
      /\ \A s \in Servers : s # c => coord'[s] = coord[s]
      /\ requests' = requests + 1
      /\ UNCHANGED <<up, board, number, undo, acks, sport, calls, replies>>
  BY <1>c DEF WriteRequest, Accept, Calm, disk, net, TypeOK
<1>2. ~Collecting(c) /\ ~Collecting(c)'
  BY <1>1 DEF Collecting
<1>3. Standing(c)'
  BY <1>1 DEF Transit, Standing
<1>4. Busy' = {} /\ \A m \in Answers(c)' : m \in Answers(c) /\ Spoiled(c, m.id)'
  BY <1>c, <1>1, <1>2, NotCollecting DEF Answers, Busy, Spoiled
<1>5. number'[c] >= number[c]
  BY <1>c, <1>1 DEF TypeOK
<1> QED
  BY <1>c, <1>1, <1>2, <1>3, <1>4, <1>5, Settles

LEMMA ReplaceRequestTransit ==
    ASSUME NEW c, Calm(c), TypeOK, TypeOK', Transit(c),
           NEW id \in 0..MaxRequests, ReplaceRequest(c, id)
    PROVE  Transit(c)'
<1>c. c \in Servers
  BY DEF Calm
<1>1. /\ coord[c].pc = "idle" /\ calls = {} /\ id \in Ids(board[c])
      /\ coord'[c].pc = "precommit" /\ coord'[c].req = requests + 1
      /\ coord'[c].kind = "REPLACE" /\ coord'[c].id = id
      /\ \A s \in Servers : s # c => coord'[s] = coord[s]
      /\ requests' = requests + 1
      /\ calls' = Broadcast("PRECOMMIT", c, requests + 1, "REPLACE", id)
      /\ UNCHANGED <<up, board, number, undo, acks, sport, replies>>
  BY <1>c DEF ReplaceRequest, Accept, Calm, disk, TypeOK
<1>2. ~Collecting(c)
  BY <1>1 DEF Collecting
<1>3. id < number[c]
  <2>1. DOMAIN board[c] = 1..Len(board[c])
    BY <1>c, LinesTyped DEF TypeOK
  <2> QED
    BY <1>1, <2>1 DEF Ids, Transit, Standing
<1>4. Standing(c)'
  BY <1>1, <1>3 DEF Transit, Standing
<1>5. /\ Busy' = {}
      /\ \A m \in Answers(c)' : /\ m.to = c /\ m.from \in Peers[c] /\ m.id < number'[c]
                                /\ Spoiled(c, m.id)'
  BY <1>c, <1>1, <1>2, NotCollecting DEF Answers, Busy, Spoiled
<1>6. /\ \A m \in calls' : CallIn(m, c)'
      /\ \A p \in Peers[c] : Asked(p)'
  <2> DEFINE req == requests + 1
  <2>1. calls' = Broadcast("PRECOMMIT", c, req, "REPLACE", id)
    BY <1>1
  <2>2. PICK r : r = req
    OBVIOUS
  <2> QED
    BY <1>c, <1>1, <2>1, <2>2, BroadcastIn
<1> QED
  BY <1>c, <1>1, <1>4, <1>5, <1>6, Begins

LEMMA StoreNumberTransit ==
    ASSUME NEW c \in Servers, TypeOK, TypeOK', Transit(c), StoreNumber(c)
    PROVE  Transit(c)'
<1>1. /\ coord[c].pc = "number" /\ coord'[c].pc = "precommit"
      /\ coord'[c].req = coord[c].req /\ coord'[c].id = coord[c].id
      /\ coord'[c].kind = coord[c].kind
      /\ \A s \in Servers : s # c => coord'[s] = coord[s]
      /\ number'[c] = coord[c].id + 1
      /\ calls' = calls \cup Broadcast("PRECOMMIT", c, coord[c].req, "WRITE", coord[c].id)
      /\ UNCHANGED <<up, board, undo, acks, sport, replies, requests>>
  BY CoordMoves DEF StoreNumber, TypeOK
<1>2. ~Collecting(c)
  BY <1>1 DEF Collecting
<1>3. /\ calls = {} /\ coord[c].kind = "WRITE" /\ coord[c].id = number[c]
      /\ coord[c].req = requests /\ number[c] \in Nat
  BY <1>1, <1>2, NotCollecting DEF Transit, Standing, TypeOK
<1>b. \A i \in 1..Len(board[c]) : board[c][i].id \in Int
  BY LinesTyped DEF TypeOK
<1>4. Standing(c)'
  <2>1. \A i \in 1..Len(board'[c]) : board'[c][i].id < number'[c]
    BY <1>1, <1>3, <1>b DEF Transit, Standing
  <2> QED
    BY <1>1, <1>3, <2>1 DEF Transit, Standing
<1>5. /\ Busy' = {}
      /\ \A m \in Answers(c)' : /\ m.to = c /\ m.from \in Peers[c] /\ m.id < number'[c]
                                /\ Spoiled(c, m.id)'
  <2>1. \A m \in Answers(c) : m.id \in Nat
    BY Numbers
  <2> QED
    BY <1>1, <1>2, <1>3, <2>1, NotCollecting DEF Answers, Busy, Spoiled
<1>6. /\ \A m \in calls' : CallIn(m, c)'
      /\ \A p \in Peers[c] : Asked(p)'
  <2>1. PICK r, i : r = coord[c].req /\ i = coord[c].id
    OBVIOUS
  <2>2. calls' = Broadcast("PRECOMMIT", c, r, "WRITE", i)
    BY <1>1, <1>3, <2>1
  <2> QED
    BY <1>1, <1>3, <2>1, <2>2, BroadcastIn
<1> QED
  BY <1>1, <1>4, <1>5, <1>6, Begins

\* The answers are all there and positive: the next phase.
LEMMA Succeeds ==
    ASSUME NEW c \in Servers, TypeOK, Transit(c),
           coord[c].pc \in {"precommit", "commit"}, Acknowledged(c)
    PROVE  /\ Collecting(c) /\ calls = {} /\ Busy = {}
           /\ \A m \in replies \cup acks'[c] :
                 /\ m \in Answers(c) /\ m.id # coord[c].id
                 /\ Spoiled(c, m.id)'
<1>1. /\ AllAnswered(c, coord[c].id)
      /\ \A m \in Queue(c, coord[c].id) : Positive(m)
      /\ acks'[c] = acks[c] \ Queue(c, coord[c].id)
  BY DEF Acknowledged, CheckSuccess, TypeOK
<1>2. Collecting(c)
  BY <1>1 DEF Collecting, Spoiled, Queue
<1>3. /\ calls = {} /\ Busy = {}
      /\ \A m \in replies : m.id # coord[c].id
  BY <1>1, <1>2, AllHeard
<1>4. \A m \in acks'[c] : m \in acks[c] /\ m.id # coord[c].id
  BY <1>1 DEF Queue
<1>5. \A m \in acks[c] : ~Positive(m) => m \in acks'[c]
  BY <1>1
<1>6. ASSUME NEW m \in replies \cup acks'[c]
      PROVE  m \in Answers(c) /\ m.id # coord[c].id /\ Spoiled(c, m.id)'
  <2>1. m \in Answers(c) /\ m.id # coord[c].id
    BY <1>3, <1>4 DEF Answers
  <2>2. Spoiled(c, m.id)
    BY <2>1 DEF Transit, Mail, AnswerIn
  <2>3. Spoiled(c, m.id)'
    BY <1>5, <2>2, SpoiledStays
  <2> QED
    BY <2>1, <2>3
<1> QED
  BY <1>2, <1>3, <1>6

LEMMA PrecommittedTransit ==
    ASSUME NEW c \in Servers, TypeOK, TypeOK', Transit(c), Precommitted(c)
    PROVE  Transit(c)'
<1>1. /\ coord[c].pc = "precommit" /\ coord'[c].pc = "commit"
      /\ coord'[c].req = coord[c].req /\ coord'[c].id = coord[c].id
      /\ coord'[c].kind = coord[c].kind
      /\ \A s \in Servers : s # c => coord'[s] = coord[s]
      /\ calls' = calls \cup Broadcast("COMMIT", c, coord[c].req, coord[c].kind,
                                       coord[c].id)
      /\ Acknowledged(c)
      /\ UNCHANGED <<up, board, number, undo, sport, replies, requests>>
  BY CoordMoves DEF Precommitted, disk, TypeOK
<1>2. /\ calls = {} /\ Busy = {}
      /\ \A m \in replies \cup acks'[c] :
            m \in Answers(c) /\ m.id # coord[c].id /\ Spoiled(c, m.id)'
  BY <1>1, Succeeds
<1>3. coord[c].req = requests
  BY <1>1 DEF Transit, Standing
<1>4. Standing(c)'
  BY <1>1 DEF Transit, Standing
<1>5. /\ Busy' = {}
      /\ \A m \in Answers(c)' : /\ m.to = c /\ m.from \in Peers[c] /\ m.id < number'[c]
                                /\ Spoiled(c, m.id)' /\ m.id # coord'[c].id
  BY <1>1, <1>2 DEF Transit, Mail, AnswerIn, Answers, Busy
<1>6. /\ \A m \in calls' : CallIn(m, c)'
      /\ \A p \in Peers[c] : Asked(p)'
  <2>1. PICK r, i, k : r = coord[c].req /\ i = coord[c].id /\ k = coord[c].kind
    OBVIOUS
  <2>2. calls' = Broadcast("COMMIT", c, r, k, i)
    BY <1>1, <1>2, <2>1
  <2> QED
    BY <1>1, <1>3, <2>1, <2>2, BroadcastIn
<1> QED
  BY <1>1, <1>4, <1>5, <1>6, Begins

LEMMA CommittedTransit ==
    ASSUME NEW c \in Servers, TypeOK, TypeOK', Transit(c), Committed(c)
    PROVE  Transit(c)'
<1>1. /\ coord[c].pc = "commit" /\ coord'[c].pc = "apply"
      /\ coord'[c].req = coord[c].req /\ coord'[c].id = coord[c].id
      /\ coord'[c].kind = coord[c].kind
      /\ \A s \in Servers : s # c => coord'[s] = coord[s]
      /\ Acknowledged(c)
      /\ UNCHANGED <<up, board, number, undo, sport, calls, replies, requests>>
  BY CoordMoves DEF Committed, disk, net, TypeOK
<1>2. /\ calls = {} /\ Busy = {}
      /\ \A m \in replies \cup acks'[c] : m \in Answers(c) /\ Spoiled(c, m.id)'
  BY <1>1, Succeeds
<1>3. Standing(c)'
  BY <1>1 DEF Transit, Standing
<1>4. Busy' = {} /\ ~Collecting(c)' /\ number'[c] >= number[c]
  BY <1>1, <1>2 DEF Busy, Collecting, TypeOK
<1>5. \A m \in Answers(c)' : m \in Answers(c) /\ Spoiled(c, m.id)'
  BY <1>1, <1>2 DEF Answers
<1> QED
  BY <1>1, <1>2, <1>3, <1>4, <1>5, Settles

\* The catch block leads back to where requests begin.
LEMMA FailTransit ==
    ASSUME NEW c \in Servers, TypeOK, TypeOK', Transit(c), NEW id, Fail(c, id),
           coord[c].pc # "idle", number'[c] >= number[c], Busy = {},
           \A m \in Answers(c) : Spoiled(c, m.id),
           \A m \in calls : m.type = "PRECOMMIT" /\ Spoiled(c, m.id),
           UNCHANGED <<up, board, undo, acks, sport, replies, requests>>
    PROVE  Transit(c)'
<1>1. /\ coord'[c] = IdleCoord /\ coord'[c].pc = "idle" /\ coord'[c].kind = "WRITE"
      /\ \A s \in Servers : s # c => coord'[s] = coord[s]
  BY DEF Fail, IdleCoord, TypeOK
<1>2. coord[c].req = requests
  BY DEF Transit, Standing
<1>3. Standing(c)'
  <2>1. \A i \in 1..Len(board[c]) : board[c][i].id \in Int
    BY LinesTyped DEF TypeOK
  <2>2. number[c] \in Nat /\ number'[c] \in Nat
    BY DEF TypeOK
  <2>3. \A i \in 1..Len(board'[c]) : board'[c][i].id < number'[c]
    BY <2>1, <2>2 DEF Transit, Standing
  <2> QED
    BY <1>1, <2>3 DEF Transit, Standing
<1>4. \A m \in calls' : CallIn(m, c)'
  <2>1. ASSUME NEW m \in calls PROVE CallIn(m, c)'
    BY <1>1 DEF Transit, Mail, CallIn, Spoiled
  <2>2. ASSUME NEW m \in Broadcast("UNSUCCESSFUL", c, coord[c].req, coord[c].kind, id)
        PROVE  CallIn(m, c)'
    <3>1. m.type = "UNSUCCESSFUL" /\ m.req = coord[c].req /\ m.from = c /\ m.to \in Peers[c]
      BY <2>2, BroadcastIs
    <3> QED
      BY <1>1, <1>2, <3>1 DEF CallIn
  <2> QED
    BY <2>1, <2>2 DEF Fail
<1>5. /\ Busy' = {} /\ ~Collecting(c)'
      /\ \A m \in Answers(c)' : m \in Answers(c) /\ Spoiled(c, m.id)'
  BY <1>1 DEF Busy, Collecting, Answers, Spoiled
<1> QED
  BY <1>3, <1>4, <1>5, Settles

LEMMA StorageFaultTransit ==
    ASSUME NEW c \in Servers, TypeOK, TypeOK', Transit(c), StorageFault(c)
    PROVE  Transit(c)'
<1>1. coord[c].pc = "number" /\ ~Collecting(c)
  BY DEF StorageFault, Collecting
<1>2. /\ \A m \in Answers(c) : Spoiled(c, m.id)
      /\ Busy = {} /\ calls = {}
  BY <1>1, NotCollecting
<1>3. number[c] \in Nat /\ coord[c].id = number[c]
  BY <1>1 DEF Transit, Standing, TypeOK
<1>4. UNCHANGED <<up, board, undo, acks, sport, replies, requests>>
  BY DEF StorageFault
<1>5. PICK id : Fail(c, id) /\ number'[c] >= number[c]
  <2>1. CASE Fail(c, 0) /\ UNCHANGED number
    BY <1>3, <2>1
  <2>2. CASE Fail(c, coord[c].id) /\ number' = [number EXCEPT ![c] = coord[c].id + 1]
    BY <1>3, <2>2 DEF TypeOK
  <2> QED
    BY <2>1, <2>2 DEF StorageFault
<1> QED
  BY <1>1, <1>2, <1>4, <1>5, FailTransit

\* c gives up only for a negative answer: in the first phase it is one to an
\* earlier request, in the second every peer has answered.
LEMMA AbortOnlyIf ==
    ASSUME NEW c, Calm(c), TypeOK, Transit(c), Abort(c)
    PROVE  /\ Spoiled(c, coord[c].id)
           /\ Busy = {} /\ \A m \in Answers(c) : Spoiled(c, m.id)
           /\ \A m \in calls : m.type = "PRECOMMIT" /\ Spoiled(c, m.id)
           /\ coord[c].pc = "commit" => \A p \in Peers[c] : Heard(p, c) /\ ~Asked(p)
<1>c. c \in Servers /\ Patient
  BY DEF Calm
<1>1. coord[c].pc \in {"precommit", "commit"}
  BY DEF Abort
<1>2. ASSUME Collecting(c)
      PROVE  AllAnswered(c, coord[c].id) /\ Spoiled(c, coord[c].id)
  <2>1. AllAnswered(c, coord[c].id)
    BY <1>c, <1>2, NoTimeOut DEF Abort, TimedOut
  <2>2. ~CheckSuccess(c, coord[c].id)
    BY <2>1 DEF Abort, TimedOut
  <2> QED
    BY <2>1, <2>2 DEF CheckSuccess, Spoiled, Queue
<1>3. CASE coord[c].pc = "precommit"
  <2>1. Spoiled(c, coord[c].id) /\ ~Collecting(c)
    BY <1>2, <1>3 DEF Collecting
  <2>2. Busy = {} /\ \A m \in Answers(c) : Spoiled(c, m.id)
    BY <1>c, <2>1, NotCollecting
  <2>3. \A m \in calls : m.type = "PRECOMMIT" /\ m.id = coord[c].id
    BY <1>3 DEF Transit, Mail, CallIn, Current
  <2> QED
    BY <1>3, <2>1, <2>2, <2>3
<1>4. CASE coord[c].pc = "commit"
  <2>1. Collecting(c)
    BY <1>4 DEF Collecting
  <2>2. AllAnswered(c, coord[c].id) /\ Spoiled(c, coord[c].id)
    BY <1>2, <2>1
  <2>3. calls = {} /\ Busy = {} /\ \A p \in Peers[c] : Heard(p, c) /\ ~Asked(p)
    BY <1>c, <2>1, <2>2, AllHeard
  <2>4. ASSUME NEW m \in Answers(c) PROVE Spoiled(c, m.id)
    <3>1. CASE m.id = coord[c].id
      BY <2>2, <3>1
    <3>2. CASE m.id # coord[c].id
      BY <3>2 DEF Transit, Mail, AnswerIn
    <3> QED
      BY <3>1, <3>2
  <2> QED
    BY <2>2, <2>3, <2>4
<1> QED
  BY <1>1, <1>3, <1>4

LEMMA AbortTransit ==
    ASSUME NEW c, Calm(c), TypeOK, TypeOK', Transit(c), Abort(c)
    PROVE  Transit(c)'
<1>c. c \in Servers
  BY DEF Calm
<1>1. /\ Busy = {} /\ \A m \in Answers(c) : Spoiled(c, m.id)
      /\ \A m \in calls : m.type = "PRECOMMIT" /\ Spoiled(c, m.id)
  BY AbortOnlyIf
<1>2. PICK id : Fail(c, id)
  BY DEF Abort
<1>3. /\ coord[c].pc # "idle" /\ number'[c] >= number[c]
      /\ UNCHANGED <<up, board, undo, acks, sport, replies, requests>>
  BY <1>c DEF Abort, disk, TypeOK
<1> QED
  BY <1>c, <1>1, <1>2, <1>3, FailTransit

\* What is left is done by c alone.
LEMMA AloneTransit ==
    ASSUME NEW c \in Servers, TypeOK, TypeOK', Transit(c), Standing(c)',
           coord[c].pc \in {"apply", "flush"}, coord'[c].pc \in {"idle", "flush"},
           number'[c] = number[c],
           UNCHANGED <<acks, sport, calls, replies>>
    PROVE  Transit(c)'
<1>1. ~Collecting(c) /\ ~Collecting(c)'
  BY DEF Collecting
<1>2. /\ \A m \in Answers(c) : Spoiled(c, m.id)
      /\ Busy = {} /\ calls = {}
  BY <1>1, NotCollecting
<1>3. Busy' = {} /\ \A m \in Answers(c)' : m \in Answers(c) /\ Spoiled(c, m.id)'
  BY <1>2 DEF Answers, Busy, Spoiled
<1>4. number'[c] >= number[c]
  BY DEF TypeOK
<1> QED
  BY <1>1, <1>2, <1>3, <1>4, Settles

LEMMA ApplyTransit ==
    ASSUME NEW c \in Servers, TypeOK, TypeOK', Transit(c), ApplyWrite(c) \/ ApplyReplace(c)
    PROVE  Transit(c)'
<1>b. board[c] \in Seq(LineType) /\ coord[c].id \in Nat /\ coord[c].req \in Nat
  BY DEF TypeOK, CoordType
<1>1. /\ coord[c].pc = "apply" /\ coord'[c].pc = "flush"
      /\ coord'[c].req = coord[c].req /\ coord'[c].id = coord[c].id
      /\ coord'[c].kind = coord[c].kind
      /\ \A s \in Servers : s # c => coord'[s] = coord[s]
      /\ UNCHANGED <<up, number, undo, acks, sport, replies, requests>>
  <2>1. coord \in [Servers -> CoordType]
    BY DEF TypeOK
  <2>2. CASE ApplyWrite(c)
    BY <2>1, <2>2 DEF ApplyWrite, disk, net, CoordType
  <2>3. CASE ApplyReplace(c)
    BY <2>1, <2>3 DEF ApplyReplace, CoordType
  <2> QED
    BY <2>2, <2>3
<1>2. calls' = calls
  <2>1. CASE ApplyWrite(c)
    BY <2>1 DEF ApplyWrite, net
  <2>2. CASE ApplyReplace(c)
    <3>1. coord[c].kind = "REPLACE" /\ coord[c].id \in Ids(board[c])
      BY <1>1, <2>2 DEF ApplyReplace, Transit, Standing
    <3> QED
      BY <2>2, <3>1 DEF ApplyReplace
  <2> QED
    BY <2>1, <2>2
<1>3. coord[c].id < number[c] /\ \A i \in 1..Len(board[c]) : board[c][i].id < number[c]
  BY <1>1 DEF Transit, Standing
<1>4. \A i \in 1..Len(board'[c]) : board'[c][i].id < number[c]
  <2>1. CASE ApplyWrite(c)
    BY <1>3, <2>1 DEF ApplyWrite, disk
  <2>2. CASE ApplyReplace(c)
    <3>1. board'[c] = ReplaceRecord(board[c], coord[c].id, coord[c].req)
      BY <2>2 DEF ApplyReplace, TypeOK
    <3>2. /\ Len(board'[c]) = Len(board[c])
          /\ \A i \in 1..Len(board[c]) :
                board'[c][i].id = coord[c].id \/ board'[c][i] = board[c][i]
      BY <1>b, <3>1, ReplacedLines
    <3> QED
      BY <1>3, <3>2
  <2> QED
    BY <2>1, <2>2
<1>5. Standing(c)'
  BY <1>1, <1>3, <1>4 DEF Transit, Standing
<1> QED
  BY <1>1, <1>2, <1>5, AloneTransit

LEMMA FlushTransit ==
    ASSUME NEW c \in Servers, TypeOK, TypeOK', Transit(c), Flush(c)
    PROVE  Transit(c)'
<1>b. /\ board[c] \in Seq(LineType) /\ coord[c].id \in Nat /\ coord[c].req \in Nat
      /\ coord[c].pos \in Seq(LineType) /\ number[c] \in Nat
  BY DEF TypeOK, CoordType
<1>1. /\ coord[c].pc = "flush" /\ coord'[c] = IdleCoord /\ undo'[c] = NoUndo
      /\ \A s \in Servers : s # c => coord'[s] = coord[s]
      /\ UNCHANGED <<up, number, acks, sport, calls, replies, requests>>
  BY DEF Flush, net, TypeOK
<1>3. coord[c].id < number[c] /\ \A i \in 1..Len(board[c]) : board[c][i].id < number[c]
  BY <1>1 DEF Transit, Standing
<1>4. \A i \in 1..Len(board'[c]) : board'[c][i].id < number[c]
  <2>1. CASE coord[c].kind = "WRITE"
    <3>1. board'[c] = WriteAt(board[c], coord[c].pos, Line(coord[c].id, coord[c].req))
      BY <2>1 DEF Flush, TypeOK
    <3>2. \A i \in 1..Len(board'[c]) :
             \/ board'[c][i] = Line(coord[c].id, coord[c].req)
             \/ board'[c][i] = Debris
             \/ i \in 1..Len(board[c]) /\ board'[c][i] = board[c][i]
      <4>1. Line(coord[c].id, coord[c].req) \in LineType
        BY <1>b DEF Line, LineType
      <4> QED
        BY <1>b, <3>1, <4>1, WrittenLines
    <3>3. Line(coord[c].id, coord[c].req).id = coord[c].id /\ Debris.id = -1
      BY DEF Line, Debris
    <3>4. -1 < number[c]
      BY <1>b
    <3> QED
      BY <1>3, <3>2, <3>3, <3>4
  <2>2. CASE coord[c].kind # "WRITE"
    BY <1>3, <2>2 DEF Flush
  <2> QED
    BY <2>1, <2>2
<1>5. Standing(c)'
  BY <1>1, <1>4 DEF Transit, Standing, IdleCoord, NoUndo
<1> QED
  BY <1>1, <1>5, AloneTransit DEF IdleCoord

-----------------------------------------------------------------------------
(* The steps of the peers, and the answers. *)

\* What stays when a peer takes a step.
Apart(c) ==
    /\ UNCHANGED <<up, coord, requests>>
    /\ number'[c] = number[c] /\ board'[c] = board[c]
    /\ undo'[c].kind = "NONE" /\ sport'[c] = sport[c]

LEMMA ApartStanding ==
    ASSUME NEW c, Calm(c), Transit(c), Apart(c)
    PROVE  Standing(c)'
BY DEF Transit, Standing, Apart

\* One peer moves to its next place and all else is as it was.
LEMMA Moves ==
    ASSUME NEW c, Calm(c), TypeOK, TypeOK', Transit(c), Apart(c), NEW p \in Peers[c],
           \A id : Spoiled(c, id) => Spoiled(c, id)',
           Collecting(c)' => Collecting(c),
           \A m \in calls' : m \in calls,
           \A q \in Busy' : WorkIn(q, c)',
           \A m \in Answers(c)' : m \in Answers(c) \/ (AnswerIn(m, c)' /\ m.from = p),
           \A m \in replies' : m \in replies \/ m.from = p,
           \A m \in acks'[c] : m \in acks[c] \/ m.from = p,
           \A m \in replies : m.from # p => m \in replies',
           \A m \in acks[c] : m \in acks'[c],
           \A q \in Peers[c] : q # p => (q \in Busy' <=> q \in Busy),
           \A m \in calls : m.to # p => m \in calls',
           Collecting(c)' =>
              /\ OnePlace(p, c)'
              /\ \A m, n \in Answers(c)' :
                    m.from = p /\ n.from = p /\ m.id = coord[c].id /\ n.id = coord[c].id
                        => m = n
    PROVE  Transit(c)'
<1>c. c \in Servers
  BY DEF Calm
<1>1. UNCHANGED <<coord, requests>> /\ number'[c] = number[c]
  BY DEF Apart
<1>2. \A m \in calls' : CallIn(m, c)'
  BY <1>1 DEF Transit, Mail, CallIn, Current
<1>3. \A m \in Answers(c)' : AnswerIn(m, c)'
  <2> SUFFICES ASSUME NEW m \in Answers(c)', m \in Answers(c) PROVE AnswerIn(m, c)'
    OBVIOUS
  <2>1. AnswerIn(m, c)
    BY DEF Transit, Mail
  <2>2. ~(Collecting(c)' /\ m.id = coord[c].id) => Spoiled(c, m.id)'
    <3>1. CASE Collecting(c) /\ m.id = coord[c].id /\ ~Collecting(c)'
      <4>1. Spoiled(c, coord[c].id)'
        BY <1>1, <3>1 DEF Collecting
      <4>2. PICK i : i = m.id
        OBVIOUS
      <4> QED
        BY <1>1, <3>1, <4>1, <4>2 DEF Spoiled
    <3>2. CASE ~(Collecting(c) /\ m.id = coord[c].id)
      BY <2>1, <3>2 DEF AnswerIn
    <3> QED
      BY <3>1, <3>2
  <2> QED
    BY <1>1, <2>1, <2>2 DEF AnswerIn, Current
<1>4. Turn(c)'
  <2> SUFFICES ASSUME Collecting(c)'
               PROVE  OneAnswer(c)' /\ \A q \in Peers[c] : OnePlace(q, c)'
    BY DEF Turn
  <2>1. Collecting(c) /\ OneAnswer(c) /\ \A q \in Peers[c] : OnePlace(q, c)
    BY DEF Transit, Turn
  <2>2. OneAnswer(c)'
    BY <1>1, <2>1 DEF OneAnswer
  <2>3. ASSUME NEW q \in Peers[c], q # p PROVE OnePlace(q, c)'
    <3>1. /\ Asked(q)' <=> Asked(q)
          /\ Told(q, c)' <=> Told(q, c)
          /\ Heard(q, c)' <=> Heard(q, c)
      BY <1>1, <2>3 DEF Asked, Told, Heard
    <3> QED
      BY <2>1, <2>3, <3>1 DEF OnePlace
  <2> QED
    BY <2>2, <2>3
<1> QED
  BY <1>2, <1>3, <1>4, ApartStanding DEF Transit, Mail

\* A peer is asked once in a phase.
LEMMA AskedOnce ==
    ASSUME NEW c \in Servers, TypeOK, Transit(c), coord[c].pc \in {"precommit", "commit"},
           NEW m \in calls, NEW n \in calls, m.to = n.to
    PROVE  m = n
BY SameCall DEF Transit, Mail, CallIn, Current

\* A step that only answers command m, at its peer.
LEMMA PrecommitTransit ==
    ASSUME NEW c, Calm(c), TypeOK, TypeOK', Transit(c), NEW m \in calls, Precommit(m)
    PROVE  Transit(c)'
<1> DEFINE a == Reply(m, "ACK")
<1>c. c \in Servers
  BY DEF Calm
<1>1. /\ m.type = "PRECOMMIT" /\ m.from = c /\ m.to \in Peers[c] /\ m.req = requests
      /\ \/ coord[c].pc = "idle" /\ Spoiled(c, m.id)
         \/ coord[c].pc = "precommit" /\ Current(m, c)
  BY DEF Precommit, Take, Transit, Mail, CallIn
<1>2. /\ calls' = calls \ {m} /\ replies' = replies \cup {a}
      /\ UNCHANGED <<up, board, number, undo, acks, coord, sport, requests>>
  BY DEF Precommit, Take, disk
<1>3. /\ a.type = "ACK" /\ a.req = m.req /\ a.kind = m.kind /\ a.id = m.id
      /\ a.from = m.to /\ a.to = m.from
  BY ReplyIs
<1> HIDE DEF a
<1>i. m.id \in Nat /\ number[c] \in Nat /\ coord[c].id \in Nat
  BY <1>c, CallTypes DEF CallType, MessageType
<1>4. Apart(c)
  BY <1>2 DEF Apart, Transit, Standing
<1>5. \A id : Spoiled(c, id) => Spoiled(c, id)'
  BY <1>2 DEF Spoiled
<1>6. Collecting(c)' => Collecting(c)
  BY <1>c, <1>2 DEF Collecting, Spoiled
<1>7. AnswerIn(a, c)'
  <2>1. a.to = c /\ a.from \in Peers[c]
    BY <1>1, <1>3
  <2>2. m.id < number[c]
    <3>1. CASE coord[c].pc = "precommit" /\ Current(m, c)
      BY <3>1 DEF Current, Transit, Standing
    <3>2. CASE Spoiled(c, m.id)
      BY <3>2 DEF Spoiled, Transit, Mail, AnswerIn, Answers
    <3> QED
      BY <1>1, <3>1, <3>2
  <2>3. CASE coord[c].pc = "precommit" /\ Current(m, c)
    <3>1. Current(a, c)'
      BY <1>2, <1>3, <2>3 DEF Current
    <3>2. ~(Collecting(c)' /\ a.id = coord[c].id) => Spoiled(c, a.id)'
      <4>1. a.id = coord[c].id
        BY <1>3, <2>3 DEF Current
      <4>2. PICK i : i = a.id
        OBVIOUS
      <4> QED
        BY <1>2, <2>3, <4>1, <4>2 DEF Collecting, Spoiled
    <3> QED
      BY <1>2, <1>3, <2>1, <2>2, <2>3, <3>1, <3>2 DEF AnswerIn
  <2>4. CASE coord[c].pc = "idle" /\ Spoiled(c, m.id)
    <3>1. Spoiled(c, a.id)' /\ ~Collecting(c)'
      BY <1>2, <1>3, <2>4 DEF Spoiled, Collecting
    <3> QED
      BY <1>2, <1>3, <2>1, <2>2, <3>1 DEF AnswerIn
  <2> QED
    BY <1>1, <2>3, <2>4
<1>8. \A q \in Busy' : WorkIn(q, c)'
  BY <1>2 DEF Transit, Mail, WorkIn, Current, Busy
<1>9. ASSUME Collecting(c)'
      PROVE  /\ OnePlace(m.to, c)'
             /\ \A x, y \in Answers(c)' :
                    x.from = m.to /\ y.from = m.to /\ x.id = coord[c].id /\ y.id = coord[c].id
                        => x = y
  <2>1. /\ Collecting(c) /\ coord[c].pc = "precommit" /\ Current(m, c)
    BY <1>1, <1>2, <1>6, <1>9 DEF Collecting
  <2>2. m.to \notin Busy /\ ~Told(m.to, c) /\ ~Heard(m.to, c)
    BY <1>1, <2>1 DEF Transit, Turn, OnePlace, Asked
  <2>3. ~Asked(m.to)'
    BY <1>c, <1>2, <2>1, AskedOnce DEF Asked
  <2>4. Told(m.to, c)' /\ ~Heard(m.to, c)' /\ m.to \notin Busy'
    BY <1>2, <1>3, <2>1, <2>2 DEF Told, Heard, Busy, Current
  <2>5. \A x \in Answers(c)' : x.from = m.to /\ x.id = coord[c].id => x = a
    BY <1>2, <2>2 DEF Answers, Told, Heard
  <2>6. OnePlace(m.to, c)'
    BY <2>3, <2>4 DEF OnePlace
  <2>7. \A x, y \in Answers(c)' :
           x.from = m.to /\ y.from = m.to /\ x.id = coord[c].id /\ y.id = coord[c].id
               => x = y
    <3> HIDE DEF a
    <3> TAKE x, y \in Answers(c)'
    <3> HAVE /\ x.from = m.to /\ y.from = m.to
             /\ x.id = coord[c].id /\ y.id = coord[c].id
    <3>1. x = a /\ y = a
      BY <2>5
    <3> QED
      BY <3>1
  <2> QED
    BY <2>6, <2>7, Zenon
<1> QED
  <2>1. PICK p \in Peers[c] : p = m.to
    BY <1>1
  <2>2. /\ \A x \in calls' : x \in calls
        /\ \A x \in Answers(c)' : x \in Answers(c) \/ (AnswerIn(x, c)' /\ x.from = p)
        /\ \A x \in replies' : x \in replies \/ x.from = p
        /\ \A x \in acks'[c] : x \in acks[c] \/ x.from = p
        /\ \A x \in replies : x.from # p => x \in replies'
        /\ \A x \in acks[c] : x \in acks'[c]
        /\ \A q \in Peers[c] : q # p => (q \in Busy' <=> q \in Busy)
        /\ \A x \in calls : x.to # p => x \in calls'
    BY <1>2, <1>3, <1>7, <2>1 DEF Answers, Busy
  <2>3. Collecting(c)' =>
          /\ OnePlace(p, c)'
          /\ \A x, y \in Answers(c)' :
                x.from = p /\ y.from = p /\ x.id = coord[c].id /\ y.id = coord[c].id
                    => x = y
    BY <1>9, <2>1
  <2> QED
    BY <1>4, <1>5, <1>6, <1>8, <2>2, <2>3, Moves

LEMMA BeginCommitTransit ==
    ASSUME NEW c, Calm(c), TypeOK, TypeOK', Transit(c), NEW m \in calls, BeginCommit(m)
    PROVE  Transit(c)'
<1>c. c \in Servers /\ c \notin Peers[c] /\ Peers[c] \subseteq Servers
  BY DEF Calm
<1>1. /\ m.type = "COMMIT" /\ m.from = c /\ m.to \in Peers[c] /\ m.req = requests
      /\ coord[c].pc = "commit" /\ Current(m, c)
  BY DEF BeginCommit, Take, Transit, Mail, CallIn
<1>2. /\ calls' = calls \ {m}
      /\ UNCHANGED <<up, board, number, undo, acks, coord, replies, requests>>
      /\ sport'[m.to].pc = "begun" /\ sport'[m.to].req = m.req
      /\ sport'[m.to].kind = m.kind /\ sport'[m.to].id = m.id
      /\ sport'[m.to].from = m.from
      /\ \A q \in Servers : q # m.to => sport'[q] = sport[q]
  BY <1>c, <1>1 DEF BeginCommit, Take, disk, TypeOK
<1>4. Apart(c)
  BY <1>c, <1>1, <1>2 DEF Apart, Transit, Standing
<1>5. \A id : Spoiled(c, id) => Spoiled(c, id)'
  BY <1>2 DEF Spoiled
<1>6. Collecting(c)
  BY <1>1 DEF Collecting
<1>7. /\ m.to \in Busy'
      /\ \A q \in Servers : q # m.to => (q \in Busy' <=> q \in Busy)
  BY <1>c, <1>1, <1>2 DEF Busy
<1>8. \A q \in Busy' : WorkIn(q, c)'
  <2>1. WorkIn(m.to, c)'
    BY <1>1, <1>2 DEF WorkIn, Current
  <2>2. ASSUME NEW q \in Busy', q # m.to PROVE WorkIn(q, c)'
    <3>1. q \in Servers /\ q \in Busy /\ sport'[q] = sport[q]
      BY <1>2, <1>7, <2>2 DEF Busy
    <3>2. WorkIn(q, c)
      BY <3>1 DEF Transit, Mail
    <3> QED
      BY <1>2, <3>1, <3>2 DEF WorkIn, Current
  <2> QED
    BY <2>1, <2>2
<1>9. /\ OnePlace(m.to, c)'
      /\ \A x, y \in Answers(c)' :
             x.from = m.to /\ y.from = m.to /\ x.id = coord[c].id /\ y.id = coord[c].id
                 => x = y
  <2>1. ~Told(m.to, c) /\ ~Heard(m.to, c)
    BY <1>1, <1>6 DEF Transit, Turn, OnePlace, Asked
  <2>2. ~Asked(m.to)'
    BY <1>c, <1>1, <1>2, AskedOnce DEF Asked
  <2>3. ~Told(m.to, c)' /\ ~Heard(m.to, c)'
    BY <1>2, <2>1 DEF Told, Heard
  <2>4. Answers(c)' = Answers(c)
    BY <1>2 DEF Answers
  <2>5. OnePlace(m.to, c)'
    BY <1>7, <2>2, <2>3 DEF OnePlace
  <2>6. OneAnswer(c)
    BY <1>6 DEF Transit, Turn
  <2>7. \A x, y \in Answers(c)' :
           x.from = m.to /\ y.from = m.to /\ x.id = coord[c].id /\ y.id = coord[c].id
               => x = y
    BY <2>4, <2>6 DEF OneAnswer
  <2> QED
    BY <2>5, <2>7, Zenon
<1> QED
  <2>1. PICK p \in Peers[c] : p = m.to
    BY <1>1
  <2>2. /\ \A x \in calls' : x \in calls
        /\ \A x \in Answers(c)' : x \in Answers(c) \/ (AnswerIn(x, c)' /\ x.from = p)
        /\ \A x \in replies' : x \in replies \/ x.from = p
        /\ \A x \in acks'[c] : x \in acks[c] \/ x.from = p
        /\ \A x \in replies : x.from # p => x \in replies'
        /\ \A x \in acks[c] : x \in acks'[c]
        /\ \A q \in Peers[c] : q # p => (q \in Busy' <=> q \in Busy)
        /\ \A x \in calls : x.to # p => x \in calls'
    BY <1>c, <1>2, <1>7, <2>1 DEF Answers
  <2>3. Collecting(c)' =>
          /\ OnePlace(p, c)'
          /\ \A x, y \in Answers(c)' :
                x.from = p /\ y.from = p /\ x.id = coord[c].id /\ y.id = coord[c].id
                    => x = y
    BY <1>9, <2>1
  <2> QED
    BY <1>4, <1>5, <1>6, <1>8, <2>2, <2>3, Moves

\* The participant writes, and stays where it is.
LEMMA LocalTransit ==
    ASSUME NEW c, Calm(c), TypeOK, TypeOK', Transit(c), NEW p \in Busy,
           sport'[p].pc = "applied", sport'[p].req = sport[p].req,
           sport'[p].kind = sport[p].kind, sport'[p].id = sport[p].id,
           sport'[p].from = sport[p].from,
           \A q \in Servers : q # p =>
              sport'[q] = sport[q] /\ board'[q] = board[q] /\ number'[q] = number[q],
           UNCHANGED <<up, undo, acks, coord, calls, replies, requests>>
    PROVE  Transit(c)'
<1>c. c \in Servers /\ c \notin Peers[c] /\ Peers[c] \subseteq Servers
  BY DEF Calm
<1>1. WorkIn(p, c) /\ p \in Peers[c] /\ p \in Servers
  BY DEF Transit, Mail, WorkIn, Busy
<1>2. Apart(c)
  BY <1>c, <1>1 DEF Apart, Transit, Standing
<1>3. Busy' = Busy
  BY <1>1 DEF Busy
<1>4. \A q \in Busy' : WorkIn(q, c)'
  <2>1. WorkIn(p, c)'
    BY <1>1 DEF WorkIn, Current
  <2>2. ASSUME NEW q \in Busy, q # p PROVE WorkIn(q, c)'
    <3>1. WorkIn(q, c) /\ q \in Servers
      BY DEF Transit, Mail, Busy
    <3> QED
      BY <2>2, <3>1 DEF WorkIn, Current
  <2> QED
    BY <1>3, <2>1, <2>2
<1>5. Answers(c)' = Answers(c) /\ coord'[c].id = coord[c].id
  BY DEF Answers
<1>6. /\ \A id : Spoiled(c, id) <=> Spoiled(c, id)'
      /\ Collecting(c)' <=> Collecting(c)
  BY DEF Spoiled, Collecting
<1>7. Collecting(c)' =>
         /\ OnePlace(p, c)'
         /\ \A x, y \in Answers(c)' :
                x.from = p /\ y.from = p /\ x.id = coord[c].id /\ y.id = coord[c].id
                    => x = y
  <2> SUFFICES ASSUME Collecting(c)
               PROVE  /\ OnePlace(p, c)'
                      /\ \A x, y \in Answers(c) :
                             x.from = p /\ y.from = p /\ x.id = coord[c].id /\ y.id = coord[c].id
                                 => x = y
    BY <1>5, <1>6
  <2>1. OnePlace(p, c) /\ OneAnswer(c)
    BY <1>1 DEF Transit, Turn
  <2>2. /\ Asked(p)' <=> Asked(p)
        /\ Told(p, c)' <=> Told(p, c)
        /\ Heard(p, c)' <=> Heard(p, c)
    BY DEF Asked, Told, Heard
  <2>3. OnePlace(p, c)'
    BY <1>3, <2>1, <2>2 DEF OnePlace
  <2>4. \A x, y \in Answers(c) :
           x.from = p /\ y.from = p /\ x.id = coord[c].id /\ y.id = coord[c].id
               => x = y
    BY <2>1 DEF OneAnswer
  <2> QED
    BY <2>3, <2>4, Zenon
<1>8. /\ \A x \in calls' : x \in calls
      /\ \A x \in Answers(c)' : x \in Answers(c) \/ (AnswerIn(x, c)' /\ x.from = p)
      /\ \A x \in replies' : x \in replies \/ x.from = p
      /\ \A x \in acks'[c] : x \in acks[c] \/ x.from = p
      /\ \A x \in replies : x.from # p => x \in replies'
      /\ \A x \in acks[c] : x \in acks'[c]
      /\ \A q \in Peers[c] : q # p => (q \in Busy' <=> q \in Busy)
      /\ \A x \in calls : x.to # p => x \in calls'
  BY <1>3, <1>5
<1> QED
  BY <1>1, <1>2, <1>4, <1>6, <1>7, <1>8, Moves

\* The participant answers, and is idle.
LEMMA AnswerTransit ==
    ASSUME NEW c, Calm(c), TypeOK, TypeOK', Transit(c), NEW p \in Busy, NEW a,
           a.type # "ACK", a.req = sport[p].req, a.kind = sport[p].kind,
           a.id = sport[p].id, a.from = p, a.to = sport[p].from,
           sport'[p].pc = "idle", replies' = replies \cup {a},
           \A q \in Servers : q # p =>
              sport'[q] = sport[q] /\ undo'[q] = undo[q] /\ number'[q] = number[q],
           UNCHANGED <<up, board, acks, coord, calls, requests>>
    PROVE  Transit(c)'
<1>c. c \in Servers /\ c \notin Peers[c] /\ Peers[c] \subseteq Servers
  BY DEF Calm
<1>1. WorkIn(p, c) /\ p \in Peers[c] /\ p \in Servers
  BY DEF Transit, Mail, WorkIn, Busy
<1>2. /\ coord[c].pc = "commit" /\ Current(a, c) /\ a.to = c
      /\ a.id = coord[c].id /\ a.id < number[c]
  BY <1>1 DEF WorkIn, Current, Transit, Standing
<1>3. Apart(c)
  BY <1>c, <1>1 DEF Apart, Transit, Standing
<1>4. p \notin Busy' /\ \A q \in Servers : q # p => (q \in Busy' <=> q \in Busy)
  BY <1>1 DEF Busy
<1>5. \A q \in Busy' : WorkIn(q, c)'
  <2> SUFFICES ASSUME NEW q \in Busy' PROVE WorkIn(q, c)'
    OBVIOUS
  <2>1. q \in Servers /\ q # p /\ q \in Busy /\ sport'[q] = sport[q]
    BY <1>4 DEF Busy
  <2>2. WorkIn(q, c)
    BY <2>1 DEF Transit, Mail
  <2> QED
    BY <2>1, <2>2 DEF WorkIn, Current
<1>6. Collecting(c) /\ Collecting(c)'
  BY <1>2 DEF Collecting
<1>7. AnswerIn(a, c)'
  <2>1. Current(a, c)'
    BY <1>2 DEF Current
  <2>2. a.from \in Peers[c] /\ number'[c] = number[c] /\ coord'[c] = coord[c]
    BY <1>1, <1>3 DEF Apart
  <2> QED
    BY <1>2, <1>6, <2>1, <2>2 DEF AnswerIn
<1>8. \A id : Spoiled(c, id) => Spoiled(c, id)'
  BY DEF Spoiled
<1>9. ~Asked(p) /\ ~Told(p, c) /\ ~Heard(p, c)
  BY <1>1, <1>6 DEF Transit, Turn, OnePlace
<1>10. OnePlace(p, c)'
  <2>1. ~Asked(p)' /\ Told(p, c)' /\ ~Heard(p, c)'
    BY <1>2, <1>9 DEF Asked, Told, Heard
  <2> QED
    BY <1>4, <2>1 DEF OnePlace
<1>11. \A x, y \in Answers(c)' :
           x.from = p /\ y.from = p /\ x.id = coord[c].id /\ y.id = coord[c].id
               => x = y
  <2>1. \A x \in Answers(c)' : x.from = p /\ x.id = coord[c].id => x = a
    BY <1>9 DEF Answers, Told, Heard
  <2> QED
    BY <2>1
<1>12. Collecting(c)' =>
         /\ OnePlace(p, c)'
         /\ \A x, y \in Answers(c)' :
                x.from = p /\ y.from = p /\ x.id = coord[c].id /\ y.id = coord[c].id
                    => x = y
  BY <1>10, <1>11, Zenon
<1>13. /\ \A x \in calls' : x \in calls
       /\ \A x \in Answers(c)' : x \in Answers(c) \/ (AnswerIn(x, c)' /\ x.from = p)
       /\ \A x \in replies' : x \in replies \/ x.from = p
       /\ \A x \in acks'[c] : x \in acks[c] \/ x.from = p
       /\ \A x \in replies : x.from # p => x \in replies'
       /\ \A x \in acks[c] : x \in acks'[c]
       /\ \A q \in Peers[c] : q # p => (q \in Busy' <=> q \in Busy)
       /\ \A x \in calls : x.to # p => x \in calls'
  BY <1>c, <1>4, <1>7 DEF Answers
<1> QED
  BY <1>1, <1>3, <1>5, <1>6, <1>8, <1>12, <1>13, Moves

LEMMA FinishCommitTransit ==
    ASSUME NEW c, Calm(c), TypeOK, TypeOK', Transit(c), NEW p \in Servers, FinishCommit(p)
    PROVE  Transit(c)'
<1> DEFINE a == [type |-> IF sport[p].found THEN "SUCCESSFUL" ELSE "UNSUCCESSFUL",
                 req |-> sport[p].req, kind |-> sport[p].kind, id |-> sport[p].id,
                 from |-> p, to |-> sport[p].from]
<1>1. p \in Busy /\ sport[p].from = c /\ c \in Servers
  BY DEF FinishCommit, Busy, Transit, Mail, WorkIn, Calm
<1>2. sport[p].from # Nobody
  BY <1>1, ServersAssumption
<1>3. replies' = replies \cup {a}
  BY <1>1, <1>2 DEF FinishCommit
<1>4. /\ sport'[p].pc = "idle"
      /\ \A q \in Servers : q # p => sport'[q] = sport[q] /\ undo'[q] = undo[q]
      /\ UNCHANGED <<up, board, number, acks, coord, calls, requests>>
  BY DEF FinishCommit, TypeOK, IdleSport, disk
<1>5. /\ a.type # "ACK" /\ a.req = sport[p].req /\ a.kind = sport[p].kind
      /\ a.id = sport[p].id /\ a.from = p /\ a.to = sport[p].from
  OBVIOUS
<1> HIDE DEF a
<1> QED
  BY <1>1, <1>3, <1>4, <1>5, AnswerTransit

LEMMA LocalStorageFaultTransit ==
    ASSUME NEW c, Calm(c), TypeOK, TypeOK', Transit(c), NEW p \in Servers,
           LocalStorageFault(p), Peers[p] = {}
    PROVE  Transit(c)'
<1> DEFINE a == [type |-> "UNSUCCESSFUL", req |-> sport[p].req,
                 kind |-> sport[p].kind, id |-> sport[p].id, from |-> p,
                 to |-> sport[p].from]
<1>1. p \in Busy /\ sport[p].from = c /\ c \in Servers
  BY DEF LocalStorageFault, Busy, Transit, Mail, WorkIn, Calm
<1>2. sport[p].from # Nobody
  BY <1>1, ServersAssumption
<1>3. replies' = replies \cup {a}
  BY <1>1, <1>2 DEF LocalStorageFault
<1>4. sport' = [sport EXCEPT ![p] = IdleSport] /\ UNCHANGED <<up, undo, acks, coord, calls>>
  BY DEF LocalStorageFault
<1>5. number' = number \/ number' = [number EXCEPT ![p] = sport[p].num + 1]
  BY DEF LocalStorageFault
<1>6. sport'[p].pc = "idle" /\ \A q \in Servers : q # p => sport'[q] = sport[q]
  BY <1>4 DEF TypeOK, IdleSport
<1>7. \A q \in Servers : q # p => undo'[q] = undo[q] /\ number'[q] = number[q]
  BY <1>4, <1>5 DEF TypeOK
<1>8. UNCHANGED <<up, board, acks, coord, calls, requests>>
  BY <1>4 DEF LocalStorageFault
<1>9. /\ a.type # "ACK" /\ a.req = sport[p].req /\ a.kind = sport[p].kind
      /\ a.id = sport[p].id /\ a.from = p /\ a.to = sport[p].from
  OBVIOUS
<1> HIDE DEF a
<1> QED
  BY <1>1, <1>3, <1>6, <1>7, <1>8, <1>9, AnswerTransit

LEMMA LocalWriteTransit ==
    ASSUME NEW c, Calm(c), TypeOK, TypeOK', Transit(c), NEW p \in Servers, LocalWrite(p)
    PROVE  Transit(c)'
<1>1. p \in Busy
  BY DEF LocalWrite, Busy
<1>2. /\ sport'[p].pc = "applied" /\ sport'[p].req = sport[p].req
      /\ sport'[p].kind = sport[p].kind /\ sport'[p].id = sport[p].id
      /\ sport'[p].from = sport[p].from
      /\ \A q \in Servers : q # p => sport'[q] = sport[q]
  BY DEF LocalWrite, TypeOK, SportType
<1>3. /\ \A q \in Servers : q # p => board'[q] = board[q] /\ number'[q] = number[q]
      /\ UNCHANGED <<up, undo, acks, coord, calls, replies, requests>>
  BY DEF LocalWrite, TypeOK, net
<1> QED
  BY <1>1, <1>2, <1>3, LocalTransit

LEMMA LocalReplaceTransit ==
    ASSUME NEW c, Calm(c), TypeOK, TypeOK', Transit(c), NEW p \in Servers, LocalReplace(p),
           ~Dies(p)
    PROVE  Transit(c)'
<1>1. p \in Busy
  BY DEF LocalReplace, Busy
<1>2. /\ sport' = [sport EXCEPT ![p].pc = "applied",
                                ![p].found = sport[p].id \in Ids(board[p])]
      /\ UNCHANGED <<up, undo, acks, coord, calls, replies>>
  BY DEF LocalReplace, net
<1>3. /\ sport'[p].pc = "applied" /\ sport'[p].req = sport[p].req
      /\ sport'[p].kind = sport[p].kind /\ sport'[p].id = sport[p].id
      /\ sport'[p].from = sport[p].from
      /\ \A q \in Servers : q # p => sport'[q] = sport[q]
  BY <1>2 DEF TypeOK, SportType
<1>4. /\ \A q \in Servers : q # p => board'[q] = board[q] /\ number'[q] = number[q]
      /\ UNCHANGED requests
  BY DEF LocalReplace, TypeOK
<1> QED
  BY <1>1, <1>2, <1>3, <1>4, LocalTransit

\* UNSUCCESSFUL is on its way only while c has no request.
LEMMA UnsuccessfulTransit ==
    ASSUME NEW c, Calm(c), TypeOK, TypeOK', Transit(c), NEW m \in calls, Unsuccessful(m)
    PROVE  Transit(c)'
<1>c. c \in Servers /\ c \notin Peers[c] /\ Peers[c] \subseteq Servers
  BY DEF Calm
<1>1. m.type = "UNSUCCESSFUL" /\ m.to \in Peers[c] /\ coord[c].pc = "idle"
  BY DEF Unsuccessful, Take, Transit, Mail, CallIn
<1>p. PICK p \in Peers[c] : p = m.to
  BY <1>1
<1>2. /\ calls' = calls \ {m}
      /\ UNCHANGED <<up, coord, sport, replies, requests, number>>
      /\ \A q \in Servers : q # p => /\ board'[q] = board[q] /\ undo'[q] = undo[q]
                                     /\ acks'[q] = acks[q]
  BY <1>p DEF Unsuccessful, Take, Undo, TypeOK
<1>3. Apart(c)
  BY <1>c, <1>1, <1>2, <1>p DEF Apart, Transit, Standing
<1>4. acks'[c] = acks[c] /\ Answers(c)' = Answers(c)
  BY <1>c, <1>2 DEF Answers
<1>5. \A id : Spoiled(c, id) => Spoiled(c, id)'
  BY <1>4 DEF Spoiled
<1>6. ~Collecting(c)'
  BY <1>1, <1>2 DEF Collecting
<1>7. \A q \in Busy' : WorkIn(q, c)'
  BY <1>2 DEF Transit, Mail, WorkIn, Current, Busy
<1>8. /\ \A x \in calls' : x \in calls
      /\ \A x \in Answers(c)' : x \in Answers(c) \/ (AnswerIn(x, c)' /\ x.from = p)
      /\ \A x \in replies' : x \in replies \/ x.from = p
      /\ \A x \in acks'[c] : x \in acks[c] \/ x.from = p
      /\ \A x \in replies : x.from # p => x \in replies'
      /\ \A x \in acks[c] : x \in acks'[c]
      /\ \A q \in Peers[c] : q # p => (q \in Busy' <=> q \in Busy)
      /\ \A x \in calls : x.to # p => x \in calls'
  BY <1>2, <1>4, <1>p DEF Busy
<1> QED
  BY <1>3, <1>5, <1>6, <1>7, <1>8, Moves

\* c hears of a peer; it has nothing to undo.
LEMMA ReceiveReplyTransit ==
    ASSUME NEW c, Calm(c), TypeOK, TypeOK', Transit(c), NEW m \in replies, ReceiveReply(m)
    PROVE  Transit(c)'
<1>c. c \in Servers /\ c \notin Peers[c] /\ Peers[c] \subseteq Servers
  BY DEF Calm
<1>1. m \in Answers(c) /\ AnswerIn(m, c) /\ m.to = c /\ m.from \in Peers[c]
  <2>1. m \in Answers(c)
    BY DEF Answers
  <2> QED
    BY <2>1 DEF Transit, Mail, AnswerIn
<1>p. PICK p \in Peers[c] : p = m.from
  BY <1>1
<1>2. /\ replies' = replies \ {m} /\ acks'[c] = acks[c] \cup {m}
      /\ UNCHANGED <<up, coord, sport, calls, requests>>
  BY <1>c, <1>1 DEF ReceiveReply, TypeOK
<1>3. number' = number /\ board'[c] = board[c] /\ undo'[c].kind = "NONE"
  <2>0. undo[c].kind = "NONE"
    BY DEF Transit, Standing
  <2>1. CASE m.type = "UNSUCCESSFUL"
    <3>1. Undo(c)
      BY <1>1, <2>1 DEF ReceiveReply
    <3> QED
      BY <1>c, <2>0, <3>1 DEF Undo, NoUndo, TypeOK
  <2>2. CASE m.type # "UNSUCCESSFUL"
    BY <2>0, <2>2 DEF ReceiveReply, disk
  <2> QED
    BY <2>1, <2>2
<1>4. Apart(c)
  BY <1>2, <1>3 DEF Apart
<1>5. Answers(c)' = Answers(c)
  BY <1>2 DEF Answers
<1>6. \A id : Spoiled(c, id) => Spoiled(c, id)'
  BY <1>2 DEF Spoiled
<1>7. Collecting(c)' => Collecting(c)
  BY <1>2 DEF Collecting, Spoiled
<1>8. \A q \in Busy' : WorkIn(q, c)'
  BY <1>2 DEF Transit, Mail, WorkIn, Current, Busy
<1>9. ASSUME Collecting(c)' PROVE OnePlace(p, c)'
  <2>1. OnePlace(p, c) /\ OneAnswer(c)
    BY <1>7, <1>9 DEF Transit, Turn
  <2>2. /\ Asked(p)' <=> Asked(p)
        /\ p \in Busy' <=> p \in Busy
    BY <1>2 DEF Asked, Busy
  <2>3. CASE m.id = coord[c].id
    <3>1. Told(p, c) /\ ~Heard(p, c)
      BY <1>p, <2>1, <2>3 DEF Told, OnePlace
    <3>2. Heard(p, c)'
      BY <1>2, <1>p, <2>3 DEF Heard
    <3>3. ~Told(p, c)'
      BY <1>2, <1>p, <2>1, <2>3 DEF Told, OneAnswer, Answers
    <3> QED
      BY <2>1, <2>2, <3>1, <3>2, <3>3 DEF OnePlace
  <2>4. CASE m.id # coord[c].id
    <3>1. /\ Told(p, c)' <=> Told(p, c)
          /\ Heard(p, c)' <=> Heard(p, c)
      BY <1>2, <2>4 DEF Told, Heard
    <3> QED
      BY <2>1, <2>2, <3>1 DEF OnePlace
  <2> QED
    BY <2>3, <2>4
<1>10. ASSUME Collecting(c)'
       PROVE  \A x, y \in Answers(c)' :
                  x.from = p /\ y.from = p /\ x.id = coord[c].id /\ y.id = coord[c].id
                      => x = y
  BY <1>5, <1>7, <1>10 DEF Transit, Turn, OneAnswer
<1>11. Collecting(c)' =>
         /\ OnePlace(p, c)'
         /\ \A x, y \in Answers(c)' :
                x.from = p /\ y.from = p /\ x.id = coord[c].id /\ y.id = coord[c].id
                    => x = y
  BY <1>9, <1>10, Zenon
<1>12. /\ \A x \in calls' : x \in calls
       /\ \A x \in Answers(c)' : x \in Answers(c) \/ (AnswerIn(x, c)' /\ x.from = p)
       /\ \A x \in replies' : x \in replies \/ x.from = p
       /\ \A x \in acks'[c] : x \in acks[c] \/ x.from = p
       /\ \A x \in replies : x.from # p => x \in replies'
       /\ \A x \in acks[c] : x \in acks'[c]
       /\ \A q \in Peers[c] : q # p => (q \in Busy' <=> q \in Busy)
       /\ \A x \in calls : x.to # p => x \in calls'
  BY <1>2, <1>5, <1>p DEF Busy
<1> QED
  BY <1>4, <1>6, <1>7, <1>8, <1>11, <1>12, Moves

-----------------------------------------------------------------------------
(* All steps together. *)

LEMMA TransitInit ==
    ASSUME NEW c, Calm(c), Init
    PROVE  Transit(c)
<1>c. c \in Servers
  BY DEF Calm
<1>1. /\ coord[c].pc = "idle" /\ coord[c].kind = "WRITE" /\ board[c] = <<>>
      /\ acks[c] = {} /\ calls = {} /\ replies = {}
      /\ \A s \in Servers : up[s] /\ coord[s].pc = "idle" /\ sport[s].pc = "idle"
      /\ undo[c].kind = "NONE"
  BY <1>c DEF Init, IdleCoord, IdleSport, NoUndo
<1>2. Standing(c)
  BY <1>c, <1>1 DEF Standing
<1>3. Answers(c) = {} /\ Busy = {} /\ ~Collecting(c)
  BY <1>1 DEF Answers, Busy, Collecting
<1> QED
  BY <1>1, <1>2, <1>3 DEF Transit, Mail, Turn

LEMMA TransitStays ==
    ASSUME NEW c, Transit(c), UNCHANGED vars
    PROVE  Transit(c)'
<1>1. UNCHANGED <<up, board, number, undo, acks, coord, sport, calls, replies, requests>>
  BY DEF vars, disk, net
<1>2. Standing(c)'
  BY <1>1 DEF Transit, Standing
<1>3. Collecting(c)' <=> Collecting(c)
  BY <1>1 DEF Collecting, Spoiled
<1>4. Mail(c)'
  <2>1. \A m : CallIn(m, c) => CallIn(m, c)'
    BY <1>1 DEF CallIn, Current, Spoiled
  <2>2. \A m : AnswerIn(m, c) => AnswerIn(m, c)'
    BY <1>1, <1>3 DEF AnswerIn, Current, Spoiled
  <2>3. \A p : WorkIn(p, c) => WorkIn(p, c)'
    BY <1>1 DEF WorkIn, Current
  <2> QED
    BY <1>1, <2>1, <2>2, <2>3 DEF Transit, Mail, Answers, Busy
<1>5. Turn(c)'
  <2>1. OneAnswer(c) => OneAnswer(c)'
    BY <1>1 DEF OneAnswer, Answers
  <2>2. \A p : OnePlace(p, c) => OnePlace(p, c)'
    BY <1>1 DEF OnePlace, Asked, Told, Heard, Busy
  <2> QED
    BY <1>3, <2>1, <2>2 DEF Transit, Turn
<1> QED
  BY <1>2, <1>4, <1>5 DEF Transit

\* No step leaves the invariant in which nobody dies and nothing is lost.
LEMMA TransitStep ==
    ASSUME NEW c, Calm(c), TypeOK, TypeOK', Transit(c), Next,
           faults' = 0 \/ Faults \subseteq {"disk"},
           \A p \in Servers : LocalReplace(p) => ~Dies(p),
           \A p \in Servers : LocalStorageFault(p) => Peers[p] = {}
    PROVE  Transit(c)'
<1>c. c \in Servers /\ Coordinators = {c} /\ "MALFORMED" \notin Kinds
  BY DEF Calm
<1>1. CASE Request(c)
  BY <1>c, <1>1, WriteRequestTransit, ReplaceRequestTransit DEF Request, MalformedRequest
<1>2. CASE CoordinatorStep(c)
  BY <1>c, <1>2, StoreNumberTransit, PrecommittedTransit, CommittedTransit,
     AbortTransit, ApplyTransit, FlushTransit DEF CoordinatorStep
<1>3. ASSUME NEW p \in Servers, LocalStep(p) PROVE Transit(c)'
  BY <1>3, LocalWriteTransit, LocalReplaceTransit, FinishCommitTransit DEF LocalStep
<1>4. ASSUME NEW m \in calls, Deliver(m) PROVE Transit(c)'
  <2>1. ~Refused(m)
    <3>1. m.to \in Servers
      BY CallTypes DEF CallType, MessageType
    <3> QED
      BY <3>1 DEF Refused, Transit, Standing
  <2> QED
    BY <1>4, <2>1, PrecommitTransit, BeginCommitTransit, UnsuccessfulTransit DEF Deliver
<1>5. ASSUME NEW m \in replies, ReceiveReply(m) PROVE Transit(c)'
  BY <1>5, ReceiveReplyTransit
<1>6. CASE FaultStep
  <2>0. ASSUME NEW kind, Fault(kind) PROVE kind = "disk"
    <3>1. faults \in Nat /\ faults' = faults + 1 /\ kind \in Faults
      BY <2>0 DEF Fault, TypeOK
    <3>2. faults' # 0
      BY <3>1
    <3> QED
      BY <3>1, <3>2
  <2>1. ASSUME NEW s \in Servers, StorageFault(s) PROVE Transit(c)'
    <3>1. s = c
      BY <2>1 DEF StorageFault, Transit, Standing
    <3> QED
      BY <1>c, <2>1, <3>1, StorageFaultTransit
  <2>2. ASSUME NEW s \in Servers, LocalStorageFault(s) PROVE Transit(c)'
    BY <2>2, LocalStorageFaultTransit
  <2>3. \A s \in Servers : ~Crash(s) /\ ~Restart(s)
    BY <2>0 DEF Crash, Restart, Transit, Standing
  <2>4. \A m \in calls \cup replies : ~Lose(m)
    BY <2>0 DEF Lose
  <2> QED
    BY <1>6, <2>1, <2>2, <2>3, <2>4 DEF FaultStep
<1> QED
  BY <1>c, <1>1, <1>2, <1>3, <1>4, <1>5, <1>6 DEF Next

-----------------------------------------------------------------------------
(* Without faults: the boards and numbers stay in step. *)

\* c's board with the current request, and its number before it.
New(c) ==
    IF coord[c].kind = "WRITE"
    THEN Append(board[c], Line(coord[c].id, coord[c].req))
    ELSE ReplaceRecord(board[c], coord[c].id, coord[c].req)

Old(c) ==
    IF coord[c].kind = "WRITE" /\ coord[c].pc \notin {"idle", "number"}
    THEN coord[c].id ELSE number[c]

Before(p, c) == board[p] = board[c] /\ number[p] = Old(c)
After(p, c)  == board[p] = New(c) /\ number[p] = number[c]

\* p has not written the request yet.
Unwritten(p) == Asked(p) \/ sport[p].pc = "begun"

InStep(p, c) ==
    /\ coord[c].pc \in {"idle", "number", "precommit"} => Before(p, c)
    /\ coord[c].pc = "commit" => IF Unwritten(p) THEN Before(p, c) ELSE After(p, c)
    /\ coord[c].pc = "apply" => After(p, c)
    /\ coord[c].pc = "flush" => IF coord[c].kind = "WRITE" THEN After(p, c)
                                ELSE Before(p, c)

\* Nothing failed and nothing will.
Smooth(c) ==
    /\ \A m \in calls : Positive(m)
    /\ \A m \in Answers(c) : Positive(m)
    /\ \A p \in Busy : sport[p].found
    /\ \A p \in Busy : sport[p].pc = "begun" => sport[p].num = number[p]

Steps(c) ==
    /\ coord[c].kind = "WRITE" /\ coord[c].pc \notin {"idle", "number"} =>
          number[c] = coord[c].id + 1
    /\ coord[c].kind = "WRITE" /\ coord[c].pc = "flush" =>
          coord[c].pos = board[c]

Same(c) == Smooth(c) /\ Steps(c) /\ \A p \in Peers[c] : InStep(p, c)

\* No request is spoiled, so c never gives up.
LEMMA NoneSpoiled ==
    ASSUME NEW c, Calm(c), TypeOK, Transit(c), Smooth(c)
    PROVE  ~Abort(c) /\ \A id : ~Spoiled(c, id)
<1>1. \A id : ~Spoiled(c, id)
  BY DEF Smooth, Spoiled, Answers
<1> QED
  BY <1>1, AbortOnlyIf

\* Before the boards change, a request changes nothing of the agreement.
LEMMA BeginsSame ==
    ASSUME NEW c, Calm(c), TypeOK, TypeOK', Transit(c), Same(c),
           \/ coord[c].pc = "idle" /\ coord'[c].pc \in {"number", "precommit"}
           \/ coord[c].pc = "number" /\ coord'[c].pc = "precommit",
           number'[c] = number[c] \/ coord[c].pc = "number",
           coord'[c].kind = "WRITE" /\ coord'[c].pc = "precommit" =>
              coord'[c].id = number[c] /\ number'[c] = number[c] + 1,
           coord'[c].kind # "WRITE" \/ coord'[c].pc = "number" => number'[c] = number[c],
           \A m \in calls' : m \in calls \/ Positive(m),
           \A p \in Peers[c] : number'[p] = number[p],
           UNCHANGED <<board, acks, sport, replies>>
    PROVE  Same(c)'
<1>c. c \in Servers /\ Peers[c] \subseteq Servers
  BY DEF Calm
<1>1. Smooth(c)'
  <2>1. Answers(c)' = Answers(c) /\ Busy' = Busy
    BY DEF Answers, Busy
  <2>2. Busy = {}
    BY DEF Transit, Mail, WorkIn
  <2> QED
    BY <2>1, <2>2 DEF Same, Smooth
<1>2. Steps(c)'
  BY DEF Steps
<1>3. ASSUME NEW p \in Peers[c] PROVE InStep(p, c)'
  <2>1. board[p] = board[c] /\ number[p] = number[c]
    BY DEF Same, InStep, Before, Old
  <2>2. Before(p, c)'
    BY <2>1 DEF Before, Old
  <2> QED
    BY <2>2 DEF InStep
<1> QED
  BY <1>1, <1>2, <1>3 DEF Same

LEMMA RequestSame ==
    ASSUME NEW c, Calm(c), TypeOK, TypeOK', Transit(c), Same(c),
           Request(c) \/ StoreNumber(c)
    PROVE  Same(c)'
<1>c. c \in Servers /\ c \notin Peers[c]
  BY DEF Calm
<1>k. "MALFORMED" \notin Kinds
  BY DEF Calm
<1>p. \A r, k, i : \A m \in Broadcast("PRECOMMIT", c, r, k, i) : Positive(m)
  BY <1>c, BroadcastIs DEF Positive
<1>1. CASE WriteRequest(c)
  <2>1. /\ coord[c].pc = "idle" /\ coord'[c].pc = "number" /\ calls' = calls
        /\ UNCHANGED <<board, acks, sport, replies, number>>
    BY <1>c, <1>1 DEF WriteRequest, Accept, disk, net, TypeOK
  <2> QED
    BY <2>1, BeginsSame
<1>2. ASSUME NEW id \in 0..MaxRequests, ReplaceRequest(c, id) PROVE Same(c)'
  <2>1. /\ coord[c].pc = "idle" /\ coord'[c].pc = "precommit"
        /\ coord'[c].kind = "REPLACE"
        /\ calls' = calls \cup Broadcast("PRECOMMIT", c, requests + 1, "REPLACE", id)
        /\ UNCHANGED <<board, acks, sport, replies, number>>
    BY <1>c, <1>2 DEF ReplaceRequest, Accept, disk, TypeOK
  <2>2. \A m \in calls' : m \in calls \/ Positive(m)
    BY <1>p, <2>1
  <2> QED
    BY <2>1, <2>2, BeginsSame
<1>3. CASE StoreNumber(c)
  <2>1. /\ coord[c].pc = "number" /\ coord[c].id = number[c] /\ coord[c].kind = "WRITE"
    BY <1>3 DEF StoreNumber, Transit, Standing
  <2>2. /\ coord'[c].pc = "precommit" /\ coord'[c].kind = "WRITE"
        /\ coord'[c].id = number[c] /\ number'[c] = number[c] + 1
        /\ \A p \in Servers : p # c => number'[p] = number[p]
        /\ calls' = calls \cup Broadcast("PRECOMMIT", c, coord[c].req, "WRITE",
                                         coord[c].id)
        /\ UNCHANGED <<board, acks, sport, replies>>
    BY <1>c, <1>3, <2>1 DEF StoreNumber, TypeOK, CoordType
  <2>3. \A m \in calls' : m \in calls \/ Positive(m)
    BY <1>p, <2>2
  <2>4. \A p \in Peers[c] : number'[p] = number[p]
    BY <1>c, <2>2 DEF Calm
  <2> QED
    BY <2>1, <2>2, <2>3, <2>4, BeginsSame
<1> QED
  BY <1>k, <1>1, <1>2, <1>3 DEF Request, MalformedRequest

LEMMA PrecommittedSame ==
    ASSUME NEW c, Calm(c), TypeOK, TypeOK', Transit(c), Same(c), Precommitted(c)
    PROVE  Same(c)'
<1>c. c \in Servers
  BY DEF Calm
<1>1. /\ coord[c].pc = "precommit" /\ coord'[c].pc = "commit"
      /\ coord'[c].req = coord[c].req /\ coord'[c].id = coord[c].id
      /\ coord'[c].kind = coord[c].kind
      /\ Acknowledged(c)
      /\ calls' = calls \cup Broadcast("COMMIT", c, coord[c].req, coord[c].kind,
                                       coord[c].id)
      /\ UNCHANGED <<board, number, sport, replies>>
  BY <1>c, CoordMoves DEF Precommitted, disk, TypeOK
<1>2. /\ calls = {} /\ Busy = {}
      /\ \A m \in replies \cup acks'[c] : m \in Answers(c)
  BY <1>c, <1>1, Succeeds
<1>3. Smooth(c)'
  <2>1. \A m \in calls' : Positive(m)
    <3>1. PICK r, k, i : calls' = calls \cup Broadcast("COMMIT", c, r, k, i)
      BY <1>1
    <3> QED
      BY <1>c, <1>2, <3>1, BroadcastIs DEF Positive
  <2>2. \A m \in Answers(c)' : Positive(m)
    BY <1>1, <1>2 DEF Answers, Same, Smooth
  <2>3. Busy' = {}
    BY <1>1, <1>2 DEF Busy
  <2> QED
    BY <2>1, <2>2, <2>3 DEF Smooth
<1>4. Steps(c)'
  BY <1>1 DEF Same, Steps
<1>5. ASSUME NEW p \in Peers[c] PROVE InStep(p, c)'
  <2>1. Before(p, c)
    BY <1>1 DEF Same, InStep
  <2>2. Before(p, c)'
    BY <1>1, <2>1 DEF Before, Old
  <2>3. Asked(p)'
    <3>1. PICK r, k, i : calls' = calls \cup Broadcast("COMMIT", c, r, k, i)
      BY <1>1
    <3>2. PICK m : m = [type |-> "COMMIT", req |-> r, kind |-> k, id |-> i,
                        from |-> c, to |-> p]
      OBVIOUS
    <3>3. m \in calls' /\ m.to = p
      BY <3>1, <3>2 DEF Broadcast
    <3> QED
      BY <3>3 DEF Asked
  <2> QED
    BY <1>1, <2>2, <2>3 DEF InStep, Unwritten
<1> QED
  BY <1>3, <1>4, <1>5 DEF Same

LEMMA CommittedSame ==
    ASSUME NEW c, Calm(c), TypeOK, TypeOK', Transit(c), Same(c), Committed(c)
    PROVE  Same(c)'
<1>c. c \in Servers /\ Peers[c] \subseteq Servers
  BY DEF Calm
<1>1. /\ coord[c].pc = "commit" /\ coord'[c].pc = "apply"
      /\ coord'[c].req = coord[c].req /\ coord'[c].id = coord[c].id
      /\ coord'[c].kind = coord[c].kind
      /\ Acknowledged(c)
      /\ UNCHANGED <<board, number, sport, calls, replies>>
  BY <1>c, CoordMoves DEF Committed, disk, net, TypeOK
<1>2. /\ calls = {} /\ Busy = {}
      /\ \A m \in replies \cup acks'[c] : m \in Answers(c)
  BY <1>c, <1>1, Succeeds
<1>3. Smooth(c)'
  <2>1. \A m \in Answers(c)' : Positive(m)
    BY <1>1, <1>2 DEF Answers, Same, Smooth
  <2>2. Busy' = {}
    BY <1>1, <1>2 DEF Busy
  <2> QED
    BY <1>1, <1>2, <2>1, <2>2 DEF Smooth
<1>4. Steps(c)'
  BY <1>1 DEF Same, Steps
<1>5. ASSUME NEW p \in Peers[c] PROVE InStep(p, c)'
  <2>1. ~Unwritten(p)
    BY <1>c, <1>2 DEF Unwritten, Asked, Busy
  <2>2. After(p, c)
    BY <1>1, <2>1 DEF Same, InStep
  <2>3. After(p, c)'
    BY <1>1, <2>2 DEF After, New
  <2> QED
    BY <1>1, <2>3 DEF InStep
<1> QED
  BY <1>3, <1>4, <1>5 DEF Same

\* While c works on its own board nobody else does anything.
LEMMA OwnSame ==
    ASSUME NEW c, Calm(c), TypeOK, Transit(c), Same(c),
           coord[c].pc \in {"apply", "flush"}, Steps(c)',
           \A p \in Peers[c] : InStep(p, c)',
           UNCHANGED <<acks, sport, number, calls, replies>>
    PROVE  Same(c)'
<1>1. Busy = {} /\ Busy' = {}
  BY DEF Transit, Mail, WorkIn, Busy
<1>2. Answers(c)' = Answers(c)
  BY DEF Answers
<1> QED
  BY <1>1, <1>2 DEF Same, Smooth

LEMMA ApplySame ==
    ASSUME NEW c, Calm(c), TypeOK, TypeOK', Transit(c), Same(c),
           ApplyWrite(c) \/ ApplyReplace(c)
    PROVE  Same(c)'
<1>c. c \in Servers /\ c \notin Peers[c] /\ Peers[c] \subseteq Servers
  BY DEF Calm
<1>t. coord[c] \in CoordType
  BY <1>c DEF TypeOK
<1>1. CASE ApplyWrite(c)
  <2>1. /\ coord[c].pc = "apply" /\ coord[c].kind = "WRITE"
        /\ coord'[c].pc = "flush" /\ coord'[c].pos = board[c]
        /\ coord'[c].req = coord[c].req /\ coord'[c].id = coord[c].id
        /\ coord'[c].kind = coord[c].kind
        /\ UNCHANGED <<board, acks, sport, number, calls, replies>>
    BY <1>c, <1>1, <1>t DEF ApplyWrite, disk, net, TypeOK, CoordType
  <2>2. Steps(c)'
    BY <2>1 DEF Same, Steps
  <2>3. ASSUME NEW p \in Peers[c] PROVE InStep(p, c)'
    <3>1. After(p, c)
      BY <2>1 DEF Same, InStep
    <3>2. After(p, c)'
      BY <2>1, <3>1 DEF After, New
    <3> QED
      BY <2>1, <3>2 DEF InStep
  <2> QED
    BY <2>1, <2>2, <2>3, OwnSame
<1>2. CASE ApplyReplace(c)
  <2>1. /\ coord[c].pc = "apply" /\ coord[c].kind = "REPLACE"
        /\ coord'[c].pc = "flush" /\ coord'[c].kind = coord[c].kind
        /\ board'[c] = ReplaceRecord(board[c], coord[c].id, coord[c].req)
        /\ \A p \in Servers : p # c => board'[p] = board[p]
        /\ UNCHANGED <<acks, sport, number, replies>>
    BY <1>c, <1>2, <1>t DEF ApplyReplace, TypeOK, CoordType
  <2>2. coord[c].id \in Ids(board[c])
    BY <2>1 DEF Transit, Standing
  <2>3. UNCHANGED calls
    BY <1>2, <2>2 DEF ApplyReplace
  <2>4. Steps(c)'
    BY <2>1 DEF Steps
  <2>5. ASSUME NEW p \in Peers[c] PROVE InStep(p, c)'
    <3>1. After(p, c)
      BY <2>1 DEF Same, InStep
    <3>2. Before(p, c)'
      BY <1>c, <2>1, <3>1 DEF Before, Old, After, New
    <3> QED
      BY <2>1, <3>2 DEF InStep
  <2> QED
    BY <2>1, <2>3, <2>4, <2>5, OwnSame
<1> QED
  BY <1>1, <1>2

\* The record of a WRITE reaches the end of the file it was meant for.
LEMMA FlushSame ==
    ASSUME NEW c, Calm(c), TypeOK, TypeOK', Transit(c), Same(c), Flush(c)
    PROVE  Same(c)'
<1>c. c \in Servers /\ c \notin Peers[c] /\ Peers[c] \subseteq Servers
  BY DEF Calm
<1>1. /\ coord[c].pc = "flush" /\ coord'[c].pc = "idle" /\ coord'[c] = IdleCoord
      /\ \A p \in Servers : p # c => board'[p] = board[p]
      /\ UNCHANGED <<acks, sport, number, calls, replies>>
  BY <1>c DEF Flush, IdleCoord, net, TypeOK
<1>2. Steps(c)'
  BY <1>1 DEF Steps
<1>3. ASSUME NEW p \in Peers[c] PROVE board[p] = board'[c] /\ number[p] = number[c]
  <2>1. CASE coord[c].kind = "WRITE"
    <3>1. After(p, c)
      BY <1>1, <2>1 DEF Same, InStep
    <3>2. coord[c].pos = board[c]
      BY <1>1, <2>1 DEF Same, Steps
    <3>3. board'[c] = WriteAt(board[c], coord[c].pos, Line(coord[c].id, coord[c].req))
      BY <1>c, <2>1 DEF Flush, TypeOK
    <3>4. Len(board[c]) \in Nat
      BY <1>c, LinesTyped DEF TypeOK
    <3>5. board'[c] = Append(board[c], Line(coord[c].id, coord[c].req))
      BY <3>2, <3>3, <3>4 DEF WriteAt
    <3> QED
      BY <2>1, <3>1, <3>5 DEF After, New
  <2>2. CASE coord[c].kind # "WRITE"
    <3>1. Before(p, c)
      BY <1>1, <2>2 DEF Same, InStep
    <3>2. board' = board
      BY <2>2 DEF Flush
    <3> QED
      BY <2>2, <3>1, <3>2 DEF Before, Old
  <2> QED
    BY <2>1, <2>2
<1>4. ASSUME NEW p \in Peers[c] PROVE InStep(p, c)'
  <2>1. Before(p, c)'
    BY <1>c, <1>1, <1>3 DEF Before, Old
  <2> QED
    BY <1>1, <2>1 DEF InStep
<1> QED
  BY <1>1, <1>2, <1>4, OwnSame

\* A step that touches neither boards nor numbers nor c.
LEMMA KeepsSame ==
    ASSUME NEW c, Same(c), Smooth(c)',
           UNCHANGED <<board, number, coord>>,
           \A p \in Peers[c] : coord[c].pc = "commit" => (Unwritten(p)' <=> Unwritten(p))
    PROVE  Same(c)'
<1>1. Steps(c)'
  BY DEF Same, Steps
<1>2. ASSUME NEW p \in Peers[c] PROVE InStep(p, c)'
  <2>1. /\ Before(p, c)' <=> Before(p, c)
        /\ After(p, c)' <=> After(p, c)
    BY DEF Before, After, Old, New
  <2>2. InStep(p, c)
    BY DEF Same
  <2> QED
    BY <2>1, <2>2 DEF InStep
<1> QED
  BY <1>1, <1>2 DEF Same

LEMMA DeliverSame ==
    ASSUME NEW c, Calm(c), TypeOK, TypeOK', Transit(c), Same(c), NEW m \in calls, Deliver(m)
    PROVE  Same(c)'
<1>c. c \in Servers /\ Peers[c] \subseteq Servers
  BY DEF Calm
<1>m. m.to \in Servers /\ up[m.to] /\ Positive(m)
  <2>1. m.to \in Servers
    BY CallTypes DEF CallType, MessageType
  <2> QED
    BY <2>1 DEF Transit, Standing, Same, Smooth
<1>1. CASE Precommit(m)
  <2> DEFINE a == Reply(m, "ACK")
  <2>1. /\ replies' = replies \cup {a} /\ \A x \in calls' : x \in calls
        /\ UNCHANGED <<board, number, acks, sport, coord>>
    BY <1>1 DEF Precommit, Take, disk
  <2>2. Positive(a)
    BY ReplyIs DEF Positive
  <2> HIDE DEF a
  <2>3. Busy' = Busy /\ \A x \in Answers(c)' : x \in Answers(c) \/ x = a
    BY <2>1 DEF Busy, Answers
  <2>4. Smooth(c)'
    BY <2>1, <2>2, <2>3 DEF Same, Smooth, Positive
  <2>5. coord[c].pc # "commit"
    BY <1>1 DEF Precommit, Take, Transit, Mail, CallIn
  <2> QED
    BY <2>1, <2>4, <2>5, KeepsSame
<1>2. CASE BeginCommit(m)
  <2>1. m.type = "COMMIT" /\ coord[c].pc = "commit"
    BY <1>2 DEF BeginCommit, Take, Transit, Mail, CallIn
  <2>2. /\ calls' = calls \ {m}
        /\ UNCHANGED <<board, number, acks, replies, coord>>
        /\ sport'[m.to].pc = "begun" /\ sport'[m.to].num = number[m.to]
        /\ sport'[m.to].found
        /\ \A q \in Servers : q # m.to => sport'[q] = sport[q]
    BY <1>m, <1>2 DEF BeginCommit, Take, disk, TypeOK
  <2>3. \A q \in Busy' : q = m.to \/ (q \in Busy /\ sport'[q] = sport[q])
    BY <2>2 DEF Busy
  <2>4. Smooth(c)'
    BY <2>2, <2>3 DEF Same, Smooth, Positive, Answers
  <2>5. ASSUME NEW p \in Peers[c], p # m.to PROVE Unwritten(p)' <=> Unwritten(p)
    BY <1>c, <2>2, <2>5 DEF Unwritten, Asked
  <2>6. \A p \in Peers[c] : coord[c].pc = "commit" => (Unwritten(p)' <=> Unwritten(p))
    <3> TAKE p \in Peers[c]
    <3>1. PICK q : q = m.to
      OBVIOUS
    <3>2. Unwritten(q) /\ Unwritten(q)'
      BY <2>2, <3>1 DEF Unwritten, Asked
    <3>3. p # q => (Unwritten(p)' <=> Unwritten(p))
      BY <2>5, <3>1
    <3>4. p = q => (Unwritten(p)' <=> Unwritten(p))
      BY <3>2
    <3> QED
      BY <3>3, <3>4
  <2> QED
    BY <2>2, <2>4, <2>6, KeepsSame
<1> QED
  BY <1>m, <1>1, <1>2 DEF Deliver, Unsuccessful, Refused, Take, Positive

LEMMA ReceiveReplySame ==
    ASSUME NEW c, Calm(c), TypeOK, TypeOK', Transit(c), Same(c), NEW m \in replies,
           ReceiveReply(m)
    PROVE  Same(c)'
<1>c. c \in Servers /\ Peers[c] \subseteq Servers
  BY DEF Calm
<1>1. m \in Answers(c) /\ m.to = c /\ m.type # "UNSUCCESSFUL"
  <2>1. m \in Answers(c)
    BY DEF Answers
  <2> QED
    BY <2>1 DEF Transit, Mail, AnswerIn, Same, Smooth, Positive
<1>2. /\ replies' = replies \ {m} /\ acks'[c] = acks[c] \cup {m}
      /\ UNCHANGED <<board, number, coord, sport, calls>>
  BY <1>c, <1>1 DEF ReceiveReply, disk, TypeOK
<1>3. Answers(c)' = Answers(c) /\ Busy' = Busy
  BY <1>2 DEF Answers, Busy
<1>4. Smooth(c)'
  BY <1>2, <1>3 DEF Same, Smooth, Positive
<1>5. \A p \in Peers[c] : Unwritten(p)' <=> Unwritten(p)
  BY <1>2 DEF Unwritten, Asked
<1> QED
  BY <1>2, <1>4, <1>5, KeepsSame

LEMMA FinishCommitSame ==
    ASSUME NEW c, Calm(c), TypeOK, TypeOK', Transit(c), Same(c), NEW p \in Servers,
           FinishCommit(p)
    PROVE  Same(c)'
<1>c. c \in Servers /\ Peers[c] \subseteq Servers
  BY DEF Calm
<1>1. p \in Busy /\ sport[p].pc = "applied" /\ sport[p].found
  BY DEF FinishCommit, Busy, Same, Smooth
<1>2. /\ sport'[p].pc = "idle" /\ \A q \in Servers : q # p => sport'[q] = sport[q]
      /\ UNCHANGED <<board, number, acks, coord, calls>>
  BY DEF FinishCommit, IdleSport, disk, TypeOK
<1>3. \A x \in replies' : x \in replies \/ Positive(x)
  BY <1>1 DEF FinishCommit, Positive
<1>4. \A q \in Busy' : q \in Busy /\ sport'[q] = sport[q]
  BY <1>2 DEF Busy
<1>5. Smooth(c)'
  <2>1. \A x \in Answers(c)' : x \in Answers(c) \/ Positive(x)
    BY <1>2, <1>3 DEF Answers
  <2>2. \A q \in Busy' : sport'[q].found
    BY <1>4 DEF Same, Smooth
  <2>3. \A q \in Busy' : sport'[q].pc = "begun" => sport'[q].num = number'[q]
    BY <1>2, <1>4 DEF Same, Smooth
  <2> QED
    BY <1>2, <2>1, <2>2, <2>3 DEF Same, Smooth, Positive
<1>6. \A q \in Peers[c] : Unwritten(q)' <=> Unwritten(q)
  BY <1>c, <1>1, <1>2 DEF Unwritten, Asked
<1> QED
  BY <1>2, <1>5, <1>6, KeepsSame

\* A peer writes what c will write, under the number c has drawn.
LEMMA WritesSame ==
    ASSUME NEW c, Calm(c), TypeOK, TypeOK', Transit(c), Same(c), NEW p \in Peers[c],
           sport[p].pc = "begun",
           sport'[p].pc = "applied", sport'[p].found,
           board'[p] = New(c), number'[p] = number[c],
           \A q \in Servers : q # p =>
              sport'[q] = sport[q] /\ board'[q] = board[q] /\ number'[q] = number[q],
           UNCHANGED <<acks, coord, calls, replies>>
    PROVE  Same(c)'
<1>c. c \in Servers /\ c \notin Peers[c] /\ Peers[c] \subseteq Servers
  BY DEF Calm
<1>1. p \in Busy /\ coord[c].pc = "commit" /\ board'[c] = board[c] /\ number'[c] = number[c]
  BY <1>c DEF Busy, Transit, Mail, WorkIn
<1>2. Smooth(c)'
  <2>1. \A q \in Busy' : q = p \/ (q \in Busy /\ q \in Servers /\ q # p)
    BY DEF Busy
  <2>2. Answers(c)' = Answers(c)
    BY DEF Answers
  <2>3. \A q \in Busy' : sport'[q].found
    BY <2>1 DEF Same, Smooth
  <2>4. \A q \in Busy' : sport'[q].pc = "begun" => sport'[q].num = number'[q]
    BY <2>1 DEF Same, Smooth
  <2> QED
    BY <2>2, <2>3, <2>4 DEF Same, Smooth, Positive
<1>3. Steps(c)'
  BY <1>1 DEF Same, Steps
<1>4. ASSUME NEW q \in Peers[c] PROVE InStep(q, c)'
  <2>1. CASE q = p
    <3>1. Collecting(c)
      BY <1>1 DEF Collecting
    <3>2. OnePlace(p, c)
      BY <3>1 DEF Transit, Turn
    <3>3. ~Unwritten(p)'
      BY <1>1, <3>2 DEF OnePlace, Unwritten, Asked
    <3>4. After(p, c)'
      BY <1>1 DEF After, New
    <3>5. InStep(p, c)'
      BY <1>1, <3>3, <3>4 DEF InStep
    <3> QED
      BY <2>1, <3>5
  <2>2. CASE q # p
    <3>1. Unwritten(q)' <=> Unwritten(q)
      BY <1>c, <2>2 DEF Unwritten, Asked
    <3>2. /\ Before(q, c)' <=> Before(q, c)
          /\ After(q, c)' <=> After(q, c)
      BY <1>c, <1>1, <2>2 DEF Before, After, Old, New
    <3> QED
      BY <1>1, <3>1, <3>2 DEF InStep, Same
  <2> QED
    BY <2>1, <2>2
<1> QED
  BY <1>2, <1>3, <1>4 DEF Same

LEMMA LocalWriteSame ==
    ASSUME NEW c, Calm(c), TypeOK, TypeOK', Transit(c), Same(c), NEW p \in Servers,
           LocalWrite(p)
    PROVE  Same(c)'
<1>1. p \in Busy /\ p \in Peers[c] /\ coord[c].pc = "commit" /\ Current(sport[p], c)
  BY DEF LocalWrite, Busy, Transit, Mail, WorkIn
<1>2. coord[c].kind = "WRITE" /\ sport[p].pc = "begun" /\ sport[p].num = number[p]
  BY <1>1 DEF LocalWrite, Current, Same, Smooth
<1>3. board[p] = board[c] /\ number[p] = coord[c].id /\ number[c] = coord[c].id + 1
  <2>1. Unwritten(p)
    BY <1>2 DEF Unwritten
  <2>2. Before(p, c) /\ Steps(c)
    BY <1>1, <2>1 DEF Same, InStep
  <2> QED
    BY <1>1, <1>2, <2>2 DEF Before, Old, Steps
<1>4. sport[p].req = coord[c].req
  BY <1>1 DEF Current, Transit, Standing
<1>5. /\ sport'[p].pc = "applied" /\ sport'[p].found = sport[p].found
      /\ \A q \in Servers : q # p => sport'[q] = sport[q]
  BY DEF LocalWrite, TypeOK, SportType
<1>6. /\ board'[p] = Append(board[p], Line(sport[p].num, sport[p].req))
      /\ number'[p] = sport[p].num + 1
      /\ \A q \in Servers : q # p => board'[q] = board[q] /\ number'[q] = number[q]
      /\ UNCHANGED <<acks, coord, calls, replies>>
  BY DEF LocalWrite, TypeOK, net
<1>7. sport'[p].found
  BY <1>1, <1>5 DEF Same, Smooth
<1>8. board'[p] = New(c) /\ number'[p] = number[c]
  BY <1>2, <1>3, <1>4, <1>6 DEF New
<1> QED
  BY <1>1, <1>2, <1>5, <1>6, <1>7, <1>8, WritesSame

\* A LOCAL REPLACE finds the message, since c has it.
LEMMA LocalReplaceFinds ==
    ASSUME NEW c, Calm(c), TypeOK, Transit(c), Same(c), NEW p \in Servers, LocalReplace(p)
    PROVE  /\ p \in Peers[c] /\ coord[c].pc = "commit" /\ Current(sport[p], c)
           /\ coord[c].kind = "REPLACE"
           /\ board[p] = board[c] /\ number[p] = number[c]
           /\ sport[p].id \in Ids(board[p])
<1>1. p \in Busy /\ p \in Peers[c] /\ coord[c].pc = "commit" /\ Current(sport[p], c)
  BY DEF LocalReplace, Busy, Transit, Mail, WorkIn
<1>2. coord[c].kind = "REPLACE"
  BY <1>1 DEF LocalReplace, Current
<1>3. coord[c].id \in Ids(board[c])
  BY <1>1, <1>2 DEF Transit, Standing
<1>4. Unwritten(p)
  BY DEF LocalReplace, Unwritten
<1>5. Before(p, c)
  BY <1>1, <1>4 DEF Same, InStep
<1>6. board[p] = board[c] /\ number[p] = number[c]
  BY <1>2, <1>5 DEF Before, Old
<1>7. sport[p].id = coord[c].id
  BY <1>1 DEF Current
<1> QED
  BY <1>1, <1>2, <1>3, <1>6, <1>7

LEMMA LocalReplaceSame ==
    ASSUME NEW c, Calm(c), TypeOK, TypeOK', Transit(c), Same(c), NEW p \in Servers,
           LocalReplace(p)
    PROVE  ~Dies(p) /\ Same(c)'
<1>1. /\ p \in Peers[c] /\ coord[c].pc = "commit" /\ Current(sport[p], c)
      /\ coord[c].kind = "REPLACE"
      /\ board[p] = board[c] /\ number[p] = number[c]
      /\ sport[p].id \in Ids(board[p])
  BY LocalReplaceFinds
<1>2. sport[p].req = coord[c].req /\ sport[p].id = coord[c].id
  BY <1>1 DEF Current, Transit, Standing
<1>3. /\ sport' = [sport EXCEPT ![p].pc = "applied",
                                ![p].found = sport[p].id \in Ids(board[p])]
      /\ UNCHANGED <<up, acks, coord, calls, replies>>
  BY <1>1 DEF LocalReplace, net
<1>4. /\ sport'[p].pc = "applied" /\ sport'[p].found
      /\ \A q \in Servers : q # p => sport'[q] = sport[q]
  <2>1. PICK f : f = (sport[p].id \in Ids(board[p]))
    OBVIOUS
  <2>2. f
    BY <1>1, <2>1
  <2>3. sport' = [sport EXCEPT ![p].pc = "applied", ![p].found = f]
    BY <1>3, <2>1, Zenon
  <2>4. /\ sport'[p].pc = "applied" /\ sport'[p].found = f
        /\ \A q \in Servers : q # p => sport'[q] = sport[q]
    BY <2>3 DEF TypeOK, SportType
  <2> QED
    BY <2>2, <2>4
<1>5. /\ board'[p] = ReplaceRecord(board[p], sport[p].id, sport[p].req)
      /\ \A q \in Servers : q # p => board'[q] = board[q]
      /\ UNCHANGED number /\ sport[p].pc = "begun"
  BY DEF LocalReplace, TypeOK
<1>6. board'[p] = New(c) /\ number'[p] = number[c]
  BY <1>1, <1>2, <1>5 DEF New
<1>7. ~Dies(p)
  <2>1. up[p]
    BY DEF Transit, Standing
  <2> QED
    BY <1>3, <2>1 DEF Dies, TypeOK
<1>8. Same(c)'
  BY <1>1, <1>3, <1>4, <1>5, <1>6, WritesSame
<1> QED
  BY <1>7, <1>8

-----------------------------------------------------------------------------
(* Convergence. *)

\* The invariant: as long as there was no fault, c's messages and answers are
\* where they belong and the boards are in step.
Agreeing(c) == faults = 0 => Transit(c) /\ Same(c)

LEMMA AgreeingInit ==
    ASSUME NEW c, Calm(c), Init
    PROVE  Agreeing(c)
<1>c. c \in Servers /\ Peers[c] \subseteq Servers
  BY DEF Calm
<1>1. /\ coord[c].pc = "idle" /\ acks[c] = {} /\ calls = {} /\ replies = {}
      /\ \A s \in Servers : /\ sport[s].pc = "idle" /\ board[s] = <<>>
                            /\ number[s] = 0
  BY <1>c DEF Init, IdleCoord, IdleSport
<1>2. Smooth(c) /\ Steps(c)
  BY <1>1 DEF Smooth, Steps, Answers, Busy
<1>3. \A p \in Peers[c] : InStep(p, c)
  BY <1>c, <1>1 DEF InStep, Before, Old
<1> QED
  BY <1>2, <1>3, TransitInit DEF Agreeing, Same

LEMMA SameStays ==
    ASSUME NEW c, Same(c), UNCHANGED vars
    PROVE  Same(c)'
<1>1. UNCHANGED <<board, number, acks, coord, sport, calls, replies>>
  BY DEF vars, disk, net
<1>2. Answers(c)' = Answers(c) /\ Busy' = Busy
  BY <1>1 DEF Answers, Busy
<1>3. Smooth(c)'
  BY <1>1, <1>2 DEF Same, Smooth, Positive
<1>4. \A p \in Peers[c] : Unwritten(p)' <=> Unwritten(p)
  BY <1>1 DEF Unwritten, Asked
<1> QED
  BY <1>1, <1>3, <1>4, KeepsSame

LEMMA AgreeingStep ==
    ASSUME NEW c, Calm(c), TypeOK, TypeOK', Agreeing(c), [Next]_vars
    PROVE  Agreeing(c)'
<1> SUFFICES ASSUME faults' = 0 PROVE Transit(c)' /\ Same(c)'
  BY DEF Agreeing
<1>c. c \in Servers /\ Coordinators = {c}
  BY DEF Calm
<1>0. \A kind : ~Fault(kind)
  BY DEF Fault, TypeOK
<1>1. CASE UNCHANGED vars
  <2>1. faults = 0
    BY <1>1 DEF vars
  <2> QED
    BY <1>1, <2>1, TransitStays, SameStays DEF Agreeing
<1>2. CASE Next
  <2>1. faults = 0
    <3>1. CASE FaultStep
      BY <1>0, <3>1 DEF FaultStep, StorageFault, LocalStorageFault, Crash, Restart, Lose
    <3>2. CASE \E d \in Coordinators : Request(d) \/ CoordinatorStep(d)
      BY <3>2 DEF Request, WriteRequest, ReplaceRequest, MalformedRequest,
                  CoordinatorStep, StoreNumber, Precommitted, Committed, Abort,
                  ApplyWrite, ApplyReplace, Flush
    <3>3. CASE \E p \in Servers : LocalStep(p)
      BY <3>3 DEF LocalStep, LocalWrite, LocalReplace, FinishCommit
    <3>4. CASE \E m \in calls : Deliver(m)
      BY <3>4 DEF Deliver, Precommit, BeginCommit, Unsuccessful, Refused
    <3>5. CASE \E m \in replies : ReceiveReply(m)
      BY <3>5 DEF ReceiveReply
    <3> QED
      BY <1>2, <3>1, <3>2, <3>3, <3>4, <3>5 DEF Next
  <2>2. Transit(c) /\ Same(c)
    BY <2>1 DEF Agreeing
  <2>3. /\ \A p \in Servers : LocalReplace(p) => ~Dies(p)
        /\ \A p \in Servers : LocalStorageFault(p) => Peers[p] = {}
    BY <1>0, <2>2, LocalReplaceSame DEF LocalStorageFault
  <2>4. Transit(c)'
    BY <1>2, <2>2, <2>3, TransitStep
  <2>5. CASE Request(c) \/ CoordinatorStep(c)
    <3>1. ~Abort(c)
      <4>1. Smooth(c)
        BY <2>2 DEF Same
      <4> QED
        BY <2>2, <4>1, NoneSpoiled
    <3>2. CASE Request(c) \/ StoreNumber(c)
      BY <2>2, <2>4, <3>2, RequestSame
    <3>3. CASE Precommitted(c) \/ Committed(c)
      BY <2>2, <2>4, <3>3, PrecommittedSame, CommittedSame
    <3>4. CASE ApplyWrite(c) \/ ApplyReplace(c)
      BY <2>2, <2>4, <3>4, ApplySame
    <3>5. CASE Flush(c)
      BY <2>2, <2>4, <3>5, FlushSame
    <3> QED
      BY <2>5, <3>1, <3>2, <3>3, <3>4, <3>5 DEF CoordinatorStep
  <2>6. ASSUME NEW p \in Servers, LocalStep(p) PROVE Same(c)'
    BY <2>2, <2>6, LocalWriteSame, LocalReplaceSame, FinishCommitSame DEF LocalStep
  <2>7. ASSUME NEW m \in calls, Deliver(m) PROVE Same(c)'
    BY <2>2, <2>7, DeliverSame
  <2>8. ASSUME NEW m \in replies, ReceiveReply(m) PROVE Same(c)'
    BY <2>2, <2>8, ReceiveReplySame
  <2>9. ~FaultStep
    <3>1. \A s \in Servers : ~Restart(s)
      BY <2>2 DEF Restart, Transit, Standing
    <3> QED
      BY <1>0, <3>1 DEF FaultStep, StorageFault, LocalStorageFault, Crash, Lose
  <2> QED
    BY <1>2, <1>c, <2>4, <2>5, <2>6, <2>7, <2>8, <2>9 DEF Next
<1> QED
  BY <1>1, <1>2

LEMMA AgreeingQuiet ==
    ASSUME NEW c, Calm(c), Agreeing(c)
    PROVE  Convergence
<1> SUFFICES ASSUME Quiet, faults = 0, NEW s \in Servers, NEW t \in Servers
             PROVE  board[s] = board[t] /\ number[s] = number[t]
  BY DEF Convergence
<1>1. c \in Servers /\ coord[c].pc = "idle"
  BY DEF Calm, Quiet
<1>2. \A p \in Peers[c] : board[p] = board[c] /\ number[p] = number[c]
  BY <1>1 DEF Agreeing, Same, InStep, Before, Old
<1>3. \A p \in Servers : board[p] = board[c] /\ number[p] = number[c]
  BY <1>2 DEF Calm
<1> QED
  BY <1>3

\* For any number of peers and requests, WRITE and REPLACE in any order: as
\* long as no file failed, nothing was lost and no process ended, the boards
\* and the next numbers of all servers are the same whenever nothing goes on.
THEOREM Converges ==
    ASSUME NEW c, Calm(c)
    PROVE  Spec => []Convergence
<1>1. Init => Agreeing(c)
  BY AgreeingInit
<1>2. TypeOK /\ TypeOK' /\ Agreeing(c) /\ [Next]_vars => Agreeing(c)'
  BY AgreeingStep
<1>3. Agreeing(c) => Convergence
  BY AgreeingQuiet
<1> QED
  BY <1>1, <1>2, <1>3, TypeCorrect, PTL DEF Spec

-----------------------------------------------------------------------------
(* With storage faults, at peers without peers of their own: what a failed *)
(* request has left on a board is undone.                                  *)

\* Files may fail to open; a participant that has nobody to tell survives.
OnlyStorage(c) == Faults \subseteq {"disk"} /\ \A p \in Peers[c] : Peers[p] = {}

Failed == {r \in 1..MaxRequests : outcome[r] = "error"}

\* A board without the lines of failed requests, and without the current one.
Clean(b)   == Texts(b) \cap Failed = {}
Without(b) == requests \notin Texts(b)

\* What an undo at p would leave.
Undone(p) ==
    IF undo[p].kind = "WRITE" THEN Truncate(board[p], undo[p].pos)
    ELSE IF undo[p].kind = "REPLACE" THEN backup[p] ELSE board[p]

Warned(p) == \E m \in calls : m.type = "UNSUCCESSFUL" /\ m.to = p

Bounded(c) ==
    /\ Failed \subseteq 0..requests
    /\ coord[c].pc # "idle" => requests >= 1 /\ requests \notin Failed
    /\ \A s \in Servers : Texts(board[s]) \subseteq 0..requests
    /\ \A s \in Servers : Texts(backup[s]) \subseteq 0..requests

Own(c) ==
    /\ Clean(board[c])
    /\ coord[c].pc \in {"number", "precommit", "commit"} => Without(board[c])

Kept(p, c) ==
    /\ Clean(backup[p])
    /\ coord[c].pc # "idle" => Without(backup[p])

\* While a request is open no board has a line of a failed one.  Until it is
\* answered, the current one is not on p's board, or the undo removes it.
Undoable(p, c) ==
    /\ coord[c].pc # "idle" => Clean(board[p])
    /\ coord[c].pc = "idle" => Clean(board[p]) \/ (Clean(Undone(p)) /\ Warned(p))
    /\ coord[c].pc \in {"number", "precommit"} => Without(board[p])
    /\ coord[c].pc = "commit" =>
          IF Unwritten(p) THEN Without(board[p])
          ELSE IF sport[p].pc = "applied"
               THEN sport[p].kind = "WRITE" => Without(Truncate(board[p], sport[p].pos))
               ELSE Without(Undone(p))

Vanishing(c) ==
    /\ Bounded(c)
    /\ Own(c)
    /\ \A p \in Peers[c] : Kept(p, c) /\ Undoable(p, c)

\* The texts of the boards that the steps make.
LEMMA ChangedTexts ==
    ASSUME NEW b \in Seq(LineType)
    PROVE  /\ \A line \in LineType : Texts(Append(b, line)) = Texts(b) \cup {line.text}
           /\ \A pos \in Seq(LineType) :
                 Texts(Truncate(b, pos)) \subseteq Texts(b) \cup {0}
           /\ \A id, r \in Nat : Texts(ReplaceRecord(b, id, r)) \subseteq Texts(b) \cup {r}
           /\ \A pos \in Seq(LineType), line \in LineType :
                 Texts(WriteAt(b, pos, line)) \subseteq Texts(b) \cup {line.text, 0}
<1>0. Len(b) \in Nat /\ DOMAIN b = 1..Len(b) /\ Debris \in LineType /\ Debris.text = 0
  BY LinesTyped DEF Debris, LineType
<1>1. ASSUME NEW line \in LineType
      PROVE  Texts(Append(b, line)) = Texts(b) \cup {line.text}
  <2>1. /\ DOMAIN Append(b, line) = 1..(Len(b) + 1)
        /\ Append(b, line)[Len(b) + 1] = line
        /\ \A i \in 1..Len(b) : Append(b, line)[i] = b[i]
    BY <1>0, AppendProperties, LenProperties
  <2>2. PICK a : a = Append(b, line)
    OBVIOUS
  <2>3. Texts(a) = Texts(b) \cup {line.text}
    BY <1>0, <2>1, <2>2 DEF Texts
  <2> QED
    BY <2>2, <2>3
<1>2. ASSUME NEW pos \in Seq(LineType)
      PROVE  Texts(Truncate(b, pos)) \subseteq Texts(b) \cup {0}
  <2>1. CASE Stands(b, pos)
    <3>1. Truncate(b, pos) = pos
      BY <2>1 DEF Truncate
    <3>2. \A i \in 1..Len(pos) : i \in 1..Len(b) /\ pos[i] = b[i]
      BY <2>1, StandingLines
    <3>3. DOMAIN pos = 1..Len(pos)
      BY LinesTyped
    <3>4. Texts(pos) \subseteq Texts(b)
      BY <1>0, <3>2, <3>3 DEF Texts
    <3> QED
      BY <3>1, <3>4
  <2>2. CASE ~Stands(b, pos)
    <3>1. Truncate(b, pos) = <<Debris>>
      BY <2>2 DEF Truncate
    <3>2. Texts(<<Debris>>) = {0}
      BY <1>0 DEF Texts
    <3> QED
      BY <3>1, <3>2
  <2> QED
    BY <2>1, <2>2
<1>3. ASSUME NEW id \in Nat, NEW r \in Nat
      PROVE  Texts(ReplaceRecord(b, id, r)) \subseteq Texts(b) \cup {r}
  BY <1>0 DEF Texts, ReplaceRecord, Line
<1>4. ASSUME NEW pos \in Seq(LineType), NEW line \in LineType
      PROVE  Texts(WriteAt(b, pos, line)) \subseteq Texts(b) \cup {line.text, 0}
  <2>1. WriteAt(b, pos, line) \in Seq(LineType)
    BY WriteAtType
  <2>2. PICK a : a = WriteAt(b, pos, line)
    OBVIOUS
  <2>3. DOMAIN a = 1..Len(a)
    BY <2>1, <2>2, LinesTyped
  <2>4. \A i \in 1..Len(a) : a[i] = line \/ a[i] = Debris \/ (i \in 1..Len(b) /\ a[i] = b[i])
    BY <2>2, WrittenLines
  <2>5. Texts(a) \subseteq Texts(b) \cup {line.text, 0}
    BY <1>0, <2>3, <2>4 DEF Texts
  <2> QED
    BY <2>2, <2>5
<1> QED
  BY <1>1, <1>2, <1>3, <1>4

LEMMA UndoneTexts ==
    ASSUME TypeOK, NEW p \in Servers
    PROVE  Texts(Undone(p)) \subseteq Texts(board[p]) \cup Texts(backup[p]) \cup {0}
<1>1. board[p] \in Seq(LineType) /\ undo[p].pos \in Seq(LineType)
  BY DEF TypeOK
<1>2. Texts(Truncate(board[p], undo[p].pos)) \subseteq Texts(board[p]) \cup {0}
  BY <1>1, ChangedTexts
<1>3. CASE undo[p].kind = "WRITE"
  BY <1>2, <1>3 DEF Undone
<1>4. CASE undo[p].kind # "WRITE"
  <2>1. Undone(p) = backup[p] \/ Undone(p) = board[p]
    BY <1>4 DEF Undone
  <2> QED
    BY <2>1
<1> QED
  BY <1>3, <1>4

\* A new request is on no board, and nothing is left to be undone.
LEMMA RequestVanishing ==
    ASSUME NEW c, Calm(c), TypeOK, TypeOK', Transit(c), Vanishing(c), Request(c)
    PROVE  Vanishing(c)'
<1>c. c \in Servers /\ Peers[c] \subseteq Servers /\ Patient
  BY DEF Calm
<1>k. "MALFORMED" \notin Kinds
  BY DEF Calm
<1>1. /\ coord[c].pc = "idle" /\ calls = {} /\ requests' = requests + 1
      /\ coord'[c].pc \in {"number", "precommit"}
      /\ UNCHANGED <<board, backup, outcome>>
  <2>1. CASE WriteRequest(c)
    BY <1>c, <2>1 DEF WriteRequest, Accept, disk, TypeOK
  <2>2. ASSUME NEW id \in 0..MaxRequests, ReplaceRequest(c, id)
        PROVE  /\ coord[c].pc = "idle" /\ calls = {} /\ requests' = requests + 1
               /\ coord'[c].pc \in {"number", "precommit"}
               /\ UNCHANGED <<board, backup, outcome>>
    BY <1>c, <2>2 DEF ReplaceRequest, Accept, disk, TypeOK
  <2> QED
    BY <1>k, <2>1, <2>2 DEF Request, MalformedRequest
<1>2. requests \in Nat /\ Failed' = Failed
  BY <1>1 DEF TypeOK, Failed
<1>3. /\ Failed \subseteq 0..requests
      /\ \A s \in Servers : Texts(board[s]) \subseteq 0..requests
      /\ \A s \in Servers : Texts(backup[s]) \subseteq 0..requests
  BY DEF Vanishing, Bounded
<1>4. requests + 1 \notin 0..requests /\ 0..requests \subseteq 0..(requests + 1)
  BY <1>2
<1>5. Bounded(c)'
  BY <1>1, <1>2, <1>3, <1>4 DEF Bounded
<1>6. Own(c)'
  BY <1>c, <1>1, <1>2, <1>3, <1>4 DEF Vanishing, Own, Clean, Without
<1>7. ASSUME NEW p \in Peers[c] PROVE Kept(p, c)' /\ Undoable(p, c)'
  <2>1. Clean(board[p]) /\ Clean(backup[p])
    BY <1>1 DEF Vanishing, Undoable, Warned, Kept
  <2>2. Clean(board[p])' /\ Clean(backup[p])'
    BY <1>1, <1>2, <2>1 DEF Clean
  <2>3. Without(board[p])' /\ Without(backup[p])'
    BY <1>c, <1>1, <1>3, <1>4 DEF Without
  <2> QED
    BY <1>1, <2>2, <2>3 DEF Kept, Undoable
<1> QED
  BY <1>5, <1>6, <1>7 DEF Vanishing

\* c goes on with a request.
LEMMA AdvanceVanishing ==
    ASSUME NEW c, Calm(c), TypeOK, TypeOK', Vanishing(c),
           coord[c].pc # "idle", coord'[c].pc # "idle",
           coord'[c].pc # "number",
           coord'[c].pc = "precommit" => coord[c].pc = "number",
           coord'[c].pc = "commit" =>
              coord[c].pc = "precommit" /\ \A p \in Peers[c] : Unwritten(p)',
           Failed' \subseteq Failed,
           UNCHANGED <<board, backup, requests>>
    PROVE  Vanishing(c)'
<1>1. \A b : (Clean(b) => Texts(b) \cap Failed' = {}) /\ (Without(b) <=> requests' \notin Texts(b))
  BY DEF Clean, Without
<1>2. Bounded(c)'
  BY DEF Vanishing, Bounded
<1>3. Own(c)'
  BY <1>1 DEF Vanishing, Own, Clean, Without
<1>4. ASSUME NEW p \in Peers[c] PROVE Kept(p, c)' /\ Undoable(p, c)'
  <2>1. Clean(board[p]) /\ Clean(backup[p]) /\ Without(backup[p])
    BY DEF Vanishing, Undoable, Kept
  <2>2. Clean(board[p])' /\ Clean(backup[p])' /\ Without(backup[p])'
    BY <1>1, <2>1 DEF Clean, Without
  <2>3. coord[c].pc \in {"number", "precommit"} => Without(board[p])'
    BY <1>1 DEF Vanishing, Undoable, Without
  <2> QED
    BY <2>2, <2>3 DEF Kept, Undoable
<1> QED
  BY <1>2, <1>3, <1>4 DEF Vanishing

LEMMA PhasesVanishing ==
    ASSUME NEW c, Calm(c), TypeOK, TypeOK', Transit(c), Vanishing(c),
           StoreNumber(c) \/ Precommitted(c) \/ Committed(c) \/ ApplyWrite(c)
    PROVE  Vanishing(c)'
<1>c. c \in Servers
  BY DEF Calm
<1>1. CASE StoreNumber(c)
  <2>1. /\ coord[c].pc = "number" /\ coord'[c].pc = "precommit"
        /\ UNCHANGED <<board, backup, requests, outcome>>
    BY <1>c, <1>1, CoordMoves DEF StoreNumber, TypeOK
  <2>2. Failed' \subseteq Failed
    BY <2>1 DEF Failed
  <2> QED
    BY <2>1, <2>2, AdvanceVanishing
<1>2. CASE Precommitted(c)
  <2>1. /\ coord[c].pc = "precommit" /\ coord'[c].pc = "commit"
        /\ UNCHANGED <<board, backup, requests, outcome>>
    BY <1>c, <1>2, CoordMoves DEF Precommitted, disk, TypeOK
  <2>2. Failed' \subseteq Failed
    BY <2>1 DEF Failed
  <2>3. ASSUME NEW p \in Peers[c] PROVE Unwritten(p)'
    <3>1. PICK r, k, i : calls' = calls \cup Broadcast("COMMIT", c, r, k, i)
      BY <1>2 DEF Precommitted
    <3>2. PICK m : m = [type |-> "COMMIT", req |-> r, kind |-> k, id |-> i,
                        from |-> c, to |-> p]
      OBVIOUS
    <3>3. m \in calls' /\ m.to = p
      BY <3>1, <3>2 DEF Broadcast
    <3> QED
      BY <3>3 DEF Unwritten, Asked
  <2> QED
    BY <2>1, <2>2, <2>3, AdvanceVanishing
<1>3. CASE Committed(c)
  <2>1. /\ coord[c].pc = "commit" /\ coord'[c].pc = "apply"
        /\ UNCHANGED <<board, backup, requests, outcome>>
    BY <1>c, <1>3, CoordMoves DEF Committed, disk, TypeOK
  <2>2. Failed' \subseteq Failed
    BY <2>1 DEF Failed
  <2> QED
    BY <2>1, <2>2, AdvanceVanishing
<1>4. CASE ApplyWrite(c)
  <2>t. coord[c] \in CoordType
    BY <1>c DEF TypeOK
  <2>1. /\ coord[c].pc = "apply" /\ coord'[c].pc = "flush"
        /\ outcome' = [outcome EXCEPT ![coord[c].req] = "wrote"]
        /\ UNCHANGED <<board, backup, requests>>
    BY <1>c, <1>4, <2>t DEF ApplyWrite, disk, TypeOK, CoordType
  <2>2. Failed' \subseteq Failed
    BY <2>1 DEF Failed, TypeOK
  <2> QED
    BY <2>1, <2>2, AdvanceVanishing
<1> QED
  BY <1>1, <1>2, <1>3, <1>4

\* The client is told ERROR: what the request has left at a peer is what the
\* undo removes that the UNSUCCESSFUL will cause.
LEMMA FailVanishing ==
    ASSUME NEW c, Calm(c), TypeOK, TypeOK', Transit(c), Vanishing(c), NEW id, Fail(c, id),
           coord[c].pc \in {"number", "precommit", "commit"},
           coord[c].pc = "commit" =>
              \A p \in Peers[c] : ~Unwritten(p) /\ sport[p].pc # "applied",
           UNCHANGED <<board, backup, undo, requests>>
    PROVE  Vanishing(c)'
<1>c. c \in Servers /\ Peers[c] \subseteq Servers
  BY DEF Calm
<1>1. /\ coord'[c].pc = "idle" /\ coord[c].req = requests
      /\ outcome' = [outcome EXCEPT ![requests] = "error"]
  BY <1>c DEF Fail, IdleCoord, TypeOK, Transit, Standing
<1>2. Failed' \subseteq Failed \cup {requests} /\ 0 \notin Failed'
  BY <1>1 DEF Failed, TypeOK
<1>3. \A b : Clean(b) /\ Without(b) => Texts(b) \cap Failed' = {}
  BY <1>2 DEF Clean, Without
<1>4. Bounded(c)'
  <2>1. requests \in 0..requests
    BY DEF TypeOK
  <2> QED
    BY <1>1, <1>2, <2>1 DEF Vanishing, Bounded
<1>5. Own(c)'
  BY <1>1, <1>3 DEF Vanishing, Own, Clean
<1>6. ASSUME NEW p \in Peers[c] PROVE Kept(p, c)' /\ Undoable(p, c)'
  <2>1. Clean(board[p]) /\ Clean(backup[p]) /\ Without(backup[p])
    BY DEF Vanishing, Undoable, Kept
  <2>2. Clean(backup[p])'
    BY <1>3, <2>1 DEF Clean
  <2>3. CASE coord[c].pc # "commit"
    <3>1. Without(board[p])
      BY <2>3 DEF Vanishing, Undoable
    <3>2. Clean(board[p])'
      BY <1>3, <2>1, <3>1 DEF Clean
    <3> QED
      BY <1>1, <2>2, <3>2 DEF Kept, Undoable
  <2>4. CASE coord[c].pc = "commit"
    <3>1. Without(Undone(p))
      BY <2>4 DEF Vanishing, Undoable
    <3>2. Texts(Undone(p)) \subseteq Texts(board[p]) \cup Texts(backup[p]) \cup {0}
      BY <1>c, UndoneTexts
    <3>3. Undone(p)' = Undone(p)
      BY DEF Undone
    <3>4. Clean(Undone(p))'
      <4>1. Texts(Undone(p)) \cap Failed' = {}
        BY <1>2, <2>1, <3>1, <3>2 DEF Clean, Without
      <4> QED
        BY <3>3, <4>1 DEF Clean
    <3>5. Warned(p)'
      <4>1. PICK r, k : calls' = calls \cup Broadcast("UNSUCCESSFUL", c, r, k, id)
        BY DEF Fail
      <4>2. PICK m : m = [type |-> "UNSUCCESSFUL", req |-> r, kind |-> k, id |-> id,
                          from |-> c, to |-> p]
        OBVIOUS
      <4>3. m \in calls' /\ m.to = p /\ m.type = "UNSUCCESSFUL"
        BY <4>1, <4>2 DEF Broadcast
      <4> QED
        BY <4>3 DEF Warned
    <3> QED
      BY <1>1, <2>2, <3>4, <3>5 DEF Kept, Undoable
  <2> QED
    BY <2>3, <2>4
<1> QED
  BY <1>4, <1>5, <1>6 DEF Vanishing

LEMMA FailingVanishing ==
    ASSUME NEW c, Calm(c), TypeOK, TypeOK', Transit(c), Vanishing(c),
           StorageFault(c) \/ Abort(c)
    PROVE  Vanishing(c)'
<1>1. CASE StorageFault(c)
  <2>1. coord[c].pc = "number" /\ UNCHANGED <<board, backup, undo, requests>>
    BY <1>1 DEF StorageFault
  <2>2. PICK id : Fail(c, id)
    BY <1>1 DEF StorageFault
  <2> QED
    BY <2>1, <2>2, FailVanishing
<1>2. CASE Abort(c)
  <2>1. /\ coord[c].pc \in {"precommit", "commit"} /\ Fail(c, coord[c].id)
        /\ UNCHANGED <<board, backup, undo, requests>>
    BY <1>2 DEF Abort, disk
  <2>2. coord[c].pc = "commit" => \A p \in Peers[c] : ~Asked(p)
    BY <1>2, AbortOnlyIf
  <2>3. Busy = {}
    BY <1>2, AbortOnlyIf
  <2>4. \A p \in Peers[c] : sport[p].pc = "idle"
    BY <2>3 DEF Busy, Calm
  <2>5. PICK id : Fail(c, id)
    BY <2>1
  <2> QED
    BY <2>1, <2>2, <2>4, <2>5, FailVanishing DEF Unwritten
<1> QED
  BY <1>1, <1>2

\* c writes to its own board; the request has not failed and will not.
LEMMA WritingVanishing ==
    ASSUME NEW c, Calm(c), TypeOK, TypeOK', Vanishing(c),
           coord[c].pc \in {"apply", "flush"}, coord'[c].pc \in {"idle", "flush"},
           Texts(board'[c]) \subseteq Texts(board[c]) \cup {0, requests},
           Texts(backup'[c]) \subseteq Texts(board[c]) \cup Texts(backup[c]),
           \A p \in Servers : p # c => board'[p] = board[p] /\ backup'[p] = backup[p],
           Failed' \subseteq Failed,
           UNCHANGED requests
    PROVE  Vanishing(c)'
<1>c. c \in Servers /\ c \notin Peers[c] /\ Peers[c] \subseteq Servers
  BY DEF Calm
<1>1. /\ Failed \subseteq 0..requests /\ requests \notin Failed /\ 0 \notin Failed
      /\ \A s \in Servers : Texts(board[s]) \subseteq 0..requests
      /\ \A s \in Servers : Texts(backup[s]) \subseteq 0..requests
      /\ 0 \in 0..requests /\ requests \in 0..requests
  BY DEF Vanishing, Bounded, Failed, TypeOK
<1>2. Bounded(c)'
  <2>1. /\ Texts(board'[c]) \subseteq 0..requests
        /\ Texts(backup'[c]) \subseteq 0..requests
    BY <1>c, <1>1
  <2>2. \A s \in Servers : Texts(board'[s]) \subseteq 0..requests
    BY <1>1, <2>1
  <2>3. \A s \in Servers : Texts(backup'[s]) \subseteq 0..requests
    BY <1>1, <2>1
  <2>4. requests >= 1
    BY DEF Vanishing, Bounded
  <2> QED
    BY <1>1, <2>2, <2>3, <2>4 DEF Bounded
<1>3. Own(c)'
  BY <1>1 DEF Vanishing, Own, Clean
<1>4. ASSUME NEW p \in Peers[c] PROVE Kept(p, c)' /\ Undoable(p, c)'
  <2>1. Clean(board[p]) /\ Clean(backup[p]) /\ Without(backup[p])
    BY DEF Vanishing, Undoable, Kept
  <2>2. board'[p] = board[p] /\ backup'[p] = backup[p]
    BY <1>c
  <2>3. Clean(board[p])' /\ Clean(backup[p])' /\ Without(backup[p])'
    BY <2>1, <2>2 DEF Clean, Without
  <2> QED
    BY <2>3 DEF Kept, Undoable
<1> QED
  BY <1>2, <1>3, <1>4 DEF Vanishing

LEMMA ApplyReplaceVanishing ==
    ASSUME NEW c, Calm(c), TypeOK, TypeOK', Transit(c), Vanishing(c), ApplyReplace(c)
    PROVE  Vanishing(c)'
<1>c. c \in Servers
  BY DEF Calm
<1>t. coord[c] \in CoordType /\ coord[c].id \in Nat /\ coord[c].req \in Nat
      /\ board[c] \in Seq(LineType)
  BY <1>c DEF TypeOK, CoordType
<1>1. /\ coord[c].pc = "apply" /\ coord[c].kind = "REPLACE" /\ coord'[c].pc = "flush"
      /\ board'[c] = ReplaceRecord(board[c], coord[c].id, coord[c].req)
      /\ backup'[c] = board[c]
      /\ \A p \in Servers : p # c => board'[p] = board[p] /\ backup'[p] = backup[p]
      /\ UNCHANGED requests
  BY <1>c, <1>t DEF ApplyReplace, TypeOK, CoordType
<1>2. coord[c].req = requests
  BY <1>1 DEF Transit, Standing
<1>3. Texts(board'[c]) \subseteq Texts(board[c]) \cup {0, requests}
  BY <1>1, <1>2, <1>t, ChangedTexts
<1>4. Failed' \subseteq Failed
  <2>1. PICK told \in {"wrote", "unknown"} :
           outcome' = [outcome EXCEPT ![coord[c].req] = told]
    BY DEF ApplyReplace
  <2> QED
    BY <2>1 DEF Failed, TypeOK
<1> QED
  BY <1>1, <1>3, <1>4, WritingVanishing

LEMMA FlushVanishing ==
    ASSUME NEW c, Calm(c), TypeOK, TypeOK', Transit(c), Vanishing(c), Flush(c)
    PROVE  Vanishing(c)'
<1>c. c \in Servers
  BY DEF Calm
<1>t. /\ coord[c].id \in Nat /\ coord[c].req \in Nat /\ coord[c].pos \in Seq(LineType)
      /\ board[c] \in Seq(LineType)
  BY <1>c DEF TypeOK, CoordType
<1>1. /\ coord[c].pc = "flush" /\ coord'[c].pc = "idle"
      /\ \A p \in Servers : p # c => board'[p] = board[p]
      /\ UNCHANGED <<backup, requests, outcome>>
  BY <1>c DEF Flush, IdleCoord, TypeOK
<1>2. coord[c].req = requests
  BY <1>1 DEF Transit, Standing
<1>3. Texts(board'[c]) \subseteq Texts(board[c]) \cup {0, requests}
  <2>1. CASE coord[c].kind = "WRITE"
    <3>1. PICK line : line = Line(coord[c].id, coord[c].req)
      OBVIOUS
    <3>2. line \in LineType /\ line.text = requests
      BY <1>2, <1>t, <3>1 DEF Line, LineType
    <3>3. board'[c] = WriteAt(board[c], coord[c].pos, line)
      BY <1>c, <2>1, <3>1 DEF Flush, TypeOK
    <3>4. Texts(WriteAt(board[c], coord[c].pos, line)) \subseteq Texts(board[c]) \cup {line.text, 0}
      BY <1>t, <3>2, ChangedTexts
    <3> QED
      BY <3>2, <3>3, <3>4
  <2>2. CASE coord[c].kind # "WRITE"
    <3>1. board' = board
      BY <2>2 DEF Flush
    <3> QED
      BY <3>1
  <2> QED
    BY <2>1, <2>2
<1>4. Failed' \subseteq Failed
  BY <1>1 DEF Failed
<1> QED
  BY <1>1, <1>3, <1>4, WritingVanishing

\* One peer takes a step.
LEMMA PeerVanishing ==
    ASSUME NEW c, Calm(c), TypeOK, TypeOK', Vanishing(c), NEW p \in Peers[c],
           UNCHANGED <<coord, requests, outcome>>,
           \A q \in Servers : q # p => board'[q] = board[q] /\ backup'[q] = backup[q],
           \A q \in Peers[c] : q # p => undo'[q] = undo[q] /\ sport'[q] = sport[q],
           \A m \in calls' : m \in calls,
           \A m \in calls : m.to # p => m \in calls',
           Texts(board'[p]) \subseteq 0..requests, Texts(backup'[p]) \subseteq 0..requests,
           Kept(p, c)', Undoable(p, c)'
    PROVE  Vanishing(c)'
<1>c. c \in Servers /\ c \notin Peers[c] /\ Peers[c] \subseteq Servers
  BY DEF Calm
<1>1. Failed' = Failed
  BY DEF Failed
<1>2. Bounded(c)'
  <2>1. \A s \in Servers : Texts(board'[s]) \subseteq 0..requests
    BY DEF Vanishing, Bounded
  <2>2. \A s \in Servers : Texts(backup'[s]) \subseteq 0..requests
    BY DEF Vanishing, Bounded
  <2> QED
    BY <1>1, <2>1, <2>2 DEF Vanishing, Bounded
<1>3. Own(c)'
  BY <1>c, <1>1 DEF Vanishing, Own, Clean, Without
<1>4. ASSUME NEW q \in Peers[c], q # p PROVE Kept(q, c)' /\ Undoable(q, c)'
  <2>1. /\ board'[q] = board[q] /\ backup'[q] = backup[q]
        /\ undo'[q] = undo[q] /\ sport'[q] = sport[q]
    BY <1>c, <1>4
  <2>2. \A b : (Clean(b) <=> Texts(b) \cap Failed' = {}) /\ (Without(b) <=> requests' \notin Texts(b))
    BY <1>1 DEF Clean, Without
  <2>3. /\ Clean(board[q])' <=> Clean(board[q])
        /\ Clean(backup[q])' <=> Clean(backup[q])
        /\ Without(board[q])' <=> Without(board[q])
        /\ Without(backup[q])' <=> Without(backup[q])
    BY <2>1, <2>2 DEF Clean, Without
  <2>4. Undone(q)' = Undone(q)
    BY <2>1 DEF Undone
  <2>5. /\ Clean(Undone(q))' <=> Clean(Undone(q))
        /\ Without(Undone(q))' <=> Without(Undone(q))
    BY <2>2, <2>4 DEF Clean, Without
  <2>6. /\ Warned(q)' <=> Warned(q)
        /\ Unwritten(q)' <=> Unwritten(q)
    BY <1>4, <2>1 DEF Warned, Unwritten, Asked
  <2>7. Without(Truncate(board[q], sport[q].pos))' <=> Without(Truncate(board[q], sport[q].pos))
    BY <2>1, <2>2 DEF Without
  <2>8. Kept(q, c) /\ Undoable(q, c)
    BY DEF Vanishing
  <2>9. Kept(q, c)'
    BY <2>3, <2>8 DEF Kept
  <2>10. Undoable(q, c)'
    BY <2>1, <2>3, <2>5, <2>6, <2>7, <2>8 DEF Undoable
  <2> QED
    BY <2>9, <2>10
<1> QED
  BY <1>2, <1>3, <1>4 DEF Vanishing

\* The board, the backup and the undo of p stay as they are.
LEMMA IdleVanishing ==
    ASSUME NEW c, Calm(c), TypeOK, TypeOK', Vanishing(c), NEW p \in Peers[c],
           UNCHANGED <<coord, requests, outcome, board, backup>>,
           \A q \in Peers[c] : undo'[q] = undo[q] /\ (q # p => sport'[q] = sport[q]),
           \A m \in calls' : m \in calls,
           \A m \in calls : m.to # p => m \in calls',
           coord[c].pc = "idle" => \A m \in calls : m.type = "UNSUCCESSFUL" => m \in calls',
           coord[c].pc = "commit" =>
              IF Unwritten(p)' THEN Without(board[p])
              ELSE IF sport'[p].pc = "applied"
                   THEN sport'[p].kind = "WRITE" => Without(Truncate(board[p], sport'[p].pos))
                   ELSE Without(Undone(p))
    PROVE  Vanishing(c)'
<1>c. p \in Servers
  BY DEF Calm
<1>1. Failed' = Failed
  BY DEF Failed
<1>2. /\ Clean(board[p])' <=> Clean(board[p])
      /\ Clean(backup[p])' <=> Clean(backup[p])
      /\ Without(board[p])' <=> Without(board[p])
      /\ Without(backup[p])' <=> Without(backup[p])
  BY <1>1 DEF Clean, Without
<1>3. Undone(p)' = Undone(p)
  BY DEF Undone
<1>4. /\ Clean(Undone(p))' <=> Clean(Undone(p))
      /\ Without(Undone(p))' <=> Without(Undone(p))
  BY <1>1, <1>3 DEF Clean, Without
<1>5. Without(Truncate(board[p], sport[p].pos))' <=> Without(Truncate(board[p], sport'[p].pos))
  BY DEF Without
<1>6. coord[c].pc = "idle" /\ Warned(p) => Warned(p)'
  BY DEF Warned
<1>7. Kept(p, c) /\ Undoable(p, c)
  BY DEF Vanishing
<1>8. Kept(p, c)'
  BY <1>2, <1>7 DEF Kept
<1>9. Undoable(p, c)'
  BY <1>2, <1>4, <1>5, <1>6, <1>7 DEF Undoable
<1>10. Texts(board[p]) \subseteq 0..requests /\ Texts(backup[p]) \subseteq 0..requests
  BY <1>c DEF Vanishing, Bounded
<1> QED
  BY <1>8, <1>9, <1>10, PeerVanishing

LEMMA UnsuccessfulVanishing ==
    ASSUME NEW c, Calm(c), TypeOK, TypeOK', Transit(c), Vanishing(c),
           NEW m \in calls, Unsuccessful(m)
    PROVE  Vanishing(c)'
<1>c. Peers[c] \subseteq Servers
  BY DEF Calm
<1>1. m.to \in Peers[c] /\ coord[c].pc = "idle"
  BY DEF Unsuccessful, Take, Transit, Mail, CallIn
<1>p. PICK p \in Peers[c] : p = m.to
  BY <1>1
<1>2. p \in Servers
  BY <1>c
<1>3. /\ board'[p] = Undone(p)
      /\ backup'[p] = IF undo[p].kind = "REPLACE" THEN <<>> ELSE backup[p]
      /\ \A q \in Servers : q # p => /\ board'[q] = board[q] /\ backup'[q] = backup[q]
                                     /\ undo'[q] = undo[q]
      /\ calls' = calls \ {m}
      /\ UNCHANGED <<coord, sport, requests, outcome>>
  BY <1>2, <1>p DEF Unsuccessful, Take, Undo, Undone, TypeOK
<1>4. /\ Texts(board[p]) \subseteq 0..requests /\ Texts(backup[p]) \subseteq 0..requests
      /\ 0 \in 0..requests /\ 0 \notin Failed /\ Failed' = Failed
  BY <1>2, <1>3 DEF Vanishing, Bounded, TypeOK, Failed
<1>5. Texts(<<>>) = {}
  BY DEF Texts
<1>6. Texts(Undone(p)) \subseteq Texts(board[p]) \cup Texts(backup[p]) \cup {0}
  BY <1>2, UndoneTexts
<1>7. Clean(backup[p]) /\ (Clean(board[p]) \/ Clean(Undone(p)))
  BY <1>1 DEF Vanishing, Kept, Undoable
<1>8. Clean(Undone(p))
  BY <1>4, <1>6, <1>7 DEF Clean
<1>9. Clean(board[p])'
  BY <1>3, <1>4, <1>8 DEF Clean
<1>10. Texts(backup'[p]) \subseteq Texts(backup[p])
  BY <1>3, <1>5
<1>11. Clean(backup[p])'
  BY <1>4, <1>7, <1>10 DEF Clean
<1>12. Kept(p, c)' /\ Undoable(p, c)'
  BY <1>1, <1>3, <1>9, <1>11 DEF Kept, Undoable
<1>13. Texts(board'[p]) \subseteq 0..requests /\ Texts(backup'[p]) \subseteq 0..requests
  BY <1>3, <1>4, <1>6, <1>10
<1>14. /\ \A q \in Peers[c] : q # p => undo'[q] = undo[q] /\ sport'[q] = sport[q]
       /\ \A x \in calls' : x \in calls
       /\ \A x \in calls : x.to # p => x \in calls'
  BY <1>c, <1>3, <1>p
<1> QED
  BY <1>3, <1>12, <1>13, <1>14, PeerVanishing

LEMMA DeliverVanishing ==
    ASSUME NEW c, Calm(c), TypeOK, TypeOK', Transit(c), Vanishing(c),
           NEW m \in calls, Deliver(m)
    PROVE  Vanishing(c)'
<1>c. Peers[c] \subseteq Servers
  BY DEF Calm
<1>m. m.to \in Servers /\ up[m.to]
  <2>1. m.to \in Servers
    BY CallTypes DEF CallType, MessageType
  <2> QED
    BY <2>1 DEF Transit, Standing
<1>p. PICK p \in Peers[c] : p = m.to
  BY DEF Transit, Mail, CallIn
<1>1. CASE Precommit(m)
  <2>1. /\ m.type = "PRECOMMIT" /\ calls' = calls \ {m} /\ coord[c].pc # "commit"
        /\ UNCHANGED <<board, backup, undo, sport, coord, requests, outcome>>
    BY <1>1 DEF Precommit, Take, disk, Transit, Mail, CallIn
  <2>2. /\ \A x \in calls' : x \in calls
        /\ \A x \in calls : x.to # p => x \in calls'
        /\ \A x \in calls : x.type = "UNSUCCESSFUL" => x \in calls'
    BY <1>p, <2>1
  <2> QED
    BY <2>1, <2>2, IdleVanishing
<1>2. CASE BeginCommit(m)
  <2>1. /\ coord[c].pc = "commit" /\ calls' = calls \ {m}
        /\ sport'[p].pc = "begun"
        /\ \A q \in Servers : q # p => sport'[q] = sport[q]
        /\ UNCHANGED <<board, backup, undo, coord, requests, outcome>>
    BY <1>m, <1>p, <1>2 DEF BeginCommit, Take, disk, Transit, Mail, CallIn, TypeOK
  <2>2. Unwritten(p)
    BY <1>p DEF Unwritten, Asked
  <2>3. Unwritten(p)'
    BY <2>1 DEF Unwritten
  <2>4. Without(board[p])
    BY <2>1, <2>2 DEF Vanishing, Undoable
  <2>5. /\ \A x \in calls' : x \in calls
        /\ \A x \in calls : x.to # p => x \in calls'
        /\ \A q \in Peers[c] : undo'[q] = undo[q] /\ (q # p => sport'[q] = sport[q])
    BY <1>c, <1>p, <2>1
  <2> QED
    BY <2>1, <2>3, <2>4, <2>5, IdleVanishing
<1> QED
  BY <1>m, <1>1, <1>2, UnsuccessfulVanishing DEF Deliver, Refused

LEMMA ReceiveReplyVanishing ==
    ASSUME NEW c, Calm(c), TypeOK, TypeOK', Transit(c), Vanishing(c),
           NEW m \in replies, ReceiveReply(m)
    PROVE  Vanishing(c)'
<1>c. c \in Servers /\ c \notin Peers[c] /\ Peers[c] \subseteq Servers
  BY DEF Calm
<1>1. m.to = c /\ m.from \in Peers[c]
  <2>1. m \in Answers(c)
    BY DEF Answers
  <2> QED
    BY <2>1 DEF Transit, Mail, AnswerIn
<1>p. PICK p \in Peers[c] : p = m.from
  BY <1>1
<1>2. /\ board' = board /\ backup' = backup
      /\ \A q \in Servers : q # c => undo'[q] = undo[q]
  <2>0. undo[c].kind = "NONE"
    BY DEF Transit, Standing
  <2>1. CASE m.type = "UNSUCCESSFUL"
    <3>1. Undo(c)
      BY <1>1, <2>1 DEF ReceiveReply
    <3> QED
      BY <1>c, <2>0, <3>1 DEF Undo, TypeOK
  <2>2. CASE m.type # "UNSUCCESSFUL"
    BY <2>2 DEF ReceiveReply, disk
  <2> QED
    BY <2>1, <2>2
<1>3. UNCHANGED <<coord, sport, calls, requests, outcome>>
  BY DEF ReceiveReply
<1>4. \A q \in Peers[c] : undo'[q] = undo[q] /\ (q # p => sport'[q] = sport[q])
  BY <1>c, <1>2, <1>3
<1>5. Unwritten(p)' <=> Unwritten(p)
  BY <1>3 DEF Unwritten, Asked
<1>6. coord[c].pc = "commit" =>
         IF Unwritten(p)' THEN Without(board[p])
         ELSE IF sport'[p].pc = "applied"
              THEN sport'[p].kind = "WRITE" => Without(Truncate(board[p], sport'[p].pos))
              ELSE Without(Undone(p))
  BY <1>3, <1>5 DEF Vanishing, Undoable
<1> QED
  BY <1>2, <1>3, <1>4, <1>6, IdleVanishing

\* Cutting off what was appended.
LEMMA CutOff ==
    ASSUME NEW b \in Seq(LineType), NEW line \in LineType
    PROVE  Truncate(Append(b, line), b) = b
<1>1. Stands(Append(b, line), b)
  BY StandsSelf, StandsLonger
<1> QED
  BY <1>1 DEF Truncate

\* A participant at work is a peer's, in the second phase.
LEMMA AtWork ==
    ASSUME NEW c, Calm(c), TypeOK, Transit(c), Vanishing(c), NEW p \in Servers,
           sport[p].pc # "idle"
    PROVE  /\ p \in Peers[c] /\ coord[c].pc = "commit" /\ ~Asked(p)
           /\ sport[p].req = requests
           /\ board[p] \in Seq(LineType) /\ backup[p] \in Seq(LineType)
           /\ Clean(board[p]) /\ Clean(backup[p]) /\ Without(backup[p])
           /\ sport[p].pc = "begun" => Without(board[p])
           /\ Texts(board[p]) \subseteq 0..requests /\ Texts(backup[p]) \subseteq 0..requests
           /\ 0 \in 0..requests /\ requests \in 0..requests
           /\ requests \notin Failed /\ requests # 0 /\ 0 \notin Failed
<1>1. p \in Peers[c] /\ coord[c].pc = "commit" /\ sport[p].req = requests /\ p \in Busy
  BY DEF Busy, Transit, Mail, WorkIn, Current
<1>2. ~Asked(p)
  BY <1>1 DEF Transit, Turn, OnePlace, Collecting
<1>3. Kept(p, c) /\ Undoable(p, c)
  BY <1>1 DEF Vanishing
<1>4. Clean(board[p]) /\ Clean(backup[p]) /\ Without(backup[p])
  BY <1>1, <1>3 DEF Kept, Undoable
<1>5. sport[p].pc = "begun" => Without(board[p])
  BY <1>1, <1>3 DEF Undoable, Unwritten
<1>6. /\ Texts(board[p]) \subseteq 0..requests /\ Texts(backup[p]) \subseteq 0..requests
      /\ requests >= 1 /\ requests \notin Failed
  BY <1>1 DEF Vanishing, Bounded
<1>7. requests \in Nat /\ board[p] \in Seq(LineType) /\ backup[p] \in Seq(LineType)
  BY DEF TypeOK
<1>8. 0 \notin Failed
  BY DEF Failed
<1> QED
  BY <1>1, <1>2, <1>4, <1>5, <1>6, <1>7, <1>8

LEMMA LocalWriteVanishing ==
    ASSUME NEW c, Calm(c), TypeOK, TypeOK', Transit(c), Vanishing(c),
           NEW p \in Servers, LocalWrite(p)
    PROVE  Vanishing(c)'
<1>c. Peers[c] \subseteq Servers
  BY DEF Calm
<1>0. sport[p].pc = "begun" /\ sport[p].kind = "WRITE"
  BY DEF LocalWrite
<1>1. /\ p \in Peers[c] /\ coord[c].pc = "commit" /\ ~Asked(p)
      /\ sport[p].req = requests
      /\ board[p] \in Seq(LineType)
      /\ Clean(board[p]) /\ Clean(backup[p]) /\ Without(backup[p])
      /\ Without(board[p])
      /\ Texts(board[p]) \subseteq 0..requests /\ Texts(backup[p]) \subseteq 0..requests
      /\ requests \in 0..requests /\ requests \notin Failed
  BY <1>0, AtWork
<1>2. PICK line : line = Line(sport[p].num, sport[p].req)
  OBVIOUS
<1>3. line \in LineType /\ line.text = requests
  <2>1. sport[p].num \in Nat /\ requests \in Nat
    BY DEF TypeOK, SportType
  <2> QED
    BY <1>1, <1>2, <2>1 DEF Line, LineType
<1>4. /\ sport'[p].pc = "applied" /\ sport'[p].pos = board[p]
      /\ \A q \in Servers : q # p => sport'[q] = sport[q]
  BY DEF LocalWrite, TypeOK, SportType
<1>5. /\ board'[p] = Append(board[p], line)
      /\ \A q \in Servers : q # p => board'[q] = board[q]
      /\ UNCHANGED <<backup, undo, coord, calls, requests, outcome>>
  BY <1>2 DEF LocalWrite, TypeOK, net
<1>6. Texts(board'[p]) = Texts(board[p]) \cup {requests}
  BY <1>1, <1>3, <1>5, ChangedTexts
<1>7. Texts(Truncate(board'[p], sport'[p].pos)) \subseteq Texts(board[p])
  BY <1>1, <1>3, <1>4, <1>5, CutOff
<1>8. Failed' = Failed
  BY <1>5 DEF Failed
<1>9. ~Unwritten(p)'
  BY <1>1, <1>4, <1>5 DEF Unwritten, Asked
<1>10. Clean(board[p])' /\ Clean(backup[p])' /\ Without(backup[p])'
  BY <1>1, <1>5, <1>6, <1>8 DEF Clean, Without
<1>11. Without(Truncate(board[p], sport[p].pos))'
  BY <1>1, <1>5, <1>7 DEF Without
<1>12. Kept(p, c)'
  BY <1>10 DEF Kept
<1>13. Undoable(p, c)'
  BY <1>1, <1>4, <1>5, <1>9, <1>10, <1>11 DEF Undoable
<1>14. Texts(board'[p]) \subseteq 0..requests /\ Texts(backup'[p]) \subseteq 0..requests
  BY <1>1, <1>5, <1>6
<1>15. /\ \A q \in Servers : q # p => board'[q] = board[q] /\ backup'[q] = backup[q]
       /\ \A q \in Peers[c] : q # p => undo'[q] = undo[q] /\ sport'[q] = sport[q]
       /\ \A m \in calls' : m \in calls
       /\ \A m \in calls : m.to # p => m \in calls'
  BY <1>c, <1>4, <1>5
<1> QED
  BY <1>1, <1>5, <1>12, <1>13, <1>14, <1>15, PeerVanishing

LEMMA LocalReplaceVanishing ==
    ASSUME NEW c, Calm(c), TypeOK, TypeOK', Transit(c), Vanishing(c),
           NEW p \in Servers, LocalReplace(p), Peers[p] = {}
    PROVE  Vanishing(c)'
<1>c. Peers[c] \subseteq Servers
  BY DEF Calm
<1>0. sport[p].pc = "begun" /\ sport[p].kind = "REPLACE"
  BY DEF LocalReplace
<1>1. /\ p \in Peers[c] /\ coord[c].pc = "commit" /\ ~Asked(p)
      /\ sport[p].req = requests
      /\ board[p] \in Seq(LineType)
      /\ Clean(board[p]) /\ Without(board[p])
      /\ Texts(board[p]) \subseteq 0..requests
      /\ requests \in 0..requests /\ requests \notin Failed
  BY <1>0, AtWork
<1>2. PICK f : f = (sport[p].id \in Ids(board[p]))
  OBVIOUS
<1>3. /\ sport' = [sport EXCEPT ![p].pc = "applied", ![p].found = f]
      /\ UNCHANGED <<undo, coord, calls, requests, outcome>>
  BY <1>2 DEF LocalReplace, net
<1>4. /\ sport'[p].pc = "applied" /\ sport'[p].kind = "REPLACE"
      /\ \A q \in Servers : q # p => sport'[q] = sport[q]
  BY <1>0, <1>3 DEF TypeOK, SportType
<1>5. /\ board'[p] = ReplaceRecord(board[p], sport[p].id, sport[p].req)
      /\ backup'[p] = board[p]
      /\ \A q \in Servers : q # p => board'[q] = board[q] /\ backup'[q] = backup[q]
  BY DEF LocalReplace, TypeOK
<1>6. Texts(board'[p]) \subseteq Texts(board[p]) \cup {requests}
  <2>1. sport[p].id \in Nat /\ sport[p].req \in Nat
    BY DEF TypeOK, SportType
  <2> QED
    BY <1>1, <1>5, <2>1, ChangedTexts
<1>7. Failed' = Failed
  BY <1>3 DEF Failed
<1>8. ~Unwritten(p)'
  BY <1>1, <1>3, <1>4 DEF Unwritten, Asked
<1>9. Clean(board[p])' /\ Clean(backup[p])' /\ Without(backup[p])'
  BY <1>1, <1>3, <1>5, <1>6, <1>7 DEF Clean, Without
<1>10. Kept(p, c)'
  BY <1>9 DEF Kept
<1>11. Undoable(p, c)'
  BY <1>1, <1>3, <1>4, <1>8, <1>9 DEF Undoable
<1>12. Texts(board'[p]) \subseteq 0..requests /\ Texts(backup'[p]) \subseteq 0..requests
  BY <1>1, <1>5, <1>6
<1>13. /\ \A q \in Peers[c] : q # p => undo'[q] = undo[q] /\ sport'[q] = sport[q]
       /\ \A m \in calls' : m \in calls
       /\ \A m \in calls : m.to # p => m \in calls'
  BY <1>c, <1>3, <1>4
<1> QED
  BY <1>1, <1>3, <1>5, <1>10, <1>11, <1>12, <1>13, PeerVanishing

\* The LOCAL command is kept: it would remove what it has written.
LEMMA FinishCommitVanishing ==
    ASSUME NEW c, Calm(c), TypeOK, TypeOK', Transit(c), Vanishing(c),
           NEW p \in Servers, FinishCommit(p)
    PROVE  Vanishing(c)'
<1>c. Peers[c] \subseteq Servers
  BY DEF Calm
<1>0. sport[p].pc = "applied" /\ sport[p].kind \in {"WRITE", "REPLACE"}
  BY DEF FinishCommit, TypeOK, SportType
<1>1. /\ p \in Peers[c] /\ coord[c].pc = "commit" /\ ~Asked(p)
      /\ Clean(board[p]) /\ Clean(backup[p]) /\ Without(backup[p])
      /\ Texts(board[p]) \subseteq 0..requests /\ Texts(backup[p]) \subseteq 0..requests
  BY <1>0, AtWork
<1>2. /\ undo'[p].kind = sport[p].kind /\ undo'[p].pos = sport[p].pos
      /\ sport'[p].pc = "idle"
      /\ \A q \in Servers : q # p => undo'[q] = undo[q] /\ sport'[q] = sport[q]
      /\ UNCHANGED <<board, backup, coord, calls, requests, outcome>>
  BY DEF FinishCommit, IdleSport, disk, TypeOK
<1>3. sport[p].kind = "WRITE" => Without(Truncate(board[p], sport[p].pos))
  <2>1. ~Unwritten(p)
    BY <1>0, <1>1 DEF Unwritten
  <2> QED
    BY <1>0, <1>1, <2>1 DEF Vanishing, Undoable
<1>4. Undone(p)' = IF sport[p].kind = "WRITE" THEN Truncate(board[p], sport[p].pos)
                   ELSE backup[p]
  BY <1>0, <1>2 DEF Undone
<1>5. Without(Undone(p))'
  BY <1>1, <1>2, <1>3, <1>4 DEF Without
<1>6. Failed' = Failed
  BY <1>2 DEF Failed
<1>7. Clean(board[p])' /\ Clean(backup[p])' /\ Without(backup[p])'
  BY <1>1, <1>2, <1>6 DEF Clean, Without
<1>8. ~Unwritten(p)'
  BY <1>1, <1>2 DEF Unwritten, Asked
<1>9. Kept(p, c)'
  BY <1>7 DEF Kept
<1>10. Undoable(p, c)'
  BY <1>1, <1>2, <1>5, <1>7, <1>8 DEF Undoable
<1>11. /\ \A q \in Servers : q # p => board'[q] = board[q] /\ backup'[q] = backup[q]
       /\ \A q \in Peers[c] : q # p => undo'[q] = undo[q] /\ sport'[q] = sport[q]
       /\ \A m \in calls' : m \in calls
       /\ \A m \in calls : m.to # p => m \in calls'
       /\ Texts(board'[p]) \subseteq 0..requests /\ Texts(backup'[p]) \subseteq 0..requests
  BY <1>c, <1>1, <1>2
<1> QED
  BY <1>1, <1>2, <1>9, <1>10, <1>11, PeerVanishing

\* Nothing was written, and what an undo leaves does not have it either.
LEMMA LocalStorageFaultVanishing ==
    ASSUME NEW c, Calm(c), TypeOK, TypeOK', Transit(c), Vanishing(c),
           NEW p \in Servers, LocalStorageFault(p), Peers[p] = {}
    PROVE  Vanishing(c)'
<1>c. Peers[c] \subseteq Servers
  BY DEF Calm
<1>0. sport[p].pc = "begun"
  BY DEF LocalStorageFault
<1>1. /\ p \in Peers[c] /\ coord[c].pc = "commit" /\ ~Asked(p)
      /\ Without(board[p]) /\ Without(backup[p]) /\ requests # 0
  BY <1>0, AtWork
<1>2. Without(Undone(p))
  <2>1. Texts(Undone(p)) \subseteq Texts(board[p]) \cup Texts(backup[p]) \cup {0}
    BY UndoneTexts
  <2> QED
    BY <1>1, <2>1 DEF Without
<1>3. sport' = [sport EXCEPT ![p] = IdleSport] /\ UNCHANGED <<undo, coord, calls, outcome>>
  BY DEF LocalStorageFault
<1>4. sport'[p].pc = "idle" /\ \A q \in Servers : q # p => sport'[q] = sport[q]
  BY <1>3 DEF TypeOK, IdleSport
<1>5. UNCHANGED <<board, backup, requests>>
  BY DEF LocalStorageFault
<1>6. ~Unwritten(p)'
  BY <1>1, <1>3, <1>4 DEF Unwritten, Asked
<1>7. \A q \in Peers[c] : undo'[q] = undo[q] /\ (q # p => sport'[q] = sport[q])
  BY <1>c, <1>3, <1>4
<1>8. coord[c].pc = "commit" =>
         IF Unwritten(p)' THEN Without(board[p])
         ELSE IF sport'[p].pc = "applied"
              THEN sport'[p].kind = "WRITE" => Without(Truncate(board[p], sport'[p].pos))
              ELSE Without(Undone(p))
  BY <1>2, <1>4, <1>6
<1> QED
  BY <1>1, <1>3, <1>5, <1>7, <1>8, IdleVanishing

-----------------------------------------------------------------------------
(* Aborted requests vanish. *)

UndoneInv(c) == Transit(c) /\ Vanishing(c)

LEMMA UndoneInit ==
    ASSUME NEW c, Calm(c), Init
    PROVE  UndoneInv(c)
<1>c. c \in Servers /\ Peers[c] \subseteq Servers
  BY DEF Calm
<1>1. /\ coord[c].pc = "idle" /\ requests = 0
      /\ \A s \in Servers : board[s] = <<>> /\ backup[s] = <<>>
      /\ \A r \in 1..MaxRequests : outcome[r] = "none"
  BY <1>c DEF Init, IdleCoord
<1>2. Failed = {} /\ Texts(<<>>) = {}
  BY <1>1 DEF Failed, Texts
<1>3. Bounded(c) /\ Own(c)
  BY <1>c, <1>1, <1>2 DEF Bounded, Own, Clean
<1>4. \A p \in Peers[c] : Kept(p, c) /\ Undoable(p, c)
  BY <1>c, <1>1, <1>2 DEF Kept, Undoable, Clean
<1> QED
  BY <1>3, <1>4, TransitInit DEF UndoneInv, Vanishing

LEMMA VanishingStays ==
    ASSUME NEW c, Vanishing(c), UNCHANGED vars
    PROVE  Vanishing(c)'
<1>1. UNCHANGED <<board, backup, undo, coord, sport, calls, requests, outcome>>
  BY DEF vars, disk, net
<1>2. Failed' = Failed
  BY <1>1 DEF Failed
<1>3. Bounded(c)' /\ Own(c)'
  BY <1>1, <1>2 DEF Vanishing, Bounded, Own, Clean, Without
<1>4. ASSUME NEW p \in Peers[c] PROVE Kept(p, c)' /\ Undoable(p, c)'
  <2>1. Undone(p)' = Undone(p)
    BY <1>1 DEF Undone
  <2>2. /\ Clean(board[p])' <=> Clean(board[p])
        /\ Clean(backup[p])' <=> Clean(backup[p])
        /\ Without(board[p])' <=> Without(board[p])
        /\ Without(backup[p])' <=> Without(backup[p])
        /\ Clean(Undone(p))' <=> Clean(Undone(p))
        /\ Without(Undone(p))' <=> Without(Undone(p))
        /\ Without(Truncate(board[p], sport[p].pos))'
              <=> Without(Truncate(board[p], sport[p].pos))
    BY <1>1, <1>2, <2>1 DEF Clean, Without
  <2>3. /\ Warned(p)' <=> Warned(p)
        /\ Unwritten(p)' <=> Unwritten(p)
    BY <1>1 DEF Warned, Unwritten, Asked
  <2>4. Kept(p, c) /\ Undoable(p, c)
    BY DEF Vanishing
  <2>5. Kept(p, c)'
    BY <1>1, <2>2, <2>4 DEF Kept
  <2>6. Undoable(p, c)'
    BY <1>1, <2>2, <2>3, <2>4 DEF Undoable
  <2> QED
    BY <2>5, <2>6
<1> QED
  BY <1>3, <1>4 DEF Vanishing

LEMMA UndoneStep ==
    ASSUME NEW c, Calm(c), OnlyStorage(c), TypeOK, TypeOK', UndoneInv(c), [Next]_vars
    PROVE  UndoneInv(c)'
<1>c. c \in Servers /\ Coordinators = {c}
  BY DEF Calm
<1>i. Transit(c) /\ Vanishing(c)
  BY DEF UndoneInv
<1>1. CASE UNCHANGED vars
  BY <1>1, <1>i, TransitStays, VanishingStays DEF UndoneInv
<1>2. CASE Next
  <2>0. \A p \in Servers : sport[p].pc # "idle" => Peers[p] = {}
    BY <1>i, AtWork DEF OnlyStorage
  <2>1. \A p \in Servers : LocalReplace(p) => Peers[p] = {} /\ ~Dies(p)
    <3> SUFFICES ASSUME NEW p \in Servers, LocalReplace(p)
                 PROVE  Peers[p] = {} /\ ~Dies(p)
      OBVIOUS
    <3>1. Peers[p] = {}
      BY <2>0 DEF LocalReplace
    <3>2. UNCHANGED up
      BY <3>1 DEF LocalReplace
    <3>3. up[p]
      BY <1>i DEF Transit, Standing
    <3> QED
      BY <3>1, <3>2, <3>3 DEF Dies, TypeOK
  <2>2. \A p \in Servers : LocalStorageFault(p) => Peers[p] = {}
    BY <2>0 DEF LocalStorageFault
  <2>3. Faults \subseteq {"disk"}
    BY DEF OnlyStorage
  <2>4. Transit(c)'
    BY <1>2, <1>i, <2>1, <2>2, <2>3, TransitStep
  <2>5. CASE Request(c)
    <3>1. Vanishing(c)'
      BY <1>i, <2>5, RequestVanishing
    <3> QED
      BY <2>4, <3>1 DEF UndoneInv
  <2>6. CASE CoordinatorStep(c)
    <3>1. CASE StoreNumber(c) \/ Precommitted(c) \/ Committed(c) \/ ApplyWrite(c)
      BY <1>i, <2>4, <3>1, PhasesVanishing DEF UndoneInv
    <3>2. CASE Abort(c)
      BY <1>i, <2>4, <3>2, FailingVanishing DEF UndoneInv
    <3>3. CASE ApplyReplace(c)
      BY <1>i, <2>4, <3>3, ApplyReplaceVanishing DEF UndoneInv
    <3>4. CASE Flush(c)
      BY <1>i, <2>4, <3>4, FlushVanishing DEF UndoneInv
    <3> QED
      BY <2>6, <3>1, <3>2, <3>3, <3>4 DEF CoordinatorStep
  <2>7. ASSUME NEW p \in Servers, LocalStep(p) PROVE Vanishing(c)'
    BY <1>i, <2>1, <2>7, LocalWriteVanishing, LocalReplaceVanishing,
       FinishCommitVanishing DEF LocalStep
  <2>8. ASSUME NEW m \in calls, Deliver(m) PROVE Vanishing(c)'
    BY <1>i, <2>8, DeliverVanishing
  <2>9. ASSUME NEW m \in replies, ReceiveReply(m) PROVE Vanishing(c)'
    BY <1>i, <2>9, ReceiveReplyVanishing
  <2>10. CASE FaultStep
    <3>1. ASSUME NEW s \in Servers, StorageFault(s) PROVE Vanishing(c)'
      <4>1. s = c
        BY <1>i, <3>1 DEF StorageFault, Transit, Standing
      <4> QED
        BY <1>i, <3>1, <4>1, FailingVanishing
    <3>2. ASSUME NEW s \in Servers, LocalStorageFault(s) PROVE Vanishing(c)'
      BY <1>i, <2>2, <3>2, LocalStorageFaultVanishing
    <3>3. \A s \in Servers : ~Crash(s) /\ ~Restart(s)
      BY <1>i, <2>3 DEF Crash, Fault, Restart, Transit, Standing
    <3>4. \A m \in calls \cup replies : ~Lose(m)
      BY <2>3 DEF Lose, Fault
    <3>5. Vanishing(c)'
      BY <2>10, <3>1, <3>2, <3>3, <3>4 DEF FaultStep
    <3> QED
      BY <2>4, <3>5 DEF UndoneInv
  <2>11. Vanishing(c)' => UndoneInv(c)'
    BY <2>4 DEF UndoneInv
  <2> QED
    BY <1>2, <1>c, <2>5, <2>6, <2>7, <2>8, <2>9, <2>10, <2>11 DEF Next
<1> QED
  BY <1>1, <1>2

LEMMA UndoneQuiet ==
    ASSUME NEW c, Calm(c), UndoneInv(c)
    PROVE  AbortedVanishes
<1> SUFFICES ASSUME Quiet, NEW r \in 1..MaxRequests, outcome[r] = "error",
                    NEW s \in Servers
             PROVE  r \notin Texts(board[s])
  BY DEF AbortedVanishes
<1>1. coord[c].pc = "idle" /\ calls = {}
  BY DEF Calm, Quiet
<1>2. \A p \in Peers[c] : Clean(board[p])
  BY <1>1 DEF UndoneInv, Vanishing, Undoable, Warned
<1>3. Clean(board[c])
  BY DEF UndoneInv, Vanishing, Own
<1>4. Clean(board[s])
  BY <1>2, <1>3 DEF Calm
<1> QED
  BY <1>4 DEF Clean, Failed

\* For any number of peers and requests, and however many files fail to open:
\* once nothing goes on, no board has a line of a request whose client was
\* told ERROR.  An UndoStore keeps one command, whichever it is; that the one
\* it keeps is the one to undo rests on the order of the steps alone.
THEOREM Vanishes ==
    ASSUME NEW c, Calm(c), OnlyStorage(c)
    PROVE  Spec => []AbortedVanishes
<1>1. Init => UndoneInv(c)
  BY UndoneInit
<1>2. TypeOK /\ TypeOK' /\ UndoneInv(c) /\ [Next]_vars => UndoneInv(c)'
  BY UndoneStep
<1>3. UndoneInv(c) => AbortedVanishes
  BY UndoneQuiet
<1> QED
  BY <1>1, <1>2, <1>3, TypeCorrect, PTL DEF Spec

=============================================================================
