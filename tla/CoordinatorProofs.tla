------------------------- MODULE CoordinatorProofs -------------------------
(***************************************************************************)
(* Replication with one coordinator, for any peers, any number of requests *)
(* and any faults.  It implements AtomicBoard: each of its steps is a step *)
(* of AtomicBoard or none at all; that the client is told WROTE only after *)
(* every peer has written is the theorem Decided of ReplicationProofs, and *)
(* here the records of the clients are added to its invariant.             *)
(* If, moreover, its clients do not send REPLACE, then the message numbers *)
(* of the peers never run ahead of the coordinator's, and no board gets    *)
(* two lines of one id, whatever is lost, late or crashes.  Each number a  *)
(* peer may still use is owed to it: by a COMMIT on its way, by the        *)
(* command it has begun, or by the first phase of a request.               *)
(***************************************************************************)
EXTENDS ReplicationProofs

-----------------------------------------------------------------------------
(* The refinement. *)

\* What AtomicBoard sees.
seen == <<requests, outcome, applied>>

\* The request that c is at work on has not been answered, or was told WROTE.
Tracked(c) ==
    /\ coord[c].pc # "idle" => coord[c].req \in 1..requests
    /\ coord[c].pc \in {"number", "precommit", "commit", "apply"} =>
          outcome[coord[c].req] = "none"
    /\ coord[c].pc = "flush" => outcome[coord[c].req] = "wrote"
    /\ \A r \in 1..MaxRequests : r > requests => outcome[r] = "none"

\* What peers are asked to write was asked for.
Counted(c) ==
    /\ \A m \in Open : m.req >= 1
    /\ \A p \in Busy : sport[p].req >= 1

RefinementInv(c) ==
    TypeOK /\ AgreementInv(c) /\ Unanimous(c) /\ Tracked(c) /\ Counted(c)

\* A step is one of AtomicBoard or none, and the records stay right.
Refines(c) == [Board!Next]_seen /\ Tracked(c)' /\ Counted(c)'

\* Types of what is compared.
LEMMA Records ==
    ASSUME NEW c \in Servers, RefinementInv(c)
    PROVE  /\ requests \in Nat /\ requests <= MaxRequests /\ MaxRequests \in Nat
           /\ outcome \in [1..MaxRequests ->
                             {"none", "wrote", "unknown", "error", "lost"}]
           /\ applied \in [Servers -> SUBSET Nat]
           /\ coord \in [Servers -> CoordType] /\ coord[c] \in CoordType
           /\ sport \in [Servers -> SportType]
           /\ Busy \subseteq Servers
BY KindsAssumption DEF RefinementInv, TypeOK, Busy

-----------------------------------------------------------------------------
(* The client's side. *)

LEMMA WriteRequestRefines ==
    ASSUME NEW c \in Servers, RefinementInv(c), WriteRequest(c)
    PROVE  Refines(c)
<1>1. /\ requests < MaxRequests /\ requests' = requests + 1
      /\ coord'[c].pc = "number" /\ coord'[c].req = requests + 1
      /\ UNCHANGED <<outcome, applied, calls, sport>>
  BY Records DEF WriteRequest, Accept, net
<1>2. Board!Ask
  BY <1>1 DEF Board!Ask
<1>3. Tracked(c)'
  BY <1>1, Records DEF RefinementInv, Tracked
<1>4. Counted(c)'
  BY <1>1 DEF RefinementInv, Counted, Open, Busy
<1> QED
  BY <1>2, <1>3, <1>4 DEF Refines, Board!Next

LEMMA MalformedRefines ==
    ASSUME NEW c \in Servers, RefinementInv(c), MalformedRequest(c)
    PROVE  Refines(c)
<1>1. /\ coord[c].pc = "idle" /\ requests < MaxRequests /\ requests' = requests + 1
      /\ outcome' = [outcome EXCEPT ![requests + 1] = "error"]
      /\ UNCHANGED <<applied, coord, sport>>
  BY DEF MalformedRequest, Accept
<1>2. Open' \subseteq Open
  BY BroadcastUnsuccessful DEF MalformedRequest, RefinementInv
<1>3. Board!Refuse
  BY <1>1 DEF Board!Refuse
<1>4. Tracked(c)'
  BY <1>1, Records DEF RefinementInv, Tracked
<1>5. Counted(c)'
  BY <1>1, <1>2 DEF RefinementInv, Counted, Busy
<1> QED
  BY <1>3, <1>4, <1>5 DEF Refines, Board!Next

\* c goes on in its two phases.
LEMMA PhaseRefines ==
    ASSUME NEW c \in Servers, RefinementInv(c),
           StoreNumber(c) \/ Precommitted(c) \/ Committed(c)
    PROVE  Refines(c)
<1>1. /\ coord[c].pc \in {"number", "precommit", "commit"}
      /\ coord'[c].pc \in {"precommit", "commit", "apply"}
      /\ coord'[c].req = coord[c].req
      /\ UNCHANGED <<requests, outcome, applied, sport>>
  <2>1. \E pc \in {"precommit", "commit", "apply"} :
           coord' = [coord EXCEPT ![c].pc = pc]
    BY DEF StoreNumber, Precommitted, Committed
  <2>2. /\ coord[c].pc \in {"number", "precommit", "commit"}
        /\ UNCHANGED <<requests, outcome, applied, sport>>
    BY DEF StoreNumber, Precommitted, Committed, net
  <2> QED
    BY <2>1, <2>2, Records DEF CoordType
<1>2. Tracked(c)'
  BY <1>1 DEF RefinementInv, Tracked
<1>3. \A m \in Open' : m \in Open \/ m.req = coord[c].req
  BY BroadcastIs DEF StoreNumber, Precommitted, Committed, Open, net
<1>4. coord[c].req >= 1
  BY <1>1 DEF RefinementInv, Tracked
<1>5. Counted(c)'
  BY <1>1, <1>3, <1>4 DEF RefinementInv, Counted, Busy
<1> QED
  BY <1>1, <1>2, <1>5 DEF Refines, seen

\* The request of c fails.
LEMMA FailRefines ==
    ASSUME NEW c \in Servers, RefinementInv(c), NEW id, Fail(c, id),
           coord[c].pc \in {"number", "precommit", "commit"},
           UNCHANGED <<requests, applied, sport>>
    PROVE  Refines(c)
<1>1. /\ coord'[c].pc = "idle"
      /\ outcome' = [outcome EXCEPT ![coord[c].req] = "error"]
  BY Records DEF Fail, IdleCoord
<1>2. coord[c].req \in 1..requests /\ outcome[coord[c].req] = "none"
  BY DEF RefinementInv, Tracked
<1>3. Board!TellFailure(coord[c].req)
  BY <1>1, <1>2 DEF Board!TellFailure
<1>4. Tracked(c)'
  BY <1>1, <1>2, Records DEF RefinementInv, Tracked
<1>5. Open' \subseteq Open
  BY BroadcastUnsuccessful DEF Fail, RefinementInv
<1>6. Counted(c)'
  BY <1>5 DEF RefinementInv, Counted, Busy
<1> QED
  BY <1>2, <1>3, <1>4, <1>6 DEF Refines, Board!Next

\* The client is told WROTE: every peer has written.
LEMMA ApplyWriteRefines ==
    ASSUME NEW c \in Servers, Single(c), RefinementInv(c), ApplyWrite(c)
    PROVE  Refines(c)
<1>1. /\ coord[c].pc = "apply" /\ coord'[c].pc = "flush"
      /\ coord'[c].req = coord[c].req
      /\ outcome' = [outcome EXCEPT ![coord[c].req] = "wrote"]
      /\ UNCHANGED <<requests, applied, calls, sport>>
  BY Records DEF ApplyWrite, CoordType, net
<1>2. coord[c].req \in 1..requests /\ outcome[coord[c].req] = "none"
  BY <1>1 DEF RefinementInv, Tracked
<1>3. \A p \in Peers[c] : coord[c].req \in applied[p]
  BY <1>1 DEF RefinementInv, Unanimous
<1>4. Board!TellWrote(c, coord[c].req)
  BY <1>1, <1>2, <1>3 DEF Board!TellWrote
<1>5. c \in Coordinators
  BY DEF Single
<1>6. Tracked(c)'
  BY <1>1, <1>2, Records DEF RefinementInv, Tracked
<1>7. Counted(c)'
  BY <1>1 DEF RefinementInv, Counted, Open, Busy
<1> QED
  BY <1>2, <1>4, <1>5, <1>6, <1>7 DEF Refines, Board!Next

\* The record reaches the coordinator's file after the client was told.
LEMMA FlushRefines ==
    ASSUME NEW c \in Servers, Single(c), RefinementInv(c), Flush(c)
    PROVE  Refines(c)
<1>1. coord[c].pc = "flush" /\ coord[c].kind = "WRITE"
  BY DEF Flush, RefinementInv, AgreementInv, Roles
<1>2. /\ coord'[c].pc = "idle"
      /\ applied' = [applied EXCEPT ![c] = @ \cup {coord[c].req}]
      /\ UNCHANGED <<requests, outcome, calls, sport>>
  BY <1>1, Records DEF Flush, IdleCoord, net
<1>3. coord[c].req \in 1..requests /\ outcome[coord[c].req] = "wrote"
  BY <1>1 DEF RefinementInv, Tracked
<1>4. Board!CoordinatorWrites(c, coord[c].req) /\ c \in Coordinators
  BY <1>2, <1>3 DEF Board!CoordinatorWrites, Single
<1>5. Tracked(c)'
  BY <1>2 DEF RefinementInv, Tracked
<1>6. Counted(c)'
  BY <1>2 DEF RefinementInv, Counted, Open, Busy
<1> QED
  BY <1>3, <1>4, <1>5, <1>6 DEF Refines, Board!Next

-----------------------------------------------------------------------------
(* The peers' side. *)

LEMMA LocalWriteRefines ==
    ASSUME NEW c \in Servers, Single(c), RefinementInv(c),
           NEW p \in Servers, LocalWrite(p)
    PROVE  Refines(c)
<1>1. p \in Busy /\ p \in Peers[c] /\ sport[p] \in SportType
  BY Records DEF LocalWrite, Busy, RefinementInv, AgreementInv, Roles
<1>2. sport[p].req <= requests /\ sport[p].req >= 1
  BY <1>1 DEF RefinementInv, AgreementInv, Fresh, Belongs, Counted
<1>3. sport[p].req \in 1..requests
  BY <1>1, <1>2, Records DEF SportType
<1>4. /\ applied' = [applied EXCEPT ![p] = @ \cup {sport[p].req}]
      /\ sport'[p].req = sport[p].req
      /\ \A q \in Servers : q # p => sport'[q] = sport[q]
      /\ UNCHANGED <<requests, outcome, coord, calls>>
  BY <1>1, Records DEF LocalWrite, SportType, net
<1>5. Board!PeerWrites(p, sport[p].req)
  BY <1>1, <1>4 DEF Board!PeerWrites, Single
<1>6. Tracked(c)'
  BY <1>4 DEF RefinementInv, Tracked
<1>7. Counted(c)'
  <2>1. \A q \in Busy' : sport'[q].req >= 1
    BY <1>2, <1>4 DEF RefinementInv, Counted, Busy
  <2> QED
    BY <1>4, <2>1 DEF RefinementInv, Counted, Open
<1> QED
  BY <1>3, <1>5, <1>6, <1>7 DEF Refines, Board!Next

LEMMA BeginCommitRefines ==
    ASSUME NEW c \in Servers, RefinementInv(c), NEW m \in calls, BeginCommit(m)
    PROVE  Refines(c)
<1>1. m \in Open /\ m.to \in Servers /\ m.req >= 1
  BY DEF BeginCommit, Take, Open, RefinementInv, Counted, TypeOK, CallType,
         MessageType
<1>2. /\ sport'[m.to].req = m.req
      /\ \A q \in Servers : q # m.to => sport'[q] = sport[q]
      /\ Open' \subseteq Open
      /\ UNCHANGED <<requests, outcome, applied, coord>>
  BY <1>1, Records DEF BeginCommit, Take, Open
<1>3. Tracked(c)'
  BY <1>2 DEF RefinementInv, Tracked
<1>4. \A q \in Busy' : sport'[q].req >= 1
  BY <1>1, <1>2 DEF RefinementInv, Counted, Busy
<1> QED
  BY <1>2, <1>3, <1>4 DEF Refines, RefinementInv, Counted, seen

-----------------------------------------------------------------------------
(* Steps that AtomicBoard does not see, and deaths. *)

Unseen(c) ==
    /\ UNCHANGED <<requests, outcome, applied, coord>>
    /\ Open' \subseteq Open
    /\ \A p \in Busy' : p \in Busy /\ sport'[p].req = sport[p].req

LEMMA UnseenRefines ==
    ASSUME NEW c \in Servers, RefinementInv(c), Unseen(c)
    PROVE  Refines(c)
BY DEF RefinementInv, Unseen, Refines, Tracked, Counted, seen

\* A process that dies takes its client's request with it.
LEMMA DiesRefines ==
    ASSUME NEW c \in Servers, RefinementInv(c), NEW s \in Servers, Dies(s),
           UNCHANGED <<requests, applied>>
    PROVE  Refines(c)
<1>1. /\ Open' \subseteq Open
      /\ \A p \in Busy' : p \in Busy /\ sport'[p].req = sport[p].req
  <2>1. Open' \subseteq Open
    BY DEF Dies, Open
  <2>2. ASSUME NEW p \in Busy' PROVE p \in Busy /\ sport'[p].req = sport[p].req
    <3>1. p \in Servers /\ sport'[p].pc # "idle" /\ sport[p] \in SportType
      BY Records DEF Busy
    <3>2. p # s
      BY <3>1 DEF Dies, IdleSport
    <3>3. sport'[p] = IF sport[p].from = s THEN [sport[p] EXCEPT !.from = Nobody]
                      ELSE sport[p]
      BY <3>1, <3>2 DEF Dies
    <3> QED
      BY <3>1, <3>3 DEF Busy, SportType
  <2> QED
    BY <2>1, <2>2
<1>2. Counted(c)'
  BY <1>1 DEF RefinementInv, Counted
<1>3. coord' = [coord EXCEPT ![s] = IdleCoord]
  BY DEF Dies
<1>4. CASE s # c
  <2>1. coord[s].pc = "idle"
    BY <1>4 DEF RefinementInv, AgreementInv, Roles
  <2>2. outcome' = outcome /\ coord'[c] = coord[c]
    BY <1>3, <1>4, <2>1, Records DEF Dies
  <2> QED
    BY <1>2, <2>2 DEF RefinementInv, Tracked, Refines, seen
<1>5. CASE s = c /\ coord[c].pc \in {"number", "precommit", "commit", "apply"}
  <2>1. coord'[c].pc = "idle"
    BY <1>3, <1>5, Records DEF IdleCoord
  <2>2. outcome' = [outcome EXCEPT ![coord[c].req] = "lost"]
    BY <1>5 DEF Dies
  <2>3. coord[c].req \in 1..requests /\ outcome[coord[c].req] = "none"
    BY <1>5 DEF RefinementInv, Tracked
  <2>4. Board!TellFailure(coord[c].req)
    BY <2>2, <2>3 DEF Board!TellFailure
  <2>5. Tracked(c)'
    BY <2>1, <2>2, <2>3, Records DEF RefinementInv, Tracked
  <2> QED
    BY <1>2, <2>3, <2>4, <2>5 DEF Refines, Board!Next
<1>6. CASE s = c /\ coord[c].pc \notin {"number", "precommit", "commit", "apply"}
  <2>1. outcome' = outcome /\ coord'[c].pc = "idle"
    BY <1>3, <1>6, Records DEF Dies, IdleCoord
  <2> QED
    BY <1>2, <2>1 DEF RefinementInv, Tracked, Refines, seen
<1> QED
  BY <1>4, <1>5, <1>6

LEMMA CommandUnseen ==
    ASSUME NEW c \in Servers, RefinementInv(c), NEW m \in calls,
           Precommit(m) \/ Unsuccessful(m) \/ Refused(m)
    PROVE  Unseen(c)
BY DEF Precommit, Unsuccessful, Refused, Take, Unseen, Open, Busy

LEMMA OtherUnseen ==
    ASSUME NEW c \in Servers,
           \/ \E m \in replies : ReceiveReply(m)
           \/ \E m \in calls \cup replies : Lose(m)
           \/ \E s \in Servers : Restart(s)
           \/ UNCHANGED vars
    PROVE  Unseen(c)
BY DEF ReceiveReply, Lose, Restart, vars, net, Unseen, Open, Busy

\* p is done with a command, or gives it up.
LEMMA IdleUnseen ==
    ASSUME NEW c \in Servers, RefinementInv(c), NEW p \in Servers,
           sport' = [sport EXCEPT ![p] = IdleSport],
           UNCHANGED <<requests, outcome, applied, coord, calls>>
    PROVE  Unseen(c)
<1>1. sport'[p].pc = "idle" /\ \A q \in Servers : q # p => sport'[q] = sport[q]
  BY Records DEF IdleSport
<1> QED
  BY <1>1 DEF Unseen, Open, Busy

-----------------------------------------------------------------------------
(* Together. *)

LEMMA CoordinatorRefines ==
    ASSUME NEW c \in Servers, Single(c), RefinementInv(c),
           Request(c) \/ CoordinatorStep(c)
    PROVE  Refines(c)
<1>1. CASE \E id \in 0..MaxRequests : ReplaceRequest(c, id)
  BY <1>1 DEF ReplaceRequest, Single
<1>2. CASE ApplyReplace(c)
  BY <1>2 DEF ApplyReplace, RefinementInv, AgreementInv, Roles
<1>3. CASE Abort(c)
  <2>1. /\ Fail(c, coord[c].id) /\ coord[c].pc \in {"number", "precommit", "commit"}
        /\ UNCHANGED <<requests, applied, sport>>
    BY <1>3 DEF Abort
  <2> QED
    BY <2>1, FailRefines
<1> QED
  BY <1>1, <1>2, <1>3, WriteRequestRefines, MalformedRefines, PhaseRefines,
     ApplyWriteRefines, FlushRefines DEF Request, CoordinatorStep

LEMMA FaultRefines ==
    ASSUME NEW c \in Servers, RefinementInv(c), FaultStep
    PROVE  Refines(c)
<1>1. ASSUME NEW s \in Servers, StorageFault(s) PROVE Refines(c)
  <2>1. s = c /\ coord[c].pc \in {"number", "precommit", "commit"}
    BY <1>1 DEF StorageFault, RefinementInv, AgreementInv, Roles
  <2>2. \E id : Fail(c, id)
    BY <1>1, <2>1 DEF StorageFault
  <2>3. UNCHANGED <<requests, applied, sport>>
    BY <1>1 DEF StorageFault
  <2> QED
    BY <2>1, <2>2, <2>3, FailRefines
<1>2. ASSUME NEW p \in Servers, LocalStorageFault(p) PROVE Refines(c)
  <2>1. CASE Peers[p] # {}
    BY <1>2, <2>1, DiesRefines DEF LocalStorageFault
  <2>2. CASE Peers[p] = {}
    BY <1>2, <2>2, IdleUnseen, UnseenRefines DEF LocalStorageFault
  <2> QED
    BY <2>1, <2>2
<1>3. ASSUME NEW s \in Servers, Crash(s) PROVE Refines(c)
  BY <1>3, DiesRefines DEF Crash
<1> QED
  BY <1>1, <1>2, <1>3, OtherUnseen, UnseenRefines DEF FaultStep

LEMMA StepRefines ==
    ASSUME NEW c \in Servers, Single(c), RefinementInv(c), [Next]_vars
    PROVE  Refines(c)
<1>1. CASE \E d \in Coordinators : Request(d) \/ CoordinatorStep(d)
  BY <1>1, CoordinatorRefines DEF Single
<1>2. ASSUME NEW p \in Servers, LocalStep(p) PROVE Refines(c)
  <2>1. CASE LocalWrite(p)
    BY <2>1, LocalWriteRefines
  <2>2. CASE LocalReplace(p)
    BY <2>2 DEF LocalReplace, Busy, RefinementInv, AgreementInv, Roles
  <2>3. CASE FinishCommit(p)
    BY <2>3, IdleUnseen, UnseenRefines DEF FinishCommit
  <2> QED
    BY <1>2, <2>1, <2>2, <2>3 DEF LocalStep
<1>3. CASE \E m \in calls : Deliver(m)
  BY <1>3, CommandUnseen, UnseenRefines, BeginCommitRefines DEF Deliver
<1>4. CASE FaultStep
  BY <1>4, FaultRefines
<1>5. CASE (\E m \in replies : ReceiveReply(m)) \/ UNCHANGED vars
  BY <1>5, OtherUnseen, UnseenRefines
<1> QED
  BY <1>1, <1>2, <1>3, <1>4, <1>5 DEF Next

\* One coordinator, whatever is lost, late or crashes, implements the atomic
\* board: the initial states are its initial states and every step is one of
\* its steps, or none.
THEOREM Implements ==
    ASSUME NEW c \in Servers, Single(c)
    PROVE  Spec => ImplementsAtomicBoard
<1>1. Init => Board!Init /\ Unanimous(c) /\ Tracked(c) /\ Counted(c)
  <2> SUFFICES ASSUME Init
               PROVE  Board!Init /\ Unanimous(c) /\ Tracked(c) /\ Counted(c)
    OBVIOUS
  <2>1. Open = {} /\ Busy = {}
    BY DEF Init, Open, Busy, IdleSport
  <2> QED
    BY <2>1, KindsAssumption DEF Init, Board!Init, Unanimous, Tracked, Counted,
                                 IdleCoord
<1>2. RefinementInv(c) /\ [Next]_vars => [Board!Next]_seen /\ Tracked(c)' /\ Counted(c)'
  BY StepRefines DEF Refines
<1>3. RefinementInv(c) /\ [Next]_vars => Unanimous(c)'
  BY UnanimousStep DEF RefinementInv
<1>4. Spec => []AgreementInv(c)
  BY Agreement
<1>5. Spec => [](TypeOK /\ AgreementInv(c))
  BY <1>4, TypeCorrect, PTL
<1>6. Spec => []RefinementInv(c)
  BY <1>1, <1>2, <1>3, <1>5, PTL DEF Spec, RefinementInv
<1>7. [Board!Next]_seen <=> [Board!Next]_(Board!vars)
  BY DEF seen, Board!vars
<1> QED
  BY <1>1, <1>2, <1>6, <1>7, PTL DEF Spec, ImplementsAtomicBoard, Board!Spec

-----------------------------------------------------------------------------
(* The numbers of the peers. *)

\* The COMMITs on their way to p.
Pending(p) == {m \in calls : m.type = "COMMIT" /\ m.to = p}

Begun(p) == IF sport[p].pc = "begun" THEN 1 ELSE 0

First(c) == IF coord[c].pc = "precommit" THEN 1 ELSE 0

\* The numbers that p may still use of those c has used.
Behind(p, c) ==
    /\ IsFiniteSet(Pending(p))
    /\ number[p] + Cardinality(Pending(p)) + Begun(p) + First(c) <= number[c]
    /\ sport[p].pc = "begun" => sport[p].num = number[p]

AllBehind(c) == \A p \in Servers \ {c} : Behind(p, c)

LEMMA PendingTypes ==
    ASSUME TypeOK, NEW p \in Servers, NEW c \in Servers, IsFiniteSet(Pending(p))
    PROVE  /\ Cardinality(Pending(p)) \in Nat
           /\ Begun(p) \in 0..1 /\ First(c) \in 0..1
           /\ number[p] \in Nat /\ number[c] \in Nat /\ sport[p].num \in Nat
<1>1. number[p] \in Nat /\ number[c] \in Nat /\ sport[p].num \in Nat
  BY DEF TypeOK, SportType
<1> QED
  BY <1>1, FS_CardinalityType DEF Begun, First

\* Nothing is added to what is owed.
OwesLess(p, c) ==
    /\ Pending(p)' \subseteq Pending(p)
    /\ number'[p] = number[p]
    /\ sport'[p].pc = "begun" => sport[p].pc = "begun" /\ sport'[p].num = sport[p].num
    /\ coord'[c].pc = "precommit" => coord[c].pc = "precommit"
    /\ number'[c] >= number[c]

LEMMA OwesLessBehind ==
    ASSUME TypeOK, TypeOK', NEW p \in Servers, NEW c \in Servers, Behind(p, c),
           OwesLess(p, c)
    PROVE  Behind(p, c)'
<1>1. /\ IsFiniteSet(Pending(p)')
      /\ Cardinality(Pending(p)') \in Nat
      /\ Cardinality(Pending(p)') <= Cardinality(Pending(p))
  BY FS_Subset, FS_CardinalityType DEF Behind, OwesLess
<1>2. /\ Cardinality(Pending(p)) \in Nat
      /\ Begun(p) \in 0..1 /\ First(c) \in 0..1
      /\ number[p] \in Nat /\ number[c] \in Nat
  BY PendingTypes DEF Behind
<1>3. /\ Begun(p)' \in 0..1 /\ First(c)' \in 0..1 /\ number'[c] \in Nat
      /\ Begun(p)' <= Begun(p) /\ First(c)' <= First(c)
  <2>1. number'[c] \in Nat
    BY DEF TypeOK
  <2>2. /\ Begun(p)' \in 0..1 /\ First(c)' \in 0..1
        /\ Begun(p)' <= Begun(p) /\ First(c)' <= First(c)
    BY DEF Begun, First, OwesLess
  <2> QED
    BY <2>1, <2>2
<1> HIDE DEF Pending
<1>4. number'[p] + Cardinality(Pending(p)') + Begun(p)' + First(c)' <= number'[c]
  BY <1>1, <1>2, <1>3 DEF Behind, OwesLess
<1> QED
  BY <1>1, <1>4 DEF Behind, OwesLess

\* The PRECOMMITs cost the coordinator a number.
LEMMA StoreNumberBehind ==
    ASSUME NEW c \in Servers, TypeOK, TypeOK', AgreementInv(c), StoreNumber(c),
           NEW p \in Servers \ {c}, Behind(p, c)
    PROVE  Behind(p, c)'
<1>1. /\ coord[c].pc = "number" /\ coord[c].id = number[c]
      /\ number' = [number EXCEPT ![c] = number[c] + 1]
      /\ number[c] \in Nat /\ number \in [Servers -> Nat]
  BY DEF StoreNumber, AgreementInv, Fresh, TypeOK
<1>2. number'[c] = number[c] + 1 /\ number'[p] = number[p]
  BY <1>1
<1>3. Pending(p)' = Pending(p) /\ sport' = sport
  BY BroadcastIs DEF StoreNumber, Pending
<1>4. First(c) = 0 /\ First(c)' \in 0..1 /\ Begun(p)' = Begun(p)
  BY <1>1, <1>3 DEF First, Begun
<1> QED
  BY <1>2, <1>3, <1>4, PendingTypes DEF Behind

\* The COMMITs take the place of the first phase.
LEMMA PrecommittedBehind ==
    ASSUME NEW c \in Servers, TypeOK, TypeOK', Precommitted(c),
           NEW p \in Servers \ {c}, Behind(p, c)
    PROVE  Behind(p, c)'
<1> DEFINE m == [type |-> "COMMIT", req |-> coord[c].req, kind |-> coord[c].kind,
                 id |-> coord[c].id, from |-> c, to |-> p]
           more == Pending(p) \cup {m}
<1>1. Pending(p)' \subseteq more
  BY DEF Precommitted, Broadcast, Pending
<1> HIDE DEF m
<1>2. IsFiniteSet(more) /\ Cardinality(more) <= Cardinality(Pending(p)) + 1
  <2>1. /\ IsFiniteSet(Pending(p)) /\ Cardinality(Pending(p)) \in Nat
    BY FS_CardinalityType DEF Behind
  <2> QED
    BY <2>1, FS_AddElement
<1> HIDE DEF more
<1>3. /\ IsFiniteSet(Pending(p)') /\ Cardinality(Pending(p)') \in Nat
      /\ Cardinality(Pending(p)') <= Cardinality(Pending(p)) + 1
  <2>1. /\ IsFiniteSet(Pending(p)') /\ Cardinality(Pending(p)') <= Cardinality(more)
    BY <1>1, <1>2, FS_Subset
  <2> QED
    BY <1>2, <2>1, FS_CardinalityType DEF Behind
<1>4. UNCHANGED <<number, sport>>
  BY DEF Precommitted, disk
<1>5. coord'[c].pc = "commit" /\ coord[c].pc = "precommit"
  BY DEF Precommitted, TypeOK, CoordType
<1>6. First(c) = 1 /\ First(c)' = 0 /\ Begun(p)' = Begun(p)
  BY <1>4, <1>5 DEF First, Begun
<1> QED
  BY <1>3, <1>4, <1>6, PendingTypes DEF Behind

\* The participant that takes a COMMIT ...
LEMMA BeginCommitBehind ==
    ASSUME NEW c \in Servers, TypeOK, TypeOK', NEW m \in calls, BeginCommit(m),
           NEW p \in Servers \ {c}, Behind(p, c)
    PROVE  Behind(p, c)'
<1>1. /\ calls' = calls \ {m} /\ m.type = "COMMIT" /\ sport[m.to].pc = "idle"
      /\ UNCHANGED <<number, coord>>
  BY DEF BeginCommit, Take, disk
<1>2. CASE p # m.to
  <2>1. sport'[p] = sport[p]
    BY <1>2 DEF BeginCommit, TypeOK
  <2>2. Pending(p)' \subseteq Pending(p)
    BY <1>1 DEF Pending
  <2>3. number'[c] = number[c] /\ number[c] \in Nat /\ number'[p] = number[p]
    BY <1>1 DEF TypeOK
  <2>4. OwesLess(p, c)
    BY <1>1, <2>1, <2>2, <2>3 DEF OwesLess
  <2> QED
    BY <2>4, OwesLessBehind
<1>3. CASE p = m.to
  <2>1. sport'[p].pc = "begun" /\ sport'[p].num = number[p]
    BY <1>3 DEF BeginCommit, TypeOK
  <2>2. Pending(p)' = Pending(p) \ {m} /\ m \in Pending(p)
    BY <1>1, <1>3 DEF Pending
  <2>3. IsFiniteSet(Pending(p)') /\ Cardinality(Pending(p)') = Cardinality(Pending(p)) - 1
    BY <2>2, FS_RemoveElement DEF Behind
  <2>4. Begun(p) = 0 /\ Begun(p)' = 1 /\ First(c)' = First(c)
    BY <1>1, <1>3, <2>1 DEF Begun, First
  <2> QED
    BY <1>1, <2>1, <2>3, <2>4, PendingTypes DEF Behind
<1> QED
  BY <1>2, <1>3

\* ... uses one number, if it gets that far.
LEMMA NumberUsedBehind ==
    ASSUME NEW c \in Servers, TypeOK, TypeOK', NEW p \in Servers \ {c}, Behind(p, c),
           sport[p].pc = "begun", sport'[p].pc # "begun",
           number'[p] \in {number[p], sport[p].num + 1}, number'[c] = number[c],
           coord'[c].pc = "precommit" => coord[c].pc = "precommit",
           Pending(p)' \subseteq Pending(p)
    PROVE  Behind(p, c)'
<1>1. /\ IsFiniteSet(Pending(p)')
      /\ Cardinality(Pending(p)') \in Nat
      /\ Cardinality(Pending(p)') <= Cardinality(Pending(p))
  BY FS_Subset, FS_CardinalityType DEF Behind
<1>2. number'[p] \in {number[p], number[p] + 1}
  BY DEF Behind
<1>3. Begun(p) = 1 /\ Begun(p)' = 0 /\ First(c)' \in 0..1 /\ First(c)' <= First(c)
  BY DEF Begun, First
<1> HIDE DEF Pending
<1> QED
  BY <1>1, <1>2, <1>3, PendingTypes DEF Behind

\* The other steps: what is on the way to p, what p has begun and the first
\* phase end, or stay.
LEMMA OthersOwe ==
    ASSUME NEW c \in Servers, Single(c), TypeOK, TypeOK', AgreementInv(c),
           NEW p \in Servers \ {c}, [Next]_vars, ~StoreNumber(c),
           ~Precommitted(c), \A m \in calls : ~BeginCommit(m),
           ~LocalWrite(p), ~LocalStorageFault(p)
    PROVE  OwesLess(p, c)
<1> DEFINE Kept == /\ Pending(p)' \subseteq Pending(p)
                   /\ number'[p] = number[p]
                   /\ sport'[p].pc = "begun" =>
                        sport[p].pc = "begun" /\ sport'[p].num = sport[p].num
                   /\ coord'[c].pc = "precommit" => coord[c].pc = "precommit"
                   /\ number'[c] = number[c] \/ number'[c] = number[c] + 1
<1>t. /\ number \in [Servers -> Nat] /\ coord \in [Servers -> CoordType]
      /\ sport \in [Servers -> SportType]
  BY DEF TypeOK
<1>p. ASSUME NEW new, calls' \subseteq calls \cup new,
             \A m \in new : m.type = "UNSUCCESSFUL"
      PROVE  Pending(p)' \subseteq Pending(p)
  BY <1>p DEF Pending
<1>q. ASSUME calls' \subseteq calls PROVE Pending(p)' \subseteq Pending(p)
  BY <1>q DEF Pending
<1>f. ASSUME NEW id, NEW kind, NEW req,
             calls' \subseteq calls \cup Broadcast("UNSUCCESSFUL", c, req, kind, id)
      PROVE  Pending(p)' \subseteq Pending(p)
  BY <1>f, <1>p, BroadcastIs
<1>u. ASSUME UNCHANGED <<number, sport, coord>>, calls' \subseteq calls
      PROVE  Kept
  BY <1>u, <1>q
<1>1. ASSUME Request(c) PROVE Kept
  <2>1. CASE WriteRequest(c)
    BY <1>t, <1>q, <2>1 DEF WriteRequest, disk, net
  <2>2. CASE \E id \in 0..MaxRequests : ReplaceRequest(c, id)
    BY <2>2 DEF ReplaceRequest, Single
  <2>3. CASE MalformedRequest(c)
    BY <1>f, <2>3 DEF MalformedRequest, disk
  <2> QED
    BY <1>1, <2>1, <2>2, <2>3 DEF Request
<1>2. ASSUME CoordinatorStep(c) PROVE Kept
  <2>1. CASE Committed(c) \/ ApplyWrite(c) \/ Flush(c)
    BY <1>t, <1>q, <2>1 DEF Committed, ApplyWrite, Flush, disk, net, CoordType,
                            IdleCoord
  <2>2. CASE Abort(c)
    BY <1>t, <1>f, <2>2 DEF Abort, Fail, IdleCoord, disk
  <2>3. CASE ApplyReplace(c)
    BY <2>3 DEF ApplyReplace, AgreementInv, Roles
  <2> QED
    BY <1>2, <2>1, <2>2, <2>3 DEF CoordinatorStep
<1>3. ASSUME NEW q \in Servers, LocalStep(q) PROVE Kept
  <2>1. q \in Busy /\ q \in Peers[c] /\ q # c /\ sport[q].kind = "WRITE"
    BY <1>3, ServersAssumption DEF LocalStep, LocalWrite, LocalReplace,
       FinishCommit, Busy, AgreementInv, Roles
  <2>2. CASE LocalWrite(q)
    <3>1. p # q
      BY <2>2
    <3> QED
      BY <1>t, <1>q, <2>1, <2>2, <3>1 DEF LocalWrite, net
  <2>3. CASE FinishCommit(q)
    BY <1>t, <1>q, <2>3 DEF FinishCommit, IdleSport, disk
  <2> QED
    BY <1>3, <2>1, <2>2, <2>3 DEF LocalStep, LocalReplace
<1>4. ASSUME NEW m \in calls, Deliver(m) PROVE Kept
  BY <1>4, <1>u DEF Deliver, Precommit, Unsuccessful, Refused, Take, Undo, disk
<1>5. ASSUME NEW m \in replies, ReceiveReply(m) PROVE Kept
  BY <1>5, <1>u DEF ReceiveReply, Undo, disk
<1>d. ASSUME NEW s \in Servers, Dies(s), number'[p] = number[p],
             number'[c] = number[c]
      PROVE  Kept
  <2>1. sport'[p].pc = "begun" =>
          sport[p].pc = "begun" /\ sport'[p].num = sport[p].num
    BY <1>t, <1>d DEF Dies, IdleSport, SportType
  <2>2. coord'[c].pc = "precommit" => coord[c].pc = "precommit"
    BY <1>t, <1>d DEF Dies, IdleCoord
  <2>3. calls' \subseteq calls
    BY <1>d DEF Dies
  <2> QED
    BY <1>d, <1>q, <2>1, <2>2, <2>3
<1>6. ASSUME FaultStep PROVE Kept
  <2>1. ASSUME NEW s \in Servers, StorageFault(s) PROVE Kept
    <3>1. s = c /\ coord[c].id = number[c]
      BY <2>1 DEF StorageFault, AgreementInv, Roles, Fresh
    <3>2. \E id : Fail(c, id)
      BY <2>1, <3>1 DEF StorageFault
    <3>3. coord'[c].pc = "idle" /\ Pending(p)' \subseteq Pending(p)
      BY <1>t, <1>f, <3>2 DEF Fail, IdleCoord
    <3>4. number' = number \/ number' = [number EXCEPT ![c] = coord[c].id + 1]
      BY <2>1, <3>1 DEF StorageFault
    <3>5. sport' = sport
      BY <2>1 DEF StorageFault
    <3> QED
      BY <1>t, <3>1, <3>3, <3>4, <3>5
  <2>2. ASSUME NEW s \in Servers, LocalStorageFault(s) PROVE Kept
    <3>1. s # p /\ s # c
      BY <2>2, ServersAssumption DEF LocalStorageFault, Busy, AgreementInv, Roles
    <3>2. number'[p] = number[p] /\ number'[c] = number[c]
      BY <1>t, <2>2, <3>1 DEF LocalStorageFault
    <3>3. CASE Dies(s)
      BY <1>d, <3>2, <3>3
    <3>4. CASE ~Dies(s)
      <4>1. sport' = [sport EXCEPT ![s] = IdleSport] /\ UNCHANGED <<coord, calls>>
        BY <2>2, <3>4 DEF LocalStorageFault
      <4> QED
        BY <1>t, <1>q, <3>1, <3>2, <4>1
    <3> QED
      BY <3>3, <3>4
  <2>3. ASSUME NEW s \in Servers, Crash(s) PROVE Kept
    BY <1>d, <2>3 DEF Crash, disk
  <2>4. ASSUME \/ \E s \in Servers : Restart(s)
               \/ \E m \in calls \cup replies : Lose(m)
        PROVE  Kept
    BY <1>u, <2>4 DEF Restart, Lose, disk, net
  <2> QED
    BY <1>6, <2>1, <2>2, <2>3, <2>4 DEF FaultStep
<1>7. ASSUME UNCHANGED vars PROVE Kept
  BY <1>7, <1>u DEF vars, disk, net
<1>8. Kept
  <2>1. ASSUME NEW d \in Coordinators, Request(d) \/ CoordinatorStep(d) PROVE Kept
    BY <1>1, <1>2, <2>1 DEF Single
  <2> HIDE DEF Kept
  <2> QED
    BY <1>3, <1>4, <1>5, <1>6, <1>7, <2>1 DEF Next
<1>9. number[c] \in Nat
  BY <1>t
<1> HIDE DEF Pending
<1> QED
  BY <1>8, <1>9 DEF OwesLess

LEMMA BehindStep ==
    ASSUME NEW c \in Servers, Single(c), TypeOK, TypeOK', AgreementInv(c),
           AllBehind(c), [Next]_vars
    PROVE  AllBehind(c)'
<1> SUFFICES ASSUME NEW p \in Servers \ {c} PROVE Behind(p, c)'
  BY DEF AllBehind
<1>1. Behind(p, c) /\ number \in [Servers -> Nat]
  BY DEF AllBehind, TypeOK
<1>2. CASE StoreNumber(c)
  BY <1>1, <1>2, StoreNumberBehind
<1>3. CASE Precommitted(c)
  BY <1>1, <1>3, PrecommittedBehind
<1>4. CASE \E m \in calls : BeginCommit(m)
  BY <1>1, <1>4, BeginCommitBehind
<1>5. CASE LocalWrite(p)
  <2>1. /\ sport[p].pc = "begun" /\ sport'[p].pc # "begun"
        /\ number'[p] = sport[p].num + 1 /\ number'[c] = number[c]
        /\ UNCHANGED <<coord, calls>>
    BY <1>1, <1>5 DEF LocalWrite, net, TypeOK, SportType
  <2>2. Pending(p)' \subseteq Pending(p)
    BY <2>1 DEF Pending
  <2> QED
    BY <1>1, <2>1, <2>2, NumberUsedBehind
<1>6. CASE LocalStorageFault(p)
  <2>1. /\ sport[p].pc = "begun" /\ number'[p] \in {number[p], sport[p].num + 1}
        /\ number'[c] = number[c]
    BY <1>1, <1>6 DEF LocalStorageFault
  <2>2. Dies(p) \/ (sport' = [sport EXCEPT ![p] = IdleSport] /\ UNCHANGED <<coord, calls>>)
    BY <1>6 DEF LocalStorageFault
  <2>3. sport'[p].pc # "begun"
    <3>1. sport \in [Servers -> SportType]
      BY DEF TypeOK
    <3>2. sport'[p] = IdleSport
      BY <2>2, <3>1 DEF Dies
    <3> QED
      BY <3>2 DEF IdleSport
  <2>4. coord'[c].pc = "precommit" => coord[c].pc = "precommit"
    BY <2>2 DEF Dies, TypeOK
  <2>5. Pending(p)' \subseteq Pending(p)
    BY <2>2 DEF Dies, Pending
  <2> QED
    BY <1>1, <2>1, <2>3, <2>4, <2>5, NumberUsedBehind
<1>7. CASE /\ ~StoreNumber(c) /\ ~Precommitted(c)
           /\ \A m \in calls : ~BeginCommit(m)
           /\ ~LocalWrite(p) /\ ~LocalStorageFault(p)
  BY <1>1, <1>7, OthersOwe, OwesLessBehind
<1> QED
  BY <1>2, <1>3, <1>4, <1>5, <1>6, <1>7

LEMMA BehindAlways ==
    ASSUME NEW c \in Servers, Single(c)
    PROVE  Spec => [](TypeOK /\ AgreementInv(c) /\ AllBehind(c))
<1>1. Init => AllBehind(c)
  <2> SUFFICES ASSUME Init, NEW p \in Servers PROVE Behind(p, c)
    BY DEF AllBehind
  <2>1. Pending(p) = {} /\ Begun(p) = 0 /\ First(c) = 0
    BY DEF Init, Pending, Begun, First, IdleSport, IdleCoord
  <2> QED
    BY <2>1, FS_EmptySet DEF Init, Behind, IdleSport
<1>2. TypeOK /\ TypeOK' /\ AgreementInv(c) /\ AllBehind(c) /\ [Next]_vars
        => AllBehind(c)'
  BY BehindStep
<1>3. Spec => []AgreementInv(c)
  BY Agreement
<1> QED
  BY <1>1, <1>2, <1>3, TypeCorrect, PTL DEF Spec

\* No server's next message number is ahead of the coordinator's.
THEOREM NumbersBehind ==
    ASSUME NEW c \in Servers, Single(c)
    PROVE  Spec => []ReplicaNumberBehind
<1>1. TypeOK /\ AllBehind(c) => ReplicaNumberBehind
  <2> SUFFICES ASSUME TypeOK, AllBehind(c), NEW p \in Servers
               PROVE  number[p] <= number[c]
    BY DEF ReplicaNumberBehind, Single
  <2>1. CASE p = c
    BY <2>1 DEF TypeOK
  <2>2. CASE p # c
    <3>1. Behind(p, c)
      BY <2>2 DEF AllBehind
    <3> QED
      BY <3>1, PendingTypes DEF Behind
  <2> QED
    BY <2>1, <2>2
<1>2. Spec => [](TypeOK /\ AgreementInv(c) /\ AllBehind(c))
  BY BehindAlways
<1> QED
  BY <1>1, <1>2, PTL

-----------------------------------------------------------------------------
(* The boards. *)

Distinct(b) == \A i, j \in 1..Len(b) : b[i].id = b[j].id => i = j

Below(b, n) == \A i \in 1..Len(b) : b[i].id < n

\* A record with an id above all others is added.
LEMMA AppendDistinct ==
    ASSUME NEW b \in Seq(LineType), NEW line \in LineType, NEW n \in Nat,
           Distinct(b), Below(b, line.id), line.id < n
    PROVE  Distinct(Append(b, line)) /\ Below(Append(b, line), n)
<1>1. /\ Len(b) \in Nat /\ Len(Append(b, line)) = Len(b) + 1
      /\ \A i \in 1..Len(b) : Append(b, line)[i] = b[i]
      /\ Append(b, line)[Len(b) + 1] = line
  BY AppendProperties
<1>2. \A i \in 1..Len(b) : b[i].id \in Int
  <2>1. \A i \in 1..Len(b) : b[i] \in LineType
    BY ElementOfSeq
  <2> QED
    BY <2>1 DEF LineType
<1>3. line.id \in Int
  BY DEF LineType
<1> DEFINE d == Append(b, line)
<1>4. \A i \in 1..Len(d) : i \in 1..Len(b) \/ (i = Len(b) + 1 /\ d[i] = line)
  BY <1>1
<1>5. \A i \in 1..Len(b) : d[i] = b[i]
  BY <1>1
<1> HIDE DEF d
<1>6. Below(d, n)
  BY <1>2, <1>3, <1>4, <1>5 DEF Below
<1>7. Distinct(d)
  BY <1>2, <1>3, <1>4, <1>5 DEF Below, Distinct
<1> QED
  BY <1>6, <1>7 DEF d

\* A board is cut at the end of one of its lines.
LEMMA TruncateDistinct ==
    ASSUME NEW b \in Seq(LineType), NEW n \in Nat, Distinct(b), Below(b, n),
           NEW pos \in Seq(LineType), Stands(b, pos)
    PROVE  Distinct(Truncate(b, pos)) /\ Below(Truncate(b, pos), n)
<1>1. Truncate(b, pos) = pos
  BY DEF Truncate
<1>2. \A i \in 1..Len(pos) : i \in 1..Len(b) /\ pos[i] = b[i]
  BY StandingLines
<1> QED
  BY <1>1, <1>2 DEF Distinct, Below

\* The board of a peer: what would be undone is its end.
PeerBoard(p) ==
    /\ Distinct(board[p]) /\ Below(board[p], number[p])
    /\ sport[p].pc = "applied" => Stands(board[p], sport[p].pos)
    /\ undo[p].kind # "REPLACE"
    /\ undo[p].kind = "WRITE" => Stands(board[p], undo[p].pos)

\* The board of c: it is as it was when the request came.
OwnBoard(c) ==
    /\ Distinct(board[c]) /\ Below(board[c], number[c])
    /\ undo[c].kind = "NONE"
    /\ coord[c].pc # "idle" => Below(board[c], coord[c].id)
    /\ coord[c].pc = "flush" => coord[c].pos = board[c]

Boards(c) == OwnBoard(c) /\ \A p \in Servers \ {c} : PeerBoard(p)

LEMMA BoardTypes ==
    ASSUME TypeOK, NEW s \in Servers
    PROVE  /\ board[s] \in Seq(LineType) /\ board \in [Servers -> Seq(LineType)]
           /\ Len(board[s]) \in Nat
           /\ \A i \in 1..Len(board[s]) : board[s][i].id \in Int
           /\ number[s] \in Nat /\ number \in [Servers -> Nat]
           /\ coord[s] \in CoordType /\ coord \in [Servers -> CoordType]
           /\ sport[s] \in SportType /\ sport \in [Servers -> SportType]
           /\ undo[s].pos \in Seq(LineType)
           /\ undo \in [Servers -> [kind : {"NONE", "WRITE", "REPLACE"}, pos : Seq(LineType)]]
<1>1. board[s] \in Seq(LineType)
  BY DEF TypeOK
<1>2. \A i \in 1..Len(board[s]) : board[s][i] \in LineType
  BY <1>1, ElementOfSeq
<1> QED
  BY <1>1, <1>2, LenProperties DEF TypeOK, LineType

\* The board of p stays.
PeerStays(p) ==
    /\ board'[p] = board[p]
    /\ number'[p] >= number[p]
    /\ undo'[p] \in {undo[p], NoUndo}
    /\ sport'[p].pc = "applied" => sport[p].pc = "applied" /\ sport'[p].pos = sport[p].pos

LEMMA PeerStaysBoard ==
    ASSUME TypeOK, TypeOK', NEW p \in Servers, PeerBoard(p), PeerStays(p)
    PROVE  PeerBoard(p)'
<1>1. number'[p] \in Nat
  BY DEF TypeOK
<1>2. Below(board'[p], number'[p])
  BY <1>1, BoardTypes DEF PeerStays, PeerBoard, Below
<1> QED
  BY <1>2 DEF PeerStays, PeerBoard, Distinct, NoUndo

LEMMA LocalWriteBoard ==
    ASSUME TypeOK, TypeOK', NEW p \in Servers, NEW c \in Servers, PeerBoard(p),
           Behind(p, c), LocalWrite(p)
    PROVE  PeerBoard(p)'
<1> DEFINE line == Line(sport[p].num, sport[p].req)
<1>1. /\ board'[p] = Append(board[p], line) /\ number'[p] = sport[p].num + 1
      /\ sport[p].num = number[p]
      /\ sport'[p].pos = board[p] /\ undo' = undo
  BY BoardTypes DEF LocalWrite, Behind, SportType
<1>2. line \in LineType /\ line.id = number[p]
  BY <1>1, BoardTypes DEF Line, LineType, SportType
<1> HIDE DEF line
<1>3. Distinct(board'[p]) /\ Below(board'[p], number'[p])
  BY <1>1, <1>2, BoardTypes, AppendDistinct DEF PeerBoard
<1>4. Stands(board'[p], sport'[p].pos)
  BY <1>1, <1>2, BoardTypes, StandsSelf, StandsLonger
<1>5. undo[p].kind = "WRITE" => Stands(board'[p], undo[p].pos)
  BY <1>1, <1>2, BoardTypes, StandsLonger DEF PeerBoard
<1> QED
  BY <1>1, <1>3, <1>4, <1>5 DEF PeerBoard

LEMMA FinishCommitBoard ==
    ASSUME TypeOK, NEW p \in Servers, PeerBoard(p), sport[p].kind = "WRITE",
           FinishCommit(p)
    PROVE  PeerBoard(p)'
<1>1. /\ sport[p].pc = "applied" /\ sport'[p].pc = "idle"
      /\ undo'[p].kind = "WRITE" /\ undo'[p].pos = sport[p].pos
      /\ UNCHANGED <<board, number>>
  BY BoardTypes DEF FinishCommit, IdleSport, disk
<1> QED
  BY <1>1 DEF PeerBoard

LEMMA UndoBoard ==
    ASSUME TypeOK, NEW p \in Servers, PeerBoard(p), Undo(p), sport' = sport,
           sport[p].pc = "idle"
    PROVE  PeerBoard(p)'
<1>1. /\ undo'[p] = NoUndo /\ number' = number
      /\ board'[p] = IF undo[p].kind = "WRITE" THEN Truncate(board[p], undo[p].pos)
                     ELSE board[p]
  BY BoardTypes DEF Undo, PeerBoard
<1>2. Distinct(board'[p]) /\ Below(board'[p], number'[p])
  BY <1>1, BoardTypes, TruncateDistinct DEF PeerBoard
<1> QED
  BY <1>1, <1>2 DEF PeerBoard, NoUndo

\* The other steps leave the board of p.
LEMMA OthersLeavePeer ==
    ASSUME NEW c \in Servers, Single(c), TypeOK, TypeOK', AgreementInv(c),
           NEW p \in Servers \ {c}, Behind(p, c), [Next]_vars,
           ~LocalWrite(p), ~FinishCommit(p),
           \A m \in calls : m.to = p => ~Unsuccessful(m)
    PROVE  PeerStays(p)
<1>t. /\ number[p] \in Nat /\ number \in [Servers -> Nat]
      /\ board \in [Servers -> Seq(LineType)]
      /\ sport \in [Servers -> SportType] /\ sport[p] \in SportType
      /\ undo \in [Servers -> [kind : {"NONE", "WRITE", "REPLACE"}, pos : Seq(LineType)]]
  BY BoardTypes
<1>u. ASSUME /\ board'[p] = board[p] /\ number'[p] = number[p]
             /\ undo'[p] = undo[p] /\ sport'[p] = sport[p]
      PROVE  PeerStays(p)
  BY <1>t, <1>u DEF PeerStays
<1>1. ASSUME Request(c) PROVE PeerStays(p)
  BY <1>1, <1>u DEF Request, WriteRequest, ReplaceRequest, MalformedRequest, disk
<1>2. ASSUME CoordinatorStep(c) PROVE PeerStays(p)
  <2>1. ~ApplyReplace(c)
    BY DEF ApplyReplace, AgreementInv, Roles
  <2>2. CASE StoreNumber(c)
    BY <1>t, <1>u, <2>2 DEF StoreNumber
  <2>3. CASE Flush(c)
    BY <1>t, <1>u, <2>3 DEF Flush
  <2>4. CASE Precommitted(c) \/ Committed(c) \/ Abort(c) \/ ApplyWrite(c)
    BY <1>u, <2>4 DEF Precommitted, Committed, Abort, ApplyWrite, disk
  <2> QED
    BY <1>2, <2>1, <2>2, <2>3, <2>4 DEF CoordinatorStep
<1>3. ASSUME NEW q \in Servers, LocalStep(q) PROVE PeerStays(p)
  <2>1. sport[q].kind = "WRITE" /\ sport[q].pc # "idle"
    BY <1>3 DEF LocalStep, LocalWrite, LocalReplace, FinishCommit, Busy,
                AgreementInv, Roles
  <2>2. CASE LocalWrite(q)
    <3>1. p # q
      BY <2>2
    <3> QED
      BY <1>t, <1>u, <2>2, <3>1 DEF LocalWrite
  <2>3. CASE FinishCommit(q)
    <3>1. p # q
      BY <2>3
    <3> QED
      BY <1>t, <1>u, <2>3, <3>1 DEF FinishCommit, disk
  <2> QED
    BY <1>3, <2>1, <2>2, <2>3 DEF LocalStep, LocalReplace
<1>4. ASSUME NEW m \in calls, Deliver(m) PROVE PeerStays(p)
  <2>1. CASE Precommit(m) \/ Refused(m)
    BY <1>u, <2>1 DEF Precommit, Refused, disk
  <2>2. CASE BeginCommit(m)
    BY <1>t, <2>2 DEF BeginCommit, PeerStays, disk
  <2>3. CASE Unsuccessful(m)
    <3>1. p # m.to
      BY <2>3
    <3> QED
      BY <1>t, <1>u, <2>3, <3>1 DEF Unsuccessful, Undo
  <2> QED
    BY <1>4, <2>1, <2>2, <2>3 DEF Deliver
<1>5. ASSUME NEW m \in replies, ReceiveReply(m) PROVE PeerStays(p)
  <2>1. m.to = c
    BY DEF AgreementInv, Roles, Answers
  <2> QED
    BY <1>5, <1>t, <1>u, <2>1 DEF ReceiveReply, Undo, disk
<1>d. ASSUME NEW s \in Servers, Dies(s), board'[p] = board[p], number'[p] >= number[p]
      PROVE  PeerStays(p)
  <2>1. sport'[p].pc = "applied" =>
          sport[p].pc = "applied" /\ sport'[p].pos = sport[p].pos
    BY <1>t, <1>d DEF Dies, IdleSport, SportType
  <2>2. undo'[p] \in {undo[p], NoUndo}
    BY <1>t, <1>d DEF Dies
  <2> QED
    BY <1>d, <2>1, <2>2 DEF PeerStays
<1>6. ASSUME FaultStep PROVE PeerStays(p)
  <2>1. ASSUME NEW s \in Servers, StorageFault(s) PROVE PeerStays(p)
    <3>1. s = c
      BY <2>1 DEF StorageFault, AgreementInv, Roles
    <3> QED
      BY <1>t, <1>u, <2>1, <3>1 DEF StorageFault
  <2>2. ASSUME NEW s \in Servers, LocalStorageFault(s) PROVE PeerStays(p)
    <3>1. number'[p] >= number[p] /\ board' = board
      <4>1. /\ sport[s].pc = "begun" /\ board' = board
            /\ number' = number \/ number' = [number EXCEPT ![s] = sport[s].num + 1]
        BY <2>2 DEF LocalStorageFault
      <4>2. s = p => sport[s].num = number[p]
        BY <4>1 DEF Behind
      <4>3. number'[p] \in {number[p], number[p] + 1}
        BY <1>t, <4>1, <4>2
      <4> QED
        BY <1>t, <4>1, <4>3
    <3>2. CASE Dies(s)
      BY <1>d, <3>1, <3>2
    <3>3. CASE ~Dies(s)
      <4>1. sport' = [sport EXCEPT ![s] = IdleSport] /\ undo' = undo
        BY <2>2, <3>3 DEF LocalStorageFault
      <4>2. sport'[p].pc = "applied" => sport'[p] = sport[p]
        BY <1>t, <4>1 DEF IdleSport
      <4> QED
        BY <3>1, <4>1, <4>2 DEF PeerStays
    <3> QED
      BY <3>2, <3>3
  <2>3. ASSUME NEW s \in Servers, Crash(s) PROVE PeerStays(p)
    BY <1>t, <1>d, <2>3 DEF Crash, disk
  <2>4. ASSUME \/ \E s \in Servers : Restart(s)
               \/ \E m \in calls \cup replies : Lose(m)
        PROVE  PeerStays(p)
    BY <1>u, <2>4 DEF Restart, Lose, disk
  <2> QED
    BY <1>6, <2>1, <2>2, <2>3, <2>4 DEF FaultStep
<1>7. ASSUME UNCHANGED vars PROVE PeerStays(p)
  BY <1>7, <1>u DEF vars, disk
<1>8. ASSUME NEW d \in Coordinators, Request(d) \/ CoordinatorStep(d)
      PROVE  PeerStays(p)
  BY <1>1, <1>2, <1>8 DEF Single
<1> QED
  BY <1>3, <1>4, <1>5, <1>6, <1>7, <1>8 DEF Next

LEMMA PeerBoardStep ==
    ASSUME NEW c \in Servers, Single(c), TypeOK, TypeOK', AgreementInv(c),
           NEW p \in Servers \ {c}, Behind(p, c), PeerBoard(p), [Next]_vars
    PROVE  PeerBoard(p)'
<1>1. CASE LocalWrite(p)
  BY <1>1, LocalWriteBoard
<1>2. CASE FinishCommit(p)
  <2>1. sport[p].kind = "WRITE"
    BY <1>2 DEF FinishCommit, Busy, AgreementInv, Roles
  <2> QED
    BY <1>2, <2>1, FinishCommitBoard
<1>3. ASSUME NEW m \in calls, m.to = p, Unsuccessful(m) PROVE PeerBoard(p)'
  BY <1>3, UndoBoard DEF Unsuccessful, Take
<1> QED
  BY <1>1, <1>2, <1>3, OthersLeavePeer, PeerStaysBoard

\* The board of c stays, and so does the request it is at work on, or ends.
OwnStays(c) ==
    /\ board'[c] = board[c]
    /\ number'[c] >= number[c]
    /\ undo'[c].kind = "NONE"
    /\ coord'[c].pc # "idle" => coord[c].pc # "idle" /\ coord'[c].id = coord[c].id
    /\ coord'[c].pc = "flush" =>
          coord[c].pc = "flush" /\ coord'[c].pos = coord[c].pos

LEMMA OwnStaysBoard ==
    ASSUME TypeOK, TypeOK', NEW c \in Servers, OwnBoard(c), OwnStays(c)
    PROVE  OwnBoard(c)'
<1>1. number'[c] \in Nat
  BY DEF TypeOK
<1>2. Below(board'[c], number'[c])
  BY <1>1, BoardTypes DEF OwnStays, OwnBoard, Below
<1> QED
  BY <1>2 DEF OwnStays, OwnBoard, Distinct

\* The next number is above all ids of the board.
LEMMA WriteRequestBoard ==
    ASSUME TypeOK, NEW c \in Servers, OwnBoard(c), WriteRequest(c)
    PROVE  OwnBoard(c)'
<1>1. /\ coord'[c].pc = "number" /\ coord'[c].id = number[c]
      /\ UNCHANGED <<board, number, undo>>
  BY BoardTypes DEF WriteRequest, disk
<1> QED
  BY <1>1 DEF OwnBoard

LEMMA ApplyWriteBoard ==
    ASSUME TypeOK, NEW c \in Servers, OwnBoard(c), ApplyWrite(c)
    PROVE  OwnBoard(c)'
<1>1. /\ coord[c].pc = "apply" /\ coord'[c].pc = "flush"
      /\ coord'[c].id = coord[c].id /\ coord'[c].pos = board[c]
      /\ UNCHANGED <<board, number, undo>>
  BY BoardTypes DEF ApplyWrite, CoordType, disk
<1> QED
  BY <1>1 DEF OwnBoard

\* The record is added at the end, where it was sought.
LEMMA FlushBoard ==
    ASSUME TypeOK, NEW c \in Servers, AgreementInv(c), OwnBoard(c), Flush(c)
    PROVE  OwnBoard(c)'
<1> DEFINE line == Line(coord[c].id, coord[c].req)
<1>1. /\ coord[c].pc = "flush" /\ coord[c].kind = "WRITE"
      /\ coord[c].id < number[c] /\ coord[c].pos = board[c]
      /\ Below(board[c], coord[c].id)
  BY DEF Flush, AgreementInv, Roles, Fresh, OwnBoard
<1>2. /\ coord'[c].pc = "idle" /\ undo'[c].kind = "NONE" /\ number' = number
      /\ board'[c] = WriteAt(board[c], coord[c].pos, line)
  BY <1>1, BoardTypes DEF Flush, IdleCoord, NoUndo
<1>3. line \in LineType /\ line.id = coord[c].id
  BY BoardTypes DEF Line, LineType, CoordType
<1> HIDE DEF line
<1>4. board'[c] = Append(board[c], line)
  BY <1>1, <1>2, BoardTypes DEF WriteAt
<1>5. Distinct(board'[c]) /\ Below(board'[c], number'[c])
  BY <1>1, <1>2, <1>3, <1>4, BoardTypes, AppendDistinct DEF OwnBoard
<1> QED
  BY <1>2, <1>5 DEF OwnBoard

\* The other steps leave the board of c.
LEMMA OthersLeaveOwn ==
    ASSUME NEW c \in Servers, Single(c), TypeOK, TypeOK', AgreementInv(c),
           OwnBoard(c), [Next]_vars, ~WriteRequest(c), ~ApplyWrite(c), ~Flush(c)
    PROVE  OwnStays(c)
<1>t. /\ number[c] \in Nat /\ number \in [Servers -> Nat]
      /\ board \in [Servers -> Seq(LineType)]
      /\ coord \in [Servers -> CoordType] /\ coord[c] \in CoordType
      /\ undo \in [Servers -> [kind : {"NONE", "WRITE", "REPLACE"}, pos : Seq(LineType)]]
      /\ undo[c].kind = "NONE"
  BY BoardTypes DEF OwnBoard
<1>u. ASSUME /\ board'[c] = board[c] /\ number'[c] = number[c]
             /\ undo'[c] = undo[c] /\ coord'[c] = coord[c]
      PROVE  OwnStays(c)
  BY <1>t, <1>u DEF OwnStays
<1>i. ASSUME /\ board'[c] = board[c] /\ number'[c] >= number[c]
             /\ undo'[c].kind = "NONE" /\ coord'[c].pc = "idle"
      PROVE  OwnStays(c)
  BY <1>i DEF OwnStays
<1>1. ASSUME Request(c) PROVE OwnStays(c)
  <2>1. CASE \E id \in 0..MaxRequests : ReplaceRequest(c, id)
    BY <2>1 DEF ReplaceRequest, Single
  <2>2. CASE MalformedRequest(c)
    BY <1>u, <2>2 DEF MalformedRequest, disk
  <2> QED
    BY <1>1, <2>1, <2>2 DEF Request
<1>2. ASSUME CoordinatorStep(c) PROVE OwnStays(c)
  <2>1. ~ApplyReplace(c)
    BY DEF ApplyReplace, AgreementInv, Roles
  <2>2. CASE StoreNumber(c)
    <3>1. number'[c] = number[c] + 1 /\ board' = board /\ undo' = undo
      BY <1>t, <2>2 DEF StoreNumber, AgreementInv, Fresh
    <3>2. coord[c].pc = "number" /\ coord' = [coord EXCEPT ![c].pc = "precommit"]
      BY <2>2 DEF StoreNumber
    <3> QED
      BY <1>t, <3>1, <3>2 DEF OwnStays, CoordType
  <2>3. CASE Precommitted(c) \/ Committed(c)
    <3>1. \E pc \in {"commit", "apply"} : coord' = [coord EXCEPT ![c].pc = pc]
      BY <2>3 DEF Precommitted, Committed
    <3>2. coord[c].pc # "idle" /\ UNCHANGED <<board, number, undo>>
      BY <2>3 DEF Precommitted, Committed, disk
    <3> QED
      BY <1>t, <3>1, <3>2 DEF OwnStays, CoordType
  <2>4. CASE Abort(c)
    BY <1>t, <1>i, <2>4 DEF Abort, Fail, IdleCoord, disk
  <2> QED
    BY <1>2, <2>1, <2>2, <2>3, <2>4 DEF CoordinatorStep
<1>3. ASSUME NEW q \in Servers, LocalStep(q) PROVE OwnStays(c)
  <2>1. sport[q].kind = "WRITE" /\ q # c
    BY <1>3, ServersAssumption DEF LocalStep, LocalWrite, LocalReplace,
       FinishCommit, Busy, AgreementInv, Roles
  <2>2. CASE LocalWrite(q)
    BY <1>t, <1>u, <2>1, <2>2 DEF LocalWrite
  <2>3. CASE FinishCommit(q)
    BY <1>t, <1>u, <2>1, <2>3 DEF FinishCommit, disk
  <2> QED
    BY <1>3, <2>1, <2>2, <2>3 DEF LocalStep, LocalReplace
<1>4. ASSUME NEW m \in calls, Deliver(m) PROVE OwnStays(c)
  <2>1. m.to # c
    BY ServersAssumption DEF AgreementInv, Roles
  <2>2. CASE Precommit(m) \/ Refused(m) \/ BeginCommit(m)
    BY <1>u, <2>2 DEF Precommit, Refused, BeginCommit, disk
  <2>3. CASE Unsuccessful(m)
    BY <1>t, <1>u, <2>1, <2>3 DEF Unsuccessful, Undo
  <2> QED
    BY <1>4, <2>2, <2>3 DEF Deliver
<1>5. ASSUME NEW m \in replies, ReceiveReply(m) PROVE OwnStays(c)
  <2>1. m.to = c
    BY DEF AgreementInv, Roles, Answers
  <2>2. CASE Undo(c)
    <3>1. board'[c] = board[c] /\ number' = number /\ undo'[c].kind = "NONE"
      BY <1>t, <2>2 DEF Undo, NoUndo
    <3> QED
      BY <1>5, <1>t, <3>1 DEF ReceiveReply, OwnStays
  <2>3. CASE ~Undo(c)
    BY <1>5, <1>u, <2>1, <2>3 DEF ReceiveReply, disk
  <2> QED
    BY <2>2, <2>3
<1>d. ASSUME NEW s \in Servers, Dies(s), board'[c] = board[c], number'[c] = number[c]
      PROVE  OwnStays(c)
  <2>1. coord'[c] \in {coord[c], IdleCoord}
    BY <1>t, <1>d DEF Dies
  <2>2. undo'[c] \in {undo[c], NoUndo}
    BY <1>t, <1>d DEF Dies
  <2> QED
    BY <1>d, <1>t, <2>1, <2>2 DEF OwnStays, IdleCoord, NoUndo
<1>6. ASSUME FaultStep PROVE OwnStays(c)
  <2>1. ASSUME NEW s \in Servers, StorageFault(s) PROVE OwnStays(c)
    <3>1. s = c /\ coord[c].id = number[c]
      BY <2>1 DEF StorageFault, AgreementInv, Roles, Fresh
    <3>2. \E id : Fail(c, id)
      BY <2>1, <3>1 DEF StorageFault
    <3>3. coord'[c].pc = "idle"
      BY <1>t, <3>2 DEF Fail, IdleCoord
    <3>4. /\ number' = number \/ number' = [number EXCEPT ![c] = coord[c].id + 1]
          /\ UNCHANGED <<board, undo>>
      BY <2>1, <3>1 DEF StorageFault
    <3>5. number'[c] >= number[c]
      BY <1>t, <3>1, <3>4
    <3> QED
      BY <1>t, <1>i, <3>3, <3>4, <3>5
  <2>2. ASSUME NEW s \in Servers, LocalStorageFault(s) PROVE OwnStays(c)
    <3>1. s # c
      BY <2>2, ServersAssumption DEF LocalStorageFault, Busy, AgreementInv, Roles
    <3>2. number'[c] = number[c] /\ board' = board
      BY <1>t, <2>2, <3>1 DEF LocalStorageFault
    <3>3. CASE Dies(s)
      BY <1>d, <3>2, <3>3
    <3>4. CASE ~Dies(s)
      BY <1>u, <2>2, <3>2, <3>4 DEF LocalStorageFault
    <3> QED
      BY <3>3, <3>4
  <2>3. ASSUME NEW s \in Servers, Crash(s) PROVE OwnStays(c)
    BY <1>d, <2>3 DEF Crash, disk
  <2>4. ASSUME \/ \E s \in Servers : Restart(s)
               \/ \E m \in calls \cup replies : Lose(m)
        PROVE  OwnStays(c)
    BY <1>u, <2>4 DEF Restart, Lose, disk
  <2> QED
    BY <1>6, <2>1, <2>2, <2>3, <2>4 DEF FaultStep
<1>7. ASSUME UNCHANGED vars PROVE OwnStays(c)
  BY <1>7, <1>u DEF vars, disk
<1>8. ASSUME NEW d \in Coordinators, Request(d) \/ CoordinatorStep(d)
      PROVE  OwnStays(c)
  BY <1>1, <1>2, <1>8 DEF Single
<1> QED
  BY <1>3, <1>4, <1>5, <1>6, <1>7, <1>8 DEF Next

LEMMA BoardsStep ==
    ASSUME NEW c \in Servers, Single(c), TypeOK, TypeOK', AgreementInv(c),
           AllBehind(c), Boards(c), [Next]_vars
    PROVE  Boards(c)'
<1>1. OwnBoard(c)'
  BY WriteRequestBoard, ApplyWriteBoard, FlushBoard, OthersLeaveOwn, OwnStaysBoard
     DEF Boards
<1>2. ASSUME NEW p \in Servers \ {c} PROVE PeerBoard(p)'
  BY PeerBoardStep DEF Boards, AllBehind
<1> QED
  BY <1>1, <1>2 DEF Boards

\* No two lines of a board carry the same id: for any peers, any number of
\* requests and any faults, with one coordinator and no REPLACE.
THEOREM IdsUnique ==
    ASSUME NEW c \in Servers, Single(c)
    PROVE  Spec => []UniqueIds
<1>1. Init => Boards(c)
  <2> SUFFICES ASSUME Init PROVE Boards(c)
    OBVIOUS
  <2>1. \A s \in Servers : board[s] = <<>> /\ undo[s] = NoUndo
    BY DEF Init
  <2>2. \A s \in Servers : Distinct(board[s]) /\ Below(board[s], number[s])
    BY <2>1 DEF Distinct, Below
  <2>3. \A s \in Servers : coord[s].pc = "idle" /\ sport[s].pc = "idle"
    BY DEF Init, IdleCoord, IdleSport
  <2> QED
    BY <2>1, <2>2, <2>3 DEF Boards, OwnBoard, PeerBoard, NoUndo
<1>2. TypeOK /\ TypeOK' /\ AgreementInv(c) /\ AllBehind(c) /\ Boards(c) /\ [Next]_vars
        => Boards(c)'
  BY BoardsStep
<1>3. TypeOK /\ Boards(c) => UniqueIds
  <2> SUFFICES ASSUME TypeOK, Boards(c), NEW s \in Servers
               PROVE  \A i, j \in DOMAIN board[s] :
                         board[s][i].id = board[s][j].id => i = j
    BY DEF UniqueIds
  <2>1. Distinct(board[s])
    BY DEF Boards, OwnBoard, PeerBoard
  <2>2. DOMAIN board[s] = 1..Len(board[s])
    BY BoardTypes
  <2> QED
    BY <2>1, <2>2 DEF Distinct
<1>4. Spec => [](TypeOK /\ AgreementInv(c) /\ AllBehind(c))
  BY BehindAlways
<1>5. Spec => []Boards(c)
  BY <1>1, <1>2, <1>4, PTL DEF Spec
<1> QED
  BY <1>3, <1>4, <1>5, PTL

=============================================================================
