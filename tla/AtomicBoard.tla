---------------------------- MODULE AtomicBoard ----------------------------
(***************************************************************************)
(* What the two-phase replication promises for a WRITE, without messages,  *)
(* answers or phases: the client is told WROTE only when every peer of its *)
(* coordinator has written the message, and the coordinator's own board    *)
(* gets no message whose client was not told so.  It promises nothing of a *)
(* request that fails: peers may have written it, and may write it later.  *)
(* Module Replication implements it with one coordinator.                  *)
(***************************************************************************)
EXTENDS Integers

CONSTANTS Servers, Peers, Coordinators, MaxRequests

VARIABLES
    asked,     \* number of requests so far
    told,      \* told[r]: what the client of request r was told
    written    \* written[s]: the requests that s has ever written

vars == <<asked, told, written>>

Init ==
    /\ asked = 0
    /\ told = [r \in 1..MaxRequests |-> "none"]
    /\ written = [s \in Servers |-> {}]

Ask ==
    /\ asked < MaxRequests
    /\ asked' = asked + 1
    /\ UNCHANGED <<told, written>>

\* A request that is refused as it comes.
Refuse ==
    /\ asked < MaxRequests
    /\ asked' = asked + 1
    /\ told' = [told EXCEPT ![asked + 1] = "error"]
    /\ UNCHANGED written

PeerWrites(p, r) ==
    /\ \E c \in Coordinators : p \in Peers[c]
    /\ written' = [written EXCEPT ![p] = @ \cup {r}]
    /\ UNCHANGED <<asked, told>>

\* The answer that binds the coordinator.
TellWrote(c, r) ==
    /\ told[r] = "none"
    /\ \A p \in Peers[c] : r \in written[p]
    /\ told' = [told EXCEPT ![r] = "wrote"]
    /\ UNCHANGED <<asked, written>>

\* The client is told of a failure, or loses its server.
TellFailure(r) ==
    /\ told[r] = "none"
    /\ \E what \in {"error", "lost"} : told' = [told EXCEPT ![r] = what]
    /\ UNCHANGED <<asked, written>>

CoordinatorWrites(c, r) ==
    /\ told[r] = "wrote"
    /\ written' = [written EXCEPT ![c] = @ \cup {r}]
    /\ UNCHANGED <<asked, told>>

Next ==
    \/ Ask \/ Refuse
    \/ \E r \in 1..asked :
          \/ \E p \in Servers : PeerWrites(p, r)
          \/ \E c \in Coordinators : TellWrote(c, r) \/ CoordinatorWrites(c, r)
          \/ TellFailure(r)

Spec == Init /\ [][Next]_vars

=============================================================================
