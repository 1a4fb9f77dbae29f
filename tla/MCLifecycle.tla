----------------------------- MODULE MCLifecycle -----------------------------
(* Instances of Lifecycle for TLC: command lines and config files in which  *)
(* options stand before and after -c, -c comes twice, and lines, peers and  *)
(* options may be malformed.                                                *)
EXTENDS Lifecycle, TLC

CONSTANTS board, none, hostA, hostB, noPort, default, second, broken, missing,
          MaxOrphans

MCDefaults == [bbfile |-> none, tmax |-> 1, daemon |-> 1]

MCFiles ==
    default :> <<Sets("tmax", 2), Lists(<<hostA>>)>> @@
    second  :> <<Sets("bbfile", board), Sets("tmax", 0), Sets("daemon", 1),
                 Lists(<<hostA, hostB>>)>> @@
    broken  :> <<Sets("bbfile", board), Bad>>

NamesBoard == Sets("bbfile", board)
Foreground == Sets("daemon", 0)

Command(o, a) == [options |-> o, arguments |-> a]

MCCommandLines ==
    {Command(<<Foreground, NamesBoard>>, <<hostB>>),
     Command(<<Foreground, Sets("tmax", 1), NamesBoard>>, <<>>),
     Command(<<Sets("tmax", 0), NamesBoard>>, <<>>),
     Command(<<Sets("tmax", 1), Names(second)>>, <<hostA, noPort>>),
     Command(<<Foreground, Names(second), Names(missing)>>, <<hostB>>),
     Command(<<Names(missing), Names(second)>>, <<>>),
     Command(<<NamesBoard, Names(broken)>>, <<>>),
     Command(<<NamesBoard, Usage>>, <<>>)}

\* A reload leaves at most MaxOrphans threads of the generation before, and
\* only a server with one agent on the b-port, or none, goes on after it.
SmallReload ==
    main.at = "make pool" /\ main.port = "s" /\ main.gen > 1 =>
        /\ Tmax <= 1
        /\ Cardinality({a \in AgentIds : agent[a].state \in {"ready", "busy"}}) +
           Cardinality({o \in Objects : ear[o].state = "polling"}) <= MaxOrphans

=============================================================================
