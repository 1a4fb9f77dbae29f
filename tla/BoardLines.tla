----------------------------- MODULE BoardLines -----------------------------
(***************************************************************************)
(* The content of a board file, and what WRITE, REPLACE and undo do to it. *)
(* A line is [id, text]; the text is the number of the request that wrote  *)
(* it.  The program seeks and cuts at byte offsets and records differ in   *)
(* length, so a position is the lines that lay before it when it was       *)
(* taken: in a file that does not begin with them any more it is somewhere *)
(* in a line, or beyond the end.                                           *)
(***************************************************************************)
EXTENDS Integers, Sequences

\* Bytes whose lines depend on the lengths of the records: pieces of lines,
\* lines that ran into each other, a hole.
Debris == [id |-> -1, text |-> 0]

Line(id, r) == [id |-> id, text |-> r]

\* A record that was seeked to pos and reaches the file later: it overwrites
\* what another descriptor has put there in the meantime.
WriteAt(b, pos, line) == IF b = pos THEN Append(b, line) ELSE <<Debris>>

\* The lines of pos are still the first ones of b.
Stands(b, pos) == Len(pos) <= Len(b) /\ SubSeq(b, 1, Len(pos)) = pos

\* truncate(): the file is exactly as long as pos afterwards.
Truncate(b, pos) == IF Stands(b, pos) THEN pos ELSE <<Debris>>

\* The ids a REPLACE would find on the board.
Ids(b) == {b[i].id : i \in DOMAIN b}

\* It is not known which lines, and which ids, the file has.
Torn(b) == Debris.id \in Ids(b)

Texts(b) == {b[i].text : i \in DOMAIN b}

\* replace_record: every line of that id is rewritten.
ReplaceRecord(b, id, r) ==
    [i \in DOMAIN b |-> IF b[i].id = id THEN Line(id, r) ELSE b[i]]

=============================================================================
