------------------------------ MODULE RowStore ------------------------------
(***************************************************************************)
(* What a table promises: an inserted row gets an id of its own and is     *)
(* there, unchanged, whenever it is asked for.  At some moment it is       *)
(* saved; a crash takes the rows that are not, and no others.              *)
(***************************************************************************)
EXTENDS Naturals

CONSTANTS Files, RowIDs, Rows,
          NoRow,    \* what is under an id no row has been inserted under
          NoAnswer

VARIABLES
    rows,   \* the row of each id in each file
    saved,  \* the ids of the rows a crash leaves
    answer, \* what get_row has just returned: which row it was asked for, and the row
    crashes \* how many there were

vars == <<rows, saved, answer, crashes>>

Init ==
    /\ rows = [file \in Files |-> [id \in RowIDs |-> NoRow]]
    /\ saved = [file \in Files |-> {}]
    /\ answer = NoAnswer
    /\ crashes = 0

\* An id that had no row has one.
Insert ==
    /\ \E file \in Files, id \in RowIDs, row \in Rows :
         /\ rows[file][id] = NoRow
         /\ rows' = [rows EXCEPT ![file][id] = row]
    /\ UNCHANGED <<saved, answer, crashes>>

Get ==
    /\ \E file \in Files, id \in RowIDs :
         answer' = [file |-> file, id |-> id, row |-> rows[file][id]]
    /\ UNCHANGED <<rows, saved, crashes>>

\* More of all rows are saved; none is unsaved.
Saves(before, after, all) == \A file \in Files :
    /\ before[file] \subseteq after[file]
    /\ \A id \in after[file] : all[file][id] # NoRow

Save ==
    /\ Saves(saved, saved', rows)
    /\ answer' \in {answer, NoAnswer}
    /\ UNCHANGED <<rows, crashes>>

Crash ==
    /\ crashes' = crashes + 1
    /\ Saves(saved, saved', rows)
    /\ rows' = [file \in Files |-> [id \in RowIDs |->
                  IF id \in saved'[file] THEN rows[file][id] ELSE NoRow]]
    /\ answer' = NoAnswer

Next == Get \/ Crash \/ Save \/ Insert

Spec == Init /\ [][Next]_vars
=============================================================================
