--------------------------- MODULE RowReconciliation ---------------------------
(***************************************************************************)
(* The Qt list models keep their rows across publications: applySnapshot   *)
(* removes the rows that are gone, and then goes through the new contents  *)
(* in order to insert, move or replace one row at a time, as views may     *)
(* hold on to the rows that stay.                                          *)
(*                                                                         *)
(* A row is a record with a field "key"; wanted are the new rows, and      *)
(* replaced the positions of wanted for which there is a new row object.   *)
(***************************************************************************)
EXTENDS Integers, Sequences, SequencesExt, Subsequences

HasKey(rows, key) == \E i \in DOMAIN rows : rows[i].key = key
RowOf(rows, key)  == CHOOSE i \in DOMAIN rows : rows[i].key = key

RemoveGone(rows, wanted) == Kept(rows, {i \in DOMAIN rows : HasKey(wanted, rows[i].key)})

MoveRow(rows, from, to) ==
    IF from = to THEN rows ELSE InsertAt(RemoveAt(rows, from), to, rows[from])

(* Mutant: rows that moved stay where they are.                            *)
PlaceInPlace(rows, wanted, replaced, i) ==
    IF ~HasKey(rows, wanted[i].key) THEN InsertAt(rows, i, wanted[i])
    ELSE IF i \in replaced THEN [rows EXCEPT ![RowOf(rows, wanted[i].key)] = wanted[i]]
    ELSE rows

PlaceRow(rows, wanted, replaced, i) ==
    IF ~HasKey(rows, wanted[i].key) THEN InsertAt(rows, i, wanted[i])
    ELSE LET moved == MoveRow(rows, RowOf(rows, wanted[i].key), i)
         IN  IF i \in replaced THEN [moved EXCEPT ![i] = wanted[i]] ELSE moved

(* stage[i] are the rows after the first i of wanted.                      *)
Reconcile(rows, wanted, replaced) ==
    LET stage[i \in 0..Len(wanted)] ==
            IF i = 0 THEN RemoveGone(rows, wanted)
            ELSE PlaceRow(stage[i - 1], wanted, replaced, i)
    IN  stage[Len(wanted)]
=============================================================================
