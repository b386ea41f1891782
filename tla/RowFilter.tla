----------------------------- MODULE RowFilter -----------------------------
(***************************************************************************)
(* What Prac3 computes, whoever computes it: the median filter of Slave()  *)
(* applied to the image as a whole.  Rows may be filtered in any order and *)
(* any number at a time, each once; the image is saved only when all of    *)
(* its rows are there; the program may give up before.  Images that are    *)
(* lower than some bound get rows of their own height, with any content.   *)
(***************************************************************************)
EXTENDS WindowRows

CONSTANTS
  Heights,
  ExactHeights       \* the heights for which the rows are filtered right

VARIABLES height, rows, phase

rfVars == <<height, rows, phase>>

Init ==
  /\ height = 0
  /\ rows = [k \in {} |-> OutOfBounds]
  /\ phase = "start"

Load ==
  /\ phase = "start"
  /\ height' \in Heights
  /\ phase' = "filter"
  /\ UNCHANGED rows

FilterRows(new) ==
  /\ phase = "filter"
  /\ DOMAIN rows' = DOMAIN rows \union new
  /\ \A y \in DOMAIN rows : rows'[y] = rows[y]
  /\ height \in ExactHeights => \A y \in new : rows'[y] = FilterRow(Image(height), height, y)
  /\ UNCHANGED <<height, phase>>

Save ==
  /\ phase = "filter"
  /\ DOMAIN rows = 0 .. height - 1
  /\ phase' = "saved"
  /\ UNCHANGED <<height, rows>>

GiveUp ==
  /\ phase \in {"start", "filter"}
  /\ phase' = "lost"
  /\ UNCHANGED <<height, rows>>

Next ==
  \/ Load \/ Save \/ GiveUp
  \/ \E new \in SUBSET (0 .. height - 1 \ DOMAIN rows) : FilterRows(new)

Spec == Init /\ [][Next]_rfVars
=============================================================================
