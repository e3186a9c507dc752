------------------------------- MODULE Flood -------------------------------
(***************************************************************************)
(* What flooding a background promises: starting from the open cells of    *)
(* the border, cell after cell is taken up in any order and its open       *)
(* neighbours are marked.  When no cell is left to take up, the marked     *)
(* cells are those connected with the border through open cells.           *)
(***************************************************************************)
EXTENDS Integers

CONSTANTS
  Cells,
  Border,         \* the cells at which a flood starts
  Adjacent        \* the pairs of neighbours

VARIABLES
  open,           \* the cells that can be marked
  marked,
  frontier        \* marked cells that have not been taken up

vars == <<open, marked, frontier>>

Init ==
  /\ open \subseteq Cells
  /\ marked = Border \cap open
  /\ frontier = Border \cap open

\* The open neighbours of a cell that are not marked yet.
Found(cell) == {next \in open \ marked : <<cell, next>> \in Adjacent}

TakeUp(cell) ==
  /\ cell \in frontier
  /\ marked' = marked \cup Found(cell)
  /\ frontier' = (frontier \ {cell}) \cup Found(cell)
  /\ UNCHANGED open

\* A finished flood may be given up for one of more cells.
Restart ==
  /\ frontier = {}
  /\ open \subseteq open' /\ open' \subseteq Cells
  /\ marked' = Border \cap open'
  /\ frontier' = Border \cap open'

Next == (\E cell \in Cells : TakeUp(cell)) \/ Restart

Spec == Init /\ [][Next]_vars

-----------------------------------------------------------------------------

TypeOK ==
  /\ open \subseteq Cells
  /\ marked \subseteq open
  /\ frontier \subseteq marked

\* A set of open cells that the border starts and that no neighbour leaves.
Closed(set) ==
  /\ Border \cap open \subseteq set
  /\ \A cell \in set, next \in open : <<cell, next>> \in Adjacent => next \in set

\* Nothing is marked that is not connected with the border: the marked cells lie
\* in every closed set.
OnlyConnected == \A set \in SUBSET Cells : Closed(set) => marked \subseteq set

\* Everything connected with the border is marked in the end.
AllConnected == frontier = {} => Closed(marked)

=============================================================================
