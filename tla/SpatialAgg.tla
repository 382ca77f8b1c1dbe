----------------------------- MODULE SpatialAgg -----------------------------
(***************************************************************************)
(* SpatialAggregator: the accumulators of the grid cells that hold events. *)
(* CellOf stands for the arithmetic of the grid.  The value of an event is *)
(* its speed, as in a topology, where no value_field can be set.           *)
(***************************************************************************)
EXTENDS Integers, FiniteSets

CONSTANTS
  CellOf,     \* a function from positions to cells
  Threshold   \* emit_threshold

\* HashMap<CellId, CellState>, a function on the cells that have an entry.
Initial == << >>

\* CellState::default.
Empty == [count |-> 0, sum |-> 0, max |-> 0, min |-> 0, entities |-> {}]

Higher(a, b) == IF a >= b THEN a ELSE b
Lower(a, b) == IF a <= b THEN a ELSE b

\* Mutant: the first event of a cell is taken for a later one.
WithValueFromZero(cell, value) ==
  [cell EXCEPT !.sum = @ + value, !.max = Higher(@, value), !.min = Lower(@, value)]

\* The value of an event that has been counted.
WithValue(cell, value) ==
  IF cell.count = 1
  THEN [cell EXCEPT !.sum = @ + value, !.max = value, !.min = value]
  ELSE [cell EXCEPT !.sum = @ + value, !.max = Higher(@, value), !.min = Lower(@, value)]

\* An event is counted whether or not it has a speed.
Accumulated(cell, e) ==
  LET counted == [cell EXCEPT !.count = @ + 1, !.entities = @ \cup {e.entity}]
  IN  IF e.speed < 0 THEN counted ELSE WithValue(counted, e.speed)

At(cells, c) == IF c \in DOMAIN cells THEN cells[c] ELSE Empty

\* The map without a cell that was emitted.
Emitted(cells, c) == [x \in DOMAIN cells \ {c} |-> cells[x]]

\* The state after an event, and the aggregate of its cell if it is due.
Process(cells, e) ==
  LET c    == CellOf[e.pos]
      cell == Accumulated(At(cells, c), e)
      with == [x \in DOMAIN cells \cup {c} |-> IF x = c THEN cell ELSE cells[x]]
  IN  IF cell.count >= Threshold
      THEN [state |-> Emitted(with, c),
            out   |-> <<[cell     |-> c,
                         count    |-> cell.count,
                         sum      |-> cell.sum,
                         max      |-> cell.max,
                         min      |-> cell.min,
                         entities |-> Cardinality(cell.entities)]>>]
      ELSE [state |-> with, out |-> << >>]

\* on_window_close resets every cell.
Close(cells) == [state |-> Initial, out |-> << >>]

\* snapshot writes a list of pairs, as a cell id is no JSON key, and restore
\* collects it into a map.
Snapshot(cells) == {<<c, cells[c]>> : c \in DOMAIN cells}

Restore(pairs) ==
  [c \in {pair[1] : pair \in pairs} |-> (CHOOSE pair \in pairs : pair[1] = c)[2]]

=============================================================================
