----------------------------- MODULE Condition ------------------------------
(***************************************************************************)
(* compile_condition: the conditions of a filter and of the steps of a     *)
(* pattern.  A condition is                                                *)
(*   tokens   how many there are, of which the first three are             *)
(*   field, op, value                                                      *)
(*   numeric  whether the value parses as a number                         *)
(***************************************************************************)
EXTENDS Integers

\* The speed of an event that has none.
NoSpeed == -1

\* Only for entity_id is the operator looked at here; a speed condition with an
\* operator nobody knows compiles to one that never holds.
Compiles(condition) ==
  /\ condition.tokens = 3
  /\ \/ condition.field = "speed" /\ condition.numeric
     \/ condition.field = "entity_id" /\ condition.op \in {"==", "!="}

Compared(op, a, b) ==
  CASE op = ">"  -> a > b  [] op = ">=" -> a >= b
    [] op = "<"  -> a < b  [] op = "<=" -> a <= b
    [] op = "==" -> a = b  [] op = "!=" -> a # b
    [] OTHER -> FALSE

\* An event without a speed satisfies the conditions that 0 does.
SpeedOf(e) == IF e.speed = NoSpeed THEN 0 ELSE e.speed

\* The predicate of a compiled condition.
Holds(condition, e) ==
  IF condition.field = "speed"
  THEN Compared(condition.op, SpeedOf(e), condition.value)
  ELSE (e.entity = condition.value) <=> (condition.op = "==")

=============================================================================
