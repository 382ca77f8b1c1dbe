-------------------------------- MODULE Cep --------------------------------
(***************************************************************************)
(* CepEngine: for each entity and pattern, the steps matched so far.       *)
(*                                                                         *)
(* The spatial constraint of a step is the set of positions that satisfy   *)
(* it.  An entity or a pattern the map of the code has no entry for is one *)
(* with no step matched.                                                   *)
(***************************************************************************)
EXTENDS Condition, Picking

CONSTANTS
  Entities,
  Patterns   \* a sequence of [steps, within], a step being [condition, near]

Idle == [currentStep |-> 0, startedAt |-> 0, matched |-> << >>]

Initial == [entity \in Entities |-> [p \in DOMAIN Patterns |-> Idle]]

Satisfies(step, e) == Holds(step.condition, e) /\ e.pos \in step.near

\* Mutant: a match that takes exactly the time is timed out.
TimedOutAtBound(m, e, pattern) ==
  m.currentStep > 0 /\ e.ts - m.startedAt >= pattern.within

TimedOut(m, e, pattern) == m.currentStep > 0 /\ e.ts - m.startedAt > pattern.within

\* A match that timed out starts over, with the same event.
AfterTimeout(m, e, pattern) ==
  IF TimedOut(m, e, pattern)
  THEN [currentStep |-> 0, startedAt |-> e.ts, matched |-> << >>]
  ELSE m

StepMatched(m, e) ==
  [currentStep |-> m.currentStep + 1,
   startedAt   |-> IF m.currentStep = 0 THEN e.ts ELSE m.startedAt,
   matched     |-> Append(m.matched, e)]

\* What one pattern makes of an event.
Advance(before, e, pattern) ==
  LET m == AfterTimeout(before, e, pattern)
  IN  IF /\ m.currentStep < Len(pattern.steps)
         /\ Satisfies(pattern.steps[m.currentStep + 1], e)
      THEN StepMatched(m, e)
      ELSE m

Completes(m, pattern) == m.currentStep > 0 /\ m.currentStep >= Len(pattern.steps)

AfterMatch(m) == [m EXCEPT !.currentStep = 0, !.matched = << >>]

\* The state after an event, and the matches it completes.
Process(state, e) ==
  LET moved     == [p \in DOMAIN Patterns |-> Advance(state[e.entity][p], e, Patterns[p])]
      completed == {p \in DOMAIN Patterns : Completes(moved[p], Patterns[p])}
      all       == [p \in DOMAIN Patterns |-> [pattern |-> p, events |-> moved[p].matched]]
  IN  [state |-> [state EXCEPT ![e.entity] =
                    [p \in DOMAIN Patterns |->
                       IF p \in completed THEN AfterMatch(moved[p]) ELSE moved[p]]],
       out   |-> Picked(all, completed)]

\* on_window_close drops the partial matches.
Close(state) == [state |-> Initial, out |-> << >>]

=============================================================================
