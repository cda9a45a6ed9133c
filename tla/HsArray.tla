------------------------------- MODULE HsArray -------------------------------
(***************************************************************************)
(* Arrays held in a Hookstate state (queryPanel.tabs, queryPanel.results). *)
(* The library is not part of the repository; what is modelled is what     *)
(* frontend/src relies on:                                                 *)
(*   - an element is found by the index of its id (map(id).indexOf);       *)
(*   - merge([x]) and push append;                                         *)
(*   - set(none) on an element, and filter, remove elements and close the  *)
(*     gap, so every later element moves down;                             *)
(*   - a State handle is a PATH: handle i means "whatever is at index i    *)
(*     when the handle is used".                                           *)
(* An array is represented by the function at from ids to indices, where   *)
(* indexOf of an id that is not in the array is -1, as in JavaScript.      *)
(***************************************************************************)
EXTENDS Integers, FiniteSets

Absent == -1

\* The ids the array holds.
Live(at) == {x \in DOMAIN at : at[x] # Absent}

\* Used nowhere: Push with a programming error, the new element put in front.
PushBug(at, x) ==
  [y \in DOMAIN at |-> IF y = x THEN 0 ELSE IF at[y] = Absent THEN Absent ELSE at[y] + 1]

\* results.push(x), tabs.merge([x]): x becomes the last element.
Push(at, x) == [at EXCEPT ![x] = Cardinality(Live(at))]

\* Number of elements of D in front of x.
Before(at, D, x) == Cardinality({d \in D : at[d] < at[x]})

\* filter, set(none): the elements of D (all of them live) are removed.
Drop(at, D) ==
  [x \in DOMAIN at |-> IF at[x] = Absent \/ x \in D THEN Absent
                                                    ELSE at[x] - Before(at, D, x)]

\* The element a lookup by id returns; an unknown id gets the first element.
Lookup(at, id) ==
  IF id \in Live(at) THEN id ELSE CHOOSE x \in Live(at) : at[x] = 0

\* What makes at an array: the live ids occupy 0..n-1, one each.
Dense(at) ==
  /\ IsFiniteSet(Live(at))
  /\ \A x \in Live(at) : at[x] \in 0..(Cardinality(Live(at)) - 1)
  /\ \A x, y \in Live(at) : at[x] = at[y] => x = y
==============================================================================
