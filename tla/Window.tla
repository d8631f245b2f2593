------------------------------- MODULE Window -------------------------------
(* The latest samples of a filter, oldest first. *)
EXTENDS Integers, Sequences

Pushed(w, v, length) ==
    LET longer == Append(w, v)
    IN  IF Len(longer) <= length THEN longer ELSE Tail(longer)
=============================================================================
