---------------------------- MODULE FilterWindow ----------------------------
(***************************************************************************)
(* What a filter promises (filter.h): its output is a function of the      *)
(* latest samples since it was created or reset, in the order in which     *)
(* they came.  The type of the filter says which function.                 *)
(***************************************************************************)
EXTENDS Window

CONSTANTS
    Length,         \* filter_length
    Types,          \* enum filter_type
    Values,         \* the samples
    Value(_, _)     \* the estimate of a type for a window that is not empty

VARIABLES type, window, output

Init == type \in Types /\ window = <<>> /\ output = 0

\* filter_sample()
Sample(v) ==
    /\ window' = Pushed(window, v, Length)
    /\ output' = Value(type, window')
    /\ UNCHANGED type

\* filter_reset()
Reset ==
    /\ window' = <<>>
    /\ UNCHANGED <<type, output>>

Next == (\E v \in Values : Sample(v)) \/ Reset

Spec == Init /\ [][Next]_<<type, window, output>>
=============================================================================
