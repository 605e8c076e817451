------------------------------ MODULE Elements ------------------------------
(***************************************************************************)
(* What the containers hold: the values of the user's type T, and the      *)
(* bound on how many of them a call asks for.                              *)
(***************************************************************************)
EXTENDS Integers

CONSTANTS
    Values,     \* values of the element type
    Default,    \* T()
    Raw,        \* memory in which no element has been constructed
    MaxSize     \* bound: elements that one call asks for

ASSUME ElementsAssumption ==
    /\ Default \in Values
    /\ Raw \notin Values
    /\ MaxSize \in Nat
=============================================================================
