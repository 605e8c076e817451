------------------------------ MODULE Optional ------------------------------
(***************************************************************************)
(* qak::optional<T>: room for one element and a byte behind it that says   *)
(* whether the element has been constructed.                               *)
(*                                                                         *)
(* A call is a list of what it does to the elements: it constructs one in  *)
(* an optional, from a value or another element, assigns one to another,   *)
(* or destroys one.  Each of these is a step.  Constructions and           *)
(* assignments may throw: then nothing is left to do but to destroy the    *)
(* call's own variables.                                                   *)
(***************************************************************************)
EXTENDS Elements, Sequences, FiniteSets

CONSTANTS
    Opts,       \* the user's optionals
    Tmp,        \* the local variable "tmp" of operator =
    Third,      \* the local variable of std::swap
    Moved,      \* an element that has been moved from
    MaySelf     \* whether optionals are assigned from the element they hold

\* A call constructs from a value or from another element.
OptionalAssumption ==
    /\ Tmp # Third /\ {Tmp, Third} \cap Opts = {} /\ MaySelf \in BOOLEAN
    /\ Moved \notin Values \cup {Raw}
    /\ (Values \cup {Moved, Raw}) \cap (Opts \cup {Tmp, Third}) = {}

VARIABLES
    opt,        \* the byte and the storage of each optional
    todo,       \* what the running call still does
    acts,       \* what the running or last call is, which optionals it may change, and whether
                \* the first of them held an element when it began
    failing,    \* whether an exception leaves, or has left, that call
    meant,      \* what all optionals hold when that call returns
    misused     \* whether an element was read, assigned or destroyed where there was none,
                \* or constructed over another

optVars == <<opt, todo, acts, failing, meant, misused>>

Held == Values \cup {Moved}

Places == Opts \cup {Tmp, Third}

None == [has |-> FALSE, slot |-> Raw]

OptInit ==
    /\ opt = [o \in Places |-> None]
    /\ todo = <<>> /\ failing = FALSE
    /\ acts = [op |-> "none", on |-> {}, had |-> FALSE]
    /\ meant = [o \in Opts |-> Raw] /\ misused = FALSE

----------------------------------------------------------------------------
(* What calls consist of.                                                  *)

\* new (&stor_) T(from); the byte is set.
New(o, from) == [do |-> "new", to |-> o, from |-> from, moves |-> FALSE]

\* new (&stor_) T(std::move(*from)); the byte is set.
NewMoved(o, from) == [do |-> "new", to |-> o, from |-> from, moves |-> TRUE]

\* *o = std::move(*from)
Set(o, from) == [do |-> "set", to |-> o, from |-> from, moves |-> TRUE]

\* reset(), ~optional()
Drop(o) == [do |-> "drop", to |-> o, from |-> o, moves |-> FALSE]

\* Mutant: the element is left behind where it was moved from.
MoveKeeps(o, from) == <<NewMoved(o, from)>>

\* Moves the only element of two optionals.
MoveOver(o, from) == <<NewMoved(o, from), Drop(from)>>

\* swap, where oHas and qHas say which of the two holds an element.
Swapping(o, q, oHas, qHas) ==
    CASE oHas /\ qHas   -> <<NewMoved(Third, o), Set(o, q), Set(q, Third), Drop(Third)>>
      [] oHas /\ ~qHas  -> MoveOver(q, o)
      [] ~oHas /\ qHas  -> MoveOver(o, q)
      [] ~oHas /\ ~qHas -> <<>>

\* Mutant: the value is constructed before the old one is destroyed.
NotReset(o, from) == <<New(o, from)>>

Assigning(o, from) == <<Drop(o), New(o, from)>>

\* Mutant: operator = (optional const &) without tmp.
CopyInPlace(o, q) == IF opt[q].has THEN Assigning(o, q) ELSE <<Drop(o)>>

\* tmp(that), swap(tmp), ~tmp
CopyAssigning(o, q) ==
    (IF opt[q].has THEN <<New(Tmp, q)>> ELSE <<>>)
    \o Swapping(o, Tmp, opt[o].has, opt[q].has) \o <<Drop(Tmp)>>

Call(op, o, q, list, goal) ==
    /\ todo = <<>>
    /\ acts' = [op |-> op, on |-> {o, q}, had |-> opt[o].has]
    /\ todo' = list /\ failing' = FALSE /\ meant' = goal
    /\ UNCHANGED <<opt, misused>>

Now == [o \in Opts |-> opt[o].slot]

\* optional(val), operator = (val), assign(val), val outside of the optional.
AssignValue(o, val) == Call("assign", o, o, Assigning(o, val), [Now EXCEPT ![o] = val])

\* o = *o
AssignOwnElement(o) == MaySelf /\ opt[o].has /\ Call("assign", o, o, Assigning(o, o), Now)

\* operator = (optional<T> const &); it does nothing if o is q.
CopyAssign(o, q) ==
    o # q /\ Call("copy", o, o, CopyAssigning(o, q), [Now EXCEPT ![o] = Now[q]])

\* operator = (optional<U> const &).  It compares the two addresses, so U can only be T, for which the
\* operator above is chosen unless this one is named: o.operator=<T>(q).
ConvertAssign(o, q) ==
    /\ o # q
    /\ Call("assign", o, o, IF opt[q].has THEN Assigning(o, q) ELSE <<Drop(o)>>,
            [Now EXCEPT ![o] = Now[q]])

\* optional(optional<T> &&), o being empty before.
MoveConstructOptional(o, q) ==
    /\ o # q /\ ~opt[o].has
    /\ Call("move", o, q, IF opt[q].has THEN MoveOver(o, q) ELSE <<>>,
            [Now EXCEPT ![o] = Now[q], ![q] = Raw])

\* reset(), and ~optional before o is constructed again.
ResetOptional(o) == Call("assign", o, o, <<Drop(o)>>, [Now EXCEPT ![o] = Raw])

SwapOptionals(o, q) ==
    /\ o # q
    /\ Call("move", o, q, Swapping(o, q, opt[o].has, opt[q].has),
            [Now EXCEPT ![o] = Now[q], ![q] = Now[o]])

----------------------------------------------------------------------------
(* Steps.                                                                  *)

\* What a step constructs or assigns from.
Source(step) == IF step.from \in Places THEN opt[step.from].slot ELSE step.from

\* T(T const &) leaves the source as it is, T(T &&) and the move assignment do not.
Used(step) ==
    IF step.from \in Places
    THEN [opt[step.from] EXCEPT !.slot = IF step.moves /\ @ # Raw THEN Moved ELSE @]
    ELSE None

\* Mutant: reset does not clear the byte.
ByteKept(step) ==
    [has |-> TRUE, slot |-> IF step.do = "drop" THEN Raw ELSE Source(step)]

Result(step) ==
    IF step.do = "drop" THEN None
    ELSE [has |-> TRUE, slot |-> Source(step)]

Misuse(step) ==
    \/ step.do = "new" /\ (Source(step) = Raw \/ opt[step.to].slot # Raw)
    \/ step.do = "set" /\ (Source(step) = Raw \/ opt[step.to].slot = Raw)
    \/ step.do = "drop" /\ opt[step.to].has /\ opt[step.to].slot = Raw

StepRuns ==
    /\ todo # <<>>
    /\ LET step == Head(todo) IN
          /\ opt' = [o \in Places |-> IF o = step.to THEN Result(step)
                                      ELSE IF o = step.from THEN Used(step) ELSE opt[o]]
          /\ misused' = (misused \/ Misuse(step))
    /\ todo' = Tail(todo)
    /\ UNCHANGED <<acts, failing, meant>>

\* Nothing is constructed or assigned; the variables of the call are destroyed.
StepThrows ==
    /\ todo # <<>> /\ Head(todo).do # "drop"
    /\ todo' = <<Drop(Third), Drop(Tmp)>>
    /\ failing' = TRUE
    /\ UNCHANGED <<opt, acts, meant, misused>>

OptNext ==
    \/ StepRuns \/ StepThrows
    \/ \E o \in Opts :
          \/ \E val \in Values : AssignValue(o, val)
          \/ AssignOwnElement(o) \/ ResetOptional(o)
          \/ \E q \in Opts : CopyAssign(o, q) \/ ConvertAssign(o, q) \/ MoveConstructOptional(o, q)
                             \/ SwapOptionals(o, q)

OptSpec == OptInit /\ [][OptNext]_optVars

----------------------------------------------------------------------------
(* Properties.                                                             *)

\* Nothing is read, assigned or destroyed where there is no element, and nothing is constructed over
\* an element.
NeverMisused == ~misused

\* What the optionals are between calls.  A call that returns has done what it is for, to all of
\* them.  One that throws has changed no other optional than those it is for; copying never takes an
\* optional's element away without giving it one, and moves and swaps lose none.  Either way the byte
\* is set just where an element is, so that each will be destroyed, once, and the call's own
\* variables leave none behind.
OutcomeAsMeant ==
    todo = <<>> =>
        /\ \A o \in Opts : opt[o].has <=> opt[o].slot # Raw
        /\ opt[Tmp] = None /\ opt[Third] = None
        /\ \A o \in (IF failing THEN Opts \ acts.on ELSE Opts) : opt[o].slot = meant[o]
        /\ failing /\ acts.op = "copy" /\ acts.had => \A o \in acts.on : opt[o].has
        /\ failing /\ acts.op = "move" =>
              Cardinality({o \in acts.on : opt[o].has}) = Cardinality({o \in acts.on : meant[o] # Raw})

OptTypeOK ==
    /\ opt \in [Places -> [has : BOOLEAN, slot : Held \cup {Raw}]]
    /\ failing \in BOOLEAN /\ misused \in BOOLEAN /\ acts.on \subseteq Opts
    /\ meant \in [Opts -> Held \cup {Raw}]
=============================================================================
