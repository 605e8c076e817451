------------------------------- MODULE Atomic -------------------------------
(***************************************************************************)
(* A qak::atomic<T> of a signed integral type.  Threads increment,         *)
(* decrement, store and take its value, or go around a loop of             *)
(* compare_exchange_weak; each operation of the std::atomic beneath is one *)
(* step, and between a load and a compare_exchange others take theirs.     *)
(*                                                                         *)
(* The representation is unsigned, and may be wider than T: where          *)
(* QAK_MINIMUM_ATOMIC_ALIGNMENT is 4, every T of one or two bytes is kept  *)
(* in four.  Then many representations load as the same T, but only one of *)
(* them is what the T is stored as, and compare_exchange compares          *)
(* representations.                                                        *)
(***************************************************************************)
EXTENDS Integers, FiniteSets

CONSTANTS
    Workers,        \* threads that use the atomic
    TValues,        \* how many values T has
    ReprValues,     \* how many values repr_type has
    Rounds,         \* bound: the operations that each thread makes
    NotLooping      \* a thread outside of its loop

AtomicAssumption ==
    /\ TValues \in Nat /\ TValues > 0 /\ TValues % 2 = 0
    /\ ReprValues \in Nat /\ ReprValues > 0 /\ ReprValues % TValues = 0
    /\ Rounds \in Nat
    /\ NotLooping \notin (0 - TValues) .. TValues

VARIABLES
    repr,       \* repr_
    expected,   \* of each thread: the loop's variable "expected", or NotLooping
    rounds,     \* of each thread: the operations it still makes
    balance,    \* what was stored, plus increments, less decrements and what was taken
    strayed     \* an increment or decrement left the range of T, since the last store

atomicVars == <<repr, expected, rounds, balance, strayed>>

TRange == (0 - TValues \div 2) .. (TValues \div 2 - 1)

\* load_converter: static_cast<T>
Loaded(u) ==
    LET low == u % TValues
    IN  IF low < TValues \div 2 THEN low ELSE low - TValues

\* Plausible bug: the T goes through the unsigned type of its own width, and loses its sign.
StoredZeroExtended(v) == v % TValues

\* store_converter: a T, which becomes a repr_type with its sign extended.
Stored(v) == v % ReprValues

AtomicInit ==
    /\ repr = Stored(0) /\ balance = 0 /\ strayed = FALSE
    /\ expected = [t \in Workers |-> NotLooping]
    /\ rounds = [t \in Workers |-> Rounds]

-----------------------------------------------------------------------------
Outside(t) == expected[t] = NotLooping /\ rounds[t] > 0

Done(t) == rounds' = [rounds EXCEPT ![t] = @ - 1]

\* operator ++ and operator --, of the representation.
Increment(t) ==
    /\ Outside(t)
    /\ repr' = (repr + 1) % ReprValues
    /\ balance' = balance + 1
    /\ strayed' = (strayed \/ Loaded(repr) + 1 \notin TRange)
    /\ Done(t) /\ UNCHANGED expected

Decrement(t) ==
    /\ Outside(t)
    /\ repr' = (repr - 1) % ReprValues
    /\ balance' = balance - 1
    /\ strayed' = (strayed \/ Loaded(repr) - 1 \notin TRange)
    /\ Done(t) /\ UNCHANGED expected

Store(t, v) ==
    /\ Outside(t)
    /\ repr' = Stored(v) /\ balance' = v /\ strayed' = FALSE
    /\ Done(t) /\ UNCHANGED expected

\* exchange(0): the thread takes all there is.
Exchange(t) ==
    /\ Outside(t)
    /\ repr' = Stored(0) /\ balance' = balance - Loaded(repr) /\ strayed' = FALSE
    /\ Done(t) /\ UNCHANGED expected

\* A loop that increments begins: expected = load()
Load(t) ==
    /\ Outside(t)
    /\ expected' = [expected EXCEPT ![t] = Loaded(repr)]
    /\ UNCHANGED <<repr, rounds, balance, strayed>>

\* Plausible bug: the exchange does not compare.
MatchesAlways(t) == repr \in Nat

\* compare_exchange(expected, expected + 1) of a loop.  The sum wraps to a T.
Matches(t) == repr = Stored(expected[t])

Exchanges(t) ==
    /\ expected[t] # NotLooping /\ Matches(t)
    /\ repr' = Stored(Loaded(expected[t] + 1))
    /\ balance' = balance + 1 /\ strayed' = FALSE
    /\ expected' = [expected EXCEPT ![t] = NotLooping]
    /\ Done(t)

\* Plausible bug: a failed exchange does not report what it found.
NotCorrected(t) == expected[t]

\* What "expected" becomes when it fails.
Corrected(t) == Loaded(repr)

\* The weak one may fail though the representation matches.
ExchangeFails(t) ==
    /\ expected[t] # NotLooping
    /\ expected' = [expected EXCEPT ![t] = Corrected(t)]
    /\ UNCHANGED <<repr, rounds, balance, strayed>>

AtomicNext ==
    \E t \in Workers :
        \/ Increment(t) \/ Decrement(t) \/ Exchange(t) \/ Load(t)
        \/ \E v \in TRange : Store(t, v)
        \/ Exchanges(t) \/ ExchangeFails(t)

AtomicSpec == AtomicInit /\ [][AtomicNext]_atomicVars

\* A thread in its loop keeps running, and compare_exchange_weak does not fail for ever where
\* it would match.
LoopGoesOn(t) == Exchanges(t) \/ ExchangeFails(t)

-----------------------------------------------------------------------------
AtomicTypeOK ==
    /\ repr \in 0 .. (ReprValues - 1)
    /\ expected \in [Workers -> TRange \cup {NotLooping}]
    /\ rounds \in [Workers -> 0 .. Rounds]
    /\ balance \in Int
    /\ strayed \in BOOLEAN

(***************************************************************************)
(* No increment, by an operator or by a loop, is lost and none is counted  *)
(* twice, whatever others do between a loop's load and its exchange: what  *)
(* is loaded is what was put in less what was taken out, as a T.  Unless a *)
(* ++ or -- has left the range of T, that is what a compare_exchange       *)
(* matches: the representation is the one that its own loaded value is     *)
(* stored as, sign and all.                                                *)
(***************************************************************************)
LosesNoIncrement ==
    /\ (balance - Loaded(repr)) % TValues = 0
    /\ ~strayed => repr = Stored(Loaded(repr))

\* The loop of compare_exchange ends, unless a ++ or -- has left the range of T.
LoopsEnd == \A t \in Workers : expected[t] # NotLooping ~> (expected[t] = NotLooping \/ strayed)

=============================================================================
