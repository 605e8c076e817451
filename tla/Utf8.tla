-------------------------------- MODULE Utf8 --------------------------------
(***************************************************************************)
(* qak::ucs: scalar values written as UTF-8 octets, and the validator that *)
(* reads octets one by one and throws where they are not UTF-8.            *)
(*                                                                         *)
(* Shifts and masks are divisions and remainders.  A validator that has    *)
(* thrown is given up; another one begins.                                 *)
(***************************************************************************)
EXTENDS Integers, Sequences

CONSTANTS
    Octets,     \* bound: the octets that the validator is fed with
    Scalars,    \* bound: the scalar values that are written
    Asserts     \* whether NDEBUG is not defined

\* scalar_value::is_valid
is_valid(v) == v < 55296 \/ (57344 <= v /\ v < 1114112)

Utf8Assumption ==
    /\ Octets \subseteq 0..255 /\ Asserts \in BOOLEAN
    /\ \A sv \in Scalars : sv \in Nat /\ is_valid(sv)

VARIABLES
    state,      \* state_: how many octets are missing
    min_valid,  \* min_valid_
    u32,        \* u32_
    octets,     \* the octets since the last scalar value
    answer      \* of the last call: "more", "scalar" or "threw"

utf8Vars == <<state, min_valid, u32, octets, answer>>

----------------------------------------------------------------------------
(* Writing.                                                                *)

\* Mutant: sv <= 2048.
CntTooFew(sv) ==
    IF sv < 128 THEN 1 ELSE IF sv <= 2048 THEN 2 ELSE IF sv < 65536 THEN 3 ELSE 4

cnt_utf8_octets(sv) ==
    IF sv < 128 THEN 1 ELSE IF sv < 2048 THEN 2 ELSE IF sv < 65536 THEN 3 ELSE 4

\* The last six bits of v, as an octet that continues.
Continuation(v) == 128 + (v % 64)

\* write_utf8_octets_
Write(sv) ==
    CASE cnt_utf8_octets(sv) = 1 -> <<sv>>
      [] cnt_utf8_octets(sv) = 2 -> <<192 + (sv \div 64), Continuation(sv)>>
      [] cnt_utf8_octets(sv) = 3 ->
            <<224 + (sv \div 4096), Continuation(sv \div 64), Continuation(sv)>>
      [] cnt_utf8_octets(sv) = 4 ->
            <<240 + (sv \div 262144), Continuation(sv \div 4096), Continuation(sv \div 64),
              Continuation(sv)>>

----------------------------------------------------------------------------
(* Validating.                                                             *)

\* utf8_octet_sequence_validator()
Utf8Init ==
    /\ state = 0 /\ min_valid = 0 /\ u32 = 0
    /\ octets = <<>> /\ answer = "more"

\* The assertion of utf8_octet's constructor.
IsOctet(by) == by \in 0..191 \/ by \in 194..244

\* How an octet begins a scalar value: how many octets follow, the least value they may
\* encode, and the value's first bits.
FirstOctet(by) ==
    CASE by \div 128 = 0 -> [more |-> 0, min |-> 0, bits |-> by % 128]
      [] by \div 32 = 6  -> [more |-> 1, min |-> 128, bits |-> by % 32]
      [] by \div 16 = 14 -> [more |-> 2, min |-> 2048, bits |-> by % 16]
      [] by \div 8 = 30  -> [more |-> 3, min |-> 65536, bits |-> by % 8]

Begins(by) == by \div 128 = 0 \/ by \div 32 = 6 \/ by \div 16 = 14 \/ by \div 8 = 30

Continues(by) == by \div 64 = 2

\* Mutants: the check at the end forgets the surrogates; or the shortest form.
AnyScalar(v, min) == v < 1114112 /\ min <= v
AnyLength(v, min) == is_valid(v)

Accepted(v, min) == is_valid(v) /\ min <= v

\* What the call answers for the state it has come to.
Answer(more, v, min) ==
    IF more > 0 THEN "more" ELSE IF Accepted(v, min) THEN "scalar" ELSE "threw"

\* The first octet of a scalar value.
ConsumeFirst(by) ==
    /\ state = 0 /\ answer # "threw"
    /\ Asserts => IsOctet(by)
    /\ Begins(by)
    /\ state' = FirstOctet(by).more
    /\ min_valid' = FirstOctet(by).min
    /\ u32' = FirstOctet(by).bits
    /\ octets' = <<by>>
    /\ answer' = Answer(state', u32', min_valid')

ConsumeNext(by) ==
    /\ state > 0 /\ answer # "threw"
    /\ Asserts => IsOctet(by)
    /\ Continues(by)
    /\ state' = state - 1
    /\ u32' = u32 * 64 + (by % 64)
    /\ octets' = Append(octets, by)
    /\ answer' = Answer(state', u32', min_valid)
    /\ UNCHANGED min_valid

\* "invalid UTF-8 encoded sequence"
Refuse(by) ==
    /\ answer # "threw"
    /\ Asserts => IsOctet(by)
    /\ \/ state = 0 /\ ~Begins(by) /\ octets' = <<by>>
       \/ state > 0 /\ ~Continues(by) /\ octets' = Append(octets, by)
    /\ answer' = "threw"
    /\ UNCHANGED <<state, min_valid, u32>>

\* The next validator.
Renew ==
    /\ answer = "threw"
    /\ state' = 0 /\ min_valid' = 0 /\ u32' = 0 /\ octets' = <<>> /\ answer' = "more"

Utf8Next == Renew \/ \E by \in Octets : ConsumeFirst(by) \/ ConsumeNext(by) \/ Refuse(by)

Utf8Spec == Utf8Init /\ [][Utf8Next]_utf8Vars

----------------------------------------------------------------------------
(* Properties.                                                             *)

\* The validator accepts just what is written.  Whatever octets come, what it accepts is what would
\* be written for the value that it offers: no surrogate, no value past the last, and no longer form
\* than needed.  What is written for a scalar value is never refused, is as long as cnt_utf8_octets
\* says, and reads as that value again.
AcceptsWhatIsWritten ==
    /\ answer = "scalar" => is_valid(u32) /\ octets = Write(u32)
    /\ \A sv \in Scalars :
        /\ Len(octets) \in 1..Len(Write(sv)) /\ octets = SubSeq(Write(sv), 1, Len(octets))
              => answer # "threw"
        /\ octets = Write(sv)
              => answer = "scalar" /\ u32 = sv /\ Len(octets) = cnt_utf8_octets(sv)

Utf8TypeOK ==
    /\ state \in 0..3 /\ min_valid \in {0, 128, 2048, 65536} /\ u32 \in Nat /\ u32 < 2097152
    /\ octets \in Seq(0..255) /\ Len(octets) \in 0..4 /\ answer \in {"more", "scalar", "threw"}
=============================================================================
