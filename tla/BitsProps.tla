------------------------------- MODULE BitsProps -------------------------------
(***************************************************************************)
(* What the functions of util/bits.hpp should give, stated without them:   *)
(* as sets of bits, and as numbers.                                        *)
(***************************************************************************)
EXTENDS IntegerMath

CONSTANT Types   \* a number of bits and a sign, or none

ASSUME TypesAssumption == Types \subseteq [bits : Nat \ {0}, signed : BOOLEAN]

\* Where n bits, o bits from an end, are in a word, and both shifts are allowed.
Within(w, n, o) == n + o <= w /\ (n = w \/ o < w)

\* make_mask has n bits from bit o on, whether the type is narrower than int or
\* not, and make_msb_mask, in types as wide as int, the n bits below the top o.
MasksMatch ==
  \A t \in Types : \A n, o \in 0 .. t.bits :
    Within(t.bits, n, o) =>
      /\ make_mask(t.bits, n, o) = o .. o + n - 1
      /\ n < t.bits => make_mask_limit(t.bits, n, o) = o .. o + n - 1
      /\ t.bits >= IntBits =>
           make_msb_mask(t.bits, n, o) = t.bits - o - n .. t.bits - o - 1

\* make_msb_mask as bits.hpp:87-89 describes it, of every type.
MsbMasksAsSaid ==
  \A t \in Types : \A n, o \in 0 .. t.bits :
    Within(t.bits, n, o) =>
      make_msb_mask(t.bits, n, o) = t.bits - o - n .. t.bits - o - 1

\* The bits of a field of n bits of v at `from', moved to `to'.
Field(v, from, to, n) == { b - from + to : b \in v \cap (from .. from + n - 1) }

\* What shifts a field of a word, signed or not, and clears what is around it:
\* the sign that a shift to the right brings in stays out of the field.
FieldsMatch ==
  \A t \in Types : \A v \in SUBSET BitsOf(t.bits) :
    /\ \A from, to \in BitsOf(t.bits) : \A n \in 0 .. t.bits :
         from + n <= t.bits /\ to + n <= t.bits =>
           /\ bit_shift_mask(t, from, to, n, v) = Field(v, from, to, n)
           /\ bit_nshift_mask(t, from, to, n, v) = Field(v, from, to, n)
    /\ \A from, to \in BitsOf(t.bits) :
         bit_nshift_from_to(t, v, from, to)
           = Field(v, from, to, t.bits - (IF from < to THEN to ELSE from))

-----------------------------------------------------------------------------
(* Words as numbers *)

\* Two's complement.
NumberOf(t, v) ==
  MapThenSumSet(LAMBDA b : 2 ^ b, v)
    - IF t.signed /\ t.bits - 1 \in v THEN 2 ^ t.bits ELSE 0

Unsigned(t) == [t EXCEPT !.signed = FALSE]

\* Shifts multiply and divide by powers of two, rounding down, and the neutral
\* ones take a negative number for an unsigned one.  Counts find the powers of
\* two around a number: SliceArray takes the level of its chunks from clz_index.
NumbersMatch ==
  \A t \in Types : \A v \in SUBSET BitsOf(t.bits) :
    LET x == NumberOf(t, v)
        u == Unsigned(t)
        m == NumberOf(u, v)
    IN  /\ \A s \in BitsOf(t.bits) :
             /\ NumberOf(u, bit_shift(t, v, s)) = (x * 2 ^ s) % 2 ^ t.bits
             /\ NumberOf(u, bit_nshift(t, v, s)) = (x * 2 ^ s) % 2 ^ t.bits
             /\ NumberOf(t, bit_shift(t, v, -s)) = x \div 2 ^ s
             /\ NumberOf(u, bit_nshift(t, v, -s)) = m \div 2 ^ s
             /\ \A to \in BitsOf(t.bits) :
                  NumberOf(u, bit_shift_from_to(t, v, s, to))
                    = ((x \div 2 ^ s) * 2 ^ to) % 2 ^ t.bits
        /\ v # {} =>
             /\ 2 ^ clz_index(t.bits, v) <= m /\ m < 2 ^ (clz_index(t.bits, v) + 1)
             /\ m % 2 ^ ctz(t.bits, v) = 0 /\ m % 2 ^ (ctz(t.bits, v) + 1) # 0

\* The neutral shift of a constant as bits.hpp:203 and 276 describe neutral
\* shifts: one to the right brings no sign in.
NeutralShiftsAsSaid ==
  \A t \in Types : \A v \in SUBSET BitsOf(t.bits) : \A s \in BitsOf(t.bits) :
    LET u == Unsigned(t)
    IN  NumberOf(u, bit_nshift_v(t, v, -s)) = NumberOf(u, v) \div 2 ^ s

CONSTANTS Bases, Dividends, Divisors   \* the numbers that math.hpp is given

ASSUME MathAssumption == Bases \cup Dividends \subseteq Int /\ Divisors \subseteq Int \ {0}

\* The product of p factors.
Power(val, p) ==
  LET power[k \in 0 .. p] == IF k = 0 THEN 1 ELSE val * power[k - 1] IN power[p]

\* Powers, which go through the bits of the exponent and so through clz_index,
\* are powers, but those of integers below the first are all 1.  Division rounds
\* towards 0, whatever the signs, for div_modulo too: its remainder is below 0
\* when a is.
MathMatches ==
  /\ \A val \in Bases :
       /\ ipow_float(val, 0) = <<1, 1>> /\ ipow_int(val, 0) = 1
       /\ \A p \in 1 .. 2 ^ (IntBits - 1) - 1 :
            /\ ipow_float(val, p) = <<Power(val, p), 1>> /\ ipow_int(val, p) = Power(val, p)
            /\ ipow_float(val, -p) = <<1, Power(val, p)>> /\ ipow_int(val, -p) = 1
  /\ \A a \in Dividends : \A b \in Divisors :
       LET left == a - b * div(a, b)
       IN  /\ Abs(left) < Abs(b)
           /\ left < 0 => a < 0
           /\ left > 0 => a > 0
  /\ \A a \in Dividends : \A b \in Divisors :
       b > 0 =>
         LET r == div_modulo(a, b)
         IN  /\ r.a * b + r.m = a /\ Abs(r.m) < b
             /\ r.m < 0 <=> a < 0 /\ a % b # 0
             /\ a >= 0 => r = [a |-> a \div b, m |-> a % b]

-----------------------------------------------------------------------------

CONSTANTS
  PackTypes,   \* the types of packed words
  MaxArgs      \* a bound on the values packed in one

ASSUME PackTypesAssumption == PackTypes \subseteq Types /\ MaxArgs \in Nat

\* The value of the low g bits of a word of the type.
Segment(t, g, a) ==
  (a \cap BitsOf(g)) \cup IF t.signed /\ g - 1 \in a THEN g .. t.bits - 1 ELSE {}

\* What is packed comes out again, cut to its segment, with the sign of its
\* highest bit there; nothing else is in the word; and the two orders of packing
\* are each other's reverse.
PacksRoundTrip ==
  \A t \in PackTypes : \A g \in 1 .. t.bits :
    \A n \in 1 .. Min({MaxArgs, t.bits \div g}) :
      \A args \in [1 .. n -> SUBSET BitsOf(t.bits)] :
        LET pack == bit_pack_lsb(t, g, args)
        IN  /\ pack \subseteq BitsOf(n * g)
            /\ \A i \in 1 .. n : bit_unpack_lsb(t, g, i - 1, pack) = Segment(t, g, args[i])
            /\ bit_pack_msb(t, g, args) = bit_pack_lsb(t, g, Reverse(args))

=============================================================================
