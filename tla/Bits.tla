--------------------------------- MODULE Bits ---------------------------------
(***************************************************************************)
(* util/bits.hpp.  A word of w bits is the set of the numbers of its bits  *)
(* that are one, signed or not.  A type t has t.bits bits and may be       *)
(* signed.  Operands narrower than int are promoted to int, and the result *)
(* is cut to the type again: ~ and >> see all the bits of an int, of which *)
(* the topmost is a sign.  Shift counts obey the asserts: at least 0 and   *)
(* less than the width of the type.                                        *)
(* The definitions commented "A bug:" are used by no specification here.   *)
(***************************************************************************)
EXTENDS Integers, SequencesExt

CONSTANT IntBits   \* of int, 32 on all usual machines

ASSUME IntBitsAssumption == IntBits \in Nat \ {0}

BitsOf(w) == 0 .. w - 1

\* The width that operators work with.
Promoted(w) == IF w < IntBits THEN IntBits ELSE w

\* << in w bits, >> of a word without a sign, and >> of one with a sign.
Left(w, v, s) == { b + s : b \in v } \cap BitsOf(w)
Right(w, v, s) == { b \in BitsOf(w - s) : b + s \in v }
RightSigned(w, v, s) == Right(w, v, s) \cup IF w - 1 \in v THEN w - s .. w - 1 ELSE {}

-----------------------------------------------------------------------------
(* Masks of n bits, o bits from one end *)

\* A bug: the complement is shifted as one, and the bits below come with it.
make_mask_limit_below(w, n, o) ==
  LET p == Promoted(w)
  IN  (BitsOf(p) \ Left(p, BitsOf(p), n + o)) \cap BitsOf(w)

make_mask_limit(w, n, o) ==
  LET p == Promoted(w)
  IN  Left(p, BitsOf(p) \ Left(p, BitsOf(p), n), o) \cap BitsOf(w)

make_mask(w, n, o) == IF n = w THEN BitsOf(w) ELSE make_mask_limit(w, n, o)

\* The ones are those of an int when the type is narrower, and stay: the result
\* is no bit at all, which has no sign for the shift that follows.
make_msb_mask_limit(w, n, o) ==
  LET p == Promoted(w)
      ones == IF w < IntBits THEN RightSigned(p, BitsOf(p), n) ELSE Right(p, BitsOf(p), n)
  IN  Right(p, BitsOf(p) \ ones, o) \cap BitsOf(w)

make_msb_mask(w, n, o) == IF n = w THEN BitsOf(w) ELSE make_msb_mask_limit(w, n, o)

-----------------------------------------------------------------------------
(* Shifts *)

bit_left_shift(t, v, s) == Left(t.bits, v, s)

\* A promoted word has its sign in every bit above its own.
bit_right_shift(t, v, s) == IF t.signed THEN RightSigned(t.bits, v, s) ELSE Right(t.bits, v, s)

\* A bug: the sign comes in.
bit_right_nshift_signed(t, v, s) == bit_right_shift(t, v, s)

\* Neutral shifts are those of the unsigned type.
bit_right_nshift(t, v, s) == Right(t.bits, v, s)

\* To the left by s, or to the right by -s.
bit_shift(t, v, s) ==
  IF s < 0 THEN bit_right_shift(t, v, -s) ELSE bit_left_shift(t, v, s)
bit_nshift(t, v, s) ==
  IF s < 0 THEN bit_right_nshift(t, v, -s) ELSE bit_left_shift(t, v, s)

\* The form for constants, bit_nshift_v, is the other shift.
bit_nshift_v(t, v, s) == bit_shift(t, v, s)

bit_shift_set(t, from, to, v) == bit_shift(t, v, to - from)
bit_nshift_set(t, from, to, v) == bit_nshift(t, v, to - from)

\* bit_shift_to and bit_shift_from are this with a constant for `to' or `from'.
bit_shift_from_to(t, v, from, to) == bit_left_shift(t, bit_right_shift(t, v, from), to)
bit_nshift_from_to(t, v, from, to) == bit_left_shift(t, bit_right_nshift(t, v, from), to)

\* A bug: the mask is that of the field before it is moved.
bit_shift_mask_from(t, from, to, n, v) ==
  bit_shift_set(t, from, to, v) \cap make_mask(t.bits, n, from)

\* The field of n bits at `from', moved to `to'.
bit_shift_mask(t, from, to, n, v) ==
  bit_shift_set(t, from, to, v) \cap make_mask(t.bits, n, to)
bit_nshift_mask(t, from, to, n, v) ==
  bit_shift_mask([t EXCEPT !.signed = FALSE], from, to, n, v)

-----------------------------------------------------------------------------
(* Segments of g bits packed in a word *)

\* A bug: what a value has above its segment is kept.
bit_pack_lsb_unmasked(t, g, args) ==
  FoldRight(LAMBDA a, out : a \cup Left(t.bits, out, g), args, {})

\* The first value lowest.
bit_pack_lsb(t, g, args) ==
  FoldRight(LAMBDA a, out : (a \cap make_mask(t.bits, g, 0)) \cup Left(t.bits, out, g),
            args, {})

\* The first value highest.
bit_pack_msb(t, g, args) ==
  FoldLeft(LAMBDA out, a : Left(t.bits, out, g) \cup (a \cap make_mask(t.bits, g, 0)),
           {}, args)

\* Segment i of a word.  That of a signed word goes to the top and back, so that
\* its highest bit is the sign.
bit_unpack_lsb(t, g, i, pack) ==
  IF t.signed
  THEN bit_shift_set(t, t.bits - g, 0, bit_left_shift(t, pack, t.bits - (i + 1) * g))
  ELSE bit_right_shift(t, pack, i * g) \cap make_mask(t.bits, g, 0)

-----------------------------------------------------------------------------
(* Counts, of words that are not 0 where there is a highest or lowest bit *)

\* Leading zeros: those of an int when the type is narrower.
clz(w, v) == Promoted(w) - 1 - Max(v)
ctz(w, v) == Min(v)
clz_index(w, v) == Promoted(w) - 1 - clz(w, v)

\* A negative number is one of int when it is counted.
popcount(t, v) ==
  Cardinality(v) +
    IF t.signed /\ t.bits - 1 \in v THEN Promoted(t.bits) - t.bits ELSE 0

=============================================================================
