------------------------------- MODULE BitProofs -------------------------------
(***************************************************************************)
(* bit_table and bit_cell implement grids of values, for objects, values,  *)
(* words, buffers and sizes of every number and width; what region()       *)
(* gathers and operator== compares; the masks, the moved fields and the    *)
(* packed values of util/bits.hpp in types narrower than int or not; and   *)
(* what its shifts and counts are as numbers, and the powers and quotients *)
(* of util/math.hpp.                                                       *)
(*                                                                         *)
(* All results on tables rest on where values are.  The place of a value   *)
(* is a sum of whole rows, whole words and whole values (TableSum), so the *)
(* bits that follow a value in its row are those of the values after it    *)
(* (TableStep), and no two places share a bit (Places, ValuesDisjoint).    *)
(*                                                                         *)
(* A loop is a fold.  A fold from either end, or over a set in any order,  *)
(* has a result after each step (FoldExists, LeftFold), each step writes   *)
(* one value (OneValuePuts), and so the last result has every value of the *)
(* region redone and no other (RegionDone, DrawnDone, FoldDone).           *)
(*                                                                         *)
(* The inductive invariant, GridsInv, says that an object has the words it *)
(* needs, and that a cell whose values fill their words has no one outside *)
(* of them (Clean): without that the words of equal cells could differ.    *)
(*                                                                         *)
(* A power of two is the number of subsets of a set (PowerNext), and the   *)
(* number of a word is a sum of powers of two, in any order (WordWeight):  *)
(* its bits from one on are a quotient and those below it the remainder    *)
(* (WordSplit), which is what shifts and squarings rest on.                *)
(***************************************************************************)
EXTENDS BitTableProps, TLAPS, FiniteSetTheorems, FunctionTheorems, WellFoundedInduction,
        NaturalsInduction

-----------------------------------------------------------------------------
(* Masks and fields *)

\* What is known of the width of a type and of the one it is promoted to.
LEMMA Widths ==
  ASSUME NEW t \in Types
  PROVE  /\ t.bits \in Nat /\ t.bits > 0 /\ t.signed \in BOOLEAN
         /\ Promoted(t.bits) \in Nat /\ t.bits <= Promoted(t.bits)
  BY IntBitsAssumption, TypesAssumption DEF Promoted

\* Ones shifted up and complemented are the bits below.
LEMMA LowOnes ==
  ASSUME NEW p \in Nat, NEW n \in Nat, n <= p
  PROVE  BitsOf(p) \ Left(p, BitsOf(p), n) = BitsOf(n)
<1>1. ASSUME NEW b \in BitsOf(p), b >= n PROVE b \in Left(p, BitsOf(p), n)
  <2>1. b - n \in BitsOf(p) /\ b = (b - n) + n
    BY <1>1 DEF BitsOf
  <2> QED BY <2>1 DEF Left
<1>2. ASSUME NEW b \in Left(p, BitsOf(p), n) PROVE b >= n
  BY DEF Left, BitsOf
<1>3. \A b \in BitsOf(p) : b \in BitsOf(n) <=> b < n
  BY DEF BitsOf
<1>4. BitsOf(n) \subseteq BitsOf(p)
  BY DEF BitsOf
<1>5. \A b \in BitsOf(p) : b < n <=> ~ (b >= n)
  BY DEF BitsOf
<1> QED BY <1>1, <1>2, <1>3, <1>4, <1>5

\* The low ones shifted to their place.
LEMMA LimitMask ==
  ASSUME NEW w \in Nat, NEW n \in Nat, NEW o \in Nat, n + o <= w
  PROVE  make_mask_limit(w, n, o) = o .. o + n - 1
<1> DEFINE p == Promoted(w)
<1>1. p \in Nat /\ w <= p
  BY IntBitsAssumption DEF Promoted
<1>2. make_mask_limit(w, n, o) = Left(p, BitsOf(n), o) \cap BitsOf(w)
  <2>1. BitsOf(p) \ Left(p, BitsOf(p), n) = BitsOf(n)
    <3> HIDE DEF p
    <3> QED BY <1>1, LowOnes
  <2> QED BY <2>1 DEF make_mask_limit
<1> HIDE DEF p
<1>3. ASSUME NEW b \in o .. o + n - 1 PROVE b \in Left(p, BitsOf(n), o) \cap BitsOf(w)
  <2>1. b - o \in BitsOf(n) /\ b = (b - o) + o /\ b \in BitsOf(p) /\ b \in BitsOf(w)
    BY <1>1 DEF BitsOf
  <2> QED BY <2>1 DEF Left
<1>4. ASSUME NEW b \in Left(p, BitsOf(n), o) PROVE b \in o .. o + n - 1
  <2>1. PICK c \in BitsOf(n) : b = c + o
    BY DEF Left
  <2> QED BY <2>1 DEF BitsOf
<1> QED BY <1>2, <1>3, <1>4

\* Ones shifted down lose their upper bits, those of an int keep them.
LEMMA MsbOnes ==
  ASSUME NEW p \in Nat, NEW n \in Nat, n < p
  PROVE  /\ BitsOf(p) \ Right(p, BitsOf(p), n) = p - n .. p - 1
         /\ BitsOf(p) \ RightSigned(p, BitsOf(p), n) = {}
<1>1. Right(p, BitsOf(p), n) = BitsOf(p - n)
  <2>1. \A b \in BitsOf(p - n) : b + n \in BitsOf(p)
    BY DEF BitsOf
  <2> QED BY <2>1 DEF Right
<1>2. BitsOf(p) \ BitsOf(p - n) = p - n .. p - 1
  BY DEF BitsOf
<1>3. p - 1 \in BitsOf(p)
  BY DEF BitsOf
<1>4. RightSigned(p, BitsOf(p), n) = BitsOf(p - n) \cup (p - n .. p - 1)
  BY <1>1, <1>3 DEF RightSigned
<1>5. BitsOf(p) \ (BitsOf(p - n) \cup (p - n .. p - 1)) = {}
  BY DEF BitsOf
<1> QED BY <1>1, <1>2, <1>4, <1>5

\* The mask from the other end.
LEMMA MsbMask ==
  ASSUME NEW w \in Nat, NEW n \in Nat, NEW o \in Nat, n + o <= w, n < w
  PROVE  make_msb_mask_limit(w, n, o)
           = IF w < IntBits THEN {} ELSE w - o - n .. w - o - 1
<1>1. CASE w < IntBits
  <2>1. Promoted(w) = IntBits /\ IntBits \in Nat /\ n < IntBits
    BY <1>1, IntBitsAssumption DEF Promoted
  <2>2. BitsOf(IntBits) \ RightSigned(IntBits, BitsOf(IntBits), n) = {}
    BY <2>1, MsbOnes
  <2>3. Right(IntBits, {}, o) = {}
    BY DEF Right
  <2> QED BY <1>1, <2>1, <2>2, <2>3 DEF make_msb_mask_limit
<1>2. CASE ~ (w < IntBits)
  <2>1. Promoted(w) = w
    BY <1>2 DEF Promoted
  <2>2. make_msb_mask_limit(w, n, o) = Right(w, w - n .. w - 1, o) \cap BitsOf(w)
    BY <1>2, <2>1, MsbOnes DEF make_msb_mask_limit
  <2>3. \A b \in w - o - n .. w - o - 1 : b \in BitsOf(w) /\ b \in BitsOf(w - o)
    BY DEF BitsOf
  <2>4. \A b \in BitsOf(w - o) : b + o \in w - n .. w - 1 <=> b \in w - o - n .. w - o - 1
    BY DEF BitsOf
  <2> QED BY <1>2, <2>2, <2>3, <2>4 DEF Right
<1> QED BY <1>1, <1>2

\* Masks are what their names say, make_msb_mask in types as wide as int.
LEMMA MasksOfTypes == MasksMatch
<1> SUFFICES ASSUME NEW t \in Types, NEW n \in 0 .. t.bits, NEW o \in 0 .. t.bits,
                    Within(t.bits, n, o)
             PROVE  /\ make_mask(t.bits, n, o) = o .. o + n - 1
                    /\ n < t.bits => make_mask_limit(t.bits, n, o) = o .. o + n - 1
                    /\ t.bits >= IntBits =>
                         make_msb_mask(t.bits, n, o) = t.bits - o - n .. t.bits - o - 1
  BY DEF MasksMatch
<1> DEFINE w == t.bits
<1>1. w \in Nat /\ n \in Nat /\ o \in Nat /\ n + o <= w /\ n <= w
  BY Widths DEF Within
<1> HIDE DEF w
<1>2. make_mask_limit(w, n, o) = o .. o + n - 1
  BY <1>1, LimitMask
<1>3. CASE n < w
  <2>1. make_msb_mask_limit(w, n, o)
          = IF w < IntBits THEN {} ELSE w - o - n .. w - o - 1
    BY <1>1, <1>3, MsbMask
  <2>2. w >= IntBits => ~ (w < IntBits)
    BY <1>1, IntBitsAssumption
  <2>3. w >= IntBits => make_msb_mask_limit(w, n, o) = w - o - n .. w - o - 1
    BY <2>1, <2>2
  <2>4. n # w
    BY <1>1, <1>3
  <2> QED BY <1>2, <2>3, <2>4 DEF make_mask, make_msb_mask, w
<1>4. CASE n = w
  <2>1. o = 0
    BY <1>1, <1>4
  <2>2. BitsOf(w) = o .. o + n - 1 /\ BitsOf(w) = w - o - n .. w - o - 1
    BY <1>1, <1>4, <2>1 DEF BitsOf
  <2> QED BY <1>2, <1>4, <2>2 DEF make_mask, make_msb_mask, w
<1> QED BY <1>1, <1>3, <1>4

-----------------------------------------------------------------------------

\* The bits of a word that is shifted down.
LEMMA RightOf ==
  ASSUME NEW w \in Nat, NEW v \in SUBSET BitsOf(w), NEW s \in Nat
  PROVE  \A b : b \in Right(w, v, s) <=> \E c \in v : c >= s /\ b = c - s
<1>1. ASSUME NEW b \in Right(w, v, s) PROVE b + s \in v /\ b + s >= s /\ b = (b + s) - s
  BY DEF Right, BitsOf
<1>2. ASSUME NEW c \in v, c >= s PROVE c - s \in BitsOf(w - s) /\ (c - s) + s = c
  BY <1>2 DEF BitsOf
<1>3. \A c \in v : c >= s => c - s \in Right(w, v, s)
  BY <1>2 DEF Right
<1> QED BY <1>1, <1>3

\* A mask keeps the field and drops the sign that came with it.
LEMMA MovedField ==
  ASSUME NEW t, NEW w \in Nat, t.bits = w, NEW v \in SUBSET BitsOf(w),
         NEW from \in Nat, NEW to \in Nat, NEW n \in Nat,
         from + n <= w, to + n <= w
  PROVE  bit_shift(t, v, to - from) \cap (to .. to + n - 1)
           = Field(v, from, to, n)
<1> DEFINE d == to - from
<1>1. CASE d < 0
  <2>1. \A b : b \in Right(w, v, -d) <=> \E c \in v : c >= -d /\ b = c - (-d)
    BY <1>1, RightOf
  <2>2. \A c \in v : c - (-d) = c - from + to
    BY DEF BitsOf
  <2>3. \A c \in v : c - from + to \in to .. to + n - 1 <=> c \in from .. from + n - 1
    BY DEF BitsOf
  <2>4. \A c \in from .. from + n - 1 : c >= -d
    OBVIOUS
  <2>5. Right(w, v, -d) \cap (to .. to + n - 1) = Field(v, from, to, n)
    BY <2>1, <2>2, <2>3, <2>4 DEF Field
  <2>6. (w - (-d) .. w - 1) \cap (to .. to + n - 1) = {}
    BY <1>1
  <2>7. bit_shift(t, v, d) \in {Right(w, v, -d), Right(w, v, -d) \cup (w - (-d) .. w - 1)}
    BY <1>1 DEF bit_shift, bit_right_shift, RightSigned
  <2> QED BY <2>5, <2>6, <2>7
<1>2. CASE ~ (d < 0)
  <2>1. bit_shift(t, v, d) = { b + d : b \in v } \cap BitsOf(w)
    BY <1>2 DEF bit_shift, bit_left_shift, Left
  <2>2. \A c \in v : c + d = c - from + to
    BY DEF BitsOf
  <2>3. \A c \in v : c - from + to \in to .. to + n - 1 <=> c \in from .. from + n - 1
    BY DEF BitsOf
  <2>4. to .. to + n - 1 \subseteq BitsOf(w)
    BY DEF BitsOf
  <2>5. { b + d : b \in v } \cap (to .. to + n - 1) = Field(v, from, to, n)
    BY <2>2, <2>3 DEF Field
  <2> QED BY <2>1, <2>4, <2>5
<1> QED BY <1>1, <1>2

\* Down and up again: the field that has room where it goes.
LEMMA ShiftedAround ==
  ASSUME NEW w \in Nat, NEW v \in SUBSET BitsOf(w),
         NEW from \in Nat, NEW to \in Nat, from < w, to < w
  PROVE  Left(w, Right(w, v, from), to)
           = Field(v, from, to, w - (IF from < to THEN to ELSE from))
<1> DEFINE n == w - (IF from < to THEN to ELSE from)
<1>1. \A c \in v : c \in Nat /\ c < w
  BY DEF BitsOf
<1>2. \A c \in v : (c - from) + to = c - from + to
  BY <1>1
<1>3. \A c \in v : c >= from /\ c - from + to \in BitsOf(w) <=> c \in from .. from + n - 1
  BY <1>1 DEF BitsOf
<1>4. \A b : b \in Left(w, Right(w, v, from), to)
               <=> b \in BitsOf(w) /\ \E c \in v : c >= from /\ b = (c - from) + to
  BY RightOf DEF Left
<1>5. \A b : b \in Field(v, from, to, n)
               <=> \E c \in v : c \in from .. from + n - 1 /\ b = c - from + to
  BY DEF Field
<1> HIDE DEF n
<1>6. \A b : b \in Left(w, Right(w, v, from), to) <=> b \in Field(v, from, to, n)
  BY <1>2, <1>3, <1>4, <1>5
<1> QED BY <1>6 DEF n

\* Fields are moved and nothing comes with them.
LEMMA FieldsOfTypes == FieldsMatch
<1> SUFFICES ASSUME NEW t \in Types, NEW v \in SUBSET BitsOf(t.bits)
             PROVE  /\ \A from, to \in BitsOf(t.bits) : \A n \in 0 .. t.bits :
                         from + n <= t.bits /\ to + n <= t.bits =>
                           /\ bit_shift_mask(t, from, to, n, v) = Field(v, from, to, n)
                           /\ bit_nshift_mask(t, from, to, n, v) = Field(v, from, to, n)
                    /\ \A from, to \in BitsOf(t.bits) :
                         bit_nshift_from_to(t, v, from, to)
                           = Field(v, from, to, t.bits - (IF from < to THEN to ELSE from))
  BY DEF FieldsMatch
<1> DEFINE w == t.bits
           u == [t EXCEPT !.signed = FALSE]
<1>1. w \in Nat /\ t.signed \in BOOLEAN
  BY Widths
<1>2. u.bits = w
  BY TypesAssumption
<1>3. ASSUME NEW from \in BitsOf(w), NEW to \in BitsOf(w), NEW n \in 0 .. w,
             from + n <= w, to + n <= w
      PROVE  /\ bit_shift_mask(t, from, to, n, v) = Field(v, from, to, n)
             /\ bit_nshift_mask(t, from, to, n, v) = Field(v, from, to, n)
  <2>1. from \in Nat /\ to \in Nat /\ n \in Nat /\ (n = w => to = 0)
    BY <1>1, <1>3 DEF BitsOf
  <2>2. make_mask(w, n, to) = to .. to + n - 1
    <3>1. CASE n = w
      BY <2>1, <3>1, <1>1 DEF make_mask, BitsOf
    <3>2. CASE n # w
      BY <1>1, <1>3, <2>1, <3>2, LimitMask DEF make_mask
    <3> QED BY <3>1, <3>2
  <2>3. bit_shift(t, v, to - from) \cap (to .. to + n - 1) = Field(v, from, to, n)
    BY <1>1, <1>3, <2>1, MovedField
  <2>4. bit_shift(u, v, to - from) \cap (to .. to + n - 1) = Field(v, from, to, n)
    <3> HIDE DEF u
    <3> QED BY <1>1, <1>2, <1>3, <2>1, MovedField
  <2> QED BY <1>2, <2>2, <2>3, <2>4 DEF bit_shift_mask, bit_nshift_mask, bit_shift_set
<1>4. ASSUME NEW from \in BitsOf(w), NEW to \in BitsOf(w)
      PROVE  bit_nshift_from_to(t, v, from, to)
               = Field(v, from, to, w - (IF from < to THEN to ELSE from))
  <2>1. from \in Nat /\ to \in Nat /\ from < w /\ to < w
    BY <1>1 DEF BitsOf
  <2> QED BY <1>1, <2>1, ShiftedAround
          DEF bit_nshift_from_to, bit_right_nshift, bit_left_shift
<1> QED BY <1>3, <1>4

-----------------------------------------------------------------------------
(* Where the values of a table are *)

\* The words have room for a whole number of values.
LEMMA ItemWidth ==
  /\ PackBits \in Nat \ {0} /\ Stride \in Nat \ {0} /\ Items \in Nat \ {0}
  /\ BitCount \in Nat \ {0} /\ BitCount <= Stride
  /\ PackBits = Items * Stride
<1>1. PackBits \in Powers /\ BitCount \in 1 .. PackBits
  BY BitOpsAssumption
<1> DEFINE S == { n \in Powers : n >= BitCount }
<1>2. \E m \in S : \A n \in S : m <= n
  BY <1>1 DEF Powers
<1>3. Stride \in S /\ \A n \in S : Stride <= n
  BY <1>2 DEF Stride, Min
<1>4. PackBits \in S
  BY <1>1 DEF Powers
<1>5. Stride \in Powers /\ Stride <= PackBits /\ BitCount <= Stride
  BY <1>3, <1>4
<1> QED BY <1>1, <1>5 DEF Powers, Items

\* A number has one quotient and one remainder.
LEMMA Split ==
  ASSUME NEW B \in Nat \ {0}, NEW q \in Nat, NEW r \in 0 .. B - 1
  PROVE  /\ B * q + r \in Nat
         /\ (B * q + r) \div B = q /\ (B * q + r) % B = r
<1> DEFINE n == B * q + r
<1>1. n \in Nat
  OBVIOUS
<1>2. n \div B \in Nat /\ n % B \in 0 .. B - 1 /\ n = B * (n \div B) + (n % B)
  <2> HIDE DEF n
  <2> QED BY <1>1
<1>3. ASSUME NEW p \in Nat, NEW s \in 0 .. B - 1, B * q + r = B * p + s
      PROVE  q = p /\ r = s
  BY <1>3
<1> QED BY <1>1, <1>2, <1>3

\* Every number has them.
LEMMA Parts ==
  ASSUME NEW B \in Nat \ {0}, NEW n \in Nat
  PROVE  /\ n \div B \in Nat /\ (n % B) \in 0 .. B - 1
         /\ n = B * (n \div B) + (n % B)
  OBVIOUS

\* What is below a multiple has a smaller quotient.
LEMMA PartBelow ==
  ASSUME NEW B \in Nat \ {0}, NEW n \in Nat, NEW q \in Nat, n < B * q
  PROVE  n \div B < q
<1>1. n \div B \in Nat /\ n = B * (n \div B) + (n % B) /\ (n % B) \in 0 .. B - 1
  BY Parts
<1>2. ASSUME n \div B >= q PROVE FALSE
  <2>1. B * (n \div B) >= B * q
    BY <1>1, <1>2
  <2> QED BY <1>1, <2>1
<1> QED BY <1>1, <1>2

\* An index is a word and a bit.
LEMMA IndexParts ==
  ASSUME NEW id \in Nat
  PROVE  /\ PackBits \in Nat \ {0} /\ Word(id) \in Nat /\ Bit(id) \in 0 .. PackBits - 1
         /\ id = PackBits * Word(id) + Bit(id)
<1>1. PackBits \in Nat \ {0}
  BY ItemWidth
<1> QED BY <1>1, Parts DEF Word, Bit

-----------------------------------------------------------------------------
(* Tables *)

\* Rows have the words for their values and one to spare.
LEMMA Rows ==
  ASSUME NEW n \in TableSizes
  PROVE  /\ n.w \in Nat \ {0} /\ n.h \in Nat \ {0} /\ BufferSize \in Nat
         /\ Pad(n).w = n.w + 2 * BufferSize /\ Pad(n).h = n.h + 2 * BufferSize
         /\ RowWords(n) \in Nat
         /\ Pad(n).w <= Items * (RowWords(n) - 1)
<1>1. n.w \in Nat \ {0} /\ n.h \in Nat \ {0} /\ BufferSize \in Nat
  BY BitTableAssumption
<1>2. Pad(n).w = n.w + 2 * BufferSize /\ Pad(n).h = n.h + 2 * BufferSize
  BY DEF Pad, Size
<1> DEFINE m == Pad(n).w + Items - 1
<1>3. RowWords(n) = m \div Items + 1
  BY <1>2, BitTableAssumption DEF RowWords
<1>4. m \in Nat /\ Items \in Nat \ {0} /\ Pad(n).w \in Nat
  BY <1>1, <1>2, ItemWidth
<1>5. m \div Items \in Nat /\ m = Items * (m \div Items) + (m % Items) /\ (m % Items) \in 0 .. Items - 1
  <2> HIDE DEF m
  <2> QED BY <1>4, Parts
<1>6. Pad(n).w <= Items * (m \div Items)
  BY <1>4, <1>5
<1> HIDE DEF m
<1>7. RowWords(n) - 1 = m \div Items
  BY <1>3, <1>5
<1> QED BY <1>1, <1>2, <1>3, <1>5, <1>6, <1>7

\* Where a place of a table is, as a sum.
LEMMA TableSum ==
  ASSUME NEW x, x.size \in TableSizes,
         NEW c \in Box(-BufferSize, -BufferSize, Pad(x.size))
  PROVE  /\ c[1] + BufferSize \in 0 .. Pad(x.size).w - 1
         /\ c[2] + BufferSize \in 0 .. Pad(x.size).h - 1
         /\ (c[1] + BufferSize) \div Items \in 0 .. RowWords(x.size) - 2
         /\ TableIndex(x, c) = PackBits * ((c[2] + BufferSize) * RowWords(x.size))
                                 + Stride * (c[1] + BufferSize)
<1> DEFINE n == x.size
           col == c[1] + BufferSize
           row == c[2] + BufferSize
<1>1. /\ n.w \in Nat \ {0} /\ n.h \in Nat \ {0} /\ BufferSize \in Nat
      /\ Pad(n).w = n.w + 2 * BufferSize /\ Pad(n).h = n.h + 2 * BufferSize
      /\ RowWords(n) \in Nat /\ Pad(n).w <= Items * (RowWords(n) - 1)
  BY Rows
<1>2. c[1] \in Int /\ c[2] \in Int /\ col \in 0 .. Pad(n).w - 1 /\ row \in 0 .. Pad(n).h - 1
  BY <1>1 DEF Box
<1> HIDE DEF col, row
<1>3. Items \in Nat \ {0} /\ Stride \in Nat \ {0} /\ PackBits \in Nat /\ PackBits = Items * Stride
  BY ItemWidth
<1>4. col \in Nat /\ col \div Items \in Nat /\ (col % Items) \in Nat /\ col = Items * (col \div Items) + (col % Items)
  <2>1. col \in Nat
    BY <1>1, <1>2
  <2>2. col \div Items \in Nat /\ (col % Items) \in 0 .. Items - 1 /\ col = Items * (col \div Items) + (col % Items)
    BY <1>3, <2>1, Parts
  <2> QED BY <1>3, <2>1, <2>2
<1>5. RowWords(n) - 1 \in Nat
  <2>1. RowWords(n) # 0
    <3> SUFFICES ASSUME RowWords(n) = 0 PROVE FALSE
      OBVIOUS
    <3>1. Pad(n).w <= Items * (0 - 1)
      BY <1>1
    <3> QED BY <1>1, <1>3, <3>1
  <2> QED BY <1>1, <2>1
<1>6. col \div Items < RowWords(n) - 1
  <2>1. col < Items * (RowWords(n) - 1)
    <3>1. Items * (RowWords(n) - 1) \in Int
      BY <1>3, <1>5
    <3>2. Pad(n).w \in Int
      BY <1>1
    <3> QED BY <1>1, <1>2, <3>1, <3>2
  <2> QED BY <1>3, <1>4, <1>5, <2>1, PartBelow
<1>7. Stride * col = PackBits * (col \div Items) + Stride * (col % Items)
  <2>1. Stride * col = Stride * (Items * (col \div Items)) + Stride * (col % Items)
    BY <1>3, <1>4
  <2>2. Stride * (Items * (col \div Items)) = PackBits * (col \div Items)
    BY <1>3, <1>4
  <2> QED BY <2>1, <2>2
<1>8. TableIndex(x, c) = PackBits * (row * RowWords(n) + col \div Items) + Stride * (col % Items)
  BY DEF TableIndex, col, row
<1>9. PackBits * (row * RowWords(n) + col \div Items) = PackBits * (row * RowWords(n)) + PackBits * (col \div Items)
  <2>1. row * RowWords(n) \in Nat
    BY <1>1, <1>2
  <2> QED BY <1>3, <1>4, <2>1
<1>10. /\ PackBits * (row * RowWords(n)) \in Int /\ PackBits * (col \div Items) \in Int
       /\ Stride * (col % Items) \in Int
  BY <1>1, <1>2, <1>3, <1>4
<1>11. TableIndex(x, c) = PackBits * (row * RowWords(n)) + Stride * col
  BY <1>7, <1>8, <1>9, <1>10
<1>12. col \div Items \in 0 .. RowWords(n) - 2
  BY <1>1, <1>4, <1>6
<1> QED BY <1>2, <1>11, <1>12 DEF col, row

\* A place as a word and a bit, within the memory and within the word.
LEMMA TablePlace ==
  ASSUME NEW x, x.size \in TableSizes,
         NEW c \in Box(-BufferSize, -BufferSize, Pad(x.size))
  PROVE  /\ TableIndex(x, c) \in Nat
         /\ Word(TableIndex(x, c))
              = (c[2] + BufferSize) * RowWords(x.size) + (c[1] + BufferSize) \div Items
         /\ Bit(TableIndex(x, c)) = Stride * ((c[1] + BufferSize) % Items)
         /\ Bit(TableIndex(x, c)) + Stride <= PackBits
<1> DEFINE col == c[1] + BufferSize
           q == (c[2] + BufferSize) * RowWords(x.size) + col \div Items
           k == col % Items
<1>1. /\ col \in 0 .. Pad(x.size).w - 1 /\ col \div Items \in 0 .. RowWords(x.size) - 2
      /\ c[2] + BufferSize \in 0 .. Pad(x.size).h - 1
  BY TableSum
<1>2. RowWords(x.size) \in Nat /\ Pad(x.size).w \in Nat
  BY Rows
<1>3. PackBits \in Nat \ {0} /\ Stride \in Nat \ {0} /\ Items \in Nat \ {0} /\ PackBits = Items * Stride
  BY ItemWidth
<1>4. q \in Nat
  <2>1. (c[2] + BufferSize) * RowWords(x.size) \in Nat
    BY <1>1, <1>2
  <2> QED BY <1>1, <2>1
<1>5. k \in 0 .. Items - 1
  <2>1. col \in Nat
    BY <1>1, <1>2
  <2> QED BY <1>3, <2>1, Parts
<1>6. TableIndex(x, c) = PackBits * q + Stride * k
  BY DEF TableIndex
<1> HIDE DEF q, k, col
<1>7. Stride * k \in Nat /\ Stride * k + Stride <= PackBits
  <2>1. (k + 1) * Stride <= Items * Stride
    BY <1>3, <1>5
  <2>2. (k + 1) * Stride = Stride * k + Stride
    BY <1>3, <1>5
  <2>3. Stride * k \in Nat
    BY <1>3, <1>5
  <2> QED BY <1>3, <2>1, <2>2, <2>3
<1>8. Stride * k \in 0 .. PackBits - 1
  BY <1>3, <1>7
<1>9. /\ PackBits * q + Stride * k \in Nat
      /\ (PackBits * q + Stride * k) \div PackBits = q
      /\ (PackBits * q + Stride * k) % PackBits = Stride * k
  BY <1>3, <1>4, <1>8, Split
<1> QED BY <1>6, <1>7, <1>9 DEF Word, Bit, q, k, col

\* The columns of a row follow each other, rows are RowWords words apart.
LEMMA TableStep ==
  ASSUME NEW x, x.size \in TableSizes,
         NEW c \in Box(-BufferSize, -BufferSize, Pad(x.size)),
         NEW i \in Nat, NEW j \in Nat,
         <<c[1] + i, c[2] + j>> \in Box(-BufferSize, -BufferSize, Pad(x.size))
  PROVE  TableIndex(x, <<c[1] + i, c[2] + j>>)
           = TableIndex(x, c) + Stride * i + PackBits * (j * RowWords(x.size))
<1> DEFINE n == RowWords(x.size)
           col == c[1] + BufferSize
           row == c[2] + BufferSize
<1>1. /\ n \in Nat /\ BufferSize \in Nat /\ Pad(x.size).w \in Nat /\ Pad(x.size).h \in Nat
  BY Rows
<1>2. PackBits \in Nat /\ Stride \in Nat
  BY ItemWidth
<1>3. c[1] \in Int /\ c[2] \in Int /\ col \in Nat /\ row \in Nat
  BY <1>1 DEF Box
<1>4. TableIndex(x, c) = PackBits * (row * n) + Stride * col
  BY TableSum
<1>5. TableIndex(x, <<c[1] + i, c[2] + j>>) = PackBits * ((row + j) * n) + Stride * (col + i)
  <2>1. TableIndex(x, <<c[1] + i, c[2] + j>>)
          = PackBits * (((c[2] + j) + BufferSize) * n) + Stride * ((c[1] + i) + BufferSize)
    BY TableSum
  <2>2. (c[2] + j) + BufferSize = row + j /\ (c[1] + i) + BufferSize = col + i
    BY <1>1, <1>3
  <2> QED BY <2>1, <2>2
<1> HIDE DEF n, row, col
<1>6. PackBits * ((row + j) * n) = PackBits * (row * n) + PackBits * (j * n)
  <2>1. (row + j) * n = row * n + j * n /\ row * n \in Nat /\ j * n \in Nat
    BY <1>1, <1>3
  <2> QED BY <1>2, <2>1
<1>7. Stride * (col + i) = Stride * col + Stride * i
  BY <1>2, <1>3
<1>8. /\ PackBits * (row * n) \in Nat /\ PackBits * (j * n) \in Nat
      /\ Stride * col \in Nat /\ Stride * i \in Nat
  BY <1>1, <1>2, <1>3
<1> QED BY <1>4, <1>5, <1>6, <1>7, <1>8 DEF n

-----------------------------------------------------------------------------
(* Values *)

\* Whether bit k of an array is one.
IsOne(d, k) == Bit(k) \in d[Word(k)]

\* bit_mask has the bits of a value.
LEMMA ValueBitsAre == ValueBits = 0 .. BitCount - 1
<1>1. PackBits \in Nat /\ BitCount \in Nat /\ BitCount <= PackBits
  BY BitOpsAssumption DEF Powers
<1>2. CASE BitCount = PackBits
  BY <1>1, <1>2 DEF ValueBits, make_mask, BitsOf
<1>3. CASE BitCount # PackBits
  <2>1. make_mask_limit(PackBits, BitCount, 0) = 0 .. 0 + BitCount - 1
    BY <1>1, LimitMask
  <2>2. 0 .. 0 + BitCount - 1 = 0 .. BitCount - 1
    BY <1>1
  <2> QED BY <1>3, <2>1, <2>2 DEF ValueBits, make_mask
<1> QED BY <1>2, <1>3

\* What is read at an index whose word has room for a value.
LEMMA BitGetBits ==
  ASSUME NEW d, NEW id \in Nat, Bit(id) + BitCount <= PackBits
  PROVE  /\ BitGet(d, id) \subseteq 0 .. BitCount - 1
         /\ \A i \in 0 .. BitCount - 1 : i \in BitGet(d, id) <=> IsOne(d, id + i)
<1>1. PackBits \in Nat \ {0} /\ BitCount \in Nat \ {0}
  BY ItemWidth
<1>2. BitGet(d, id) = Right(PackBits, d[Word(id)], Bit(id)) \cap (0 .. BitCount - 1)
  BY ValueBitsAre DEF BitGet, RightShift, bit_right_shift, PackType
<1>3. ASSUME NEW i \in 0 .. BitCount - 1
      PROVE  Word(id + i) = Word(id) /\ Bit(id + i) = Bit(id) + i /\ i \in BitsOf(PackBits - Bit(id))
  <2>1. Word(id) \in Nat /\ Bit(id) \in Nat /\ id = PackBits * Word(id) + Bit(id)
    BY <1>1, Parts DEF Word, Bit
  <2>2. Bit(id) + i \in 0 .. PackBits - 1
    BY <1>1, <2>1
  <2>3. PackBits * Word(id) \in Nat
    BY <1>1, <2>1
  <2>4. id + i = PackBits * Word(id) + (Bit(id) + i)
    BY <1>1, <2>1, <2>3
  <2>5. /\ (PackBits * Word(id) + (Bit(id) + i)) \div PackBits = Word(id)
        /\ (PackBits * Word(id) + (Bit(id) + i)) % PackBits = Bit(id) + i
    BY <1>1, <2>1, <2>2, Split
  <2>6. i \in BitsOf(PackBits - Bit(id))
    BY <1>1, <2>1, <2>2 DEF BitsOf
  <2> QED BY <2>4, <2>5, <2>6 DEF Word, Bit
<1>4. ASSUME NEW i \in 0 .. BitCount - 1
      PROVE  i \in Right(PackBits, d[Word(id)], Bit(id)) <=> IsOne(d, id + i)
  <2>1. i + Bit(id) = Bit(id) + i
    BY <1>1 DEF Bit
  <2> QED BY <1>3, <2>1 DEF Right, IsOne
<1> QED BY <1>2, <1>4

-----------------------------------------------------------------------------
(* region() *)

\* The address of a row and the bit in its first byte.
LEMMA RowStart ==
  ASSUME NEW id \in Nat, NEW n \in Nat, NEW j \in Nat
  PROVE  /\ CharBits \in Nat \ {0} /\ Chars \in Nat \ {0} /\ PackBits = Chars * CharBits
         /\ (Bit(id) % CharBits) \in 0 .. CharBits - 1
         /\ RowAddress(n, id, j) \in Nat
         /\ RowAddress(n, id, j) * CharBits + (Bit(id) % CharBits) = id + PackBits * (j * n)
<1> DEFINE f == Bit(id) % CharBits
           b == Bit(id) \div CharBits
<1>1. PackBits \in Nat \ {0} /\ CharBits \in Nat \ {0} /\ CharBits <= PackBits /\ PackBits % CharBits = 0
  BY BitOpsAssumption DEF Powers
<1>2. Chars \in Nat \ {0} /\ PackBits = Chars * CharBits
  <2>1. /\ PackBits \div CharBits \in Nat
        /\ PackBits = CharBits * (PackBits \div CharBits) + (PackBits % CharBits)
    BY <1>1, Parts
  <2>2. Chars \in Nat /\ PackBits = CharBits * Chars
    BY <1>1, <2>1 DEF Chars
  <2> QED BY <1>1, <2>2
<1>3. Word(id) \in Nat /\ Bit(id) \in Nat /\ id = PackBits * Word(id) + Bit(id)
  BY <1>1, Parts DEF Word, Bit
<1>4. b \in Nat /\ f \in 0 .. CharBits - 1 /\ Bit(id) = CharBits * b + f
  BY <1>1, <1>3, Parts
<1> HIDE DEF b, f
<1>5. RowAddress(n, id, j) = Word(id) * Chars + b + (j * n) * Chars
  BY DEF RowAddress, RegionAddress, b
<1>6. j * n \in Nat
  OBVIOUS
<1> DEFINE m == j * n
<1>7. m \in Nat /\ RowAddress(n, id, j) = Word(id) * Chars + b + m * Chars
  BY <1>5, <1>6
<1> HIDE DEF m
<1>8. Word(id) * Chars \in Nat /\ m * Chars \in Nat
  BY <1>2, <1>3, <1>7
<1>9. RowAddress(n, id, j) * CharBits
        = (Word(id) * Chars) * CharBits + b * CharBits + (m * Chars) * CharBits
  BY <1>1, <1>4, <1>7, <1>8
<1>10. (Word(id) * Chars) * CharBits = PackBits * Word(id) /\ (m * Chars) * CharBits = PackBits * m
  BY <1>1, <1>2, <1>3, <1>7
<1>11. PackBits * Word(id) \in Nat /\ PackBits * m \in Nat /\ b * CharBits \in Nat /\ b * CharBits = CharBits * b
  BY <1>1, <1>3, <1>4, <1>7
<1>12. RowAddress(n, id, j) * CharBits + f = id + PackBits * m
  BY <1>3, <1>4, <1>9, <1>10, <1>11
<1>13. RowAddress(n, id, j) \in Nat
  BY <1>4, <1>7, <1>8
<1> QED BY <1>1, <1>2, <1>4, <1>12, <1>13 DEF m, f

\* One row of a region, at its place in the result.
LEMMA RowBitsOf ==
  ASSUME NEW d, NEW id \in Nat, NEW n \in Nat, NEW m, NEW j \in Nat,
         m.w * BitCount \in Nat, m.w * BitCount <= (Chars - 1) * CharBits,
         j * (m.w * BitCount) \in Nat, j * (m.w * BitCount) + m.w * BitCount <= PackBits
  PROVE  \A b :
           b \in RegionRow(d, n, id, m, j)
             <=> \E t \in 0 .. m.w * BitCount - 1 :
                   b = j * (m.w * BitCount) + t /\ IsOne(d, id + PackBits * (j * n) + t)
<1> DEFINE bits == m.w * BitCount
           t0 == j * bits
           a == RowAddress(n, id, j)
           f == Bit(id) % CharBits
           S == SizeAt(d, a)
           start == id + PackBits * (j * n)
<1>1. /\ CharBits \in Nat \ {0} /\ Chars \in Nat \ {0} /\ PackBits = Chars * CharBits
      /\ f \in 0 .. CharBits - 1 /\ a \in Nat /\ a * CharBits + f = start
  BY RowStart
<1>2. f + bits < PackBits /\ PackBits \in Nat
  <2>1. (Chars - 1) * CharBits = Chars * CharBits - CharBits /\ Chars * CharBits \in Nat
    BY <1>1
  <2> QED BY <1>1, <2>1
<1>0. bits \in Nat /\ t0 \in Nat /\ t0 + bits <= PackBits
  OBVIOUS
<1> HIDE DEF a, f, start, bits, t0
<1>3. make_mask(PackBits, bits, t0) = t0 .. t0 + bits - 1
  <2>1. bits # PackBits
    BY <1>0, <1>1, <1>2
  <2> QED BY <1>0, <1>2, <2>1, LimitMask DEF make_mask
<1>4. bit_shift_from_to(PackType, S, f, t0) = Left(PackBits, Right(PackBits, S, f), t0)
  BY DEF bit_shift_from_to, bit_left_shift, bit_right_shift, PackType
<1>5. ASSUME NEW t \in 0 .. bits - 1
      PROVE  t \in Right(PackBits, S, f) <=> IsOne(d, start + t)
  <2>1. t \in BitsOf(PackBits - f) /\ t + f \in WordBits
    BY <1>0, <1>1, <1>2 DEF BitsOf, WordBits
  <2>2. a * CharBits + (t + f) = start + t
    <3>1. a * CharBits \in Nat
      BY <1>1
    <3> QED BY <1>0, <1>1, <3>1
  <2>3. t + f \in S <=> IsOne(d, start + t)
    BY <2>1, <2>2 DEF SizeAt, IsOne
  <2> QED BY <2>1, <2>3 DEF Right
<1> HIDE DEF S
<1>6. ASSUME NEW b
      PROVE  b \in Left(PackBits, Right(PackBits, S, f), t0) \cap (t0 .. t0 + bits - 1)
               <=> \E t \in 0 .. bits - 1 : b = t0 + t /\ t \in Right(PackBits, S, f)
  <2>1. ASSUME b \in Left(PackBits, Right(PackBits, S, f), t0), b \in t0 .. t0 + bits - 1
        PROVE  \E t \in 0 .. bits - 1 : b = t0 + t /\ t \in Right(PackBits, S, f)
    <3>1. PICK t \in Right(PackBits, S, f) : b = t + t0
      BY <2>1 DEF Left
    <3>2. t \in Int
      BY DEF Right, BitsOf
    <3> QED BY <1>0, <2>1, <3>1, <3>2
  <2>2. ASSUME NEW t \in 0 .. bits - 1, b = t0 + t, t \in Right(PackBits, S, f)
        PROVE  b \in Left(PackBits, Right(PackBits, S, f), t0) /\ b \in t0 .. t0 + bits - 1
    <3>1. b \in BitsOf(PackBits) /\ b = t + t0 /\ b \in t0 .. t0 + bits - 1
      BY <1>0, <1>2, <2>2 DEF BitsOf
    <3> QED BY <2>2, <3>1 DEF Left
  <2> QED BY <2>1, <2>2
<1>7. ASSUME NEW b
      PROVE  b \in bit_shift_from_to(PackType, S, f, t0) \cap make_mask(PackBits, bits, t0)
               <=> \E t \in 0 .. bits - 1 : b = t0 + t /\ IsOne(d, start + t)
  BY <1>3, <1>4, <1>5, <1>6
<1> QED BY <1>7 DEF RegionRow, S, a, f, start, bits, t0

\* The places of a region are in the table, and the values fit in a word.
LEMMA RegionPlaces ==
  ASSUME NEW x, x.size \in TableSizes,
         NEW r \in Regions(-BufferSize, Pad(x.size)), RegionReadable(r.size)
  PROVE  /\ r.at \in Box(-BufferSize, -BufferSize, Pad(x.size))
         /\ r.size.w \in Nat \ {0} /\ r.size.h \in Nat \ {0}
         /\ \A i \in 0 .. r.size.w - 1, j \in 0 .. r.size.h - 1 :
              <<r.at[1] + i, r.at[2] + j>> \in Box(-BufferSize, -BufferSize, Pad(x.size))
         /\ r.size.w * BitCount \in Nat /\ r.size.w * BitCount <= (Chars - 1) * CharBits
         /\ \A j \in 0 .. r.size.h - 1 :
              /\ j * (r.size.w * BitCount) \in Nat
              /\ j * (r.size.w * BitCount) + r.size.w * BitCount <= PackBits
<1>1. /\ BufferSize \in Nat /\ Pad(x.size).w \in Nat /\ Pad(x.size).h \in Nat
  BY Rows
<1> DEFINE w == r.size.w
           h == r.size.h
<1>2. /\ r.at \in Box(-BufferSize, -BufferSize, Pad(x.size))
      /\ w \in 1 .. Pad(x.size).w /\ h \in 1 .. Pad(x.size).h
      /\ r.at[1] + w <= -BufferSize + Pad(x.size).w
      /\ r.at[2] + h <= -BufferSize + Pad(x.size).h
  BY DEF Regions
<1>3. w * h <= Items /\ w * BitCount <= (Chars - 1) * CharBits
  BY DEF RegionReadable
<1> HIDE DEF w, h
<1>4. w \in Nat \ {0} /\ h \in Nat \ {0}
  BY <1>1, <1>2
<1>5. ASSUME NEW i \in 0 .. w - 1, NEW j \in 0 .. h - 1
      PROVE  <<r.at[1] + i, r.at[2] + j>> \in Box(-BufferSize, -BufferSize, Pad(x.size))
  BY <1>1, <1>2, <1>4 DEF Box
<1>6. /\ PackBits \in Nat /\ Stride \in Nat \ {0} /\ Items \in Nat \ {0} /\ BitCount \in Nat \ {0}
      /\ BitCount <= Stride /\ PackBits = Items * Stride
  BY ItemWidth
<1>7. w * BitCount \in Nat
  BY <1>4, <1>6
<1>8. ASSUME NEW j \in 0 .. h - 1
      PROVE  j * (w * BitCount) \in Nat /\ j * (w * BitCount) + w * BitCount <= PackBits
  <2> DEFINE m == w * BitCount
  <2>1. m \in Nat
    BY <1>7
  <2> HIDE DEF m
  <2>2. j * m + m = (j + 1) * m /\ j * m \in Nat
    BY <1>4, <2>1
  <2>3. (j + 1) * m <= h * m
    BY <1>4, <2>1
  <2>4. h * m = (w * h) * BitCount
    BY <1>4, <1>6 DEF m
  <2>5. (w * h) * BitCount <= Items * BitCount
    <3>1. w * h \in Nat
      BY <1>4
    <3> QED BY <1>3, <1>6, <3>1
  <2>6. Items * BitCount <= Items * Stride
    BY <1>6
  <2>7. (j + 1) * m \in Nat /\ h * m \in Nat /\ Items * BitCount \in Nat
    BY <1>4, <1>6, <2>1
  <2>8. j * m + m <= PackBits
    BY <1>6, <2>2, <2>3, <2>4, <2>5, <2>6, <2>7
  <2> QED BY <2>2, <2>8 DEF m
<1> QED BY <1>2, <1>3, <1>4, <1>5, <1>7, <1>8 DEF w, h

\* A value of a region, at its place in the result.
LEMMA ValueInRegion ==
  ASSUME NEW x, x.kind = "table", x.size \in TableSizes, Tight,
         NEW r \in Regions(-BufferSize, Pad(x.size)), RegionReadable(r.size),
         NEW i \in 0 .. r.size.w - 1, NEW j \in 0 .. r.size.h - 1
  PROVE  \A b :
           b \in LeftShift(Value(x, <<r.at[1] + i, r.at[2] + j>>), BitCount * (j * r.size.w + i))
             <=> \E k \in 0 .. BitCount - 1 :
                   /\ b = j * (r.size.w * BitCount) + (BitCount * i + k)
                   /\ IsOne(x.data, BitIndex(x, r.at) + PackBits * (j * RowWords(x.size))
                                      + (BitCount * i + k))
<1> DEFINE w == r.size.w
           c == <<r.at[1] + i, r.at[2] + j>>
           id == TableIndex(x, c)
           base == TableIndex(x, r.at)
           n == RowWords(x.size)
           shift == BitCount * (j * w + i)
<1>1. /\ w \in Nat \ {0} /\ r.size.h \in Nat \ {0}
      /\ r.at \in Box(-BufferSize, -BufferSize, Pad(x.size))
      /\ c \in Box(-BufferSize, -BufferSize, Pad(x.size))
      /\ w * BitCount \in Nat /\ j * (w * BitCount) \in Nat
      /\ j * (w * BitCount) + w * BitCount <= PackBits
  BY RegionPlaces
<1>2. /\ PackBits \in Nat \ {0} /\ BitCount \in Nat \ {0} /\ Stride = BitCount
  BY ItemWidth DEF Tight
<1>3. id \in Nat /\ base \in Nat /\ Bit(id) + BitCount <= PackBits
  BY <1>1, <1>2, TablePlace
<1>4. n \in Nat
  BY Rows
<1>5. i \in Nat /\ j \in Nat
  BY <1>1
<1>6. id = base + BitCount * i + PackBits * (j * n)
  BY <1>1, <1>2, <1>5, TableStep
<1>7. Value(x, c) = BitGet(x.data, id)
  BY DEF Value, BitIndex
<1>8. BitIndex(x, r.at) = base
  BY DEF BitIndex
<1>9. shift = j * (w * BitCount) + BitCount * i /\ BitCount * i \in Nat
  <2>1. BitCount * (j * w + i) = BitCount * (j * w) + BitCount * i
    <3>1. j * w \in Nat
      BY <1>1, <1>5
    <3> QED BY <1>2, <1>5, <3>1
  <2>2. BitCount * (j * w) = j * (w * BitCount)
    BY <1>1, <1>2, <1>5
  <2> QED BY <1>2, <1>5, <2>1, <2>2
<1>10. BitCount * i + BitCount <= w * BitCount
  <2>1. (i + 1) * BitCount <= w * BitCount
    BY <1>1, <1>2, <1>5
  <2>2. (i + 1) * BitCount = BitCount * i + BitCount
    BY <1>2, <1>5
  <2> QED BY <2>1, <2>2
<1>11. PackBits * (j * n) \in Nat
  <2>1. j * n \in Nat
    BY <1>4, <1>5
  <2> QED BY <1>2, <2>1
<1> HIDE DEF w, c, id, base, n, shift
<1>12. BitGet(x.data, id) \subseteq 0 .. BitCount - 1
  BY <1>3, BitGetBits
<1>13. ASSUME NEW k \in 0 .. BitCount - 1
       PROVE  /\ k \in BitGet(x.data, id)
                   <=> IsOne(x.data, base + PackBits * (j * n) + (BitCount * i + k))
              /\ k + shift = j * (w * BitCount) + (BitCount * i + k)
              /\ k + shift \in BitsOf(PackBits)
  <2>1. k \in BitGet(x.data, id) <=> IsOne(x.data, id + k)
    BY <1>3, BitGetBits
  <2>2. id + k = base + PackBits * (j * n) + (BitCount * i + k)
    BY <1>2, <1>3, <1>6, <1>9, <1>11
  <2>3. k + shift = j * (w * BitCount) + (BitCount * i + k)
    BY <1>1, <1>2, <1>9
  <2>4. k + shift \in BitsOf(PackBits)
    BY <1>1, <1>2, <1>9, <1>10 DEF BitsOf
  <2> QED BY <2>1, <2>2, <2>3, <2>4
<1>14. ASSUME NEW b
       PROVE  b \in LeftShift(BitGet(x.data, id), shift)
                <=> \E k \in 0 .. BitCount - 1 :
                      /\ b = j * (w * BitCount) + (BitCount * i + k)
                      /\ IsOne(x.data, base + PackBits * (j * n) + (BitCount * i + k))
  <2>1. LeftShift(BitGet(x.data, id), shift)
          = { k + shift : k \in BitGet(x.data, id) } \cap BitsOf(PackBits)
    BY DEF LeftShift, bit_left_shift, Left, PackType
  <2> QED BY <1>12, <1>13, <2>1
<1> QED BY <1>7, <1>8, <1>14 DEF w, c, id, base, n, shift

\* The word that region() returns has the values of the region.
LEMMA RegionValues ==
  ASSUME NEW x, x.kind = "table", x.size \in TableSizes, Tight,
         NEW r \in Regions(-BufferSize, Pad(x.size)), RegionReadable(r.size)
  PROVE  Region(x.data, RowWords(x.size), BitIndex(x, r.at), r.size)
           = UNION { LeftShift(Value(x, <<r.at[1] + s[1], r.at[2] + s[2]>>),
                               BitCount * (s[2] * r.size.w + s[1]))
                     : s \in Box(0, 0, r.size) }
<1> DEFINE w == r.size.w
           h == r.size.h
           n == RowWords(x.size)
           id == BitIndex(x, r.at)
           bits == w * BitCount
           Ones(b, j, t) == b = j * bits + t /\ IsOne(x.data, id + PackBits * (j * n) + t)
           Shown(i, j) == LeftShift(Value(x, <<r.at[1] + i, r.at[2] + j>>), BitCount * (j * w + i))
<1>1. /\ w \in Nat \ {0} /\ h \in Nat \ {0}
      /\ r.at \in Box(-BufferSize, -BufferSize, Pad(x.size))
      /\ bits \in Nat /\ bits <= (Chars - 1) * CharBits
      /\ \A j \in 0 .. h - 1 : j * bits \in Nat /\ j * bits + bits <= PackBits
  BY RegionPlaces
<1>2. id \in Nat
  BY <1>1, TablePlace DEF BitIndex
<1>3. n \in Nat
  BY Rows
<1>4. BitCount \in Nat \ {0}
  BY ItemWidth
<1>5. ASSUME NEW j \in 0 .. h - 1, NEW b
      PROVE  b \in RegionRow(x.data, n, id, r.size, j) <=> \E t \in 0 .. bits - 1 : Ones(b, j, t)
  <2> HIDE DEF n, id
  <2>1. j \in Nat /\ j * bits \in Nat /\ j * bits + bits <= PackBits
    BY <1>1
  <2>2. bits \in Nat /\ bits <= (Chars - 1) * CharBits
    BY <1>1
  <2> DEFINE m == r.size
  <2>3. /\ m.w * BitCount \in Nat /\ m.w * BitCount <= (Chars - 1) * CharBits
        /\ j * (m.w * BitCount) \in Nat /\ j * (m.w * BitCount) + m.w * BitCount <= PackBits
    BY <2>1, <2>2
  <2> HIDE DEF m, Ones, bits
  <2> DEFINE d == x.data
  <2> HIDE DEF d
  <2>4. \A e :
           e \in RegionRow(d, n, id, m, j)
             <=> \E t \in 0 .. m.w * BitCount - 1 :
                   e = j * (m.w * BitCount) + t /\ IsOne(d, id + PackBits * (j * n) + t)
    BY <1>2, <1>3, <2>1, <2>3, RowBitsOf
  <2> QED BY <2>4 DEF d, m, Ones, bits, w
<1>6. ASSUME NEW i \in 0 .. w - 1, NEW j \in 0 .. h - 1, NEW b
      PROVE  b \in Shown(i, j) <=> \E k \in 0 .. BitCount - 1 : Ones(b, j, BitCount * i + k)
  BY ValueInRegion
<1>7. Box(0, 0, r.size) = (0 .. w - 1) \X (0 .. h - 1)
  BY <1>1 DEF Box
<1> HIDE DEF Ones, Shown
<1>8. ASSUME NEW i \in 0 .. w - 1, NEW k \in 0 .. BitCount - 1
      PROVE  BitCount * i + k \in 0 .. bits - 1
  <2> HIDE DEF w
  <2>1. w \in Nat /\ i \in Nat /\ i + 1 <= w /\ k \in Nat /\ k < BitCount
    BY <1>1, <1>4
  <2>2. (i + 1) * BitCount <= w * BitCount
    BY <1>4, <2>1
  <2>3. (i + 1) * BitCount = BitCount * i + BitCount /\ BitCount * i \in Nat
    BY <1>4, <2>1
  <2>4. w * BitCount \in Nat
    BY <1>4, <2>1
  <2> QED BY <1>4, <2>1, <2>2, <2>3, <2>4
<1>9. ASSUME NEW t \in 0 .. bits - 1
      PROVE  \E i \in 0 .. w - 1, k \in 0 .. BitCount - 1 : t = BitCount * i + k
  <2>1. t \in Nat /\ t < BitCount * w
    BY <1>1, <1>4
  <2>2. /\ t \div BitCount \in Nat /\ (t % BitCount) \in 0 .. BitCount - 1
        /\ t = BitCount * (t \div BitCount) + (t % BitCount)
    BY <1>4, <2>1, Parts
  <2>3. t \div BitCount < w
    BY <1>1, <1>4, <2>1, PartBelow
  <2>4. t \div BitCount \in 0 .. w - 1
    BY <1>1, <2>2, <2>3
  <2> QED BY <2>2, <2>4
<1> HIDE DEF w, h, bits
<1>10. ASSUME NEW j \in 0 .. h - 1, NEW b
       PROVE  b \in RegionRow(x.data, n, id, r.size, j) <=> \E i \in 0 .. w - 1 : b \in Shown(i, j)
  BY <1>5, <1>6, <1>8, <1>9
<1>11. Region(x.data, n, id, r.size) = UNION { RegionRow(x.data, n, id, r.size, j) : j \in 0 .. h - 1 }
  BY DEF Region, h
<1>12. UNION { RegionRow(x.data, n, id, r.size, j) : j \in 0 .. h - 1 }
         = UNION { Shown(s[1], s[2]) : s \in (0 .. w - 1) \X (0 .. h - 1) }
  <2>1. ASSUME NEW b \in UNION { RegionRow(x.data, n, id, r.size, j) : j \in 0 .. h - 1 }
        PROVE  b \in UNION { Shown(s[1], s[2]) : s \in (0 .. w - 1) \X (0 .. h - 1) }
    <3>1. PICK j \in 0 .. h - 1 : b \in RegionRow(x.data, n, id, r.size, j)
      OBVIOUS
    <3>2. PICK i \in 0 .. w - 1 : b \in Shown(i, j)
      BY <1>10, <3>1
    <3>3. <<i, j>> \in (0 .. w - 1) \X (0 .. h - 1) /\ <<i, j>>[1] = i /\ <<i, j>>[2] = j
      OBVIOUS
    <3> QED BY <3>2, <3>3
  <2>2. ASSUME NEW s \in (0 .. w - 1) \X (0 .. h - 1), NEW b \in Shown(s[1], s[2])
        PROVE  b \in UNION { RegionRow(x.data, n, id, r.size, j) : j \in 0 .. h - 1 }
    <3>1. s[1] \in 0 .. w - 1 /\ s[2] \in 0 .. h - 1
      OBVIOUS
    <3>2. b \in RegionRow(x.data, n, id, r.size, s[2])
      BY <1>10, <2>2, <3>1
    <3> QED BY <3>1, <3>2
  <2> QED BY <2>1, <2>2
<1> QED BY <1>7, <1>11, <1>12 DEF Shown, w, n, id

\* The reads of region() stay within the table.
LEMMA RegionInside ==
  ASSUME NEW x, x.kind = "table", x.size \in TableSizes,
         NEW r \in Regions(-BufferSize, Pad(x.size)), RegionReadable(r.size)
  PROVE  RegionWords(RowWords(x.size), BitIndex(x, r.at), r.size)
           \subseteq 0 .. TableWords(x.size) - 1
<1> DEFINE n == RowWords(x.size)
           id == BitIndex(x, r.at)
           row == r.at[2] + BufferSize
           col == (r.at[1] + BufferSize) \div Items
           Address(j) == RowAddress(n, id, j) * CharBits
<1>1. /\ r.size.w \in Nat \ {0} /\ r.size.h \in Nat \ {0}
      /\ r.at \in Box(-BufferSize, -BufferSize, Pad(x.size))
      /\ \A j \in 0 .. r.size.h - 1 :
           <<r.at[1] + 0, r.at[2] + j>> \in Box(-BufferSize, -BufferSize, Pad(x.size))
  <2>1. /\ r.size.w \in Nat \ {0} /\ r.size.h \in Nat \ {0}
        /\ r.at \in Box(-BufferSize, -BufferSize, Pad(x.size))
        /\ \A i \in 0 .. r.size.w - 1, j \in 0 .. r.size.h - 1 :
             <<r.at[1] + i, r.at[2] + j>> \in Box(-BufferSize, -BufferSize, Pad(x.size))
    BY RegionPlaces
  <2>2. 0 \in 0 .. r.size.w - 1
    BY <2>1
  <2> QED BY <2>1, <2>2
<1>2. /\ n \in Nat /\ Pad(x.size).h \in Nat /\ BufferSize \in Nat /\ PackBits \in Nat \ {0}
  BY Rows, ItemWidth
<1>3. /\ id \in Nat /\ Word(id) = row * n + col /\ Bit(id) < PackBits
      /\ col \in 0 .. n - 2 /\ row \in Nat
  <2>1. /\ TableIndex(x, r.at) \in Nat
        /\ Word(TableIndex(x, r.at)) = row * n + col
    BY <1>1, TablePlace
  <2>2. col \in 0 .. n - 2 /\ row \in 0 .. Pad(x.size).h - 1
    BY <1>1, TableSum
  <2>3. id = TableIndex(x, r.at)
    BY DEF BitIndex
  <2>4. Bit(id) < PackBits
    BY <1>2, <2>1, <2>3, Parts DEF Bit
  <2>5. row \in Nat
    BY <1>2, <2>2
  <2> QED BY <2>1, <2>2, <2>3, <2>4, <2>5
<1>4. ASSUME NEW j \in 0 .. r.size.h - 1
      PROVE  row + j < Pad(x.size).h
  <2>1. <<r.at[1] + 0, r.at[2] + j>> \in Box(-BufferSize, -BufferSize, Pad(x.size))
    BY <1>1
  <2>2. r.at[2] \in Int /\ j \in Nat
    BY <1>1, <1>2 DEF Box
  <2>3. r.at[2] + j <= -BufferSize + Pad(x.size).h - 1
    BY <1>2, <2>1 DEF Box
  <2> QED BY <1>2, <2>2, <2>3
<1> HIDE DEF n, id, row, col
<1>5. ASSUME NEW j \in 0 .. r.size.h - 1, NEW k \in {0, PackBits - 1}
      PROVE  Word(Address(j) + k) \in 0 .. TableWords(x.size) - 1
  <2>1. j \in Nat
    BY <1>1
  <2> DEFINE f == Bit(id) % CharBits
             a == Address(j)
             q == (row + j) * n + col
  <2>2. CharBits \in Nat \ {0} /\ f \in Nat /\ a \in Nat /\ a + f = id + PackBits * (j * n)
    <3>1. /\ CharBits \in Nat \ {0} /\ f \in 0 .. CharBits - 1 /\ RowAddress(n, id, j) \in Nat
          /\ RowAddress(n, id, j) * CharBits + f = id + PackBits * (j * n)
      BY <1>2, <1>3, <2>1, RowStart
    <3>2. RowAddress(n, id, j) * CharBits \in Nat
      BY <3>1
    <3> QED BY <3>1, <3>2
  <2>3. id = PackBits * Word(id) + Bit(id) /\ Bit(id) \in Nat /\ Word(id) \in Nat
    BY <1>3, IndexParts
  <2>4. /\ row * n \in Nat /\ j * n \in Nat /\ (row + j) * n = row * n + j * n
        /\ col \in Nat
    BY <1>2, <1>3, <2>1
  <2>5. q \in Nat /\ PackBits * q = PackBits * Word(id) + PackBits * (j * n)
    <3>1. q = Word(id) + j * n
      BY <1>3, <2>4
    <3> QED BY <1>2, <2>3, <2>4, <3>1
  <2> HIDE DEF a, f, q, Address
  <2>6. a + f = PackBits * q + Bit(id) /\ PackBits * q \in Nat
    <3>1. PackBits * (j * n) \in Nat /\ PackBits * Word(id) \in Nat /\ PackBits * q \in Nat
      BY <1>2, <2>3, <2>4, <2>5
    <3> QED BY <2>2, <2>3, <2>5, <3>1
  <2>7. a + k \in Nat /\ a + k < PackBits * (q + 2)
    <3>1. PackBits * (q + 2) = PackBits * q + PackBits + PackBits
      BY <1>2, <2>5
    <3> QED BY <1>2, <1>3, <2>2, <2>3, <2>6, <3>1
  <2>8. Word(a + k) \in Nat /\ Word(a + k) < q + 2
    <3>1. q + 2 \in Nat
      BY <2>5
    <3> QED BY <1>2, <2>7, <3>1, Parts, PartBelow DEF Word
  <2>9. q + 1 < TableWords(x.size)
    <3>1. (row + j + 1) * n <= Pad(x.size).h * n
      BY <1>2, <1>3, <1>4, <2>1
    <3>2. (row + j + 1) * n = (row + j) * n + n
      BY <1>2, <1>3, <2>1
    <3>3. q + 1 <= (row + j) * n + n - 1
      BY <1>2, <1>3, <2>4 DEF q
    <3>4. Pad(x.size).h * n \in Nat /\ (row + j) * n \in Nat
      BY <1>2, <1>3, <2>1
    <3>5. TableWords(x.size) = Pad(x.size).h * n
      BY DEF TableWords, n
    <3> QED BY <1>2, <2>5, <3>1, <3>2, <3>3, <3>4, <3>5
  <2>10. TableWords(x.size) \in Nat
    BY <1>2 DEF TableWords, n
  <2>11. Word(a + k) \in 0 .. TableWords(x.size) - 1
    BY <2>5, <2>8, <2>9, <2>10
  <2> QED BY <2>11 DEF a
<1>6. ASSUME NEW j \in 0 .. r.size.h - 1
      PROVE  SizeWords(RowAddress(n, id, j)) \subseteq 0 .. TableWords(x.size) - 1
  <2>1. Word(Address(j) + 0) \in 0 .. TableWords(x.size) - 1
    BY <1>5
  <2>2. Word(Address(j) + (PackBits - 1)) \in 0 .. TableWords(x.size) - 1
    BY <1>5
  <2>3. /\ Address(j) + 0 = RowAddress(n, id, j) * CharBits
        /\ Address(j) + (PackBits - 1) = RowAddress(n, id, j) * CharBits + PackBits - 1
    <3>1. RowAddress(n, id, j) \in Nat /\ CharBits \in Nat
      <4>1. j \in Nat /\ id \in Nat /\ n \in Nat
        BY <1>1, <1>2, <1>3
      <4> QED BY <4>1, RowStart
    <3>2. RowAddress(n, id, j) * CharBits \in Nat
      BY <3>1
    <3> QED BY <1>2, <3>2
  <2> HIDE DEF Address
  <2> QED BY <2>1, <2>2, <2>3 DEF SizeWords
<1> QED BY <1>6 DEF RegionWords, n, id

-----------------------------------------------------------------------------
(* Places *)

\* No two places of a table are at the same index.
LEMMA TableApart ==
  ASSUME NEW x, x.size \in TableSizes,
         NEW c \in Box(-BufferSize, -BufferSize, Pad(x.size)),
         NEW e \in Box(-BufferSize, -BufferSize, Pad(x.size)),
         TableIndex(x, c) = TableIndex(x, e)
  PROVE  c = e
<1> DEFINE n == RowWords(x.size)
           Col(p) == p[1] + BufferSize
           Row(p) == p[2] + BufferSize
<1>1. /\ BufferSize \in Nat /\ n \in Nat
      /\ PackBits \in Nat \ {0} /\ Stride \in Nat \ {0} /\ Items \in Nat \ {0}
  BY Rows, ItemWidth
<1>2. ASSUME NEW p \in {c, e}
      PROVE  /\ p = <<p[1], p[2]>> /\ p[1] \in Int /\ p[2] \in Int
             /\ Col(p) \in Nat /\ Row(p) \in Nat
             /\ Col(p) \div Items \in 0 .. n - 2
             /\ Word(TableIndex(x, p)) = n * Row(p) + Col(p) \div Items
             /\ Bit(TableIndex(x, p)) = Stride * (Col(p) % Items)
  <2>1. p \in Box(-BufferSize, -BufferSize, Pad(x.size))
    OBVIOUS
  <2>2. p = <<p[1], p[2]>> /\ p[1] \in Int /\ p[2] \in Int
    BY <2>1 DEF Box
  <2>3. Row(p) \in 0 .. Pad(x.size).h - 1 /\ Col(p) \in 0 .. Pad(x.size).w - 1
        /\ Col(p) \div Items \in 0 .. n - 2
    BY <2>1, TableSum
  <2>4. Word(TableIndex(x, p)) = Row(p) * n + Col(p) \div Items
        /\ Bit(TableIndex(x, p)) = Stride * (Col(p) % Items)
    BY <2>1, TablePlace
  <2>5. Pad(x.size).h \in Nat /\ Pad(x.size).w \in Nat
    BY Rows
  <2>6. Row(p) \in Nat /\ Col(p) \in Nat
    BY <2>3, <2>5
  <2>7. Row(p) * n = n * Row(p)
    BY <1>1, <2>6
  <2> QED BY <2>2, <2>3, <2>4, <2>6, <2>7
<1> HIDE DEF n, Col, Row
<1>3. n \in Nat \ {0}
  BY <1>1, <1>2
<1>4. ASSUME NEW p \in {c, e}
      PROVE  /\ Row(p) = Word(TableIndex(x, p)) \div n
             /\ Col(p) \div Items = Word(TableIndex(x, p)) % n
  <2>1. Col(p) \div Items \in 0 .. n - 1
    BY <1>2, <1>3
  <2> DEFINE q == Col(p) \div Items
  <2>2. Word(TableIndex(x, p)) = n * Row(p) + q /\ Row(p) \in Nat /\ q \in 0 .. n - 1
    BY <1>2, <2>1
  <2> HIDE DEF q
  <2>3. (n * Row(p) + q) \div n = Row(p) /\ (n * Row(p) + q) % n = q
    BY <1>3, <2>2, Split
  <2> QED BY <2>2, <2>3 DEF q
<1>5. Row(c) = Row(e) /\ Col(c) \div Items = Col(e) \div Items
  BY <1>4
<1>6. Col(c) % Items = Col(e) % Items
  <2>1. Stride * (Col(c) % Items) = Stride * (Col(e) % Items)
    BY <1>2
  <2>2. (Col(c) % Items) \in Nat /\ (Col(e) % Items) \in Nat
    BY <1>1, <1>2, Parts
  <2> DEFINE a == Col(c) % Items
             b == Col(e) % Items
  <2> HIDE DEF a, b
  <2>3. Stride * a = Stride * b /\ a \in Nat /\ b \in Nat
    BY <2>1, <2>2 DEF a, b
  <2>4. a = b
    BY <1>1, <2>3
  <2> QED BY <2>4 DEF a, b
<1>7. Col(c) = Col(e)
  <2>1. \A p \in {c, e} : Col(p) = Items * (Col(p) \div Items) + (Col(p) % Items)
    BY <1>1, <1>2, Parts
  <2> QED BY <1>5, <1>6, <2>1
<1>8. c[1] = e[1] /\ c[2] = e[2]
  <2>1. c[1] + BufferSize = e[1] + BufferSize /\ c[2] + BufferSize = e[2] + BufferSize
    BY <1>5, <1>7 DEF Col, Row
  <2>2. c[1] \in Int /\ c[2] \in Int /\ e[1] \in Int /\ e[2] \in Int
    BY <1>2
  <2> QED BY <1>1, <2>1, <2>2
<1> QED BY <1>2, <1>8

\* Where a place of a cell is: within the memory and within a word.
LEMMA CellPlace ==
  ASSUME NEW x, x.size \in CellSizes, NEW c \in Box(0, 0, x.size)
  PROVE  /\ c = <<c[1], c[2]>> /\ c[1] \in 0 .. x.size.w - 1 /\ c[2] \in Nat
         /\ x.size.w \in Nat \ {0}
         /\ CellIndex(x, c) = Stride * (x.size.w * c[2] + c[1])
         /\ CellIndex(x, c) \in Nat
         /\ Word(CellIndex(x, c)) \in 0 .. CellWords(x.size) - 1
         /\ \E k \in Nat : Bit(CellIndex(x, c)) = Stride * k
         /\ Bit(CellIndex(x, c)) + Stride <= PackBits
<1> DEFINE w == x.size.w
           h == x.size.h
           m == w * c[2] + c[1]
<1>1. w \in Nat \ {0} /\ h \in Nat \ {0}
  BY BitTableAssumption
<1>2. PackBits \in Nat \ {0} /\ Stride \in Nat \ {0} /\ Items \in Nat \ {0} /\ PackBits = Items * Stride
  BY ItemWidth
<1>3. c = <<c[1], c[2]>> /\ c[1] \in 0 .. w - 1 /\ c[2] \in 0 .. h - 1
  BY <1>1 DEF Box
<1>4. c[2] * w + c[1] = m /\ m \in Nat
  BY <1>1, <1>3
<1>5. m < w * h /\ w * h \in Nat
  <2>1. w * (c[2] + 1) <= w * h
    BY <1>1, <1>3
  <2>2. w * (c[2] + 1) = w * c[2] + w
    BY <1>1, <1>3
  <2> QED BY <1>1, <1>3, <2>1, <2>2
<1>6. CellIndex(x, c) = Stride * m
  BY <1>4 DEF CellIndex
<1>7. CellWords(x.size) = (w * h * Stride + PackBits - 1) \div PackBits
  BY DEF CellWords
<1> HIDE DEF m
<1>8. Stride * m \in Nat
  BY <1>2, <1>4
<1>9. Word(CellIndex(x, c)) \in 0 .. CellWords(x.size) - 1
  <2> DEFINE all == w * h * Stride + PackBits - 1
  <2>1. w * h * Stride \in Nat /\ Stride * m < w * h * Stride
    <3> DEFINE wh == w * h
    <3>1. wh \in Nat /\ m < wh
      BY <1>5
    <3> HIDE DEF wh
    <3>2. wh * Stride \in Nat /\ Stride * m < wh * Stride
      BY <1>2, <1>4, <3>1
    <3> QED BY <3>2 DEF wh
  <2>2. all \in Nat
    BY <1>2, <2>1
  <2>3. /\ all \div PackBits \in Nat /\ (all % PackBits) \in 0 .. PackBits - 1
        /\ all = PackBits * (all \div PackBits) + (all % PackBits)
    <3> HIDE DEF all
    <3> QED BY <1>2, <2>2, Parts
  <2>4. Stride * m < PackBits * (all \div PackBits)
    <3>1. PackBits * (all \div PackBits) \in Nat
      BY <1>2, <2>3
    <3> QED BY <1>2, <1>8, <2>1, <2>3, <3>1
  <2> HIDE DEF all
  <2>5. (Stride * m) \div PackBits < all \div PackBits
    BY <1>2, <1>8, <2>3, <2>4, PartBelow
  <2>6. (Stride * m) \div PackBits \in Nat
    BY <1>2, <1>8, Parts
  <2> QED BY <1>6, <1>7, <2>3, <2>5, <2>6 DEF Word, all
<1>10. PICK q \in Nat, k \in 0 .. Items - 1 : m = Items * q + k
  BY <1>2, <1>4, Parts
<1>11. Stride * k \in Nat /\ Stride * k + Stride <= PackBits
  <2>1. (k + 1) * Stride <= Items * Stride
    BY <1>2, <1>10
  <2>2. (k + 1) * Stride = Stride * k + Stride
    BY <1>2, <1>10
  <2> QED BY <1>2, <1>10, <2>1, <2>2
<1>12. Bit(CellIndex(x, c)) = Stride * k
  <2>1. Stride * m = Stride * (Items * q) + Stride * k
    BY <1>2, <1>10
  <2>2. Stride * (Items * q) = PackBits * q
    BY <1>2, <1>10
  <2>3. Stride * k \in 0 .. PackBits - 1
    BY <1>2, <1>11
  <2>4. (PackBits * q + Stride * k) % PackBits = Stride * k
    BY <1>2, <1>10, <2>3, Split
  <2> QED BY <1>6, <2>1, <2>2, <2>4 DEF Bit
<1> QED BY <1>1, <1>3, <1>6, <1>8, <1>9, <1>10, <1>11, <1>12 DEF m

\* Nor are two places of a cell at the same index.
LEMMA CellApart ==
  ASSUME NEW x, x.size \in CellSizes, NEW c \in Box(0, 0, x.size), NEW e \in Box(0, 0, x.size),
         CellIndex(x, c) = CellIndex(x, e)
  PROVE  c = e
<1> DEFINE w == x.size.w
<1>1. /\ w \in Nat \ {0}
      /\ \A p \in {c, e} : /\ p = <<p[1], p[2]>> /\ p[1] \in 0 .. w - 1 /\ p[2] \in Nat
                           /\ CellIndex(x, p) = Stride * (w * p[2] + p[1])
  BY CellPlace
<1> HIDE DEF w
<1>2. w * c[2] + c[1] = w * e[2] + e[1]
  <2> DEFINE a == w * c[2] + c[1]
             b == w * e[2] + e[1]
  <2>1. a \in Nat /\ b \in Nat
    BY <1>1
  <2>2. Stride * a = Stride * b
    BY <1>1
  <2> HIDE DEF a, b
  <2>3. Stride \in Nat \ {0}
    BY ItemWidth
  <2>4. a = b
    BY <2>1, <2>2, <2>3
  <2> QED BY <2>4 DEF a, b
<1>3. \A p \in {c, e} : (w * p[2] + p[1]) \div w = p[2] /\ (w * p[2] + p[1]) % w = p[1]
  BY <1>1, Split
<1> QED BY <1>1, <1>2, <1>3

\* The words of an object.
WordsOf(x) == IF x.kind = "table" THEN TableWords(x.size) ELSE CellWords(x.size)

\* Every value has a place within a word of the memory, and none has that of
\* another.
LEMMA Places ==
  ASSUME NEW x,
         \/ x.kind = "table" /\ x.size \in TableSizes
         \/ x.kind = "cell" /\ x.size \in CellSizes,
         NEW c \in Coords(x)
  PROVE  /\ c \in Int \X Int
         /\ BitIndex(x, c) \in Nat
         /\ Word(BitIndex(x, c)) \in 0 .. WordsOf(x) - 1
         /\ \E k \in Nat : Bit(BitIndex(x, c)) = Stride * k
         /\ Bit(BitIndex(x, c)) + Stride <= PackBits
         /\ \A e \in Coords(x) : BitIndex(x, e) = BitIndex(x, c) => e = c
<1>1. CASE x.kind = "table" /\ x.size \in TableSizes
  <2> DEFINE n == RowWords(x.size)
             row == c[2] + BufferSize
             col == (c[1] + BufferSize) \div Items
  <2>1. Coords(x) = Box(-BufferSize, -BufferSize, Pad(x.size))
    BY <1>1 DEF Coords, Lo, Extent
  <2>2. \A e \in Coords(x) : BitIndex(x, e) = TableIndex(x, e)
    BY <1>1 DEF BitIndex
  <2>3. /\ TableIndex(x, c) \in Nat /\ Word(TableIndex(x, c)) = row * n + col
        /\ Bit(TableIndex(x, c)) = Stride * ((c[1] + BufferSize) % Items)
        /\ Bit(TableIndex(x, c)) + Stride <= PackBits
    BY <1>1, <2>1, TablePlace
  <2>4. /\ c[1] + BufferSize \in 0 .. Pad(x.size).w - 1
        /\ row \in 0 .. Pad(x.size).h - 1 /\ col \in 0 .. n - 2
    BY <1>1, <2>1, TableSum
  <2>5. /\ n \in Nat /\ Pad(x.size).h \in Nat /\ Pad(x.size).w \in Nat /\ BufferSize \in Nat
        /\ Items \in Nat \ {0}
    BY <1>1, Rows, ItemWidth
  <2>6. ((c[1] + BufferSize) % Items) \in Nat
    <3>1. c[1] + BufferSize \in Nat
      BY <2>4, <2>5
    <3> QED BY <2>5, <3>1, Parts
  <2>7. c \in Int \X Int
    BY <2>1, <2>5 DEF Box
  <2>8. row * n + col \in 0 .. WordsOf(x) - 1
    <3> DEFINE h == Pad(x.size).h
    <3>1. WordsOf(x) = h * n
      BY <1>1 DEF WordsOf, TableWords
    <3> HIDE DEF n, row, col, h
    <3>2. row \in Nat /\ row + 1 <= h /\ h \in Nat /\ n \in Nat /\ col \in Nat /\ col < n
      BY <2>4, <2>5 DEF h
    <3>3. (row + 1) * n <= h * n
      BY <3>2
    <3>4. (row + 1) * n = row * n + n /\ row * n \in Nat /\ h * n \in Nat
      BY <3>2
    <3> QED BY <3>1, <3>2, <3>3, <3>4
  <2>9. \A e \in Coords(x) : BitIndex(x, e) = BitIndex(x, c) => e = c
    BY <1>1, <2>1, <2>2, TableApart
  <2> HIDE DEF n, row, col
  <2> QED BY <2>2, <2>3, <2>6, <2>7, <2>8, <2>9
<1>2. CASE x.kind = "cell" /\ x.size \in CellSizes
  <2>1. Coords(x) = Box(0, 0, x.size)
    BY <1>2 DEF Coords, Lo, Extent
  <2>2. \A e \in Coords(x) : BitIndex(x, e) = CellIndex(x, e)
    BY <1>2 DEF BitIndex
  <2>3. WordsOf(x) = CellWords(x.size)
    BY <1>2 DEF WordsOf
  <2>4. c \in Int \X Int
    <3>1. x.size.w \in Nat /\ x.size.h \in Nat
      BY <1>2, BitTableAssumption
    <3> QED BY <2>1, <3>1 DEF Box
  <2>5. \A e \in Coords(x) : BitIndex(x, e) = BitIndex(x, c) => e = c
    BY <1>2, <2>1, <2>2, CellApart
  <2>6. /\ CellIndex(x, c) \in Nat
        /\ Word(CellIndex(x, c)) \in 0 .. CellWords(x.size) - 1
        /\ \E k \in Nat : Bit(CellIndex(x, c)) = Stride * k
        /\ Bit(CellIndex(x, c)) + Stride <= PackBits
    BY <1>2, <2>1, CellPlace
  <2> QED BY <2>2, <2>3, <2>4, <2>5, <2>6
<1> QED BY <1>1, <1>2

\* Two values share no bit.
Disjoint(id, j) ==
  \/ Word(id) # Word(j)
  \/ Bit(j) + BitCount <= Bit(id)
  \/ Bit(id) + BitCount <= Bit(j)

\* Values at different places share no bit.
LEMMA ValuesDisjoint ==
  ASSUME NEW id \in Nat, NEW j \in Nat, id # j,
         \E k \in Nat : Bit(id) = Stride * k, \E k \in Nat : Bit(j) = Stride * k
  PROVE  Disjoint(id, j)
<1>1. PICK k \in Nat, l \in Nat : Bit(id) = Stride * k /\ Bit(j) = Stride * l
  OBVIOUS
<1>2. Stride \in Nat \ {0} /\ BitCount \in Nat /\ BitCount <= Stride
  BY ItemWidth
<1>3. CASE k < l
  <2>1. Stride * (k + 1) <= Stride * l
    BY <1>2, <1>3
  <2>2. Stride * (k + 1) = Stride * k + Stride /\ Stride * k \in Nat /\ Stride * l \in Nat
    BY <1>2
  <2> QED BY <1>1, <1>2, <2>1, <2>2 DEF Disjoint
<1>4. CASE l < k
  <2>1. Stride * (l + 1) <= Stride * k
    BY <1>2, <1>4
  <2>2. Stride * (l + 1) = Stride * l + Stride /\ Stride * k \in Nat /\ Stride * l \in Nat
    BY <1>2
  <2> QED BY <1>1, <1>2, <2>1, <2>2 DEF Disjoint
<1>5. CASE k = l
  <2>1. Bit(id) = Bit(j)
    BY <1>1, <1>5
  <2>2. id = PackBits * Word(id) + Bit(id) /\ j = PackBits * Word(j) + Bit(j)
    BY IndexParts
  <2> QED BY <2>1, <2>2 DEF Disjoint
<1> QED BY <1>3, <1>4, <1>5

\* A value, bit by bit.
LEMMA BitGetIs ==
  ASSUME NEW d, NEW id \in Nat, Bit(id) + BitCount <= PackBits
  PROVE  BitGet(d, id) = { i \in 0 .. BitCount - 1 : i + Bit(id) \in d[Word(id)] }
<1>1. PackBits \in Nat \ {0} /\ BitCount \in Nat \ {0} /\ Bit(id) \in Nat
  BY ItemWidth, IndexParts
<1>2. BitGet(d, id) = Right(PackBits, d[Word(id)], Bit(id)) \cap (0 .. BitCount - 1)
  BY ValueBitsAre DEF BitGet, RightShift, bit_right_shift, PackType
<1>3. \A i \in 0 .. BitCount - 1 : i \in BitsOf(PackBits - Bit(id))
  BY <1>1 DEF BitsOf
<1> QED BY <1>2, <1>3 DEF Right

\* The bits that the functions of one value shift to their place.
LEMMA ThereIs ==
  ASSUME NEW id \in Nat, Bit(id) + BitCount <= PackBits, NEW u
  PROVE  \A b \in WordBits :
           b \in There(id, u) <=> /\ b \in Bit(id) .. Bit(id) + BitCount - 1
                                  /\ b - Bit(id) \in u
<1>1. PackBits \in Nat \ {0} /\ BitCount \in Nat \ {0} /\ Bit(id) \in Nat
  BY ItemWidth, IndexParts
<1>2. There(id, u) = { i + Bit(id) : i \in u \cap (0 .. BitCount - 1) } \cap WordBits
  BY ValueBitsAre DEF There, LeftShift, bit_left_shift, Left, PackType, WordBits
<1>3. ASSUME NEW b \in WordBits,
             b \in Bit(id) .. Bit(id) + BitCount - 1, b - Bit(id) \in u
      PROVE  b \in There(id, u)
  <2>1. b - Bit(id) \in 0 .. BitCount - 1 /\ b = (b - Bit(id)) + Bit(id)
    BY <1>1, <1>3
  <2> QED BY <1>2, <1>3, <2>1
<1>4. ASSUME NEW b \in WordBits, b \in There(id, u)
      PROVE  b \in Bit(id) .. Bit(id) + BitCount - 1 /\ b - Bit(id) \in u
  <2>1. PICK i \in u \cap (0 .. BitCount - 1) : b = i + Bit(id)
    BY <1>2, <1>4
  <2>2. b - Bit(id) = i
    BY <1>1, <2>1
  <2> QED BY <1>1, <2>1, <2>2
<1> QED BY <1>3, <1>4

\* e is d with u as the value at id.
Puts(e, d, id, u) ==
  \E w : /\ e = [d EXCEPT ![Word(id)] = w]
         /\ \A b \in WordBits :
              b \in w <=> IF b \in Bit(id) .. Bit(id) + BitCount - 1
                          THEN b - Bit(id) \in u
                          ELSE b \in d[Word(id)]

\* It has that value, and those elsewhere are what they were.
LEMMA PutsOne ==
  ASSUME NEW d, NEW e, NEW id \in Nat, NEW u \in SUBSET ValueBits,
         Word(id) \in DOMAIN d, Bit(id) + BitCount <= PackBits, Puts(e, d, id, u)
  PROVE  /\ BitGet(e, id) = u
         /\ \A j \in Nat :
              Word(j) \in DOMAIN d /\ Bit(j) + BitCount <= PackBits /\ Disjoint(id, j)
                => BitGet(e, j) = BitGet(d, j)
<1>1. PackBits \in Nat \ {0} /\ BitCount \in Nat \ {0} /\ Bit(id) \in Nat
  BY ItemWidth, IndexParts
<1>2. PICK w : /\ e = [d EXCEPT ![Word(id)] = w]
               /\ \A b \in WordBits :
                    b \in w <=> IF b \in Bit(id) .. Bit(id) + BitCount - 1
                                THEN b - Bit(id) \in u
                                ELSE b \in d[Word(id)]
  BY DEF Puts
<1>3. e[Word(id)] = w /\ \A i \in DOMAIN d : i # Word(id) => e[i] = d[i]
  BY <1>2
<1>4. BitGet(e, id) = u
  <2>1. \A i \in 0 .. BitCount - 1 : i + Bit(id) \in w <=> i \in u
    <3> SUFFICES ASSUME NEW i \in 0 .. BitCount - 1
                 PROVE  i + Bit(id) \in w <=> i \in u
      OBVIOUS
    <3>1. i + Bit(id) \in WordBits /\ i + Bit(id) \in Bit(id) .. Bit(id) + BitCount - 1
          /\ (i + Bit(id)) - Bit(id) = i
      BY <1>1 DEF WordBits, BitsOf
    <3> QED BY <1>2, <3>1
  <2>2. BitGet(e, id) = { i \in 0 .. BitCount - 1 : i + Bit(id) \in w }
    BY <1>3, BitGetIs
  <2> QED BY <2>1, <2>2, ValueBitsAre
<1>5. ASSUME NEW j \in Nat, Word(j) \in DOMAIN d, Bit(j) + BitCount <= PackBits, Disjoint(id, j)
      PROVE  BitGet(e, j) = BitGet(d, j)
  <2>1. BitGet(e, j) = { i \in 0 .. BitCount - 1 : i + Bit(j) \in e[Word(j)] }
    BY <1>5, BitGetIs
  <2>2. BitGet(d, j) = { i \in 0 .. BitCount - 1 : i + Bit(j) \in d[Word(j)] }
    BY <1>5, BitGetIs
  <2>3. CASE Word(id) # Word(j)
    BY <1>3, <1>5, <2>1, <2>2, <2>3
  <2>4. CASE Word(id) = Word(j)
    <3>1. Bit(j) \in Nat
      BY IndexParts
    <3>2. \A i \in 0 .. BitCount - 1 : i + Bit(j) \in w <=> i + Bit(j) \in d[Word(id)]
      <4> SUFFICES ASSUME NEW i \in 0 .. BitCount - 1
                   PROVE  i + Bit(j) \in w <=> i + Bit(j) \in d[Word(id)]
        OBVIOUS
      <4>1. i + Bit(j) \in WordBits
        BY <1>1, <1>5, <3>1 DEF WordBits, BitsOf
      <4>2. i + Bit(j) \notin Bit(id) .. Bit(id) + BitCount - 1
        BY <1>1, <1>5, <2>4, <3>1 DEF Disjoint
      <4> QED BY <1>2, <4>1, <4>2
    <3> QED BY <1>3, <2>1, <2>2, <2>4, <3>2
  <2> QED BY <2>3, <2>4
<1> QED BY <1>4, <1>5

\* What the functions of one value put there.
LEMMA OneValuePuts ==
  ASSUME NEW d, NEW id \in Nat, Bit(id) + BitCount <= PackBits, NEW v \in BitValues
  PROVE  /\ Puts(BitSet(d, id, v), d, id, v)
         /\ Puts(BitClear(d, id), d, id, {})
         /\ Puts(BitOr(d, id, v), d, id, BitGet(d, id) \cup v)
         /\ Puts(BitAnd(d, id, v), d, id, BitGet(d, id) \cap v)
         /\ Puts(BitXor(d, id, v), d, id, (BitGet(d, id) \ v) \cup (v \ BitGet(d, id)))
         /\ Puts(BitNand(d, id, v), d, id, ValueBits \ (BitGet(d, id) \cap v))
         /\ Puts(BitNot(d, id), d, id, ValueBits \ BitGet(d, id))
<1> DEFINE old == BitGet(d, id)
           w == d[Word(id)]
           In(b) == b \in Bit(id) .. Bit(id) + BitCount - 1
           Full == There(id, ValueBits)
           Own == There(id, v)
           Lost == There(id, WordBits \ v)
           Set(n, u) ==
             \A b \in WordBits : b \in n <=> IF In(b) THEN b - Bit(id) \in u ELSE b \in w
<1>1. PackBits \in Nat \ {0} /\ BitCount \in Nat \ {0} /\ BitCount <= PackBits /\ Bit(id) \in Nat
  BY ItemWidth, IndexParts, BitOpsAssumption DEF Powers
<1>2. ASSUME NEW b \in WordBits, In(b)
      PROVE  /\ b - Bit(id) \in ValueBits /\ b - Bit(id) \in WordBits
             /\ b \in w <=> b - Bit(id) \in old
  <2>1. b - Bit(id) \in 0 .. BitCount - 1 /\ (b - Bit(id)) + Bit(id) = b
    BY <1>1, <1>2
  <2>2. b - Bit(id) \in WordBits
    BY <1>1, <2>1 DEF WordBits, BitsOf
  <2>3. old = { i \in 0 .. BitCount - 1 : i + Bit(id) \in w }
    BY BitGetIs
  <2> QED BY <2>1, <2>2, <2>3, ValueBitsAre
<1>3. \A b \in WordBits :
        /\ b \in Full <=> In(b)
        /\ b \in Own <=> In(b) /\ b - Bit(id) \in v
        /\ b \in Lost <=> In(b) /\ b - Bit(id) \notin v
  <2>1. \A b \in WordBits : b \in Full <=> In(b) /\ b - Bit(id) \in ValueBits
    BY ThereIs
  <2>2. \A b \in WordBits : b \in Own <=> In(b) /\ b - Bit(id) \in v
    BY ThereIs
  <2>3. \A b \in WordBits : b \in Lost <=> In(b) /\ b - Bit(id) \in WordBits \ v
    BY ThereIs
  <2> HIDE DEF In
  <2> QED BY <1>2, <2>1, <2>2, <2>3
<1>4. v \subseteq ValueBits
  BY DEF BitValues
<1> HIDE DEF In, Full, Own, Lost, old, w
<1>5. /\ Set((w \ Full) \cup Own, v)
      /\ Set(w \ Full, {})
      /\ Set(w \cup Own, old \cup v)
      /\ Set(w \ Lost, old \cap v)
      /\ Set(Xor(w, Own), (old \ v) \cup (v \ old))
      /\ Set(Xor(w \ Lost, Full), ValueBits \ (old \cap v))
      /\ Set(Xor(w, Full), ValueBits \ old)
  BY <1>2, <1>3, <1>4 DEF Xor
<1> HIDE DEF Set
<1>6. \A n, u : Set(n, u) => Puts([d EXCEPT ![Word(id)] = n], d, id, u)
  BY DEF Set, Puts, In, w
<1>7. /\ BitSet(d, id, v) = [d EXCEPT ![Word(id)] = (w \ Full) \cup Own]
      /\ BitClear(d, id) = [d EXCEPT ![Word(id)] = w \ Full]
      /\ BitOr(d, id, v) = [d EXCEPT ![Word(id)] = w \cup Own]
      /\ BitAnd(d, id, v) = [d EXCEPT ![Word(id)] = w \ Lost]
      /\ BitXor(d, id, v) = [d EXCEPT ![Word(id)] = Xor(w, Own)]
      /\ BitNand(d, id, v) = [d EXCEPT ![Word(id)] = Xor(w \ Lost, Full)]
      /\ BitNot(d, id) = [d EXCEPT ![Word(id)] = Xor(w, Full)]
  BY DEF BitSet, BitClear, BitOr, BitAnd, BitXor, BitNand, BitNot, w, Full, Own, Lost
<1> DEFINE P(n, u) == Puts([d EXCEPT ![Word(id)] = n], d, id, u)
<1>8. \A n, u : Set(n, u) => P(n, u)
  BY <1>6
<1> HIDE DEF P
<1>9. /\ P((w \ Full) \cup Own, v)
      /\ P(w \ Full, {})
      /\ P(w \cup Own, old \cup v)
      /\ P(w \ Lost, old \cap v)
      /\ P(Xor(w, Own), (old \ v) \cup (v \ old))
      /\ P(Xor(w \ Lost, Full), ValueBits \ (old \cap v))
      /\ P(Xor(w, Full), ValueBits \ old)
  BY <1>5, <1>8
<1> QED BY <1>7, <1>9 DEF old, P

-----------------------------------------------------------------------------
(* Natural numbers *)

\* A set of natural numbers that has a member has a least one.
LEMMA Least ==
  ASSUME NEW T \in SUBSET Nat, T # {}
  PROVE  \E m \in T : \A n \in T : m <= n
<1> DEFINE R == { ss \in Nat \X Nat : ss[1] < ss[2] }
<1>1. IsWellFoundedOn(R, Nat)
  BY NatLessThanWellFounded DEF OpToRel
<1>2. \A x, y \in Nat : x < y => <<x, y>> \in R
  OBVIOUS
<1>3. \E m \in T : \A n \in T : ~ (<<n, m>> \in R)
  <2> HIDE DEF R
  <2> QED BY <1>1, WFMin
<1> HIDE DEF R
<1>4. PICK m \in T : \A n \in T : ~ (<<n, m>> \in R)
  BY <1>3
<1>5. ASSUME NEW n \in T PROVE m <= n
  <2>1. m \in Nat /\ n \in Nat
    OBVIOUS
  <2>2. ~ (n < m)
    BY <1>2, <1>4, <2>1
  <2> QED BY <2>1, <2>2
<1> QED BY <1>5

\* What holds of 0 and of each successor of a number of which it holds, holds of
\* all natural numbers.
LEMMA Induction ==
  ASSUME NEW D \in SUBSET Nat, 0 \in D, \A n \in D : n + 1 \in D
  PROVE  D = Nat
<1> SUFFICES ASSUME D # Nat PROVE FALSE
  OBVIOUS
<1>1. PICK m \in Nat \ D : \A n \in Nat \ D : m <= n
  <2>1. Nat \ D # {} /\ Nat \ D \in SUBSET Nat
    OBVIOUS
  <2> QED BY <2>1, Least
<1>2. m - 1 \in Nat /\ m - 1 \in D
  BY <1>1
<1> QED BY <1>1, <1>2

\* g has the results of F applied up to N times over, from x0.
Iterated(g, N, x0, F) == g[0] = x0 /\ \A k \in 1 .. N : g[k] = F[g[k - 1]]

\* There are such results.
LEMMA Iterate ==
  ASSUME NEW X, NEW x0 \in X, NEW F \in [X -> X], NEW N \in Nat
  PROVE  \E g \in [0 .. N -> X] : Iterated(g, N, x0, F)
<1> DEFINE Is(m, g) == g[0] = x0 /\ \A k \in 1 .. m : g[k] = F[g[k - 1]]
           D == { m \in Nat : \E g \in [0 .. m -> X] : Is(m, g) }
<1>1. 0 \in D
  <2> DEFINE g == [k \in 0 .. 0 |-> x0]
  <2>1. g \in [0 .. 0 -> X] /\ Is(0, g)
    OBVIOUS
  <2> QED BY <2>1
<1>2. ASSUME NEW m \in D PROVE m + 1 \in D
  <2>1. PICK g \in [0 .. m -> X] : Is(m, g)
    OBVIOUS
  <2> DEFINE q == [k \in 0 .. m + 1 |-> IF k = m + 1 THEN F[g[m]] ELSE g[k]]
  <2>2. q \in [0 .. m + 1 -> X]
    OBVIOUS
  <2>3. Is(m + 1, q)
    <3>1. q[0] = x0
      BY <2>1
    <3>2. ASSUME NEW k \in 1 .. m + 1 PROVE q[k] = F[q[k - 1]]
      <4>1. k - 1 \in 0 .. m /\ q[k - 1] = g[k - 1]
        OBVIOUS
      <4>2. CASE k = m + 1
        BY <4>1, <4>2
      <4>3. CASE k # m + 1
        BY <2>1, <4>1, <4>3
      <4> QED BY <4>2, <4>3
    <3> QED BY <3>1, <3>2
  <2> HIDE DEF Is
  <2> QED BY <2>2, <2>3
<1>3. D = Nat
  <2> HIDE DEF D
  <2> QED BY <1>1, <1>2, Induction DEF D
<1> QED BY <1>3 DEF Iterated

-----------------------------------------------------------------------------
(* Folds *)

\* g is what the fold over T computes for each subset of it, from base: c[s] is
\* the element that is taken from s, and F what is done with it.
FoldOf(g, T, c, base, F) ==
  \A s \in SUBSET T : g[s] = IF s = {} THEN base ELSE F[<<c[s], g[s \ {c[s]}]>>]

\* There is such a function.
LEMMA FoldExists ==
  ASSUME NEW T, IsFiniteSet(T), NEW c, \A s \in SUBSET T : s # {} => c[s] \in s,
         NEW X, NEW base \in X, NEW F \in [T \X X -> X]
  PROVE  \E g \in [SUBSET T -> X] : FoldOf(g, T, c, base, F)
<1> DEFINE Y == [SUBSET T -> X]
           Next1(g) == [s \in SUBSET T |-> IF s = {} THEN base ELSE F[<<c[s], g[s \ {c[s]}]>>]]
           G == [g \in Y |-> Next1(g)]
           N == Cardinality(T)
           b0 == [s \in SUBSET T |-> base]
<1>1. N \in Nat
  BY FS_CardinalityType
<1>2. ASSUME NEW g \in Y PROVE Next1(g) \in Y
  <2>1. ASSUME NEW s \in SUBSET T, s # {} PROVE F[<<c[s], g[s \ {c[s]}]>>] \in X
    <3>1. c[s] \in T /\ g[s \ {c[s]}] \in X
      BY <2>1
    <3> QED BY <3>1
  <2> QED BY <2>1
<1>3. G \in [Y -> Y]
  BY <1>2
<1>4. PICK b \in [0 .. N + 1 -> Y] : b[0] = b0 /\ \A k \in 1 .. N + 1 : b[k] = G[b[k - 1]]
  <2> DEFINE M == N + 1
  <2>1. b0 \in Y /\ M \in Nat
    BY <1>1
  <2> HIDE DEF Y, G, M, b0
  <2>2. \E b \in [0 .. M -> Y] : Iterated(b, M, b0, G)
    BY <1>3, <2>1, Iterate
  <2> QED BY <2>2 DEF M, Iterated
<1>5. ASSUME NEW k \in 0 .. N, NEW s \in SUBSET T
      PROVE  b[k + 1][s] = IF s = {} THEN base ELSE F[<<c[s], b[k][s \ {c[s]}]>>]
  <2>1. k + 1 \in 1 .. N + 1 /\ (k + 1) - 1 = k /\ b[k] \in Y
    <3> HIDE DEF Y, N
    <3>1. k \in 0 .. N + 1
      BY <1>1
    <3> QED BY <1>1, <3>1
  <2>2. b[k + 1] = G[b[k]]
    BY <1>4, <2>1
  <2>3. G[b[k]] = Next1(b[k])
    BY <2>1
  <2> QED BY <2>2, <2>3
<1> DEFINE D == { k \in Nat : k <= N => \A s \in SUBSET T : Cardinality(s) <= k => b[k + 1][s] = b[k][s] }
<1>6. 0 \in D
  <2>1. ASSUME NEW s \in SUBSET T, Cardinality(s) <= 0 PROVE b[0 + 1][s] = b[0][s]
    <3>1. IsFiniteSet(s) /\ Cardinality(s) \in Nat
      BY FS_Subset, FS_CardinalityType
    <3>2. s = {}
      BY <2>1, <3>1, FS_EmptySet
    <3>3. 0 \in 0 .. N
      BY <1>1
    <3> QED BY <1>4, <1>5, <3>2, <3>3
  <2> QED BY <2>1
<1>7. ASSUME NEW k \in D PROVE k + 1 \in D
  <2> SUFFICES ASSUME k + 1 <= N, NEW s \in SUBSET T, Cardinality(s) <= k + 1
               PROVE  b[k + 1 + 1][s] = b[k + 1][s]
    OBVIOUS
  <2>1. k \in 0 .. N /\ k + 1 \in 0 .. N
    BY <1>1
  <2>2. CASE s = {}
    BY <1>5, <2>1, <2>2
  <2>3. CASE s # {}
    <3>1. c[s] \in s /\ IsFiniteSet(s)
      BY <2>3, FS_Subset
    <3>2. Cardinality(s \ {c[s]}) = Cardinality(s) - 1 /\ Cardinality(s) \in Nat
      BY <3>1, FS_RemoveElement, FS_CardinalityType
    <3>3. Cardinality(s \ {c[s]}) <= k /\ s \ {c[s]} \in SUBSET T
      BY <3>2
    <3> DEFINE t == s \ {c[s]}
    <3>4. b[k + 1][t] = b[k][t]
      BY <2>1, <3>3
    <3>5. b[k + 1 + 1][s] = F[<<c[s], b[k + 1][t]>>]
      BY <1>5, <2>1, <2>3
    <3>6. b[k + 1][s] = F[<<c[s], b[k][t]>>]
      BY <1>5, <2>1, <2>3
    <3> QED BY <3>4, <3>5, <3>6
  <2> QED BY <2>2, <2>3
<1>8. N \in D
  <2>1. D \in SUBSET Nat
    OBVIOUS
  <2> HIDE DEF D
  <2>2. D = Nat
    BY <1>6, <1>7, <2>1, Induction
  <2> QED BY <1>1, <2>2
<1>9. ASSUME NEW s \in SUBSET T PROVE b[N + 1][s] = b[N][s]
  <2>1. Cardinality(s) <= N
    BY FS_Subset
  <2> QED BY <1>8, <2>1
<1>10. N \in 0 .. N /\ N + 1 \in 0 .. N + 1
  BY <1>1
<1>11. ASSUME NEW s \in SUBSET T
       PROVE  b[N + 1][s] = IF s = {} THEN base ELSE F[<<c[s], b[N + 1][s \ {c[s]}]>>]
  <2>1. s \ {c[s]} \in SUBSET T
    OBVIOUS
  <2> HIDE DEF N, D
  <2> QED BY <1>5, <1>9, <1>10, <2>1
<1>12. b[N + 1] \in Y
  BY <1>10
<1>13. FoldOf(b[N + 1], T, c, base, F)
  <2> HIDE DEF N, b0, G
  <2> QED BY <1>11 DEF FoldOf
<1> QED BY <1>12, <1>13

\* A set of numbers up to N has a greatest one.
LEMMA Greatest ==
  ASSUME NEW N \in Nat, NEW s \in SUBSET Nat, s # {}, \A y \in s : y <= N
  PROVE  Max(s) \in s /\ \A y \in s : y <= Max(s)
<1> DEFINE U == { m \in Nat : \A y \in s : y <= m }
<1>1. PICK m \in U : \A n \in U : m <= n
  <2>1. N \in U /\ U \in SUBSET Nat
    OBVIOUS
  <2> HIDE DEF U
  <2> QED BY <2>1, Least
<1>2. \A y \in s : y \in Nat /\ y <= m /\ m >= y
  <2> SUFFICES ASSUME NEW y \in s PROVE y \in Nat /\ y <= m /\ m >= y
    OBVIOUS
  <2>1. y \in Nat /\ m \in Nat /\ y <= m
    BY <1>1
  <2> QED BY <2>1
<1>3. m \in s
  <2> SUFFICES ASSUME m \notin s PROVE FALSE
    OBVIOUS
  <2>1. PICK y \in s : TRUE
    OBVIOUS
  <2>2. m - 1 \in Nat /\ \A z \in s : z <= m - 1
    <3>1. \A z \in s : z \in Nat /\ z <= m /\ z # m
      BY <1>2
    <3> QED BY <2>1, <3>1
  <2>3. m <= m - 1
    BY <1>1, <2>2
  <2> QED BY <2>2, <2>3
<1>4. Max(s) \in s /\ \A y \in s : Max(s) >= y
  BY <1>2, <1>3 DEF Max
<1>5. \A y \in s : y <= Max(s)
  <2> SUFFICES ASSUME NEW y \in s PROVE y <= Max(s)
    OBVIOUS
  <2>1. y \in Nat /\ Max(s) \in Nat /\ Max(s) >= y
    BY <1>2, <1>4
  <2> QED BY <2>1
<1> QED BY <1>4, <1>5

\* The greatest number of a set of those from 1 to N.
LEMMA MaxFacts ==
  ASSUME NEW N \in Nat, NEW s \in SUBSET (1 .. N), s # {}
  PROVE  Max(s) \in s /\ \A y \in s : y <= Max(s)
<1>1. s \in SUBSET Nat /\ \A y \in s : y <= N
  OBVIOUS
<1> QED BY <1>1, Greatest

\* A fold from the left takes the numbers up to N in their order.
LEMMA Segments ==
  ASSUME NEW N \in Nat, NEW k \in 1 .. N
  PROVE  /\ 1 .. k \in SUBSET (1 .. N) /\ 1 .. k # {}
         /\ Max(1 .. k) = k /\ (1 .. k) \ {k} = 1 .. (k - 1)
<1>1. 1 .. k \in SUBSET (1 .. N) /\ k \in 1 .. k
  OBVIOUS
<1>2. Max(1 .. k) \in 1 .. k /\ \A y \in 1 .. k : y <= Max(1 .. k)
  BY <1>1, MaxFacts
<1>3. k <= Max(1 .. k)
  BY <1>1, <1>2
<1>4. Max(1 .. k) = k
  BY <1>2, <1>3
<1>5. (1 .. k) \ {k} = 1 .. (k - 1)
  OBVIOUS
<1> QED BY <1>1, <1>4, <1>5

\* g is the function that a fold from the left over 1 .. N, of F from base, is.
FoldsLeft(g, N, base, F) ==
  \A s \in SUBSET (1 .. N) :
    g[s] = IF s = {} THEN base ELSE F[<<Max(s), g[s \ {Max(s)}]>>]

\* There is one.
LEMMA LeftFold ==
  ASSUME NEW N \in Nat, NEW X, NEW base \in X, NEW F \in [(1 .. N) \X X -> X]
  PROVE  \E g \in [SUBSET (1 .. N) -> X] : FoldsLeft(g, N, base, F)
<1> DEFINE T == 1 .. N
           c == [s \in SUBSET T |-> Max(s)]
<1>1. IsFiniteSet(T)
  BY FS_Interval
<1>2. \A s \in SUBSET T : s # {} => c[s] \in s
  BY MaxFacts
<1>3. F \in [T \X X -> X]
  OBVIOUS
<1>4. \E g \in [SUBSET T -> X] : FoldOf(g, T, c, base, F)
  <2> HIDE DEF T, c
  <2> QED BY <1>1, <1>2, <1>3, FoldExists
<1>5. \A s \in SUBSET T : c[s] = Max(s)
  OBVIOUS
<1> HIDE DEF c
<1> QED BY <1>4, <1>5 DEF FoldsLeft, FoldOf

-----------------------------------------------------------------------------
(* The loops, step by step *)

\* An array of words.
WordArrays(D) == [D -> SUBSET WordBits]

\* A value at its place stays in the word.
LEMMA ThereWithin ==
  ASSUME NEW id, NEW u
  PROVE  There(id, u) \subseteq WordBits
<1>1. PackType.bits = PackBits
  BY DEF PackType
<1> QED BY <1>1 DEF There, LeftShift, bit_left_shift, Left, WordBits

\* The functions of one value make arrays of words out of arrays of words.
LEMMA WordsClosed ==
  ASSUME NEW D, NEW d \in WordArrays(D), NEW id, NEW v
  PROVE  /\ BitSet(d, id, v) \in WordArrays(D)
         /\ BitClear(d, id) \in WordArrays(D)
         /\ BitNot(d, id) \in WordArrays(D)
         /\ \A op \in RegionOps : BitOp(op, d, id, v) \in WordArrays(D)
<1> DEFINE w == d[Word(id)]
           Full == There(id, ValueBits)
           Own == There(id, v)
           Lost == There(id, WordBits \ v)
<1>1. Full \subseteq WordBits /\ Own \subseteq WordBits /\ Lost \subseteq WordBits
  BY ThereWithin
<1>2. \A n : (Word(id) \in D => n \in SUBSET WordBits) => [d EXCEPT ![Word(id)] = n] \in WordArrays(D)
  BY DEF WordArrays
<1>3. Word(id) \in D => w \in SUBSET WordBits
  BY DEF WordArrays
<1> HIDE DEF w, Full, Own, Lost
<1>4. Word(id) \in D =>
        /\ (w \ Full) \cup Own \in SUBSET WordBits
        /\ w \ Full \in SUBSET WordBits
        /\ w \cup Own \in SUBSET WordBits
        /\ w \ Lost \in SUBSET WordBits
        /\ Xor(w, Own) \in SUBSET WordBits
        /\ Xor(w \ Lost, Full) \in SUBSET WordBits
        /\ Xor(w, Full) \in SUBSET WordBits
  BY <1>1, <1>3 DEF Xor
<1> DEFINE P(n) == [d EXCEPT ![Word(id)] = n] \in WordArrays(D)
<1>5. \A n : (Word(id) \in D => n \in SUBSET WordBits) => P(n)
  BY <1>2
<1> HIDE DEF P
<1>6. /\ P((w \ Full) \cup Own) /\ P(w \ Full) /\ P(w \cup Own) /\ P(w \ Lost)
      /\ P(Xor(w, Own)) /\ P(Xor(w \ Lost, Full)) /\ P(Xor(w, Full))
  BY <1>4, <1>5
<1>7. /\ BitSet(d, id, v) = [d EXCEPT ![Word(id)] = (w \ Full) \cup Own]
      /\ BitClear(d, id) = [d EXCEPT ![Word(id)] = w \ Full]
      /\ BitOr(d, id, v) = [d EXCEPT ![Word(id)] = w \cup Own]
      /\ BitAnd(d, id, v) = [d EXCEPT ![Word(id)] = w \ Lost]
      /\ BitXor(d, id, v) = [d EXCEPT ![Word(id)] = Xor(w, Own)]
      /\ BitNand(d, id, v) = [d EXCEPT ![Word(id)] = Xor(w \ Lost, Full)]
      /\ BitNot(d, id) = [d EXCEPT ![Word(id)] = Xor(w, Full)]
  BY DEF BitSet, BitClear, BitOr, BitAnd, BitXor, BitNand, BitNot, w, Full, Own, Lost
<1>8. ASSUME NEW op \in RegionOps PROVE BitOp(op, d, id, v) \in WordArrays(D)
  BY <1>6, <1>7, <1>8 DEF RegionOps, BitOp, P
<1> QED BY <1>6, <1>7, <1>8 DEF P

\* st has the memory after each of the steps of region_op with one value.
FilledRun(st, N, op, d, v, n, at) ==
  /\ st[0] = d /\ st[N] = Filled(op, d, v, n, at)
  /\ \A k \in 1 .. N : st[k] = BitOp(op, st[k - 1], At(at, RowMajor(n)[k]), v)

\* There are such steps.
LEMMA FilledSteps ==
  ASSUME NEW D, NEW d \in WordArrays(D), NEW op \in RegionOps, NEW v, NEW n, NEW at,
         NEW N \in Nat, N = n.w * n.h
  PROVE  \E st : FilledRun(st, N, op, d, v, n, at)
<1> DEFINE X == WordArrays(D)
           F == [q \in (1 .. N) \X X |-> BitOp(op, q[2], At(at, RowMajor(n)[q[1]]), v)]
           Is(g) == g = [s \in SUBSET (1 .. N) |->
                           IF s = {} THEN d
                           ELSE BitOp(op, g[s \ {Max(s)}], At(at, RowMajor(n)[Max(s)]), v)]
<1>1. F \in [(1 .. N) \X X -> X]
  BY WordsClosed
<1>2. PICK g \in [SUBSET (1 .. N) -> X] : FoldsLeft(g, N, d, F)
  <2> HIDE DEF F
  <2> QED BY <1>1, LeftFold
<1>3. Is(g)
  <2>1. ASSUME NEW s \in SUBSET (1 .. N), s # {}
        PROVE  g[s] = BitOp(op, g[s \ {Max(s)}], At(at, RowMajor(n)[Max(s)]), v)
    <3>1. Max(s) \in s
      BY <2>1, MaxFacts
    <3>2. <<Max(s), g[s \ {Max(s)}]>> \in (1 .. N) \X X
      BY <2>1, <3>1
    <3>3. g[s] = F[<<Max(s), g[s \ {Max(s)}]>>]
      BY <1>2, <2>1 DEF FoldsLeft
    <3> QED BY <3>2, <3>3
  <2>2. g[{}] = d
    BY <1>2 DEF FoldsLeft
  <2> QED BY <2>1, <2>2
<1>4. DOMAIN RowMajor(n) = 1 .. N
  BY DEF RowMajor
<1>5. Filled(op, d, v, n, at) = (CHOOSE q : Is(q))[1 .. N]
  BY <1>4 DEF Filled, FoldLeft, MapThenFoldSet
<1> DEFINE h == CHOOSE q : Is(q)
<1>6. Is(h)
  <2> HIDE DEF Is
  <2> QED BY <1>3
<1> HIDE DEF h
<1>7. h[{}] = d
  BY <1>6
<1>8. ASSUME NEW k \in 1 .. N
      PROVE  h[1 .. k] = BitOp(op, h[1 .. (k - 1)], At(at, RowMajor(n)[k]), v)
  <2>1. /\ 1 .. k \in SUBSET (1 .. N) /\ 1 .. k # {}
        /\ Max(1 .. k) = k /\ (1 .. k) \ {k} = 1 .. (k - 1)
    BY Segments
  <2> QED BY <1>6, <2>1
<1> DEFINE st == [k \in 0 .. N |-> h[1 .. k]]
<1>9. st[0] = d /\ st[N] = Filled(op, d, v, n, at)
  <2>1. 1 .. 0 = {}
    OBVIOUS
  <2> QED BY <1>5, <1>7, <2>1 DEF h
<1>10. ASSUME NEW k \in 1 .. N PROVE st[k] = BitOp(op, st[k - 1], At(at, RowMajor(n)[k]), v)
  <2>1. k \in 0 .. N /\ k - 1 \in 0 .. N
    OBVIOUS
  <2> QED BY <1>8, <2>1
<1> HIDE DEF st
<1> QED BY <1>9, <1>10 DEF FilledRun

\* The same of flip.
FlippedRun(st, N, d, n, at) ==
  /\ st[0] = d /\ st[N] = Flipped(d, n, at)
  /\ \A k \in 1 .. N :
       st[k] = BitSet(st[k - 1], At(at, RowMajor(n)[k]),
                      WordBits \ BitGet(st[k - 1], At(at, RowMajor(n)[k])))

\* There are such steps.
LEMMA FlippedSteps ==
  ASSUME NEW D, NEW d \in WordArrays(D), NEW n, NEW at, NEW N \in Nat, N = n.w * n.h
  PROVE  \E st : FlippedRun(st, N, d, n, at)
<1> DEFINE X == WordArrays(D)
           Step(r, s) == BitSet(r, At(at, s), WordBits \ BitGet(r, At(at, s)))
           F == [q \in (1 .. N) \X X |-> Step(q[2], RowMajor(n)[q[1]])]
           Is(g) == g = [s \in SUBSET (1 .. N) |->
                           IF s = {} THEN d
                           ELSE Step(g[s \ {Max(s)}], RowMajor(n)[Max(s)])]
<1>1. F \in [(1 .. N) \X X -> X]
  BY WordsClosed
<1>2. PICK g \in [SUBSET (1 .. N) -> X] : FoldsLeft(g, N, d, F)
  <2>1. d \in X
    OBVIOUS
  <2> HIDE DEF F, X
  <2> QED BY <1>1, <2>1, LeftFold
<1>3. Is(g)
  <2>1. ASSUME NEW s \in SUBSET (1 .. N), s # {}
        PROVE  g[s] = Step(g[s \ {Max(s)}], RowMajor(n)[Max(s)])
    <3> HIDE DEF Step, X
    <3>1. Max(s) \in s
      BY <2>1, MaxFacts
    <3>2. <<Max(s), g[s \ {Max(s)}]>> \in (1 .. N) \X X
      BY <2>1, <3>1
    <3>3. g[s] = F[<<Max(s), g[s \ {Max(s)}]>>]
      BY <1>2, <2>1 DEF FoldsLeft
    <3> QED BY <3>2, <3>3
  <2>2. g[{}] = d
    BY <1>2 DEF FoldsLeft
  <2> HIDE DEF Step, X
  <2> QED BY <2>1, <2>2
<1>4. DOMAIN RowMajor(n) = 1 .. N
  BY DEF RowMajor
<1>5. Flipped(d, n, at) = (CHOOSE q0 : Is(q0))[1 .. N]
  BY <1>4 DEF Flipped, FoldLeft, MapThenFoldSet
<1> DEFINE h == CHOOSE q0 : Is(q0)
<1>6. Is(h)
  <2> HIDE DEF Is
  <2> QED BY <1>3
<1> HIDE DEF h
<1>7. h[{}] = d
  <2> HIDE DEF Step
  <2> QED BY <1>6
<1>8. ASSUME NEW k \in 1 .. N PROVE h[1 .. k] = Step(h[1 .. (k - 1)], RowMajor(n)[k])
  <2>1. /\ 1 .. k \in SUBSET (1 .. N) /\ 1 .. k # {}
        /\ Max(1 .. k) = k /\ (1 .. k) \ {k} = 1 .. (k - 1)
    BY Segments
  <2> HIDE DEF Step
  <2> QED BY <1>6, <2>1
<1> DEFINE st == [k \in 0 .. N |-> h[1 .. k]]
<1>9. st[0] = d /\ st[N] = Flipped(d, n, at)
  <2>1. 1 .. 0 = {}
    OBVIOUS
  <2> HIDE DEF Is
  <2> QED BY <1>5, <1>7, <2>1 DEF h
<1>10. ASSUME NEW k \in 1 .. N PROVE st[k] = Step(st[k - 1], RowMajor(n)[k])
  <2>1. k \in 0 .. N /\ k - 1 \in 0 .. N
    OBVIOUS
  <2> HIDE DEF Step
  <2> QED BY <1>8, <2>1
<1> HIDE DEF st
<1> QED BY <1>9, <1>10 DEF FlippedRun

\* The arrays of q and p, which may be one, by name.
Arrays(E, q, p) ==
  { r \in [{q, p} -> UNION { WordArrays(E[z]) : z \in {q, p} }] :
      \A z \in {q, p} : r[z] \in WordArrays(E[z]) }

\* One of them written.
LEMMA ArraysClosed ==
  ASSUME NEW E, NEW q, NEW p, NEW r \in Arrays(E, q, p),
         NEW e, r[q] \in WordArrays(E[q]) => e \in WordArrays(E[q])
  PROVE  [r EXCEPT ![q] = e] \in Arrays(E, q, p)
  BY DEF Arrays

\* The functions that loops use, by the name of what they do.
OneOp(how, d, id, v) == IF how = "set" THEN BitSet(d, id, v) ELSE BitOp(how, d, id, v)

\* The loop of copy, and that of region_op with a table.
Drawing(how, m, n, p, from, q, to) ==
  IF how = "set" THEN Copied(m, n, p, from, q, to) ELSE Merged(how, m, n, p, from, q, to)

\* Their steps.
DrawnRun(st, N, how, m, n, p, from, q, to) ==
  /\ st[0] = m /\ st[N] = Drawing(how, m, n, p, from, q, to)
  /\ \A k \in 1 .. N :
       st[k] = [st[k - 1] EXCEPT ![q] =
                  OneOp(how, @, At(to, RowMajor(n)[k]),
                        BitGet(st[k - 1][p], At(from, RowMajor(n)[k])))]

\* There are such steps of copy,
LEMMA CopiedSteps ==
  ASSUME NEW E, NEW q, NEW p, NEW m \in Arrays(E, q, p),
         NEW n, NEW from, NEW to, NEW N \in Nat, N = n.w * n.h
  PROVE  \E st : DrawnRun(st, N, "set", m, n, p, from, q, to)
<1> DEFINE X == Arrays(E, q, p)
           Step(r, s) == [r EXCEPT ![q] = BitSet(@, At(to, s), BitGet(r[p], At(from, s)))]
           F == [z \in (1 .. N) \X X |-> Step(z[2], RowMajor(n)[z[1]])]
           Is(g) == g = [s \in SUBSET (1 .. N) |->
                           IF s = {} THEN m
                           ELSE Step(g[s \ {Max(s)}], RowMajor(n)[Max(s)])]
<1>1. F \in [(1 .. N) \X X -> X]
  <2>1. ASSUME NEW r \in X, NEW s PROVE Step(r, s) \in X
    <3> DEFINE e == BitSet(r[q], At(to, s), BitGet(r[p], At(from, s)))
    <3>1. r[q] \in WordArrays(E[q]) => e \in WordArrays(E[q])
      BY WordsClosed
    <3>2. Step(r, s) = [r EXCEPT ![q] = e]
      OBVIOUS
    <3> HIDE DEF e, Step
    <3>3. [r EXCEPT ![q] = e] \in X
      BY <3>1, ArraysClosed
    <3> QED BY <3>2, <3>3
  <2> HIDE DEF Step, X
  <2> QED BY <2>1
<1>2. PICK g \in [SUBSET (1 .. N) -> X] : FoldsLeft(g, N, m, F)
  <2>1. m \in X
    OBVIOUS
  <2> HIDE DEF F, X
  <2> QED BY <1>1, <2>1, LeftFold
<1>3. Is(g)
  <2>1. ASSUME NEW s \in SUBSET (1 .. N), s # {}
        PROVE  g[s] = Step(g[s \ {Max(s)}], RowMajor(n)[Max(s)])
    <3> HIDE DEF Step, X
    <3>1. Max(s) \in s
      BY <2>1, MaxFacts
    <3>2. <<Max(s), g[s \ {Max(s)}]>> \in (1 .. N) \X X
      BY <2>1, <3>1
    <3>3. g[s] = F[<<Max(s), g[s \ {Max(s)}]>>]
      BY <1>2, <2>1 DEF FoldsLeft
    <3> QED BY <3>2, <3>3
  <2>2. g[{}] = m
    BY <1>2 DEF FoldsLeft
  <2> HIDE DEF Step, X
  <2> QED BY <2>1, <2>2
<1>4. DOMAIN RowMajor(n) = 1 .. N
  BY DEF RowMajor
<1>5. Copied(m, n, p, from, q, to) = (CHOOSE q0 : Is(q0))[1 .. N]
  BY <1>4 DEF Copied, FoldLeft, MapThenFoldSet
<1> DEFINE h == CHOOSE q0 : Is(q0)
<1>6. Is(h)
  <2> HIDE DEF Is
  <2> QED BY <1>3
<1> HIDE DEF h
<1>7. h[{}] = m
  <2> HIDE DEF Step
  <2> QED BY <1>6
<1>8. ASSUME NEW k \in 1 .. N PROVE h[1 .. k] = Step(h[1 .. (k - 1)], RowMajor(n)[k])
  <2>1. /\ 1 .. k \in SUBSET (1 .. N) /\ 1 .. k # {}
        /\ Max(1 .. k) = k /\ (1 .. k) \ {k} = 1 .. (k - 1)
    BY Segments
  <2> HIDE DEF Step
  <2> QED BY <1>6, <2>1
<1> DEFINE st == [k \in 0 .. N |-> h[1 .. k]]
<1>9. st[0] = m /\ st[N] = Copied(m, n, p, from, q, to)
  <2>1. 1 .. 0 = {}
    OBVIOUS
  <2> HIDE DEF Is
  <2> QED BY <1>5, <1>7, <2>1 DEF h
<1>10. ASSUME NEW k \in 1 .. N PROVE st[k] = Step(st[k - 1], RowMajor(n)[k])
  <2>1. k \in 0 .. N /\ k - 1 \in 0 .. N
    OBVIOUS
  <2> HIDE DEF Step
  <2> QED BY <1>8, <2>1
<1> HIDE DEF st, h
<1> QED BY <1>9, <1>10 DEF DrawnRun, Drawing, OneOp

\* and of region_op.
LEMMA MergedSteps ==
  ASSUME NEW E, NEW q, NEW p, NEW m \in Arrays(E, q, p), NEW op \in RegionOps,
         NEW n, NEW from, NEW to, NEW N \in Nat, N = n.w * n.h
  PROVE  \E st : DrawnRun(st, N, op, m, n, p, from, q, to)
<1> DEFINE X == Arrays(E, q, p)
           Step(r, s) == [r EXCEPT ![q] = BitOp(op, @, At(to, s), BitGet(r[p], At(from, s)))]
           F == [z \in (1 .. N) \X X |-> Step(z[2], RowMajor(n)[z[1]])]
           Is(g) == g = [s \in SUBSET (1 .. N) |->
                           IF s = {} THEN m
                           ELSE Step(g[s \ {Max(s)}], RowMajor(n)[Max(s)])]
<1>1. F \in [(1 .. N) \X X -> X]
  <2>1. ASSUME NEW r \in X, NEW s PROVE Step(r, s) \in X
    <3> DEFINE e == BitOp(op, r[q], At(to, s), BitGet(r[p], At(from, s)))
    <3>1. r[q] \in WordArrays(E[q]) => e \in WordArrays(E[q])
      BY WordsClosed
    <3>2. Step(r, s) = [r EXCEPT ![q] = e]
      OBVIOUS
    <3> HIDE DEF e, Step
    <3>3. [r EXCEPT ![q] = e] \in X
      BY <3>1, ArraysClosed
    <3> QED BY <3>2, <3>3
  <2> HIDE DEF Step, X
  <2> QED BY <2>1
<1>2. PICK g \in [SUBSET (1 .. N) -> X] : FoldsLeft(g, N, m, F)
  <2>1. m \in X
    OBVIOUS
  <2> HIDE DEF F, X
  <2> QED BY <1>1, <2>1, LeftFold
<1>3. Is(g)
  <2>1. ASSUME NEW s \in SUBSET (1 .. N), s # {}
        PROVE  g[s] = Step(g[s \ {Max(s)}], RowMajor(n)[Max(s)])
    <3> HIDE DEF Step, X
    <3>1. Max(s) \in s
      BY <2>1, MaxFacts
    <3>2. <<Max(s), g[s \ {Max(s)}]>> \in (1 .. N) \X X
      BY <2>1, <3>1
    <3>3. g[s] = F[<<Max(s), g[s \ {Max(s)}]>>]
      BY <1>2, <2>1 DEF FoldsLeft
    <3> QED BY <3>2, <3>3
  <2>2. g[{}] = m
    BY <1>2 DEF FoldsLeft
  <2> HIDE DEF Step, X
  <2> QED BY <2>1, <2>2
<1>4. DOMAIN RowMajor(n) = 1 .. N
  BY DEF RowMajor
<1>5. Merged(op, m, n, p, from, q, to) = (CHOOSE q0 : Is(q0))[1 .. N]
  BY <1>4 DEF Merged, FoldLeft, MapThenFoldSet
<1> DEFINE h == CHOOSE q0 : Is(q0)
<1>6. Is(h)
  <2> HIDE DEF Is
  <2> QED BY <1>3
<1> HIDE DEF h
<1>7. h[{}] = m
  <2> HIDE DEF Step
  <2> QED BY <1>6
<1>8. ASSUME NEW k \in 1 .. N PROVE h[1 .. k] = Step(h[1 .. (k - 1)], RowMajor(n)[k])
  <2>1. /\ 1 .. k \in SUBSET (1 .. N) /\ 1 .. k # {}
        /\ Max(1 .. k) = k /\ (1 .. k) \ {k} = 1 .. (k - 1)
    BY Segments
  <2> HIDE DEF Step
  <2> QED BY <1>6, <2>1
<1> DEFINE st == [k \in 0 .. N |-> h[1 .. k]]
<1>9. st[0] = m /\ st[N] = Merged(op, m, n, p, from, q, to)
  <2>1. 1 .. 0 = {}
    OBVIOUS
  <2> HIDE DEF Is
  <2> QED BY <1>5, <1>7, <2>1 DEF h
<1>10. ASSUME NEW k \in 1 .. N PROVE st[k] = Step(st[k - 1], RowMajor(n)[k])
  <2>1. k \in 0 .. N /\ k - 1 \in 0 .. N
    OBVIOUS
  <2> HIDE DEF Step
  <2> QED BY <1>8, <2>1
<1>11. op # "set"
  BY DEF RegionOps
<1> HIDE DEF st, h
<1> QED BY <1>9, <1>10, <1>11 DEF DrawnRun, Drawing, OneOp

-----------------------------------------------------------------------------
(* Values in memory *)

\* An object that has values, as it should be.
Fine(x) ==
  \/ x.kind = "table" /\ x.size \in TableSizes
  \/ x.kind = "cell" /\ x.size \in CellSizes

\* The memory it needs, and the value at c when d is in it.
Mem(x) == WordArrays(0 .. WordsOf(x) - 1)
Got(x, d, c) == BitGet(d, BitIndex(x, c))

\* Every bit that is one belongs to a value.
Clean(x, d) ==
  \A i \in DOMAIN d : \A b \in d[i] :
    \E c \in Coords(x) :
      /\ Word(BitIndex(x, c)) = i
      /\ b \in Bit(BitIndex(x, c)) .. Bit(BitIndex(x, c)) + BitCount - 1

\* Every value fits in a word of the memory.
LEMMA PlacesFit ==
  ASSUME NEW x, Fine(x), NEW c \in Coords(x)
  PROVE  /\ BitIndex(x, c) \in Nat /\ Word(BitIndex(x, c)) \in 0 .. WordsOf(x) - 1
         /\ Bit(BitIndex(x, c)) \in Nat /\ Bit(BitIndex(x, c)) + BitCount <= PackBits
<1>1. BitIndex(x, c) \in Nat /\ Word(BitIndex(x, c)) \in 0 .. WordsOf(x) - 1
      /\ Bit(BitIndex(x, c)) + Stride <= PackBits
  BY Places DEF Fine
<1>2. Bit(BitIndex(x, c)) \in Nat
  BY <1>1, IndexParts
<1>3. Bit(BitIndex(x, c)) + BitCount <= PackBits
  BY <1>1, <1>2, ItemWidth
<1> QED BY <1>1, <1>2, <1>3

\* What is read is a value.
LEMMA GotValue ==
  ASSUME NEW x, Fine(x), NEW d, NEW c \in Coords(x)
  PROVE  Got(x, d, c) \in SUBSET ValueBits
<1> DEFINE id == BitIndex(x, c)
<1>1. id \in Nat /\ Bit(id) + BitCount <= PackBits
  BY PlacesFit
<1> HIDE DEF id
<1>2. BitGet(d, id) \in SUBSET ValueBits
  BY <1>1, BitGetIs, ValueBitsAre
<1> QED BY <1>2 DEF Got, id

\* A value that is put at a place is there, and the others are what they were.
LEMMA PutAt ==
  ASSUME NEW x, Fine(x), NEW d \in Mem(x), NEW e, NEW c \in Coords(x),
         NEW u \in SUBSET ValueBits, Puts(e, d, BitIndex(x, c), u)
  PROVE  /\ Got(x, e, c) = u
         /\ \A p \in Coords(x) \ {c} : Got(x, e, p) = Got(x, d, p)
<1> DEFINE id == BitIndex(x, c)
<1>1. DOMAIN d = 0 .. WordsOf(x) - 1
  BY DEF Mem, WordArrays
<1>2. id \in Nat /\ Word(id) \in DOMAIN d /\ Bit(id) + BitCount <= PackBits
  BY <1>1, PlacesFit
<1>3. Puts(e, d, id, u)
  OBVIOUS
<1>4. \E k \in Nat : Bit(id) = Stride * k
  BY Places DEF Fine
<1> HIDE DEF id
<1>5. /\ BitGet(e, id) = u
      /\ \A j \in Nat :
           Word(j) \in DOMAIN d /\ Bit(j) + BitCount <= PackBits /\ Disjoint(id, j)
             => BitGet(e, j) = BitGet(d, j)
  BY <1>2, <1>3, PutsOne
<1>6. ASSUME NEW p \in Coords(x), p # c
      PROVE  BitGet(e, BitIndex(x, p)) = BitGet(d, BitIndex(x, p))
  <2> DEFINE j == BitIndex(x, p)
  <2>1. j \in Nat /\ Word(j) \in DOMAIN d /\ Bit(j) + BitCount <= PackBits
    BY <1>1, PlacesFit
  <2>2. \E k \in Nat : Bit(j) = Stride * k
    BY Places DEF Fine
  <2>3. id # j
    BY <1>6, Places DEF Fine, id
  <2> HIDE DEF j
  <2>4. Disjoint(id, j)
    BY <1>2, <1>4, <2>1, <2>2, <2>3, ValuesDisjoint
  <2>5. BitGet(e, j) = BitGet(d, j)
    BY <1>5, <2>1, <2>4
  <2> QED BY <2>5 DEF j
<1> QED BY <1>5, <1>6 DEF Got, id

\* Nothing but a value is put.
LEMMA PutClean ==
  ASSUME NEW x, Fine(x), NEW d \in Mem(x), NEW e \in Mem(x), NEW c \in Coords(x),
         NEW u, Puts(e, d, BitIndex(x, c), u), Clean(x, d)
  PROVE  Clean(x, e)
<1> SUFFICES ASSUME NEW i \in DOMAIN e, NEW b \in e[i]
             PROVE  \E p \in Coords(x) :
                      /\ Word(BitIndex(x, p)) = i
                      /\ b \in Bit(BitIndex(x, p)) .. Bit(BitIndex(x, p)) + BitCount - 1
  BY DEF Clean
<1> DEFINE id == BitIndex(x, c)
<1>1. DOMAIN d = DOMAIN e /\ b \in WordBits
  BY DEF Mem, WordArrays
<1>2. PICK w : /\ e = [d EXCEPT ![Word(id)] = w]
               /\ \A b0 \in WordBits :
                    b0 \in w <=> IF b0 \in Bit(id) .. Bit(id) + BitCount - 1
                                THEN b0 - Bit(id) \in u
                                ELSE b0 \in d[Word(id)]
  BY DEF Puts
<1> HIDE DEF id
<1>3. CASE i = Word(id) /\ b \in Bit(id) .. Bit(id) + BitCount - 1
  BY <1>3 DEF id
<1>4. CASE ~ (i = Word(id) /\ b \in Bit(id) .. Bit(id) + BitCount - 1)
  <2>1. b \in d[i]
    BY <1>1, <1>2, <1>4
  <2> QED BY <1>1, <2>1 DEF Clean
<1> QED BY <1>3, <1>4

\* The values there are to put.
LEMMA ResultValue ==
  ASSUME NEW how \in {"set", "not"} \cup RegionOps, NEW old \in SUBSET ValueBits,
         NEW v \in SUBSET ValueBits
  PROVE  Grids!Result(how, old, v) \in SUBSET ValueBits
  BY DEF Grids!Result, RegionOps

-----------------------------------------------------------------------------
(* Loops over different places *)

\* A loop puts a value at each of its places pos, in turn: st[k] is the memory after
\* k of its N steps.
Loop(x, d, N, pos, st) ==
  /\ st[0] = d
  /\ \A k \in 1 .. N : pos[k] \in Coords(x)
  /\ \A k \in 1 .. N : st[k - 1] \in Mem(x) => st[k] \in Mem(x)
  /\ \A k \in 1 .. N : st[k - 1] \in Mem(x) =>
       \E u \in SUBSET ValueBits : Puts(st[k], st[k - 1], BitIndex(x, pos[k]), u)

\* What it leaves alone.
Kept(x, d, pos, st, j) ==
  /\ st[j] \in Mem(x)
  /\ Clean(x, d) => Clean(x, st[j])
  /\ \A c \in Coords(x) : (\A i \in 1 .. j : pos[i] # c) => Got(x, st[j], c) = Got(x, d, c)

\* A loop changes nothing but its places.
LEMMA LoopKeeps ==
  ASSUME NEW x, Fine(x), NEW d \in Mem(x), NEW N \in Nat, NEW pos, NEW st,
         Loop(x, d, N, pos, st)
  PROVE  \A j \in 0 .. N : Kept(x, d, pos, st, j)
<1> DEFINE D == { j \in Nat : j <= N => Kept(x, d, pos, st, j) }
<1>1. 0 \in D
  BY DEF Loop, Kept
<1>2. ASSUME NEW j \in D PROVE j + 1 \in D
  <2> SUFFICES ASSUME j + 1 <= N PROVE Kept(x, d, pos, st, j + 1)
    OBVIOUS
  <2>1. j + 1 \in 1 .. N /\ (j + 1) - 1 = j /\ j \in Nat
    OBVIOUS
  <2>2. Kept(x, d, pos, st, j)
    BY <2>1
  <2> HIDE DEF D
  <2> DEFINE e == st[j]
             f == st[j + 1]
             c == pos[j + 1]
  <2>3. e \in Mem(x) /\ f \in Mem(x) /\ c \in Coords(x)
    BY <2>1, <2>2 DEF Kept, Loop
  <2>4. PICK u \in SUBSET ValueBits : Puts(f, e, BitIndex(x, c), u)
    BY <2>1, <2>3 DEF Loop
  <2> HIDE DEF e, f, c
  <2>5. \A p \in Coords(x) \ {c} : Got(x, f, p) = Got(x, e, p)
    BY <2>3, <2>4, PutAt
  <2>6. Clean(x, e) => Clean(x, f)
    BY <2>3, <2>4, PutClean
  <2>7. ASSUME NEW p \in Coords(x), \A i \in 1 .. j + 1 : pos[i] # p
        PROVE  Got(x, f, p) = Got(x, d, p)
    <3>1. p # c /\ \A i \in 1 .. j : pos[i] # p
      <4>1. 1 .. j \subseteq 1 .. j + 1 /\ j + 1 \in 1 .. j + 1
        BY <2>1
      <4> QED BY <2>7, <4>1 DEF c
    <3> QED BY <2>2, <2>5, <3>1 DEF Kept, e
  <2> QED BY <2>2, <2>3, <2>6, <2>7 DEF Kept, e, f
<1>3. D = Nat
  <2>1. D \in SUBSET Nat
    OBVIOUS
  <2> HIDE DEF D
  <2> QED BY <1>1, <1>2, <2>1, Induction
<1> QED BY <1>3

\* What it has made of the values at its places so far: w has what goes there.
Partly(x, d, pos, st, how, w, j) ==
  \A i \in 1 .. j : Got(x, st[j], pos[i]) = Grids!Result(how, Got(x, d, pos[i]), w[i])

\* Each step does so with the value it finds, if those before it did.
Does(x, d, N, pos, st, how, w) ==
  \A k \in 1 .. N :
    Kept(x, d, pos, st, k - 1) /\ Partly(x, d, pos, st, how, w, k - 1) =>
      Puts(st[k], st[k - 1], BitIndex(x, pos[k]), Grids!Result(how, Got(x, st[k - 1], pos[k]), w[k]))

\* A loop over places that differ does with each value what it would do with that
\* one alone.
LEMMA LoopDone ==
  ASSUME NEW x, Fine(x), NEW d \in Mem(x), NEW N \in Nat, NEW pos, NEW st,
         Loop(x, d, N, pos, st), \A i, k \in 1 .. N : pos[i] = pos[k] => i = k,
         NEW how \in {"set", "not"} \cup RegionOps, NEW w, \A k \in 1 .. N : w[k] \in SUBSET ValueBits,
         Does(x, d, N, pos, st, how, w)
  PROVE  Kept(x, d, pos, st, N) /\ Partly(x, d, pos, st, how, w, N)
<1> DEFINE D == { j \in Nat : j <= N => Partly(x, d, pos, st, how, w, j) }
<1>1. 0 \in D
  BY DEF Partly
<1>2. ASSUME NEW j \in D PROVE j + 1 \in D
  <2> SUFFICES ASSUME j + 1 <= N PROVE Partly(x, d, pos, st, how, w, j + 1)
    OBVIOUS
  <2>1. j + 1 \in 1 .. N /\ (j + 1) - 1 = j /\ j \in Nat /\ j \in 0 .. N
    OBVIOUS
  <2>2. Partly(x, d, pos, st, how, w, j)
    BY <2>1
  <2>3. Kept(x, d, pos, st, j)
    BY <2>1, LoopKeeps
  <2> HIDE DEF D
  <2> DEFINE e == st[j]
             f == st[j + 1]
             c == pos[j + 1]
             u == Grids!Result(how, Got(x, e, c), w[j + 1])
  <2>4. e \in Mem(x) /\ f \in Mem(x) /\ c \in Coords(x)
    BY <2>1, <2>3 DEF Kept, Loop
  <2>5. Puts(f, e, BitIndex(x, c), u)
    BY <2>1, <2>2, <2>3 DEF Does
  <2>6. u \in SUBSET ValueBits
    <3>1. Got(x, e, c) \in SUBSET ValueBits /\ w[j + 1] \in SUBSET ValueBits
      BY <2>1, <2>4, GotValue
    <3> QED BY <3>1, ResultValue
  <2>7. Got(x, e, c) = Got(x, d, c)
    <3>1. \A i \in 1 .. j : pos[i] # c
      BY <2>1
    <3> QED BY <2>3, <2>4, <3>1 DEF Kept
  <2> HIDE DEF e, f, c, u
  <2>8. Got(x, f, c) = u /\ \A p \in Coords(x) \ {c} : Got(x, f, p) = Got(x, e, p)
    BY <2>4, <2>5, <2>6, PutAt
  <2>9. ASSUME NEW i \in 1 .. j
        PROVE  Got(x, f, pos[i]) = Grids!Result(how, Got(x, d, pos[i]), w[i])
    <3>1. i \in 1 .. N /\ i # j + 1
      BY <2>1
    <3>2. pos[i] \in Coords(x) \ {c}
      BY <2>1, <3>1 DEF Loop, c
    <3> QED BY <2>2, <2>8, <3>2 DEF Partly, e
  <2>10. Got(x, f, pos[j + 1]) = Grids!Result(how, Got(x, d, pos[j + 1]), w[j + 1])
    BY <2>7, <2>8 DEF c, u
  <2>11. \A i \in 1 .. j + 1 : i \in 1 .. j \/ i = j + 1
    BY <2>1
  <2> QED BY <2>9, <2>10, <2>11 DEF Partly, f
<1>3. D = Nat
  <2>1. D \in SUBSET Nat
    OBVIOUS
  <2> HIDE DEF D
  <2> QED BY <1>1, <1>2, <2>1, Induction
<1>4. Kept(x, d, pos, st, N)
  BY LoopKeeps
<1> QED BY <1>3, <1>4

-----------------------------------------------------------------------------
(* The places of a region *)

\* How many values a region has.
Count(n) == n.w * n.h

\* A step comes before another one in row-major order.
Before(s, t) == s[2] < t[2] \/ (s[2] = t[2] /\ s[1] < t[1])

\* A number times a positive one.
LEMMA CountNat ==
  ASSUME NEW n, n.w \in Nat \ {0}, n.h \in Nat \ {0}
  PROVE  Count(n) \in Nat
<1>1. \A a, b \in Nat : a * b \in Nat
  OBVIOUS
<1> QED BY <1>1 DEF Count

\* A smaller number has no greater quotient, and with the same one a smaller
\* remainder.
LEMMA PartsOrder ==
  ASSUME NEW B \in Nat \ {0}, NEW i \in Nat, NEW k \in Nat, i < k
  PROVE  i \div B < k \div B \/ (i \div B = k \div B /\ i % B < k % B)
<1> DEFINE q == i \div B
           r == k \div B
           a == i % B
           b == k % B
<1>1. q \in Nat /\ r \in Nat /\ a \in 0 .. B - 1 /\ b \in 0 .. B - 1
  BY Parts
<1>2. i = B * q + a /\ k = B * r + b
  BY Parts
<1> HIDE DEF q, r, a, b
<1>3. CASE q < r
  BY <1>3 DEF q, r
<1>4. CASE q = r
  <2>1. a < b
    BY <1>1, <1>2, <1>4
  <2> QED BY <1>4, <2>1 DEF q, r, a, b
<1>5. CASE r < q
  <2>1. B * (q - r) >= B
    <3>1. q - r \in Nat \ {0}
      BY <1>1, <1>5
    <3>2. \A t \in Nat \ {0} : B * t >= B
      OBVIOUS
    <3> QED BY <3>1, <3>2
  <2>2. B * q = B * r + B * (q - r)
    BY <1>1
  <2>3. B * q \in Nat /\ B * r \in Nat /\ B * (q - r) \in Int
    BY <1>1
  <2>4. i < k /\ a \in Int /\ b \in Int /\ a >= 0 /\ b < B
    BY <1>1
  <2> QED BY <1>2, <2>1, <2>2, <2>3, <2>4
<1> QED BY <1>1, <1>3, <1>4, <1>5

\* The loops visit every place of a region once, in row-major order.
LEMMA RowMajorFacts ==
  ASSUME NEW n, n.w \in Nat \ {0}, n.h \in Nat \ {0}
  PROVE  /\ \A k \in 1 .. Count(n) :
              /\ RowMajor(n)[k] = <<RowMajor(n)[k][1], RowMajor(n)[k][2]>>
              /\ RowMajor(n)[k][1] \in 0 .. n.w - 1 /\ RowMajor(n)[k][2] \in 0 .. n.h - 1
         /\ \A i, k \in 1 .. Count(n) : i < k => Before(RowMajor(n)[i], RowMajor(n)[k])
         /\ \A a \in 0 .. n.w - 1, b \in 0 .. n.h - 1 :
              \E k \in 1 .. Count(n) : RowMajor(n)[k] = <<a, b>>
<1>1. Count(n) \in Nat /\ Count(n) = n.w * n.h
  BY CountNat DEF Count
<1>2. \A k \in 1 .. Count(n) : RowMajor(n)[k] = <<(k - 1) % n.w, (k - 1) \div n.w>>
  BY <1>1 DEF RowMajor
<1> DEFINE N == Count(n)
<1>3. ASSUME NEW k \in 1 .. N
      PROVE  (k - 1) % n.w \in 0 .. n.w - 1 /\ (k - 1) \div n.w \in 0 .. n.h - 1
  <2>1. k - 1 \in Nat /\ k - 1 < n.w * n.h
    <3> HIDE DEF N
    <3>1. k \in 1 .. N /\ N = n.w * n.h /\ N \in Nat
      BY <1>1 DEF N
    <3> QED BY <3>1
  <2>2. (k - 1) \div n.w < n.h
    BY <2>1, PartBelow
  <2>3. (k - 1) \div n.w \in Nat /\ (k - 1) % n.w \in 0 .. n.w - 1
    BY <2>1, Parts
  <2> QED BY <2>2, <2>3
<1>4. ASSUME NEW i \in 1 .. N, NEW k \in 1 .. N, i < k
      PROVE  Before(RowMajor(n)[i], RowMajor(n)[k])
  <2>1. i - 1 \in Nat /\ k - 1 \in Nat /\ i - 1 < k - 1
    BY <1>1, <1>4
  <2>2. \/ (i - 1) \div n.w < (k - 1) \div n.w
        \/ (i - 1) \div n.w = (k - 1) \div n.w /\ (i - 1) % n.w < (k - 1) % n.w
    BY <2>1, PartsOrder
  <2>3. /\ RowMajor(n)[i] = <<(i - 1) % n.w, (i - 1) \div n.w>>
        /\ RowMajor(n)[k] = <<(k - 1) % n.w, (k - 1) \div n.w>>
    BY <1>2
  <2> QED BY <2>2, <2>3 DEF Before
<1>5. ASSUME NEW a \in 0 .. n.w - 1, NEW b \in 0 .. n.h - 1
      PROVE  \E k \in 1 .. N : RowMajor(n)[k] = <<a, b>>
  <2> DEFINE t == n.w * b + a
  <2>1. t \in Nat /\ t \div n.w = b /\ t % n.w = a
    <3>1. b \in Nat
      OBVIOUS
    <3> QED BY <3>1, Split
  <2>2. t + 1 <= n.w * n.h
    <3>1. n.w * (b + 1) <= n.w * n.h
      <4>1. \A u, v, B \in Nat : u <= v => B * u <= B * v
        OBVIOUS
      <4> QED BY <4>1
    <3>2. n.w * (b + 1) = n.w * b + n.w
      OBVIOUS
    <3>3. n.w * b \in Nat /\ n.w * n.h \in Nat /\ a + 1 <= n.w
      OBVIOUS
    <3> QED BY <3>1, <3>2, <3>3
  <2> HIDE DEF t
  <2>3. t + 1 \in 1 .. N /\ (t + 1) - 1 = t
    <3>1. N = n.w * n.h /\ N \in Nat
      BY <1>1
    <3> QED BY <2>1, <2>2, <3>1
  <2>4. RowMajor(n)[t + 1] = <<a, b>>
    BY <1>2, <2>1, <2>3
  <2> QED BY <2>3, <2>4
<1> HIDE DEF N
<1>6. \A k \in 1 .. N :
        /\ RowMajor(n)[k] = <<RowMajor(n)[k][1], RowMajor(n)[k][2]>>
        /\ RowMajor(n)[k][1] \in 0 .. n.w - 1 /\ RowMajor(n)[k][2] \in 0 .. n.h - 1
  BY <1>2, <1>3 DEF N
<1> QED BY <1>4, <1>5, <1>6 DEF N

\* A region of n columns and rows at c is within an object.
Inside(x, c, n) ==
  \A i \in 0 .. n.w - 1, j \in 0 .. n.h - 1 : <<c[1] + i, c[2] + j>> \in Coords(x)

\* adj_col and adj_row lead from a place to those of the region.
LEMMA AtIs ==
  ASSUME NEW x, Fine(x), NEW c \in Coords(x), NEW i \in Nat, NEW j \in Nat,
         <<c[1] + i, c[2] + j>> \in Coords(x)
  PROVE  At(AdjIndex(x, c), <<i, j>>) = BitIndex(x, <<c[1] + i, c[2] + j>>)
<1>1. At(AdjIndex(x, c), <<i, j>>) = BitIndex(x, c) + i * Stride + j * RowBits(x)
  BY DEF At, AdjIndex, Cursor
<1>2. CASE x.kind = "table" /\ x.size \in TableSizes
  <2>1. Coords(x) = Box(-BufferSize, -BufferSize, Pad(x.size))
    BY <1>2 DEF Coords, Lo, Extent
  <2>2. TableIndex(x, <<c[1] + i, c[2] + j>>)
          = TableIndex(x, c) + Stride * i + PackBits * (j * RowWords(x.size))
    BY <1>2, <2>1, TableStep
  <2>3. RowBits(x) = RowWords(x.size) * PackBits
    BY <1>2 DEF RowBits
  <2>4. \A p : BitIndex(x, p) = TableIndex(x, p)
    BY <1>2 DEF BitIndex
  <2>5. RowWords(x.size) \in Nat /\ PackBits \in Nat /\ Stride \in Nat /\ TableIndex(x, c) \in Nat
    BY <1>2, <2>1, Rows, ItemWidth, TablePlace
  <2> DEFINE W == RowWords(x.size)
             I == TableIndex(x, c)
             J == TableIndex(x, <<c[1] + i, c[2] + j>>)
  <2> HIDE DEF W, I, J
  <2>6. j * (W * PackBits) = PackBits * (j * W) /\ i * Stride = Stride * i
    BY <2>5 DEF W
  <2>7. J = I + Stride * i + PackBits * (j * W)
    BY <2>2 DEF W, I, J
  <2>8. At(AdjIndex(x, c), <<i, j>>) = I + i * Stride + j * (W * PackBits)
    BY <1>1, <2>3, <2>4 DEF W, I
  <2>9. At(AdjIndex(x, c), <<i, j>>) = J
    BY <2>6, <2>7, <2>8
  <2> QED BY <2>4, <2>9 DEF J
<1>3. CASE x.kind = "cell" /\ x.size \in CellSizes
  <2>1. Coords(x) = Box(0, 0, x.size)
    BY <1>3 DEF Coords, Lo, Extent
  <2> DEFINE e == <<c[1] + i, c[2] + j>>
  <2>2. /\ x.size.w \in Nat \ {0} /\ c[1] \in Nat /\ c[2] \in Nat
    <3>1. c[1] \in 0 .. x.size.w - 1 /\ c[2] \in Nat /\ x.size.w \in Nat \ {0}
      BY <1>3, <2>1, CellPlace
    <3> QED BY <3>1
  <2>3. RowBits(x) = x.size.w * Stride
    BY <1>3 DEF RowBits
  <2>4. BitIndex(x, c) = Stride * (c[2] * x.size.w + c[1])
        /\ BitIndex(x, e) = Stride * ((c[2] + j) * x.size.w + (c[1] + i))
    BY <1>3 DEF BitIndex, CellIndex
  <2>5. Stride \in Nat
    BY ItemWidth
  <2> DEFINE w == x.size.w
             a == c[1]
             b == c[2]
  <2> HIDE DEF w, a, b, e
  <2>6. Stride * ((b + j) * w + (a + i)) = Stride * (b * w + a) + i * Stride + j * (w * Stride)
    <3>1. (b + j) * w + (a + i) = (b * w + a) + (i + j * w)
      BY <2>2 DEF w, a, b
    <3>2. b * w + a \in Nat /\ i + j * w \in Nat /\ j * w \in Nat
      <4>1. b \in Nat /\ w \in Nat /\ a \in Nat
        BY <2>2 DEF w, a, b
      <4>2. \A u, v \in Nat : u * v \in Nat
        OBVIOUS
      <4>3. b * w \in Nat /\ j * w \in Nat
        BY <4>1, <4>2
      <4> QED BY <4>1, <4>3
    <3>3. \A S, t, u, v \in Nat : S * (t + (u + v)) = S * t + u * S + S * v
      OBVIOUS
    <3>4. Stride * (j * w) = j * (w * Stride)
      BY <2>2, <2>5 DEF w
    <3> QED BY <2>5, <3>1, <3>2, <3>3, <3>4
  <2> QED BY <1>1, <2>3, <2>4, <2>6 DEF w, a, b, e
<1> QED BY <1>2, <1>3 DEF Fine

\* The places of the region of n columns and rows at c, as a loop visits them.
Positions(c, n) ==
  [k \in 1 .. Count(n) |-> <<c[1] + RowMajor(n)[k][1], c[2] + RowMajor(n)[k][2]>>]

\* They are places of the object, differ, are all of the region, and the cursor of
\* the loop leads to them.
LEMMA RegionLoop ==
  ASSUME NEW x, Fine(x), NEW c \in Coords(x), NEW n, n.w \in Nat \ {0}, n.h \in Nat \ {0},
         Inside(x, c, n)
  PROVE  /\ Count(n) \in Nat
         /\ \A k \in 1 .. Count(n) :
              /\ Positions(c, n)[k] \in Coords(x)
              /\ At(AdjIndex(x, c), RowMajor(n)[k]) = BitIndex(x, Positions(c, n)[k])
         /\ \A i, k \in 1 .. Count(n) : Positions(c, n)[i] = Positions(c, n)[k] => i = k
         /\ \A p \in Coords(x) :
              p \in Grids!Box(c[1], c[2], n) <=> \E k \in 1 .. Count(n) : Positions(c, n)[k] = p
<1>1. Count(n) \in Nat
  BY CountNat
<1>2. /\ \A k \in 1 .. Count(n) :
           /\ RowMajor(n)[k] = <<RowMajor(n)[k][1], RowMajor(n)[k][2]>>
           /\ RowMajor(n)[k][1] \in 0 .. n.w - 1 /\ RowMajor(n)[k][2] \in 0 .. n.h - 1
      /\ \A i, k \in 1 .. Count(n) : i < k => Before(RowMajor(n)[i], RowMajor(n)[k])
      /\ \A a \in 0 .. n.w - 1, b \in 0 .. n.h - 1 :
           \E k \in 1 .. Count(n) : RowMajor(n)[k] = <<a, b>>
  BY RowMajorFacts
<1>3. c \in Int \X Int /\ Coords(x) \subseteq Int \X Int
  BY Places DEF Fine
<1> DEFINE pos == Positions(c, n)
           N == Count(n)
           S == RowMajor(n)
<1> HIDE DEF S, N
<1>4. \A k \in 1 .. N : pos[k] = <<c[1] + S[k][1], c[2] + S[k][2]>>
  BY DEF Positions, S, N
<1> HIDE DEF pos
<1>5. ASSUME NEW k \in 1 .. N
      PROVE  pos[k] \in Coords(x) /\ At(AdjIndex(x, c), S[k]) = BitIndex(x, pos[k])
  <2>1. S[k] = <<S[k][1], S[k][2]>> /\ S[k][1] \in 0 .. n.w - 1 /\ S[k][2] \in 0 .. n.h - 1
    BY <1>2 DEF S, N
  <2>2. pos[k] \in Coords(x)
    BY <1>4, <2>1 DEF Inside
  <2>3. At(AdjIndex(x, c), <<S[k][1], S[k][2]>>)
          = BitIndex(x, <<c[1] + S[k][1], c[2] + S[k][2]>>)
    <3>1. S[k][1] \in Nat /\ S[k][2] \in Nat
      BY <2>1
    <3>2. <<c[1] + S[k][1], c[2] + S[k][2]>> \in Coords(x)
      BY <1>4, <2>2
    <3> QED BY <3>1, <3>2, AtIs
  <2> QED BY <1>4, <2>1, <2>2, <2>3
<1>6. ASSUME NEW i \in 1 .. N, NEW k \in 1 .. N, pos[i] = pos[k]
      PROVE  i = k
  <2>1. S[i][1] \in Int /\ S[i][2] \in Int /\ S[k][1] \in Int /\ S[k][2] \in Int
    BY <1>2 DEF S, N
  <2>2. S[i][1] = S[k][1] /\ S[i][2] = S[k][2]
    BY <1>3, <1>4, <1>6, <2>1
  <2>3. ~ Before(S[i], S[k]) /\ ~ Before(S[k], S[i])
    BY <2>1, <2>2 DEF Before
  <2>4. ~ (i < k) /\ ~ (k < i)
    BY <1>2, <2>3 DEF S, N
  <2> QED BY <1>1, <2>4 DEF N
<1>7. ASSUME NEW p \in Coords(x)
      PROVE  p \in Grids!Box(c[1], c[2], n) <=> \E k \in 1 .. N : pos[k] = p
  <2>1. p \in Int \X Int /\ p = <<p[1], p[2]>>
    BY <1>3
  <2>2. p \in Grids!Box(c[1], c[2], n)
          <=> p[1] \in c[1] .. c[1] + n.w - 1 /\ p[2] \in c[2] .. c[2] + n.h - 1
    BY <2>1 DEF Grids!Box
  <2>3. ASSUME p \in Grids!Box(c[1], c[2], n) PROVE \E k \in 1 .. N : pos[k] = p
    <3>1. p[1] - c[1] \in 0 .. n.w - 1 /\ p[2] - c[2] \in 0 .. n.h - 1
      BY <1>3, <2>1, <2>2, <2>3
    <3>2. PICK k \in 1 .. N : S[k] = <<p[1] - c[1], p[2] - c[2]>>
      BY <1>2, <3>1 DEF S, N
    <3>3. pos[k] = <<c[1] + (p[1] - c[1]), c[2] + (p[2] - c[2])>>
      BY <1>4, <3>2
    <3>4. c[1] + (p[1] - c[1]) = p[1] /\ c[2] + (p[2] - c[2]) = p[2]
      BY <1>3, <2>1
    <3> QED BY <2>1, <3>3, <3>4
  <2>4. ASSUME NEW k \in 1 .. N, pos[k] = p PROVE p \in Grids!Box(c[1], c[2], n)
    <3>1. S[k][1] \in 0 .. n.w - 1 /\ S[k][2] \in 0 .. n.h - 1
      BY <1>2 DEF S, N
    <3>2. p[1] = c[1] + S[k][1] /\ p[2] = c[2] + S[k][2]
      BY <1>4, <2>4
    <3> QED BY <1>3, <2>2, <3>1, <3>2
  <2> QED BY <2>3, <2>4
<1> QED BY <1>1, <1>5, <1>6, <1>7 DEF pos, S, N

\* e is d with f done to the values at B: f has an argument for each.
Redone(x, d, e, B, how, f) ==
  /\ e \in Mem(x)
  /\ Clean(x, d) => Clean(x, e)
  /\ \A p \in Coords(x) :
       Got(x, e, p) = IF p \in B THEN Grids!Result(how, Got(x, d, p), f[p]) ELSE Got(x, d, p)

\* What a loop over a region does to its places, and to no other.
LEMMA RegionDone ==
  ASSUME NEW x, Fine(x), NEW d \in Mem(x), NEW c \in Coords(x), NEW n,
         n.w \in Nat \ {0}, n.h \in Nat \ {0}, Inside(x, c, n),
         NEW st, Loop(x, d, Count(n), Positions(c, n), st),
         NEW how \in {"set", "not"} \cup RegionOps, NEW w,
         \A k \in 1 .. Count(n) : w[k] \in SUBSET ValueBits,
         Does(x, d, Count(n), Positions(c, n), st, how, w),
         NEW f, \A k \in 1 .. Count(n) : f[Positions(c, n)[k]] = w[k]
  PROVE  Redone(x, d, st[Count(n)], Grids!Box(c[1], c[2], n), how, f)
<1> DEFINE N == Count(n)
           pos == Positions(c, n)
           B == Grids!Box(c[1], c[2], n)
<1>1. /\ N \in Nat
      /\ \A i, k \in 1 .. N : pos[i] = pos[k] => i = k
      /\ \A p \in Coords(x) : p \in B <=> \E k \in 1 .. N : pos[k] = p
  BY RegionLoop
<1>2. Loop(x, d, N, pos, st) /\ Does(x, d, N, pos, st, how, w) /\ \A k \in 1 .. N : w[k] \in SUBSET ValueBits
  OBVIOUS
<1>3. \A k \in 1 .. N : f[pos[k]] = w[k]
  OBVIOUS
<1> HIDE DEF N, pos, B
<1>4. Kept(x, d, pos, st, N) /\ Partly(x, d, pos, st, how, w, N)
  BY <1>1, <1>2, LoopDone
<1>5. ASSUME NEW p \in Coords(x)
      PROVE  Got(x, st[N], p)
               = IF p \in B THEN Grids!Result(how, Got(x, d, p), f[p]) ELSE Got(x, d, p)
  <2>1. CASE p \in B
    <3>1. PICK k \in 1 .. N : pos[k] = p
      BY <1>1, <2>1
    <3> QED BY <1>3, <1>4, <2>1, <3>1 DEF Partly
  <2>2. CASE p \notin B
    <3>1. \A i \in 1 .. N : pos[i] # p
      BY <1>1, <2>2
    <3> QED BY <1>4, <2>2, <3>1 DEF Kept
  <2> QED BY <2>1, <2>2
<1> QED BY <1>4, <1>5 DEF Redone, Kept, N, B

\* The functions that loops use put what the grids say.
LEMMA OneOpPuts ==
  ASSUME NEW x, Fine(x), NEW c \in Coords(x), NEW d,
         NEW how \in {"set"} \cup RegionOps, NEW v \in SUBSET ValueBits
  PROVE  Puts(OneOp(how, d, BitIndex(x, c), v), d, BitIndex(x, c),
              Grids!Result(how, Got(x, d, c), v))
<1> DEFINE id == BitIndex(x, c)
           old == BitGet(d, id)
<1>1. id \in Nat /\ Bit(id) + BitCount <= PackBits
  BY PlacesFit
<1>2. Got(x, d, c) = old
  BY DEF Got
<1> HIDE DEF id
<1>3. v \in BitValues
  BY DEF BitValues
<1>4. /\ Puts(BitSet(d, id, v), d, id, v)
      /\ Puts(BitOr(d, id, v), d, id, old \cup v)
      /\ Puts(BitAnd(d, id, v), d, id, old \cap v)
      /\ Puts(BitXor(d, id, v), d, id, (old \ v) \cup (v \ old))
      /\ Puts(BitNand(d, id, v), d, id, ValueBits \ (old \cap v))
  BY <1>1, <1>3, OneValuePuts
<1> HIDE DEF old
<1>5. Puts(OneOp(how, d, id, v), d, id, Grids!Result(how, old, v))
  BY <1>4 DEF OneOp, BitOp, Grids!Result, RegionOps
<1> QED BY <1>2, <1>5 DEF id

\* So does the step of flip.
LEMMA FlipPuts ==
  ASSUME NEW x, Fine(x), NEW c \in Coords(x), NEW d, NEW v
  PROVE  Puts(BitSet(d, BitIndex(x, c), WordBits \ BitGet(d, BitIndex(x, c))), d, BitIndex(x, c),
              Grids!Result("not", Got(x, d, c), v))
<1> DEFINE id == BitIndex(x, c)
           old == BitGet(d, id)
<1>1. id \in Nat /\ Bit(id) + BitCount <= PackBits
  BY PlacesFit
<1> HIDE DEF id
<1>2. (WordBits \ old) \cap ValueBits = (ValueBits \ old) \cap ValueBits
  <2>1. ValueBits \subseteq WordBits
    <3>1. BitCount \in Nat /\ PackBits \in Nat /\ BitCount <= PackBits
      BY BitOpsAssumption, ItemWidth
    <3> QED BY <3>1, ValueBitsAre DEF WordBits, BitsOf
  <2> HIDE DEF old
  <2> QED BY <2>1
<1>3. There(id, WordBits \ old) = There(id, ValueBits \ old)
  BY <1>2 DEF There
<1>4. BitSet(d, id, WordBits \ old) = BitSet(d, id, ValueBits \ old)
  BY <1>3 DEF BitSet
<1>5. ValueBits \ old \in BitValues
  BY DEF BitValues
<1>6. Puts(BitSet(d, id, ValueBits \ old), d, id, ValueBits \ old)
  <2> HIDE DEF old
  <2> QED BY <1>1, <1>5, OneValuePuts
<1>7. Grids!Result("not", old, v) = ValueBits \ old
  BY DEF Grids!Result
<1> QED BY <1>4, <1>6, <1>7 DEF id, Got

\* The functions make arrays of words.
LEMMA OneOpClosed ==
  ASSUME NEW D, NEW d \in WordArrays(D), NEW id, NEW v, NEW how \in {"set"} \cup RegionOps
  PROVE  OneOp(how, d, id, v) \in WordArrays(D)
  BY WordsClosed DEF OneOp

\* region_op with one value does it to every value of the region.
LEMMA FilledDone ==
  ASSUME NEW x, Fine(x), NEW d \in Mem(x), NEW c \in Coords(x), NEW n,
         n.w \in Nat \ {0}, n.h \in Nat \ {0}, Inside(x, c, n),
         NEW op \in RegionOps, NEW v \in SUBSET ValueBits
  PROVE  Redone(x, d, Filled(op, d, v, n, AdjIndex(x, c)), Grids!Box(c[1], c[2], n), op,
                [p \in Coords(x) |-> v])
<1> DEFINE N == Count(n)
           pos == Positions(c, n)
           at == AdjIndex(x, c)
           D == 0 .. WordsOf(x) - 1
           w == [k \in 1 .. N |-> v]
           f == [p \in Coords(x) |-> v]
<1>1. /\ N \in Nat
      /\ \A k \in 1 .. N : pos[k] \in Coords(x) /\ At(at, RowMajor(n)[k]) = BitIndex(x, pos[k])
  BY RegionLoop
<1>2. PICK st : FilledRun(st, N, op, d, v, n, at)
  <2>1. d \in WordArrays(D) /\ N = n.w * n.h /\ N \in Nat
    BY <1>1 DEF Mem, Count
  <2> HIDE DEF D, at, N
  <2> QED BY <2>1, FilledSteps
<1> HIDE DEF N, pos, at, w, f
<1>3. \A k \in 1 .. N : st[k] = OneOp(op, st[k - 1], BitIndex(x, pos[k]), v)
  BY <1>1, <1>2 DEF FilledRun, OneOp, RegionOps
<1>4. ASSUME NEW k \in 1 .. N
      PROVE  Puts(st[k], st[k - 1], BitIndex(x, pos[k]), Grids!Result(op, Got(x, st[k - 1], pos[k]), v))
  BY <1>1, <1>3, OneOpPuts
<1>5. ASSUME NEW k \in 1 .. N
      PROVE  Grids!Result(op, Got(x, st[k - 1], pos[k]), v) \in SUBSET ValueBits
  <2>1. Got(x, st[k - 1], pos[k]) \in SUBSET ValueBits
    BY <1>1, GotValue
  <2> QED BY <2>1, ResultValue
<1>6. ASSUME NEW k \in 1 .. N, st[k - 1] \in Mem(x) PROVE st[k] \in Mem(x)
  <2>1. OneOp(op, st[k - 1], BitIndex(x, pos[k]), v) \in Mem(x)
    BY <1>6, OneOpClosed DEF Mem
  <2> QED BY <1>3, <2>1
<1>7. Loop(x, d, N, pos, st)
  <2>1. st[0] = d
    BY <1>2 DEF FilledRun
  <2> QED BY <1>1, <1>4, <1>5, <1>6, <2>1 DEF Loop
<1>8. Does(x, d, N, pos, st, op, w)
  BY <1>4 DEF Does, w
<1>9. \A k \in 1 .. N : w[k] \in SUBSET ValueBits /\ f[pos[k]] = w[k]
  BY <1>1 DEF w, f
<1>10. Redone(x, d, st[N], Grids!Box(c[1], c[2], n), op, f)
  <2>1. Loop(x, d, Count(n), Positions(c, n), st) /\ Does(x, d, Count(n), Positions(c, n), st, op, w)
    BY <1>7, <1>8 DEF N, pos
  <2>2. /\ \A k \in 1 .. Count(n) : w[k] \in SUBSET ValueBits
        /\ \A k \in 1 .. Count(n) : f[Positions(c, n)[k]] = w[k]
    BY <1>9 DEF N, pos
  <2>3. Redone(x, d, st[Count(n)], Grids!Box(c[1], c[2], n), op, f)
    BY <2>1, <2>2, RegionDone
  <2> QED BY <2>3 DEF N
<1> QED BY <1>2, <1>10 DEF FilledRun, at, f

\* flip complements every value of the region.
LEMMA FlippedDone ==
  ASSUME NEW x, Fine(x), NEW d \in Mem(x), NEW c \in Coords(x), NEW n,
         n.w \in Nat \ {0}, n.h \in Nat \ {0}, Inside(x, c, n)
  PROVE  Redone(x, d, Flipped(d, n, AdjIndex(x, c)), Grids!Box(c[1], c[2], n), "not",
                [p \in Coords(x) |-> {}])
<1> DEFINE N == Count(n)
           pos == Positions(c, n)
           at == AdjIndex(x, c)
           D == 0 .. WordsOf(x) - 1
           w == [k \in 1 .. N |-> {}]
           f == [p \in Coords(x) |-> {}]
<1>1. /\ N \in Nat
      /\ \A k \in 1 .. N : pos[k] \in Coords(x) /\ At(at, RowMajor(n)[k]) = BitIndex(x, pos[k])
  BY RegionLoop
<1>2. PICK st : FlippedRun(st, N, d, n, at)
  <2>1. d \in WordArrays(D) /\ N = n.w * n.h /\ N \in Nat
    BY <1>1 DEF Mem, Count
  <2> HIDE DEF D, at, N
  <2> QED BY <2>1, FlippedSteps
<1> HIDE DEF N, pos, at, w, f
<1>3. \A k \in 1 .. N :
        st[k] = BitSet(st[k - 1], BitIndex(x, pos[k]),
                       WordBits \ BitGet(st[k - 1], BitIndex(x, pos[k])))
  BY <1>1, <1>2 DEF FlippedRun
<1>4. ASSUME NEW k \in 1 .. N
      PROVE  Puts(st[k], st[k - 1], BitIndex(x, pos[k]), Grids!Result("not", Got(x, st[k - 1], pos[k]), {}))
  <2> DEFINE e == st[k - 1]
             q == pos[k]
  <2>1. q \in Coords(x) /\ st[k] = BitSet(e, BitIndex(x, q), WordBits \ BitGet(e, BitIndex(x, q)))
    BY <1>1, <1>3
  <2> HIDE DEF e, q
  <2>2. Puts(BitSet(e, BitIndex(x, q), WordBits \ BitGet(e, BitIndex(x, q))), e, BitIndex(x, q),
             Grids!Result("not", Got(x, e, q), {}))
    BY <2>1, FlipPuts
  <2> QED BY <2>1, <2>2 DEF e, q
<1>5. ASSUME NEW k \in 1 .. N
      PROVE  Grids!Result("not", Got(x, st[k - 1], pos[k]), {}) \in SUBSET ValueBits
  <2>1. Got(x, st[k - 1], pos[k]) \in SUBSET ValueBits
    BY <1>1, GotValue
  <2> QED BY <2>1, ResultValue
<1>6. ASSUME NEW k \in 1 .. N, st[k - 1] \in Mem(x) PROVE st[k] \in Mem(x)
  <2>1. \A v : BitSet(st[k - 1], BitIndex(x, pos[k]), v) \in Mem(x)
    BY <1>6, WordsClosed DEF Mem
  <2> QED BY <1>3, <2>1
<1>7. Loop(x, d, N, pos, st)
  <2>1. st[0] = d
    BY <1>2 DEF FlippedRun
  <2> QED BY <1>1, <1>4, <1>5, <1>6, <2>1 DEF Loop
<1>8. Does(x, d, N, pos, st, "not", w)
  BY <1>4 DEF Does, w
<1>9. \A k \in 1 .. N : w[k] \in SUBSET ValueBits /\ f[pos[k]] = w[k]
  BY <1>1 DEF w, f
<1>10. Redone(x, d, st[N], Grids!Box(c[1], c[2], n), "not", f)
  <2>1. Loop(x, d, Count(n), Positions(c, n), st) /\ Does(x, d, Count(n), Positions(c, n), st, "not", w)
    BY <1>7, <1>8 DEF N, pos
  <2>2. /\ \A k \in 1 .. Count(n) : w[k] \in SUBSET ValueBits
        /\ \A k \in 1 .. Count(n) : f[Positions(c, n)[k]] = w[k]
    BY <1>9 DEF N, pos
  <2>3. Redone(x, d, st[Count(n)], Grids!Box(c[1], c[2], n), "not", f)
    BY <2>1, <2>2, RegionDone
  <2> QED BY <2>3 DEF N
<1> QED BY <1>2, <1>10 DEF FlippedRun, at, f

-----------------------------------------------------------------------------
(* copy and region_op from one object to another, or to itself *)

\* Either has its steps.
LEMMA DrawnSteps ==
  ASSUME NEW E, NEW q, NEW p, NEW m \in Arrays(E, q, p), NEW how \in {"set"} \cup RegionOps,
         NEW n, NEW from, NEW to, NEW N \in Nat, N = n.w * n.h
  PROVE  \E st : DrawnRun(st, N, how, m, n, p, from, q, to)
<1>1. CASE how = "set"
  BY <1>1, CopiedSteps
<1>2. CASE how # "set"
  <2>1. how \in RegionOps
    BY <1>2
  <2> QED BY <2>1, MergedSteps
<1> QED BY <1>1, <1>2

\* What the steps of these loops do, with the indices a and b that they go through.
Draws(st, N, how, q, p, a, b) ==
  \A k \in 1 .. N :
    st[k] = [st[k - 1] EXCEPT ![q] = OneOp(how, @, a[k], BitGet(st[k - 1][p], b[k]))]

\* The arrays of the two objects are arrays of words before and after every step, and
\* the one that is read is not written unless it is the same.
LEMMA DrawnArrays ==
  ASSUME NEW E, NEW q, NEW p, NEW m \in Arrays(E, q, p), NEW N \in Nat, NEW st,
         NEW how \in {"set"} \cup RegionOps, NEW a, NEW b, st[0] = m,
         Draws(st, N, how, q, p, a, b)
  PROVE  \A k \in 0 .. N : st[k] \in Arrays(E, q, p) /\ (p # q => st[k][p] = m[p])
<1> DEFINE Ok(k) == st[k] \in Arrays(E, q, p) /\ (p # q => st[k][p] = m[p])
           D == { k \in Nat : k <= N => Ok(k) }
<1>1. 0 \in D
  OBVIOUS
<1>2. ASSUME NEW k \in D PROVE k + 1 \in D
  <2> SUFFICES ASSUME k + 1 <= N PROVE Ok(k + 1)
    OBVIOUS
  <2>1. k + 1 \in 1 .. N /\ (k + 1) - 1 = k /\ k \in Nat
    OBVIOUS
  <2>2. Ok(k)
    BY <2>1
  <2> DEFINE r == st[k]
             e == OneOp(how, r[q], a[k + 1], BitGet(r[p], b[k + 1]))
  <2>3. st[k + 1] = [r EXCEPT ![q] = e]
    BY <2>1 DEF Draws
  <2>4. r \in Arrays(E, q, p) /\ (p # q => r[p] = m[p])
    BY <2>2
  <2>5. r[q] \in WordArrays(E[q]) => e \in WordArrays(E[q])
    BY OneOpClosed
  <2> HIDE DEF r, e, D
  <2>6. [r EXCEPT ![q] = e] \in Arrays(E, q, p)
    BY <2>4, <2>5, ArraysClosed
  <2>7. p # q => [r EXCEPT ![q] = e][p] = r[p]
    BY <2>4 DEF Arrays
  <2> QED BY <2>3, <2>4, <2>6, <2>7
<1>3. D = Nat
  <2>1. D \in SUBSET Nat
    OBVIOUS
  <2> HIDE DEF D
  <2> QED BY <1>1, <1>2, <2>1, Induction
<1> QED BY <1>3

\* A region moved within one object, onto values that are still to be read.
Smeared(q, p, to, from, n) ==
  /\ p = q
  /\ to[2] > from[2] \/ (to[2] = from[2] /\ to[1] > from[1])
  /\ Grids!Box(to[1], to[2], n) \cap Grids!Box(from[1], from[2], n) # {}

\* copy and region_op change nothing outside the region they write, and do to each value
\* in it what they are named for, with the value at its place in the region they read:
\* unless they write what they are still to read.
LEMMA DrawnDone ==
  ASSUME NEW x, Fine(x), NEW y, Fine(y), NEW d \in Mem(x), NEW b \in Mem(y),
         NEW q, NEW p, p = q => x = y /\ b = d,
         NEW how \in {"set"} \cup RegionOps,
         NEW n, n.w \in Nat \ {0}, n.h \in Nat \ {0},
         NEW to \in Coords(x), Inside(x, to, n), NEW from \in Coords(y), Inside(y, from, n),
         NEW e, e = Drawing(how, [z \in {q, p} |-> IF z = q THEN d ELSE b], n,
                            p, AdjIndex(y, from), q, AdjIndex(x, to))[q]
  PROVE  /\ e \in Mem(x) /\ (Clean(x, d) => Clean(x, e))
         /\ \A c \in Coords(x) \ Grids!Box(to[1], to[2], n) : Got(x, e, c) = Got(x, d, c)
         /\ ~ Smeared(q, p, to, from, n) =>
              Redone(x, d, e, Grids!Box(to[1], to[2], n), how,
                     [c \in Coords(x) |-> Got(y, b, <<c[1] - to[1] + from[1], c[2] - to[2] + from[2]>>)])
<1> DEFINE N == Count(n)
           S == RowMajor(n)
           pos == Positions(to, n)
           src == Positions(from, n)
           at == AdjIndex(x, to)
           of == AdjIndex(y, from)
           B == Grids!Box(to[1], to[2], n)
           m == [z \in {q, p} |-> IF z = q THEN d ELSE b]
           E == [z \in {q, p} |-> IF z = q THEN 0 .. WordsOf(x) - 1 ELSE 0 .. WordsOf(y) - 1]
           f == [c \in Coords(x) |-> Got(y, b, <<c[1] - to[1] + from[1], c[2] - to[2] + from[2]>>)]
           w == [k \in 1 .. N |-> Got(y, b, src[k])]
<1>1. /\ N \in Nat
      /\ \A k \in 1 .. N : pos[k] \in Coords(x) /\ At(at, S[k]) = BitIndex(x, pos[k])
      /\ \A c \in Coords(x) : c \in B <=> \E k \in 1 .. N : pos[k] = c
  BY RegionLoop
<1>2. /\ \A k \in 1 .. N : src[k] \in Coords(y) /\ At(of, S[k]) = BitIndex(y, src[k])
      /\ \A c \in Coords(y) : c \in Grids!Box(from[1], from[2], n) <=> \E k \in 1 .. N : src[k] = c
  BY RegionLoop
<1>3. /\ to \in Int \X Int /\ from \in Int \X Int
      /\ \A k \in 1 .. N : pos[k] \in Int \X Int /\ src[k] \in Int \X Int
  <2>1. Coords(x) \subseteq Int \X Int /\ Coords(y) \subseteq Int \X Int
    BY Places DEF Fine
  <2> QED BY <1>1, <1>2, <2>1
<1>4. \A k \in 1 .. N : /\ pos[k] = <<to[1] + S[k][1], to[2] + S[k][2]>>
                        /\ src[k] = <<from[1] + S[k][1], from[2] + S[k][2]>>
                        /\ S[k][1] \in Int /\ S[k][2] \in Int
  <2>1. \A k \in 1 .. N : S[k][1] \in 0 .. n.w - 1 /\ S[k][2] \in 0 .. n.h - 1
    BY RowMajorFacts
  <2> HIDE DEF N, S
  <2> QED BY <2>1 DEF Positions, N, S
<1>5. \A i, k \in 1 .. N : i < k => Before(S[i], S[k])
  BY RowMajorFacts
<1>6. m \in Arrays(E, q, p)
  <2>1. d \in WordArrays(E[q]) /\ m[q] = d /\ m[p] \in WordArrays(E[p])
    BY DEF Mem
  <2> HIDE DEF E
  <2> QED BY <2>1 DEF Arrays
<1>7. PICK st : DrawnRun(st, N, how, m, n, p, of, q, at)
  <2>1. N = n.w * n.h /\ N \in Nat
    BY <1>1 DEF Count
  <2> HIDE DEF E, m, N, of, at
  <2> QED BY <1>6, <2>1, DrawnSteps
<1>8. e = st[N][q]
  BY <1>7 DEF DrawnRun
<1> HIDE DEF N, S, pos, src, at, of, B, m, E, f, w
<1>9. \A k \in 0 .. N : st[k] \in Arrays(E, q, p) /\ (p # q => st[k][p] = m[p])
  <2> DEFINE aa == [k \in 1 .. N |-> At(at, S[k])]
             bb == [k \in 1 .. N |-> At(of, S[k])]
  <2>1. st[0] = m /\ Draws(st, N, how, q, p, aa, bb)
    BY <1>7 DEF DrawnRun, Draws, S
  <2> HIDE DEF aa, bb
  <2> QED BY <1>1, <1>6, <2>1, DrawnArrays
<1> DEFINE t == [k \in 0 .. N |-> st[k][q]]
           val(k) == Got(y, st[k - 1][p], src[k])
<1>10. ASSUME NEW k \in 1 .. N
       PROVE  t[k] = OneOp(how, t[k - 1], BitIndex(x, pos[k]), val(k)) /\ val(k) \in SUBSET ValueBits
  <2>1. st[k] = [st[k - 1] EXCEPT ![q] = OneOp(how, @, At(at, S[k]), BitGet(st[k - 1][p], At(of, S[k])))]
    BY <1>7 DEF DrawnRun, S
  <2>2. k - 1 \in 0 .. N /\ k \in 0 .. N
    BY <1>1
  <2>3. st[k - 1] \in Arrays(E, q, p)
    BY <1>9, <2>2
  <2>4. st[k][q] = OneOp(how, st[k - 1][q], At(at, S[k]), BitGet(st[k - 1][p], At(of, S[k])))
    BY <2>1, <2>3 DEF Arrays
  <2>5. val(k) = BitGet(st[k - 1][p], At(of, S[k]))
    BY <1>2 DEF Got
  <2>6. val(k) \in SUBSET ValueBits
    BY <1>2, GotValue
  <2> QED BY <1>1, <2>2, <2>4, <2>5, <2>6
<1>11. t[0] = d /\ t[N] = e
  <2>1. st[0] = m
    BY <1>7 DEF DrawnRun
  <2> QED BY <1>1, <1>8, <2>1 DEF m
<1>12. ASSUME NEW k \in 1 .. N, t[k - 1] \in Mem(x) PROVE t[k] \in Mem(x)
  <2>1. OneOp(how, t[k - 1], BitIndex(x, pos[k]), val(k)) \in Mem(x)
    <3> HIDE DEF t, val
    <3> QED BY <1>12, OneOpClosed DEF Mem
  <2> QED BY <1>10, <2>1
<1> HIDE DEF t
<1>13. ASSUME NEW k \in 1 .. N
       PROVE  /\ Puts(t[k], t[k - 1], BitIndex(x, pos[k]), Grids!Result(how, Got(x, t[k - 1], pos[k]), val(k)))
              /\ Grids!Result(how, Got(x, t[k - 1], pos[k]), val(k)) \in SUBSET ValueBits
  <2> DEFINE v == val(k)
             g == t[k - 1]
             c == pos[k]
  <2>1. v \in SUBSET ValueBits /\ c \in Coords(x) /\ t[k] = OneOp(how, g, BitIndex(x, c), v)
    BY <1>1, <1>10
  <2> HIDE DEF v, g, c
  <2>2. Puts(OneOp(how, g, BitIndex(x, c), v), g, BitIndex(x, c), Grids!Result(how, Got(x, g, c), v))
    BY <2>1, OneOpPuts
  <2>3. Got(x, g, c) \in SUBSET ValueBits
    BY <2>1, GotValue
  <2>4. Grids!Result(how, Got(x, g, c), v) \in SUBSET ValueBits
    BY <2>1, <2>3, ResultValue
  <2> QED BY <2>1, <2>2, <2>4 DEF v, g, c
<1>14. Loop(x, d, N, pos, t)
  <2> HIDE DEF val
  <2> QED BY <1>1, <1>11, <1>12, <1>13 DEF Loop
<1>15. Kept(x, d, pos, t, N)
  BY <1>1, <1>14, LoopKeeps
<1>16. \A c \in Coords(x) \ B : Got(x, e, c) = Got(x, d, c)
  BY <1>1, <1>11, <1>15 DEF Kept
<1>17. ASSUME ~ Smeared(q, p, to, from, n), NEW k \in 1 .. N, Kept(x, d, pos, t, k - 1)
       PROVE  val(k) = w[k]
  <2>1. k - 1 \in 0 .. N
    BY <1>1
  <2>2. CASE p # q
    <3>1. st[k - 1][p] = b
      BY <1>9, <2>1, <2>2 DEF m
    <3> QED BY <3>1 DEF w
  <2>3. CASE p = q
    <3>1. st[k - 1][p] = t[k - 1]
      BY <2>1, <2>3 DEF t
    <3>2. ASSUME NEW i \in 1 .. k - 1, pos[i] = src[k] PROVE FALSE
      <4>1. i \in 1 .. N /\ i < k /\ Before(S[i], S[k])
        BY <1>1, <1>5
      <4>2. to[1] + S[i][1] = from[1] + S[k][1] /\ to[2] + S[i][2] = from[2] + S[k][2]
        BY <1>4, <3>2, <4>1
      <4>3. to[2] > from[2] \/ (to[2] = from[2] /\ to[1] > from[1])
        BY <1>3, <1>4, <4>1, <4>2 DEF Before
      <4>4. pos[i] \in B /\ src[k] \in Grids!Box(from[1], from[2], n)
        BY <1>1, <1>2, <4>1
      <4> QED BY <1>17, <2>3, <3>2, <4>3, <4>4 DEF Smeared, B
    <3>3. src[k] \in Coords(x) /\ \A i \in 1 .. k - 1 : pos[i] # src[k]
      BY <1>2, <2>3, <3>2
    <3>4. Got(x, t[k - 1], src[k]) = Got(x, d, src[k])
      BY <1>17, <3>3 DEF Kept
    <3> QED BY <2>3, <3>1, <3>4 DEF w
  <2> QED BY <2>2, <2>3
<1>18. ASSUME ~ Smeared(q, p, to, from, n)
       PROVE  Redone(x, d, e, B, how, f)
  <2>1. Does(x, d, N, pos, t, how, w)
    BY <1>13, <1>17, <1>18 DEF Does
  <2>2. \A k \in 1 .. N : w[k] \in SUBSET ValueBits
    BY <1>2, GotValue DEF w
  <2>3. \A k \in 1 .. N : f[pos[k]] = w[k]
    <3> SUFFICES ASSUME NEW k \in 1 .. N PROVE f[pos[k]] = w[k]
      OBVIOUS
    <3>1. <<pos[k][1] - to[1] + from[1], pos[k][2] - to[2] + from[2]>> = src[k]
      BY <1>3, <1>4
    <3> QED BY <1>1, <3>1 DEF f, w
  <2>4. how \in {"set", "not"} \cup RegionOps
    OBVIOUS
  <2>5. /\ Loop(x, d, Count(n), Positions(to, n), t) /\ Does(x, d, Count(n), Positions(to, n), t, how, w)
        /\ \A k \in 1 .. Count(n) : w[k] \in SUBSET ValueBits
        /\ \A k \in 1 .. Count(n) : f[Positions(to, n)[k]] = w[k]
    BY <1>14, <2>1, <2>2, <2>3 DEF N, pos
  <2>6. Redone(x, d, t[Count(n)], Grids!Box(to[1], to[2], n), how, f)
    BY <2>4, <2>5, RegionDone
  <2> QED BY <1>11, <2>6 DEF N, B
<1> QED BY <1>11, <1>15, <1>16, <1>18 DEF Kept, B, f

-----------------------------------------------------------------------------
(* set_buffer *)

\* The fold of set_buffer over a set of places.
PutAll(x, d, v, T) == FoldSet(LAMBDA c, r : BitSet(r, BitIndex(x, c), v), d, T)

\* It puts one value at each of them, in any order.
LEMMA FoldDone ==
  ASSUME NEW x, Fine(x), NEW d \in Mem(x), NEW v \in SUBSET ValueBits,
         NEW T \in SUBSET Coords(x), IsFiniteSet(T)
  PROVE  Redone(x, d, PutAll(x, d, v, T), T, "set",
                [p \in Coords(x) |-> v])
<1> DEFINE X == Mem(x)
           Put(c, r) == BitSet(r, BitIndex(x, c), v)
           first(s) == CHOOSE c \in s : TRUE
           F == [z \in T \X X |-> Put(z[1], z[2])]
           ch == [s \in SUBSET T |-> first(s)]
           Is(g) == g = [s \in SUBSET T |-> IF s = {} THEN d ELSE Put(first(s), g[s \ {first(s)}])]
           e == PutAll(x, d, v, T)
<1>1. F \in [T \X X -> X]
  <2>1. \A r \in X : \A c : Put(c, r) \in X
    BY WordsClosed DEF Mem
  <2> HIDE DEF Put, X
  <2> QED BY <2>1
<1>2. ASSUME NEW s \in SUBSET T, s # {} PROVE first(s) \in s
  BY <1>2
<1>3. PICK g \in [SUBSET T -> X] : FoldOf(g, T, ch, d, F)
  <2>1. \A s \in SUBSET T : s # {} => ch[s] \in s
    BY <1>2
  <2>2. d \in X
    OBVIOUS
  <2> HIDE DEF X, F, ch
  <2> QED BY <1>1, <2>1, <2>2, FoldExists
<1>4. Is(g)
  <2>1. ASSUME NEW s \in SUBSET T, s # {}
        PROVE  g[s] = Put(first(s), g[s \ {first(s)}])
    <3>1. first(s) \in T /\ s \ {first(s)} \in SUBSET T
      BY <1>2, <2>1
    <3>2. g[s \ {first(s)}] \in X
      <4> HIDE DEF X, first
      <4> QED BY <3>1
    <3>3. g[s] = F[<<ch[s], g[s \ {ch[s]}]>>]
      <4> HIDE DEF F, ch
      <4> QED BY <1>3, <2>1 DEF FoldOf
    <3>4. ch[s] = first(s)
      OBVIOUS
    <3> HIDE DEF X, first, Put, ch
    <3> QED BY <3>1, <3>2, <3>3, <3>4
  <2>2. g[{}] = d
    BY <1>3 DEF FoldOf
  <2> HIDE DEF Put, X, first, ch, F
  <2> QED BY <2>1, <2>2
<1>5. e = (CHOOSE g0 : Is(g0))[T]
  BY DEF PutAll, FoldSet, MapThenFoldSet
<1> DEFINE h == CHOOSE g0 : Is(g0)
<1>6. Is(h)
  <2> HIDE DEF Is
  <2> QED BY <1>4
<1> HIDE DEF h
<1> DEFINE Ok(s) == /\ h[s] \in X
                    /\ Clean(x, d) => Clean(x, h[s])
                    /\ \A p \in Coords(x) : Got(x, h[s], p) = IF p \in s THEN v ELSE Got(x, d, p)
           D == { k \in Nat : \A s \in SUBSET T : Cardinality(s) <= k => Ok(s) }
<1>7. Ok({})
  <2>1. h[{}] = d
    <3> HIDE DEF Put, first
    <3> QED BY <1>6
  <2> QED BY <2>1
<1>8. 0 \in D
  <2> SUFFICES ASSUME NEW s \in SUBSET T, Cardinality(s) <= 0 PROVE Ok(s)
    OBVIOUS
  <2>1. IsFiniteSet(s) /\ Cardinality(s) \in Nat
    BY FS_Subset, FS_CardinalityType
  <2>2. s = {}
    BY <2>1, FS_EmptySet
  <2> HIDE DEF Ok
  <2> QED BY <1>7, <2>2
<1>9. ASSUME NEW k \in D PROVE k + 1 \in D
  <2> SUFFICES ASSUME NEW s \in SUBSET T, Cardinality(s) <= k + 1 PROVE Ok(s)
    OBVIOUS
  <2>1. CASE s = {}
    <3> HIDE DEF Ok
    <3> QED BY <1>7, <2>1
  <2>2. CASE s # {}
    <3> DEFINE c == first(s)
               r == s \ {c}
    <3>1. c \in s /\ IsFiniteSet(s)
      BY <1>2, <2>2, FS_Subset
    <3>2. h[s] = Put(c, h[r])
      <4> HIDE DEF Put, first
      <4> QED BY <1>6, <2>2
    <3> HIDE DEF c
    <3>3. Cardinality(r) = Cardinality(s) - 1 /\ Cardinality(s) \in Nat
      BY <3>1, FS_RemoveElement, FS_CardinalityType
    <3>4. Ok(r)
      <4>1. Cardinality(r) <= k /\ r \in SUBSET T
        BY <3>3
      <4> HIDE DEF Ok
      <4> QED BY <4>1
    <3> DEFINE a == h[r]
               b == h[s]
    <3>5. a \in Mem(x) /\ c \in Coords(x)
      BY <3>1, <3>4
    <3>6. b = BitSet(a, BitIndex(x, c), v)
      BY <3>2
    <3>7. /\ Clean(x, d) => Clean(x, a)
          /\ \A p \in Coords(x) : Got(x, a, p) = IF p \in r THEN v ELSE Got(x, d, p)
      BY <3>4
    <3> HIDE DEF a, b, r
    <3>8. b \in Mem(x)
      BY <3>5, <3>6, WordsClosed DEF Mem
    <3>9. Puts(b, a, BitIndex(x, c), v)
      <4>1. Puts(OneOp("set", a, BitIndex(x, c), v), a, BitIndex(x, c), Grids!Result("set", Got(x, a, c), v))
        BY <3>5, OneOpPuts
      <4>2. Grids!Result("set", Got(x, a, c), v) = v
        BY DEF Grids!Result
      <4>3. OneOp("set", a, BitIndex(x, c), v) = b
        BY <3>6 DEF OneOp
      <4> QED BY <4>1, <4>2, <4>3
    <3>10. Got(x, b, c) = v /\ \A p \in Coords(x) \ {c} : Got(x, b, p) = Got(x, a, p)
      BY <3>5, <3>9, PutAt
    <3>11. Clean(x, a) => Clean(x, b)
      BY <3>5, <3>8, <3>9, PutClean
    <3>12. \A p \in Coords(x) : Got(x, b, p) = IF p \in s THEN v ELSE Got(x, d, p)
      BY <3>1, <3>7, <3>10 DEF r
    <3> QED BY <3>7, <3>8, <3>11, <3>12 DEF b
  <2> QED BY <2>1, <2>2
<1>10. Ok(T)
  <2>1. D = Nat
    <3>1. D \in SUBSET Nat
      OBVIOUS
    <3> HIDE DEF D
    <3> QED BY <1>8, <1>9, <3>1, Induction
  <2>2. Cardinality(T) \in Nat
    BY FS_CardinalityType
  <2>3. Cardinality(T) \in D
    BY <2>1, <2>2
  <2> HIDE DEF Ok
  <2> QED BY <2>2, <2>3
<1>11. e = h[T]
  <2> HIDE DEF e
  <2> QED BY <1>5 DEF h
<1> HIDE DEF e
<1>12. \A p \in Coords(x) :
         Got(x, e, p) = IF p \in T THEN Grids!Result("set", Got(x, d, p), [q \in Coords(x) |-> v][p])
                        ELSE Got(x, d, p)
  BY <1>10, <1>11 DEF Grids!Result
<1>13. Redone(x, d, e, T, "set", [p \in Coords(x) |-> v])
  BY <1>10, <1>11, <1>12 DEF Redone
<1> QED BY <1>13 DEF e

\* The buffer is what is outside the table proper.
LEMMA BufferIs ==
  ASSUME NEW x, x.kind = "table", x.size \in TableSizes
  PROVE  /\ BufferRows(x) \cup BufferColumns(x) = Coords(x) \ Grids!Box(0, 0, x.size)
         /\ IsFiniteSet(Coords(x))
<1> DEFINE w == x.size.w
           h == x.size.h
           b == BufferSize
<1>1. w \in Nat \ {0} /\ h \in Nat \ {0} /\ b \in Nat
      /\ Pad(x.size).w = w + 2 * b /\ Pad(x.size).h = h + 2 * b
  BY Rows
<1>2. Coords(x) = (-b .. w + b - 1) \X (-b .. h + b - 1)
  <2>1. Coords(x) = (-b .. -b + Pad(x.size).w - 1) \X (-b .. -b + Pad(x.size).h - 1)
    BY DEF Coords, Lo, Extent, Box
  <2>2. -b + (w + 2 * b) - 1 = w + b - 1 /\ -b + (h + 2 * b) - 1 = h + b - 1
    BY <1>1
  <2> QED BY <1>1, <2>1, <2>2
<1>3. Grids!Box(0, 0, x.size) = (0 .. w - 1) \X (0 .. h - 1)
  BY <1>1 DEF Grids!Box
<1>4. \A p : p \in BufferRows(x) <=>
        \E i \in -b .. -1 : p \in (-b .. w + b - 1) \X {i, h + b + i}
  BY DEF BufferRows
<1>5. \A p : p \in BufferColumns(x) <=>
        \E i \in -b .. -1 : p \in {i, w + b + i} \X (0 .. h - 1)
  BY DEF BufferColumns
<1> HIDE DEF w, h, b
<1>6. ASSUME NEW p \in Int \X Int
      PROVE  p \in BufferRows(x) <=> /\ p[1] \in -b .. w + b - 1
                                     /\ p[2] \in -b .. -1 \/ p[2] \in h .. h + b - 1
  <2>1. p \in BufferRows(x) <=>
          \E i \in -b .. -1 : p[1] \in -b .. w + b - 1 /\ (p[2] = i \/ p[2] = h + b + i)
    BY <1>4
  <2>2. ASSUME p[2] \in h .. h + b - 1
        PROVE  \E i \in -b .. -1 : p[2] = h + b + i
    <3>1. p[2] - h - b \in -b .. -1 /\ p[2] = h + b + (p[2] - h - b)
      BY <1>1, <2>2
    <3> QED BY <3>1
  <2>3. ASSUME NEW i \in -b .. -1, p[2] = h + b + i
        PROVE  p[2] \in h .. h + b - 1
    BY <1>1, <2>3
  <2> QED BY <2>1, <2>2, <2>3
<1>7. ASSUME NEW p \in Int \X Int
      PROVE  p \in BufferColumns(x) <=> /\ p[2] \in 0 .. h - 1
                                        /\ p[1] \in -b .. -1 \/ p[1] \in w .. w + b - 1
  <2>1. p \in BufferColumns(x) <=>
          \E i \in -b .. -1 : p[2] \in 0 .. h - 1 /\ (p[1] = i \/ p[1] = w + b + i)
    BY <1>5
  <2>2. ASSUME p[1] \in w .. w + b - 1
        PROVE  \E i \in -b .. -1 : p[1] = w + b + i
    <3>1. p[1] - w - b \in -b .. -1 /\ p[1] = w + b + (p[1] - w - b)
      BY <1>1, <2>2
    <3> QED BY <3>1
  <2>3. ASSUME NEW i \in -b .. -1, p[1] = w + b + i
        PROVE  p[1] \in w .. w + b - 1
    BY <1>1, <2>3
  <2> QED BY <2>1, <2>2, <2>3
<1>8. \A p \in BufferRows(x) \cup BufferColumns(x) : p \in Int \X Int
  <2>1. ASSUME NEW i \in -b .. -1
        PROVE  /\ (-b .. w + b - 1) \X {i, h + b + i} \subseteq Int \X Int
               /\ {i, w + b + i} \X (0 .. h - 1) \subseteq Int \X Int
    BY <1>1
  <2> QED BY <1>4, <1>5, <2>1
<1>9. \A p \in Coords(x) : p \in Int \X Int
  BY <1>2
<1>10. ASSUME NEW p \in Int \X Int
       PROVE  p \in BufferRows(x) \cup BufferColumns(x) <=> p \in Coords(x) \ Grids!Box(0, 0, x.size)
  <2>1. p \in Coords(x) <=> p[1] \in -b .. w + b - 1 /\ p[2] \in -b .. h + b - 1
    BY <1>2
  <2>2. p \in Grids!Box(0, 0, x.size) <=> p[1] \in 0 .. w - 1 /\ p[2] \in 0 .. h - 1
    BY <1>3
  <2>3. p[1] \in Int /\ p[2] \in Int
    OBVIOUS
  <2> QED BY <1>1, <1>6, <1>7, <2>1, <2>2, <2>3
<1>11. BufferRows(x) \cup BufferColumns(x) = Coords(x) \ Grids!Box(0, 0, x.size)
  BY <1>8, <1>9, <1>10
<1>12. IsFiniteSet(Coords(x))
  <2>1. \A i, j \in Int : IsFiniteSet(i .. j)
    BY FS_Interval
  <2>2. IsFiniteSet(-b .. w + b - 1) /\ IsFiniteSet(-b .. h + b - 1)
    BY <1>1, <2>1
  <2> QED BY <1>2, <2>2, FS_Product
<1> QED BY <1>11, <1>12

\* set_buffer gives one value to the buffer and leaves the table proper alone.
LEMMA BufferDone ==
  ASSUME NEW x, x.kind = "table", x.size \in TableSizes, NEW d \in Mem(x), NEW v \in SUBSET ValueBits
  PROVE  Redone(x, d,
                PutAll(x, d, v, BufferRows(x) \cup BufferColumns(x)),
                Coords(x) \ Grids!Box(0, 0, x.size), "set", [p \in Coords(x) |-> v])
<1> DEFINE T == BufferRows(x) \cup BufferColumns(x)
<1>1. T = Coords(x) \ Grids!Box(0, 0, x.size) /\ IsFiniteSet(Coords(x))
  BY BufferIs
<1>2. T \in SUBSET Coords(x) /\ IsFiniteSet(T)
  BY <1>1, FS_Subset
<1>3. Fine(x)
  BY DEF Fine
<1> HIDE DEF T
<1>4. Redone(x, d, PutAll(x, d, v, T), T, "set",
             [p \in Coords(x) |-> v])
  BY <1>2, <1>3, FoldDone
<1> QED BY <1>1, <1>4 DEF T

-----------------------------------------------------------------------------
(* Words and the places of their values *)

\* The values of a cell follow each other: value k is at Stride * k.
LEMMA CellAt ==
  ASSUME NEW x, x.kind = "cell", x.size \in CellSizes, NEW k \in Nat
  PROVE  LET p == <<k % x.size.w, k \div x.size.w>>
         IN  /\ BitIndex(x, p) = Stride * k
             /\ k < x.size.w * x.size.h => p \in Coords(x)
<1> DEFINE w == x.size.w
           h == x.size.h
           p == <<k % w, k \div w>>
<1>1. w \in Nat \ {0} /\ h \in Nat \ {0}
  BY BitTableAssumption
<1>2. Coords(x) = (0 .. 0 + w - 1) \X (0 .. 0 + h - 1) /\ BitIndex(x, p) = Stride * (p[2] * w + p[1])
  BY DEF Coords, Lo, Extent, Box, BitIndex, CellIndex
<1> HIDE DEF w, h
<1>3. k \div w \in Nat /\ (k % w) \in 0 .. w - 1 /\ k = w * (k \div w) + (k % w)
  BY <1>1, Parts
<1>4. (k \div w) * w + (k % w) = k
  BY <1>1, <1>3
<1>5. k < w * h => k \div w < h
  BY <1>1, PartBelow
<1>6. p[1] = k % w /\ p[2] = k \div w
  OBVIOUS
<1>7. BitIndex(x, p) = Stride * k
  BY <1>2, <1>4, <1>6
<1>8. k < w * h => p \in Coords(x)
  <2>1. k < w * h => k \div w \in 0 .. 0 + h - 1
    BY <1>1, <1>3, <1>5
  <2>2. k % w \in 0 .. 0 + w - 1
    BY <1>1, <1>3
  <2> QED BY <1>2, <2>1, <2>2
<1> QED BY <1>7, <1>8 DEF w, h

\* Every place of a cell is that of one of them.
LEMMA CellOf ==
  ASSUME NEW x, x.kind = "cell", x.size \in CellSizes, NEW p \in Coords(x)
  PROVE  \E k \in Nat : /\ k < x.size.w * x.size.h /\ BitIndex(x, p) = Stride * k
                        /\ p = <<k % x.size.w, k \div x.size.w>>
<1> DEFINE w == x.size.w
           h == x.size.h
           k == w * p[2] + p[1]
<1>1. w \in Nat \ {0} /\ h \in Nat \ {0}
  BY BitTableAssumption
<1>2. Coords(x) = (0 .. 0 + w - 1) \X (0 .. 0 + h - 1) /\ BitIndex(x, p) = Stride * (p[2] * w + p[1])
  BY DEF Coords, Lo, Extent, Box, BitIndex, CellIndex
<1> HIDE DEF w, h
<1>3. p = <<p[1], p[2]>> /\ p[1] \in 0 .. w - 1 /\ p[2] \in Nat /\ p[2] < h
  BY <1>1, <1>2
<1>4. k \in Nat /\ k \div w = p[2] /\ k % w = p[1]
  BY <1>1, <1>3, Split
<1>5. k < w * h
  <2>1. w * (p[2] + 1) <= w * h
    <3>1. \A u, v, B \in Nat : u <= v => B * u <= B * v
      OBVIOUS
    <3> QED BY <1>1, <1>3, <3>1
  <2>2. w * (p[2] + 1) = w * p[2] + w
    BY <1>1, <1>3
  <2>3. w * p[2] \in Nat /\ w * h \in Nat
    <3>1. \A u, v \in Nat : u * v \in Nat
      OBVIOUS
    <3> QED BY <1>1, <1>3, <3>1
  <2> QED BY <1>1, <1>3, <2>1, <2>2, <2>3
<1>6. p[2] * w + p[1] = k
  BY <1>1, <1>3
<1>7. BitIndex(x, p) = Stride * k
  BY <1>2, <1>6
<1> HIDE DEF k
<1> QED BY <1>3, <1>4, <1>5, <1>7 DEF w, h

\* Value k of word i of a table.
LEMMA TablePlaceOf ==
  ASSUME NEW x, x.kind = "table", x.size \in TableSizes, NEW i \in Nat, NEW k \in 0 .. Items - 1
  PROVE  /\ PlaceOf(x, i, k) \in Coords(x) => BitIndex(x, PlaceOf(x, i, k)) = PackBits * i + Stride * k
         /\ \A p \in Coords(x) :
              BitIndex(x, p) = PackBits * i + Stride * k => PlaceOf(x, i, k) = p
<1> DEFINE n == RowWords(x.size)
           b == BufferSize
           c == <<(i % n) * Items + k - b, i \div n - b>>
<1>1. PackBits \in Nat \ {0} /\ Stride \in Nat \ {0} /\ Items \in Nat \ {0} /\ PackBits = Items * Stride
  BY ItemWidth
<1>2. n \in Nat /\ b \in Nat
  BY Rows
<1>3. Coords(x) = Box(-b, -b, Pad(x.size)) /\ \A p : BitIndex(x, p) = TableIndex(x, p)
  BY DEF Coords, Lo, Extent, BitIndex
<1>4. PlaceOf(x, i, k) = c
  BY DEF PlaceOf
<1>5. k \in Nat /\ k < Items
  BY <1>1
<1>6. ASSUME NEW p \in Coords(x)
      PROVE  /\ p \in Int \X Int /\ p[1] + b \in Nat /\ p[2] + b \in Nat
             /\ (p[1] + b) \div Items \in 0 .. n - 2
             /\ TableIndex(x, p) = PackBits * ((p[2] + b) * n) + Stride * (p[1] + b)
             /\ Word(TableIndex(x, p)) = (p[2] + b) * n + (p[1] + b) \div Items
             /\ Bit(TableIndex(x, p)) = Stride * ((p[1] + b) % Items)
             /\ TableIndex(x, p) \in Nat
  <2>1. p \in Box(-BufferSize, -BufferSize, Pad(x.size))
    BY <1>3
  <2>2. /\ p[1] + BufferSize \in 0 .. Pad(x.size).w - 1
        /\ p[2] + BufferSize \in 0 .. Pad(x.size).h - 1
        /\ (p[1] + BufferSize) \div Items \in 0 .. RowWords(x.size) - 2
        /\ TableIndex(x, p) = PackBits * ((p[2] + BufferSize) * RowWords(x.size))
                                + Stride * (p[1] + BufferSize)
    BY <2>1, TableSum
  <2>3. /\ TableIndex(x, p) \in Nat
        /\ Word(TableIndex(x, p))
             = (p[2] + BufferSize) * RowWords(x.size) + (p[1] + BufferSize) \div Items
        /\ Bit(TableIndex(x, p)) = Stride * ((p[1] + BufferSize) % Items)
    BY <2>1, TablePlace
  <2>4. p \in Int \X Int
    BY Places
  <2> QED BY <2>2, <2>3, <2>4
<1> HIDE DEF n, b
<1>7. ASSUME c \in Coords(x) PROVE TableIndex(x, c) = PackBits * i + Stride * k
  <2>1. /\ c[1] + b \in Nat /\ c[2] + b \in Nat /\ (c[1] + b) \div Items \in 0 .. n - 2
        /\ TableIndex(x, c) = PackBits * ((c[2] + b) * n) + Stride * (c[1] + b)
    BY <1>6, <1>7
  <2>2. n \in Nat \ {0}
    BY <1>2, <2>1
  <2>3. i \div n \in Nat /\ (i % n) \in 0 .. n - 1 /\ i = n * (i \div n) + (i % n)
    BY <2>2, Parts
  <2> DEFINE q == i \div n
             r == i % n
  <2> HIDE DEF q, r
  <2>4. q \in Nat /\ r \in Nat /\ i = n * q + r
    <3>1. q \in Nat /\ r \in 0 .. n - 1 /\ i = n * q + r
      BY <2>3 DEF q, r
    <3> QED BY <2>2, <3>1
  <2>5. c[2] + b = q /\ c[1] + b = r * Items + k
    <3>1. c[2] = q - b /\ c[1] = r * Items + k - b
      BY DEF q, r
    <3>2. r * Items \in Nat
      <4>1. \A u, v \in Nat : u * v \in Nat
        OBVIOUS
      <4> QED BY <1>1, <2>4, <4>1
    <3> QED BY <1>2, <1>5, <2>4, <3>1, <3>2
  <2>6. Stride * (r * Items + k) = PackBits * r + Stride * k
    BY <1>1, <1>5, <2>4
  <2>7. PackBits * (q * n) + PackBits * r = PackBits * i
    BY <1>1, <2>2, <2>4
  <2>8. PackBits * (q * n) \in Int /\ PackBits * r \in Int /\ Stride * k \in Int /\ PackBits * i \in Int
    <3>1. \A u, v \in Nat : u * v \in Nat
      OBVIOUS
    <3> QED BY <1>1, <1>5, <2>2, <2>4, <3>1
  <2> HIDE DEF c
  <2> QED BY <2>1, <2>5, <2>6, <2>7, <2>8
<1>8. ASSUME NEW p \in Coords(x), TableIndex(x, p) = PackBits * i + Stride * k
      PROVE  c = p
  <2>1. Stride * k \in 0 .. PackBits - 1
    <3>1. (k + 1) * Stride <= Items * Stride
      BY <1>1, <1>5
    <3>2. (k + 1) * Stride = Stride * k + Stride /\ Stride * k \in Nat
      BY <1>1, <1>5
    <3> QED BY <1>1, <3>1, <3>2
  <2>2. Word(TableIndex(x, p)) = i /\ Bit(TableIndex(x, p)) = Stride * k
    <3> DEFINE s == Stride * k
               id == TableIndex(x, p)
    <3>1. s \in 0 .. PackBits - 1 /\ id = PackBits * i + s
      BY <1>8, <2>1
    <3> HIDE DEF s, id
    <3>2. id \div PackBits = i /\ id % PackBits = s
      BY <1>1, <3>1, Split
    <3> QED BY <3>2 DEF Word, Bit, s, id
  <2> DEFINE row == p[2] + b
             col == p[1] + b
  <2>3. /\ p = <<p[1], p[2]>> /\ p[1] \in Int /\ p[2] \in Int /\ row \in Nat /\ col \in Nat
        /\ col \div Items \in 0 .. n - 2
        /\ row * n + col \div Items = i /\ Stride * (col % Items) = Stride * k
    BY <1>6, <2>2
  <2>4. p[1] = col - b /\ p[2] = row - b
    BY <1>2, <2>3
  <2> HIDE DEF row, col
  <2>5. col \div Items \in Nat /\ (col % Items) \in 0 .. Items - 1 /\ col = Items * (col \div Items) + (col % Items)
    BY <1>1, <2>3, Parts
  <2>6. col % Items = k
    <3> DEFINE a == col % Items
    <3>1. a \in Nat /\ Stride * a = Stride * k
      BY <1>1, <2>3, <2>5
    <3> HIDE DEF a
    <3>2. a = k
      BY <1>1, <1>5, <3>1
    <3> QED BY <3>2 DEF a
  <2> DEFINE a == col \div Items
  <2>7. n \in Nat \ {0} /\ a \in 0 .. n - 1 /\ n * row + a = i
    <3>1. n * row = row * n
      BY <1>2, <2>3
    <3> QED BY <1>2, <2>3, <3>1
  <2> HIDE DEF a
  <2>8. i \div n = row /\ i % n = a
    BY <2>3, <2>7, Split
  <2>9. a * Items + k = col
    <3>1. Items * a = a * Items
      BY <1>1, <2>7
    <3> QED BY <2>5, <2>6, <3>1 DEF a
  <2>10. (i % n) * Items + k - b = p[1] /\ i \div n - b = p[2]
    <3>1. (i % n) * Items = a * Items
      BY <2>8
    <3>2. (i % n) * Items + k = col
      BY <2>9, <3>1
    <3> DEFINE m == (i % n) * Items
    <3>5. m \in Nat
      <4>1. \A u, v \in Nat : u * v \in Nat
        OBVIOUS
      <4>2. a \in Nat
        BY <2>7
      <4> QED BY <1>1, <3>1, <4>1, <4>2
    <3>6. m + k = col
      BY <3>2
    <3> HIDE DEF m
    <3>7. m + k - b = col - b
      BY <1>2, <1>5, <3>5, <3>6
    <3>3. (i % n) * Items + k - b = col - b
      BY <3>7 DEF m
    <3>4. i \div n - b = row - b
      BY <2>8
    <3> QED BY <2>4, <3>3, <3>4
  <2> QED BY <2>3, <2>10
<1> HIDE DEF c
<1> QED BY <1>3, <1>4, <1>7, <1>8

\* And of one of a cell.
LEMMA CellPlaceOf ==
  ASSUME NEW x, x.kind = "cell", x.size \in CellSizes, NEW i \in Nat, NEW k \in 0 .. Items - 1
  PROVE  /\ PlaceOf(x, i, k) \in Coords(x) => BitIndex(x, PlaceOf(x, i, k)) = PackBits * i + Stride * k
         /\ \A p \in Coords(x) :
              BitIndex(x, p) = PackBits * i + Stride * k => PlaceOf(x, i, k) = p
<1> DEFINE w == x.size.w
           at == i * Items + k
<1>1. PackBits \in Nat \ {0} /\ Stride \in Nat \ {0} /\ Items \in Nat \ {0} /\ PackBits = Items * Stride
  BY ItemWidth
<1>2. at \in Nat /\ Stride * at = PackBits * i + Stride * k
  <2>1. k \in Nat /\ i * Items \in Nat
    <3>1. \A u, v \in Nat : u * v \in Nat
      OBVIOUS
    <3> QED BY <1>1, <3>1
  <2>2. Stride * at = Stride * (i * Items) + Stride * k
    BY <1>1, <2>1
  <2>3. Stride * (i * Items) = PackBits * i
    BY <1>1
  <2> QED BY <2>1, <2>2, <2>3
<1>3. PlaceOf(x, i, k) = <<at % w, at \div w>>
  BY DEF PlaceOf
<1> HIDE DEF at
<1>4. BitIndex(x, <<at % w, at \div w>>) = Stride * at
  BY <1>2, CellAt
<1>5. ASSUME NEW p \in Coords(x), BitIndex(x, p) = Stride * at PROVE <<at % w, at \div w>> = p
  <2>1. PICK j \in Nat : BitIndex(x, p) = Stride * j /\ p = <<j % x.size.w, j \div x.size.w>>
    BY CellOf
  <2>2. j = at
    BY <1>1, <1>2, <1>5, <2>1
  <2> QED BY <2>1, <2>2
<1> QED BY <1>2, <1>3, <1>4, <1>5

-----------------------------------------------------------------------------
(* A word at once *)

\* The place of value k of word i, if it has one, is at that word and bit; and a
\* value that is there has that place.
LEMMA WordPlaces ==
  ASSUME NEW x, Fine(x), NEW i \in Nat, NEW k \in 0 .. Items - 1
  PROVE  /\ PlaceOf(x, i, k) \in Coords(x) =>
              /\ Word(BitIndex(x, PlaceOf(x, i, k))) = i
              /\ Bit(BitIndex(x, PlaceOf(x, i, k))) = k * Stride
         /\ \A p \in Coords(x) :
              Word(BitIndex(x, p)) = i /\ Bit(BitIndex(x, p)) = k * Stride => PlaceOf(x, i, k) = p
<1>1. PackBits \in Nat \ {0} /\ Stride \in Nat \ {0} /\ Items \in Nat \ {0} /\ PackBits = Items * Stride
  BY ItemWidth
<1>2. /\ PlaceOf(x, i, k) \in Coords(x) => BitIndex(x, PlaceOf(x, i, k)) = PackBits * i + Stride * k
      /\ \A p \in Coords(x) :
           BitIndex(x, p) = PackBits * i + Stride * k => PlaceOf(x, i, k) = p
  BY TablePlaceOf, CellPlaceOf DEF Fine
<1>3. Stride * k \in 0 .. PackBits - 1
  <2>1. (k + 1) * Stride <= Items * Stride
    BY <1>1
  <2>2. (k + 1) * Stride = Stride * k + Stride /\ Stride * k \in Nat
    BY <1>1
  <2> QED BY <1>1, <2>1, <2>2
<1>4. k * Stride = Stride * k
  BY <1>1
<1> DEFINE s == Stride * k
<1>5. ASSUME NEW id, id = PackBits * i + s PROVE Word(id) = i /\ Bit(id) = s
  <2>1. s \in 0 .. PackBits - 1
    BY <1>3
  <2> HIDE DEF s
  <2>2. id \div PackBits = i /\ id % PackBits = s
    BY <1>1, <1>5, <2>1, Split
  <2> QED BY <2>2 DEF Word, Bit
<1>6. ASSUME NEW p \in Coords(x), Word(BitIndex(x, p)) = i, Bit(BitIndex(x, p)) = s
      PROVE  BitIndex(x, p) = PackBits * i + s
  <2>1. BitIndex(x, p) \in Nat
    BY PlacesFit
  <2> QED BY <1>6, <2>1, IndexParts
<1> QED BY <1>2, <1>4, <1>5, <1>6

\* The values of word i that have a place, and what v has for them.
InWord(x, i) == { k \in 0 .. Items - 1 : PlaceOf(x, i, k) \in Coords(x) }
PartOf(x, i, v) ==
  { <<PlaceOf(x, i, k), RightShift(v, k * Stride) \cap ValueBits>> : k \in InWord(x, i) }

\* Every place is that of a value of its word.
LEMMA InItsWord ==
  ASSUME NEW x, Fine(x), NEW p \in Coords(x)
  PROVE  \E k \in InWord(x, Word(BitIndex(x, p))) :
           PlaceOf(x, Word(BitIndex(x, p)), k) = p /\ Bit(BitIndex(x, p)) = k * Stride
<1> DEFINE i == Word(BitIndex(x, p))
           s == Bit(BitIndex(x, p))
<1>1. PackBits \in Nat \ {0} /\ Stride \in Nat \ {0} /\ Items \in Nat \ {0} /\ PackBits = Items * Stride
  BY ItemWidth
<1>2. i \in Nat
  <2>1. BitIndex(x, p) \in Nat
    BY PlacesFit
  <2> QED BY <2>1, IndexParts
<1>3. PICK k \in Nat : s = Stride * k
  BY Places DEF Fine
<1>4. s + Stride <= PackBits
  BY Places DEF Fine
<1>5. k \in 0 .. Items - 1
  <2>1. Stride * k + Stride <= Items * Stride
    BY <1>1, <1>3, <1>4
  <2> DEFINE j == k + 1
  <2>2. Stride * k + Stride = j * Stride /\ j \in Nat
    BY <1>1, <1>3
  <2> HIDE DEF j
  <2>3. j <= Items
    <3>1. Items + 1 <= j => (Items + 1) * Stride <= j * Stride
      BY <1>1, <2>2
    <3>2. (Items + 1) * Stride = Items * Stride + Stride /\ Items * Stride \in Nat
      BY <1>1
    <3> QED BY <1>1, <2>1, <2>2, <3>1, <3>2
  <2> QED BY <1>1, <1>3, <2>3 DEF j
<1>6. k * Stride = Stride * k
  BY <1>1, <1>3
<1> HIDE DEF i, s
<1>7. PlaceOf(x, i, k) = p
  BY <1>2, <1>3, <1>5, <1>6, WordPlaces DEF i, s
<1> QED BY <1>3, <1>5, <1>6, <1>7 DEF InWord, i, s

\* word_set changes the values of its word, each to its own part of v, and no
\* other; and a cell keeps its unused bits if v has none of them.
LEMMA WordDone ==
  ASSUME NEW x, Fine(x), NEW d \in Mem(x), NEW i \in 0 .. WordsOf(x) - 1, NEW v \in SUBSET WordBits
  PROVE  LET e == [d EXCEPT ![i] = v]
             part == PartOf(x, i, v)
         IN  /\ e \in Mem(x)
             /\ \A p \in Coords(x) :
                  Got(x, e, p) = IF \E t \in part : t[1] = p
                                 THEN (CHOOSE t \in part : t[1] = p)[2]
                                 ELSE Got(x, d, p)
             /\ v \subseteq UNION { LeftShift(ValueBits, k * Stride) : k \in InWord(x, i) }
                /\ Clean(x, d) => Clean(x, e)
<1> DEFINE e == [d EXCEPT ![i] = v]
           part == PartOf(x, i, v)
<1>1. /\ DOMAIN d = 0 .. WordsOf(x) - 1
      /\ e \in Mem(x) /\ e[i] = v /\ \A j \in DOMAIN d : j # i => e[j] = d[j]
      /\ DOMAIN e = DOMAIN d
  BY DEF Mem, WordArrays
<1>2. i \in Nat
  OBVIOUS
<1> HIDE DEF e
<1>3. ASSUME NEW k \in InWord(x, i)
      PROVE  /\ k \in 0 .. Items - 1 /\ PlaceOf(x, i, k) \in Coords(x)
             /\ Word(BitIndex(x, PlaceOf(x, i, k))) = i
             /\ Bit(BitIndex(x, PlaceOf(x, i, k))) = k * Stride
  <2>1. k \in 0 .. Items - 1 /\ PlaceOf(x, i, k) \in Coords(x)
    BY DEF InWord
  <2> QED BY <1>2, <2>1, WordPlaces
<1>4. ASSUME NEW p \in Coords(x)
      PROVE  Got(x, e, p) = IF \E t \in part : t[1] = p
                            THEN (CHOOSE t \in part : t[1] = p)[2]
                            ELSE Got(x, d, p)
  <2> DEFINE id == BitIndex(x, p)
             s == Bit(id)
             u == RightShift(v, s) \cap ValueBits
  <2>1. Word(id) \in DOMAIN d
    BY <1>1, PlacesFit
  <2>2. ASSUME NEW t \in part, t[1] = p PROVE Word(id) = i /\ t[2] = u
    <3>1. PICK k \in InWord(x, i) : t = <<PlaceOf(x, i, k), RightShift(v, k * Stride) \cap ValueBits>>
      BY DEF PartOf
    <3>2. PlaceOf(x, i, k) = p /\ t[2] = RightShift(v, k * Stride) \cap ValueBits
      BY <2>2, <3>1
    <3>3. Word(id) = i /\ s = k * Stride
      BY <1>3, <3>2
    <3> QED BY <3>2, <3>3
  <2>3. CASE Word(id) = i
    <3>1. PICK k \in InWord(x, i) : PlaceOf(x, i, k) = p /\ s = k * Stride
      BY <2>3, InItsWord
    <3>2. \E t \in part : t[1] = p
      <4>1. <<PlaceOf(x, i, k), RightShift(v, k * Stride) \cap ValueBits>> \in part
        BY DEF PartOf
      <4> QED BY <3>1, <4>1
    <3>3. (CHOOSE t \in part : t[1] = p)[2] = u
      <4> HIDE DEF part, u
      <4> QED BY <2>2, <3>2
    <3>4. Got(x, e, p) = u
      BY <1>1, <2>3 DEF Got, BitGet
    <3> QED BY <3>2, <3>3, <3>4
  <2>4. CASE Word(id) # i
    <3>1. ~ \E t \in part : t[1] = p
      BY <2>2, <2>4
    <3>2. Got(x, e, p) = Got(x, d, p)
      BY <1>1, <2>1, <2>4 DEF Got, BitGet
    <3> QED BY <3>1, <3>2
  <2> QED BY <2>3, <2>4
<1>5. ASSUME v \subseteq UNION { LeftShift(ValueBits, k * Stride) : k \in InWord(x, i) }, Clean(x, d)
      PROVE  Clean(x, e)
  <2> SUFFICES ASSUME NEW j \in DOMAIN e, NEW b \in e[j]
               PROVE  \E c \in Coords(x) :
                        /\ Word(BitIndex(x, c)) = j
                        /\ b \in Bit(BitIndex(x, c)) .. Bit(BitIndex(x, c)) + BitCount - 1
    BY DEF Clean
  <2>1. CASE j # i
    BY <1>1, <1>5, <2>1 DEF Clean
  <2>2. CASE j = i
    <3>1. PICK k \in InWord(x, i) : b \in LeftShift(ValueBits, k * Stride)
      BY <1>1, <1>5, <2>2
    <3> DEFINE c == PlaceOf(x, i, k)
               id == BitIndex(x, c)
    <3>2. c \in Coords(x) /\ Word(id) = i /\ Bit(id) = k * Stride
      BY <1>3
    <3>3. id \in Nat /\ Bit(id) + BitCount <= PackBits
      BY <3>2, PlacesFit
    <3>4. b \in WordBits
      BY <1>1, <2>2
    <3> HIDE DEF c, id
    <3>5. b \in There(id, ValueBits)
      BY <3>1, <3>2 DEF There
    <3>6. b \in Bit(id) .. Bit(id) + BitCount - 1
      BY <3>3, <3>4, <3>5, ThereIs
    <3> QED BY <2>2, <3>2, <3>6 DEF id
  <2> QED BY <2>1, <2>2
<1> QED BY <1>1, <1>4, <1>5 DEF e

\* What word_set says of its values is that they are values at places.
LEMMA PartsAreValues ==
  ASSUME NEW x, Fine(x), NEW i, NEW v
  PROVE  PartOf(x, i, v) \in SUBSET ((Int \X Int) \X BitValues)
<1> SUFFICES ASSUME NEW k \in InWord(x, i)
             PROVE  <<PlaceOf(x, i, k), RightShift(v, k * Stride) \cap ValueBits>>
                      \in (Int \X Int) \X BitValues
  BY DEF PartOf
<1>1. PlaceOf(x, i, k) \in Int \X Int
  <2>1. PlaceOf(x, i, k) \in Coords(x)
    BY DEF InWord
  <2> QED BY <2>1, Places DEF Fine
<1>2. RightShift(v, k * Stride) \cap ValueBits \in BitValues
  BY DEF BitValues
<1> QED BY <1>1, <1>2

-----------------------------------------------------------------------------
(* New memory *)

\* Words that are all the same are words.
LEMMA WordsAre ==
  ASSUME NEW n, NEW w \in SUBSET WordBits
  PROVE  Words(n, w) \in WordArrays(0 .. n - 1)
  BY DEF Words, WordArrays

\* In new memory of setup() every value is zero.
LEMMA ZeroDone ==
  ASSUME NEW x, Fine(x), NEW d \in Mem(x), \A i \in DOMAIN d : d[i] = {}
  PROVE  Clean(x, d) /\ \A p \in Coords(x) : Got(x, d, p) = {}
<1>1. Clean(x, d)
  BY DEF Clean
<1>2. ASSUME NEW p \in Coords(x) PROVE Got(x, d, p) = {}
  <2> DEFINE id == BitIndex(x, p)
  <2>1. id \in Nat /\ Word(id) \in DOMAIN d /\ Bit(id) + BitCount <= PackBits
    BY PlacesFit DEF Mem, WordArrays
  <2>2. d[Word(id)] = {}
    BY <2>1
  <2> HIDE DEF id
  <2>3. BitGet(d, id) = {}
    BY <2>1, <2>2, BitGetIs
  <2> QED BY <2>3 DEF Got, id
<1> QED BY <1>1, <1>2

\* The words of a cell are as few as its values need.
LEMMA CellRoom ==
  ASSUME NEW n \in CellSizes
  PROVE  /\ n.w \in Nat \ {0} /\ n.h \in Nat \ {0}
         /\ n.w * n.h \in Nat \ {0}
         /\ n.w * n.h * Stride = Stride * (n.w * n.h)
         /\ n.w * n.h * Stride \in Nat \ {0}
         /\ CellWords(n) \in Nat \ {0}
         /\ n.w * n.h * Stride <= PackBits * CellWords(n)
         /\ PackBits * CellWords(n) < n.w * n.h * Stride + PackBits
         /\ CellWords(n) * PackBits = PackBits * CellWords(n)
<1> DEFINE B == PackBits
           a == n.w * n.h
           t == a * Stride
           c == (t + B - 1) \div B
<1>1. B \in Nat \ {0} /\ Stride \in Nat \ {0}
  BY ItemWidth
<1>2. n.w \in Nat \ {0} /\ n.h \in Nat \ {0}
  BY BitTableAssumption
<1>3. \A u, v \in Nat \ {0} : u * v \in Nat \ {0}
  OBVIOUS
<1>4. a \in Nat \ {0}
  BY <1>2, <1>3
<1> HIDE DEF a
<1>5. t \in Nat \ {0} /\ t = Stride * a
  BY <1>1, <1>3, <1>4
<1>6. CellWords(n) = c
  BY DEF CellWords, a
<1> HIDE DEF t, B
<1> DEFINE m == t + B - 1
<1>7. m \in Nat /\ c = m \div B
  BY <1>1, <1>5
<1> HIDE DEF m
<1>8. c \in Nat /\ (m % B) \in 0 .. B - 1 /\ m = B * c + (m % B)
  BY <1>1, <1>7, Parts
<1> DEFINE s == B * c
           r == m % B
<1>9. s \in Nat /\ r \in 0 .. B - 1 /\ m = s + r
  <2>1. \A u, v \in Nat : u * v \in Nat
    OBVIOUS
  <2> QED BY <1>1, <1>8, <2>1
<1>10. c # 0
  <2>1. c = 0 => s = 0
    BY <1>1
  <2> HIDE DEF s, r
  <2> QED BY <1>1, <1>5, <1>9, <2>1 DEF m
<1> HIDE DEF s, r
<1>11. t <= s /\ s < t + B
  BY <1>1, <1>5, <1>9 DEF m
<1>12. c * B = B * c
  BY <1>1, <1>8
<1> QED BY <1>2, <1>4, <1>5, <1>6, <1>8, <1>10, <1>11, <1>12 DEF s, t, a, B

\* The mask of construct() has the bits of the last word that values have.
LEMMA LastMask ==
  ASSUME NEW n \in CellSizes
  PROVE  \A b \in WordBits :
           b \in RightShift(WordBits, Unused(n))
             <=> PackBits * (CellWords(n) - 1) + b < n.w * n.h * Stride
<1> DEFINE B == PackBits
           t == n.w * n.h * Stride
           c == CellWords(n)
           s == B * c
           u == Unused(n)
<1>1. B \in Nat \ {0}
  BY ItemWidth
<1>2. t \in Nat \ {0} /\ c \in Nat \ {0} /\ t <= s /\ s < t + B /\ c * B = s
  BY CellRoom
<1>3. s \in Nat
  <2>1. \A i, j \in Nat : i * j \in Nat
    OBVIOUS
  <2> QED BY <1>1, <1>2, <2>1
<1>4. u = s - t
  BY <1>2 DEF Unused
<1>5. B * (c - 1) = s - B
  BY <1>1, <1>2
<1>6. RightShift(WordBits, u) = Right(B, BitsOf(B), u)
  BY DEF RightShift, bit_right_shift, PackType, WordBits
<1>7. WordBits = BitsOf(B)
  BY DEF WordBits
<1> HIDE DEF B, t, c, s, u
<1>8. u \in 0 .. B - 1
  BY <1>1, <1>2, <1>3, <1>4
<1>9. ASSUME NEW b \in BitsOf(B)
      PROVE  b \in Right(B, BitsOf(B), u) <=> B * (c - 1) + b < t
  <2>1. b \in 0 .. B - 1
    BY <1>9, <1>1 DEF BitsOf
  <2>2. b \in Right(B, BitsOf(B), u) <=> b + u <= B - 1
    BY <1>1, <1>8, <2>1 DEF Right, BitsOf
  <2>3. B * (c - 1) + b < t <=> (s - B) + b < t
    BY <1>5
  <2> QED BY <1>1, <1>2, <1>3, <1>4, <2>1, <2>2, <2>3
<1> QED BY <1>6, <1>7, <1>9 DEF B, t, c, u

\* The words of a cell that construct() has filled with ones.
OnesWords(n) ==
  [i \in 0 .. CellWords(n) - 1 |->
     IF i = CellWords(n) - 1 THEN WordBits \cap RightShift(WordBits, Unused(n)) ELSE WordBits]

\* They have the bits of all values, and no others.
LEMMA OnesAre ==
  ASSUME NEW n \in CellSizes, NEW i \in 0 .. CellWords(n) - 1, NEW b \in WordBits
  PROVE  b \in OnesWords(n)[i] <=> PackBits * i + b < n.w * n.h * Stride
<1> DEFINE B == PackBits
           t == n.w * n.h * Stride
           c == CellWords(n)
           s == B * c
<1>1. B \in Nat \ {0}
  BY ItemWidth
<1>2. t \in Nat \ {0} /\ c \in Nat \ {0} /\ t <= s /\ s < t + B
  BY CellRoom
<1>3. b \in 0 .. B - 1
  BY <1>1 DEF WordBits, BitsOf
<1>4. OnesWords(n)[i] = IF i = c - 1 THEN WordBits \cap RightShift(WordBits, Unused(n)) ELSE WordBits
  BY DEF OnesWords
<1>5. CASE i = c - 1
  <2>1. b \in RightShift(WordBits, Unused(n)) <=> B * (c - 1) + b < t
    BY LastMask
  <2> HIDE DEF B, c, t
  <2> QED BY <1>4, <1>5, <2>1 DEF B, t
<1>6. CASE i # c - 1
  <2>1. B * i + b < t
    <3> HIDE DEF B, c, t
    <3>1. i \in Nat /\ i + 2 <= c
      BY <1>2, <1>6 DEF c
    <3>2. B * (i + 2) <= B * c
      <4>1. \A p, q, m \in Nat : p <= q => m * p <= m * q
        OBVIOUS
      <4> QED BY <1>1, <1>2, <3>1, <4>1
    <3>3. B * (i + 2) = B * i + B + B /\ B * i \in Nat
      BY <1>1, <3>1
    <3>4. s \in Nat
      <4>1. \A p, q \in Nat : p * q \in Nat
        OBVIOUS
      <4> QED BY <1>1, <1>2, <4>1
    <3> HIDE DEF s
    <3>5. B * (i + 2) <= s
      BY <3>2 DEF s
    <3> DEFINE m == B * i
    <3>6. m + B + B <= s /\ m \in Nat
      BY <3>3, <3>5
    <3> HIDE DEF m
    <3>7. m + b < t
      BY <1>1, <1>2, <1>3, <3>4, <3>6
    <3> QED BY <3>7 DEF m
  <2> QED BY <1>4, <1>6, <2>1
<1> QED BY <1>5, <1>6

\* So a cell of ones has full values everywhere, and nothing else if there are no
\* bits between values.
LEMMA OnesDone ==
  ASSUME NEW x, x.kind = "cell", x.size \in CellSizes
  PROVE  /\ OnesWords(x.size) \in Mem(x)
         /\ Tight => Clean(x, OnesWords(x.size))
         /\ \A p \in Coords(x) : Got(x, OnesWords(x.size), p) = ValueBits
<1> DEFINE n == x.size
           d == OnesWords(n)
           B == PackBits
           a == n.w * n.h
           t == n.w * n.h * Stride
<1>1. B \in Nat \ {0} /\ Stride \in Nat \ {0} /\ Items \in Nat \ {0} /\ B = Items * Stride
      /\ BitCount \in Nat \ {0} /\ BitCount <= Stride
  BY ItemWidth
<1>2. a \in Nat \ {0} /\ t = Stride * a
  BY CellRoom
<1>3. WordsOf(x) = CellWords(n) /\ Fine(x)
  BY DEF WordsOf, Fine
<1>4. d \in Mem(x) /\ DOMAIN d = 0 .. CellWords(n) - 1
  BY <1>3 DEF OnesWords, Mem, WordArrays
<1>5. \A i \in DOMAIN d : \A b \in WordBits : b \in d[i] <=> B * i + b < t
  BY <1>4, OnesAre
<1>6. n.w \in Nat \ {0} /\ n.h \in Nat \ {0}
  BY CellRoom
<1> HIDE DEF d, B, t
<1>7. ASSUME NEW p \in Coords(x) PROVE Got(x, d, p) = ValueBits
  <2> DEFINE id == BitIndex(x, p)
  <2>1. id \in Nat /\ Word(id) \in DOMAIN d /\ Bit(id) \in Nat /\ Bit(id) + BitCount <= B
    BY <1>3, <1>4, PlacesFit DEF B
  <2>2. PICK k \in Nat : k < a /\ id = Stride * k
    BY CellOf
  <2>3. id = B * Word(id) + Bit(id)
    BY <2>1, IndexParts DEF B
  <2>4. id + Stride <= t
    <3> HIDE DEF a, id
    <3>1. Stride * (k + 1) <= Stride * a
      <4>1. \A u, v, m \in Nat : u <= v => m * u <= m * v
        OBVIOUS
      <4>2. k + 1 <= a /\ k + 1 \in Nat
        BY <1>2, <2>2
      <4> QED BY <1>1, <1>2, <4>1, <4>2
    <3>2. Stride * (k + 1) = Stride * k + Stride
      BY <1>1, <2>2
    <3> QED BY <1>2, <2>2, <3>1, <3>2
  <2>5. t \in Nat
    BY CellRoom DEF t
  <2> HIDE DEF id
  <2>6. BitGet(d, id) = { i \in 0 .. BitCount - 1 : i + Bit(id) \in d[Word(id)] }
    BY <2>1, BitGetIs DEF B
  <2>7. ASSUME NEW i \in 0 .. BitCount - 1 PROVE i + Bit(id) \in d[Word(id)]
    <3> DEFINE m == B * Word(id)
               b == i + Bit(id)
    <3>1. b \in 0 .. B - 1 /\ b < Bit(id) + Stride
      BY <1>1, <2>1
    <3>2. m \in Int
      <4>1. \A u, v \in Nat : u * v \in Int
        OBVIOUS
      <4>2. Word(id) \in Nat
        BY <2>1, IndexParts
      <4> QED BY <1>1, <4>1, <4>2
    <3> HIDE DEF b, m
    <3>3. m + b < t
      BY <1>1, <2>1, <2>3, <2>4, <2>5, <3>1, <3>2 DEF m
    <3>4. b \in WordBits
      BY <3>1 DEF WordBits, BitsOf, B
    <3> QED BY <1>5, <2>1, <3>3, <3>4 DEF b, m
  <2>8. BitGet(d, id) = 0 .. BitCount - 1
    BY <2>6, <2>7
  <2> QED BY <2>8, ValueBitsAre DEF Got, id
<1>8. ASSUME Tight PROVE Clean(x, d)
  <2> SUFFICES ASSUME NEW i \in DOMAIN d, NEW b \in d[i]
               PROVE  \E c \in Coords(x) :
                        /\ Word(BitIndex(x, c)) = i
                        /\ b \in Bit(BitIndex(x, c)) .. Bit(BitIndex(x, c)) + BitCount - 1
    BY DEF Clean
  <2>1. b \in WordBits
    BY <1>4 DEF Mem, WordArrays
  <2>2. i \in Nat /\ b \in 0 .. B - 1
    <3>1. i \in 0 .. CellWords(n) - 1
      BY <1>4
    <3> HIDE DEF n
    <3> QED BY <1>1, <2>1, <3>1 DEF WordBits, BitsOf, B
  <2>3. B * i + b < t
    BY <1>5, <2>1
  <2> DEFINE q == b \div Stride
             r == b % Stride
             k == Items * i + q
             s == Stride * q
  <2>4. q \in Nat /\ r \in 0 .. Stride - 1 /\ b = s + r
    <3>1. b \in Nat
      BY <1>1, <2>2
    <3>2. Stride \in Nat \ {0}
      BY <1>1
    <3> QED BY <3>1, <3>2, Parts
  <2> HIDE DEF q, r
  <2>5. s \in Nat
    <3>1. \A u, v \in Nat : u * v \in Nat
      OBVIOUS
    <3> QED BY <1>1, <2>4, <3>1
  <2>6. Stride * k = B * i + s /\ k \in Nat
    <3>1. Items * i \in Nat
      <4>1. \A u, v \in Nat : u * v \in Nat
        OBVIOUS
      <4> QED BY <1>1, <2>2, <4>1
    <3>2. Stride * k = Stride * (Items * i) + s
      BY <1>1, <2>4, <3>1
    <3>3. Stride * (Items * i) = B * i
      BY <1>1, <2>2
    <3> QED BY <2>4, <3>1, <3>2, <3>3
  <2> HIDE DEF s
  <2>7. s \in 0 .. B - 1
    BY <1>1, <2>2, <2>4, <2>5
  <2>8. Word(Stride * k) = i /\ Bit(Stride * k) = s
    <3> DEFINE id == Stride * k
    <3>1. id = B * i + s
      BY <2>6
    <3> HIDE DEF id
    <3>2. id \div B = i /\ id % B = s
      BY <1>1, <2>2, <2>7, <3>1, Split
    <3> QED BY <3>2 DEF Word, Bit, B, id
  <2> HIDE DEF k
  <2>9. k < a
    <3> DEFINE m == B * i
    <3>1. m \in Nat
      <4>1. \A u, v \in Nat : u * v \in Nat
        OBVIOUS
      <4> QED BY <1>1, <2>2, <4>1
    <3>2. m + b < t
      BY <2>3
    <3>3. Stride * k = m + s
      BY <2>6
    <3> HIDE DEF m, a
    <3>4. Stride * k < Stride * a
      <4>1. t \in Nat
        BY CellRoom DEF t
      <4> QED BY <1>1, <1>2, <2>2, <2>4, <2>5, <3>1, <3>2, <3>3, <4>1
    <3>5. a <= k => Stride * a <= Stride * k
      <4>1. \A u, v, j \in Nat : u <= v => j * u <= j * v
        OBVIOUS
      <4> QED BY <1>1, <1>2, <2>6, <4>1
    <3>6. Stride * a \in Nat /\ Stride * k \in Nat
      <4>1. \A u, v \in Nat : u * v \in Nat
        OBVIOUS
      <4> QED BY <1>1, <1>2, <2>6, <4>1
    <3> QED BY <1>2, <2>6, <3>4, <3>5, <3>6
  <2> DEFINE c == <<k % n.w, k \div n.w>>
  <2>10. c \in Coords(x) /\ BitIndex(x, c) = Stride * k
    BY <2>6, <2>9, CellAt
  <2>11. b \in s .. s + BitCount - 1
    <3>1. BitCount = Stride
      BY <1>8 DEF Tight
    <3> QED BY <1>1, <2>2, <2>4, <2>5, <3>1
  <2> HIDE DEF c
  <2> QED BY <2>8, <2>10, <2>11
<1> QED BY <1>4, <1>7, <1>8 DEF d

-----------------------------------------------------------------------------
(* Objects and what calls make of them *)

\* An object that can be used has the words it needs; and if nothing is between
\* values, no one of a cell is outside of them.
Held(x) ==
  /\ Fine(x)
  /\ x = [kind |-> x.kind, size |-> x.size, data |-> x.data]
  /\ x.data \in Mem(x)
  /\ x.kind = "cell" /\ Tight => Clean(x, x.data)

\* An object that cannot be used: it has no grid.
Idle(x) == x \in {None, Shell} \/ TornType(x)

GridsInv ==
  /\ DOMAIN obj = Objects
  /\ calls \in 0 .. MaxCalls
  /\ \A o \in Objects : Idle(obj[o]) \/ Held(obj[o])

LEMMA IdleGrid ==
  ASSUME NEW x, Idle(x)
  PROVE  x.kind \notin {"table", "cell"} /\ GridOf(x) = << >>
<1>1. x.kind \in {"none", "shell", "torn"}
  BY DEF Idle, None, Shell, TornType
<1> QED BY <1>1 DEF GridOf

\* Sizes are records.
LEMMA SizesAre ==
  ASSUME NEW n \in TableSizes \cup CellSizes
  PROVE  /\ n \in [w : Nat, h : Nat] /\ n.w \in Nat \ {0} /\ n.h \in Nat \ {0}
         /\ n = [w |-> n.w, h |-> n.h]
  BY BitTableAssumption

\* The values of an object that can be used.
LEMMA HeldGrid ==
  ASSUME NEW x, Held(x)
  PROVE  /\ x.kind \in {"table", "cell"}
         /\ GridOf(x) = [c \in Coords(x) |-> Got(x, x.data, c)]
         /\ Coords(x) \in SUBSET (Int \X Int)
         /\ GridOf(x) \in [Coords(x) -> SUBSET ValueBits]
<1>1. Fine(x) /\ x.kind \in {"table", "cell"}
  BY DEF Held, Fine
<1>2. GridOf(x) = [c \in Coords(x) |-> Got(x, x.data, c)]
  BY <1>1 DEF GridOf, Value, Got
<1>3. Coords(x) \in SUBSET (Int \X Int)
  BY <1>1, Places DEF Fine
<1>4. \A c \in Coords(x) : Got(x, x.data, c) \in SUBSET ValueBits
  BY <1>1, GotValue
<1> QED BY <1>1, <1>2, <1>3, <1>4

\* Holders can be used.
LEMMA HolderHeld ==
  ASSUME GridsInv, NEW o \in Holders
  PROVE  /\ o \in Objects /\ Held(obj[o]) /\ Fine(obj[o]) /\ obj[o].data \in Mem(obj[o])
         /\ o \in Tables => obj[o].kind = "table" /\ obj[o].size \in TableSizes
         /\ o \in Cells => obj[o].kind = "cell" /\ obj[o].size \in CellSizes
<1>1. o \in Objects /\ obj[o].kind \in {"table", "cell"}
  BY DEF Holders, Tables, Cells
<1>2. ~ Idle(obj[o])
  BY <1>1, IdleGrid
<1>3. Held(obj[o])
  BY <1>1, <1>2 DEF GridsInv
<1>4. o \in Tables => obj[o].kind = "table"
  BY DEF Tables
<1>5. o \in Cells => obj[o].kind = "cell"
  BY DEF Cells
<1> QED BY <1>1, <1>3, <1>4, <1>5 DEF Held, Fine

\* Tables as they are made.
LEMMA TableHeld ==
  ASSUME NEW n \in TableSizes, NEW d \in WordArrays(0 .. TableWords(n) - 1)
  PROVE  /\ Held(Table(n, d)) /\ Fine(Table(n, d)) /\ Table(n, d).kind = "table"
         /\ Table(n, d).size = n /\ Table(n, d).data = d /\ d \in Mem(Table(n, d))
         /\ Coords(Table(n, d)) = Grids!Box(-BufferSize, -BufferSize, Pad(n))
<1> DEFINE x == Table(n, d)
<1>1. x.kind = "table" /\ x.size = n /\ x.data = d
      /\ x = [kind |-> "table", size |-> n, data |-> d]
  BY DEF Table
<1> HIDE DEF x
<1>2. Fine(x) /\ Mem(x) = WordArrays(0 .. TableWords(n) - 1)
  BY <1>1 DEF Fine, Mem, WordsOf
<1>3. Held(x)
  BY <1>1, <1>2 DEF Held
<1>4. Coords(x) = Grids!Box(-BufferSize, -BufferSize, Pad(n))
  BY <1>1 DEF Coords, Lo, Extent, Box, Grids!Box
<1> QED BY <1>1, <1>2, <1>3, <1>4 DEF x

\* And cells.
LEMMA CellHeld ==
  ASSUME NEW n \in CellSizes, NEW d \in WordArrays(0 .. CellWords(n) - 1)
  PROVE  /\ Fine(Cell(n, d)) /\ Cell(n, d).kind = "cell"
         /\ Cell(n, d).size = n /\ Cell(n, d).data = d /\ d \in Mem(Cell(n, d))
         /\ Coords(Cell(n, d)) = Grids!Box(0, 0, n)
         /\ (Tight => Clean(Cell(n, d), d)) => Held(Cell(n, d))
<1> DEFINE x == Cell(n, d)
<1>1. x.kind = "cell" /\ x.size = n /\ x.data = d
      /\ x = [kind |-> "cell", size |-> n, data |-> d]
  BY DEF Cell
<1> HIDE DEF x
<1>2. Fine(x) /\ Mem(x) = WordArrays(0 .. CellWords(n) - 1)
  BY <1>1 DEF Fine, Mem, WordsOf
<1>3. (Tight => Clean(x, d)) => Held(x)
  BY <1>1, <1>2 DEF Held
<1>4. Coords(x) = Grids!Box(0, 0, n)
  BY <1>1 DEF Coords, Lo, Extent, Box, Grids!Box
<1> QED BY <1>1, <1>2, <1>3, <1>4 DEF x

\* The places of an object have nothing to do with what is in its words.
LEMMA SamePlaces ==
  ASSUME NEW x, NEW y, y.kind = x.kind, y.size = x.size
  PROVE  /\ Fine(y) <=> Fine(x)
         /\ Coords(y) = Coords(x) /\ Mem(y) = Mem(x)
         /\ \A d : Clean(y, d) <=> Clean(x, d)
         /\ \A d, c : Got(y, d, c) = Got(x, d, c)
<1>1. \A c : BitIndex(y, c) = BitIndex(x, c)
  BY DEF BitIndex, TableIndex, CellIndex
<1>2. Coords(y) = Coords(x) /\ Mem(y) = Mem(x) /\ (Fine(y) <=> Fine(x))
  BY DEF Coords, Lo, Extent, Mem, WordsOf, Fine
<1> QED BY <1>1, <1>2 DEF Clean, Got

\* An object whose words have been changed.
LEMMA WriteHeld ==
  ASSUME NEW x, Held(x), NEW e \in Mem(x),
         x.kind = "cell" /\ Clean(x, x.data) => Clean(x, e)
  PROVE  /\ Held([x EXCEPT !.data = e])
         /\ GridOf([x EXCEPT !.data = e]) = [c \in Coords(x) |-> Got(x, e, c)]
<1> DEFINE y == [x EXCEPT !.data = e]
<1>1. x = [kind |-> x.kind, size |-> x.size, data |-> x.data]
  BY DEF Held
<1>2. y = [kind |-> x.kind, size |-> x.size, data |-> e]
  BY <1>1
<1>3. y.kind = x.kind /\ y.size = x.size /\ y.data = e
  BY <1>2
<1> HIDE DEF y
<1>4. /\ Fine(y) <=> Fine(x)
      /\ Coords(y) = Coords(x) /\ Mem(y) = Mem(x)
      /\ Clean(y, e) <=> Clean(x, e)
      /\ \A c : Got(y, e, c) = Got(x, e, c)
  BY <1>3, SamePlaces
<1>5. Held(y)
  BY <1>2, <1>3, <1>4 DEF Held
<1>6. GridOf(y) = [c \in Coords(y) |-> Got(y, y.data, c)]
  BY <1>5, HeldGrid
<1> QED BY <1>3, <1>4, <1>5, <1>6 DEF y

\* What a call may make of the grid it changes.
Allowed(g, k) ==
  \/ Grids!Made(g, k) \/ Grids!Found(g, k) \/ Grids!Copied(g, k) \/ Grids!Dropped(g, k)
  \/ Grids!Changed(g, k) \/ Grids!Overlaid(g, k) \/ Grids!Framed(g, k) \/ Grids!Drawn(g, k)

\* A call that gives an object what its name says is a step of the grids.
LEMMA BecomeStep ==
  ASSUME GridsInv, NEW o \in Objects, NEW y, Idle(y) \/ Held(y),
         NEW k \in GridCalls, k.at = o, Allowed(GridOf(y), k), Become(o, y, k)
  PROVE  GridsInv' /\ Grids!Next
<1> DEFINE grid == [q \in Objects |-> GridOf(obj[q])]
<1>1. /\ calls < MaxCalls /\ calls' = calls + 1 /\ call' = k
      /\ obj' = [obj EXCEPT ![o] = y]
  BY DEF Become
<1>2. DOMAIN obj = Objects /\ calls \in 0 .. MaxCalls
  BY DEF GridsInv
<1>3. /\ DOMAIN obj' = Objects /\ obj'[o] = y
      /\ \A q \in Objects \ {o} : obj'[q] = obj[q]
  BY <1>1, <1>2
<1>4. GridsInv'
  <2>1. calls' \in 0 .. MaxCalls
    BY <1>1, <1>2, BitTableAssumption
  <2>2. \A q \in Objects : Idle(obj'[q]) \/ Held(obj'[q])
    <3> SUFFICES ASSUME NEW q \in Objects PROVE Idle(obj'[q]) \/ Held(obj'[q])
      OBVIOUS
    <3>1. CASE q = o
      BY <1>3, <3>1
    <3>2. CASE q # o
      BY <1>3, <3>2 DEF GridsInv
    <3> QED BY <3>1, <3>2
  <2> QED BY <1>3, <2>1, <2>2 DEF GridsInv
<1>5. grid'[o] = GridOf(y)
  BY <1>3
<1>6. \A q \in Objects \ {o} : grid'[q] = grid[q]
  BY <1>3
<1>7. DOMAIN grid' = Objects
  OBVIOUS
<1>8. Grids!Do(k)
  BY <1>5, <1>6, <1>7 DEF Grids!Do, Allowed
<1> QED BY <1>1, <1>4, <1>8 DEF Grids!Next

\* And so is one that gives it new words.
LEMMA WriteStep ==
  ASSUME GridsInv, NEW o \in Holders, NEW e \in Mem(obj[o]),
         obj[o].kind = "cell" /\ Clean(obj[o], obj[o].data) => Clean(obj[o], e),
         NEW k \in GridCalls, k.at = o,
         Allowed([c \in Coords(obj[o]) |-> Got(obj[o], e, c)], k), Write(o, e, k)
  PROVE  GridsInv' /\ Grids!Next
<1> DEFINE y == [obj[o] EXCEPT !.data = e]
<1>1. o \in Objects /\ Held(obj[o])
  BY HolderHeld
<1>2. Held(y) /\ GridOf(y) = [c \in Coords(obj[o]) |-> Got(obj[o], e, c)]
  BY <1>1, WriteHeld
<1>3. Become(o, y, k)
  BY DEF Write
<1> HIDE DEF y
<1>4. Allowed(GridOf(y), k)
  BY <1>2
<1> QED BY <1>1, <1>2, <1>3, <1>4, BecomeStep

-----------------------------------------------------------------------------
(* The calls that change values of one object *)

\* The grid of an object with e in its words.
GridIn(x, e) == [c \in Coords(x) |-> Got(x, e, c)]

\* Memory in which the values of a part have been redone has the grid that the
\* grids say.
LEMMA RedoneGrid ==
  ASSUME NEW x, Held(x), NEW e, NEW B, NEW how, NEW v,
         NEW f, \A c \in Coords(x) : f[c] = v, Redone(x, x.data, e, B, how, f)
  PROVE  GridIn(x, e) = Grids!Combined(GridOf(x), B, how, v)
<1>1. GridOf(x) = [c \in Coords(x) |-> Got(x, x.data, c)]
  BY HeldGrid
<1>2. \A c \in Coords(x) :
        Got(x, e, c) = IF c \in B THEN Grids!Result(how, Got(x, x.data, c), v) ELSE Got(x, x.data, c)
  BY DEF Redone
<1> QED BY <1>1, <1>2 DEF Grids!Combined, GridIn

\* What is redone in a region is a change of the grids.
LEMMA ChangeStep ==
  ASSUME GridsInv, NEW o \in Holders, NEW e, NEW c \in Coords(obj[o]), NEW n \in [w : Nat, h : Nat],
         NEW how \in {"set", "not"} \cup RegionOps, NEW v \in BitValues,
         Redone(obj[o], obj[o].data, e, Grids!Box(c[1], c[2], n), how, [p \in Coords(obj[o]) |-> v]),
         Write(o, e, Change(o, c, n, how, v))
  PROVE  GridsInv' /\ Grids!Next
<1> DEFINE x == obj[o]
           k == Change(o, c, n, how, v)
           g == [p \in Coords(x) |-> Got(x, e, p)]
           B == Grids!Box(c[1], c[2], n)
<1>1. o \in Objects /\ Held(x)
  BY HolderHeld
<1>2. c \in Int \X Int
  <2> HIDE DEF x
  <2>1. c \in Coords(x) /\ Coords(x) \in SUBSET (Int \X Int)
    BY <1>1, HeldGrid DEF x
  <2> QED BY <2>1
<1>3. /\ k.op = "change" /\ k.at = o /\ k.to = c /\ k.size = n /\ k.how = how /\ k.value = v
      /\ k \in [op : {"change"}, at : Objects, to : Int \X Int, size : [w : Nat, h : Nat],
                how : {"set", "not"} \cup RegionOps, value : BitValues]
  BY <1>1, <1>2 DEF Change
<1>4. k \in GridCalls
  BY <1>3 DEF GridCalls
<1>5. Redone(x, x.data, e, B, how, [p \in Coords(x) |-> v])
  OBVIOUS
<1>6. Write(o, e, k)
  OBVIOUS
<1>7. e \in Mem(x) /\ (Clean(x, x.data) => Clean(x, e))
  BY <1>5 DEF Redone
<1>8. g = Grids!Combined(GridOf(x), B, how, v)
  <2> DEFINE f == [p \in Coords(x) |-> v]
  <2>1. Redone(x, x.data, e, B, how, f)
    BY <1>5
  <2>2. g = GridIn(x, e)
    BY DEF GridIn
  <2> HIDE DEF x
  <2>3. \A q \in Coords(x) : f[q] = v
    OBVIOUS
  <2> HIDE DEF f, g, B
  <2> QED BY <1>1, <2>1, <2>2, <2>3, RedoneGrid
<1> HIDE DEF k, g
<1>9. Grids!Changed(g, k)
  BY <1>1, <1>3, <1>8 DEF Grids!Changed
<1>10. Allowed(g, k)
  BY <1>9 DEF Allowed
<1> QED BY <1>3, <1>4, <1>6, <1>7, <1>10, WriteStep DEF g

\* A function of one value redoes it.
LEMMA OneRedone ==
  ASSUME NEW x, Fine(x), NEW d \in Mem(x), NEW e \in Mem(x), NEW c \in Coords(x),
         NEW how \in {"set", "not"} \cup RegionOps, NEW v \in SUBSET ValueBits,
         Puts(e, d, BitIndex(x, c), Grids!Result(how, Got(x, d, c), v))
  PROVE  Redone(x, d, e, Grids!Box(c[1], c[2], Size(1, 1)), how, [p \in Coords(x) |-> v])
<1> DEFINE u == Grids!Result(how, Got(x, d, c), v)
           B == Grids!Box(c[1], c[2], Size(1, 1))
<1>1. u \in SUBSET ValueBits
  BY GotValue, ResultValue
<1>2. Puts(e, d, BitIndex(x, c), u)
  OBVIOUS
<1>3. Got(x, e, c) = u /\ \A p \in Coords(x) \ {c} : Got(x, e, p) = Got(x, d, p)
  <2> HIDE DEF u
  <2> QED BY <1>1, <1>2, PutAt
<1>4. Clean(x, d) => Clean(x, e)
  <2> HIDE DEF u
  <2> QED BY <1>2, PutClean
<1>5. \A p \in Coords(x) : p \in B <=> p = c
  <2> SUFFICES ASSUME NEW p \in Int \X Int, NEW q \in Int \X Int
               PROVE  p \in Grids!Box(q[1], q[2], Size(1, 1)) <=> p = q
    BY Places DEF Fine
  <2>1. Grids!Box(q[1], q[2], Size(1, 1)) = (q[1] .. q[1]) \X (q[2] .. q[2])
    BY DEF Grids!Box, Size
  <2>2. q[1] .. q[1] = {q[1]} /\ q[2] .. q[2] = {q[2]}
    OBVIOUS
  <2> QED BY <2>1, <2>2
<1> HIDE DEF B
<1>6. \A p \in Coords(x) :
        Got(x, e, p) = IF p \in B THEN Grids!Result(how, Got(x, d, p), v) ELSE Got(x, d, p)
  BY <1>3, <1>5
<1> QED BY <1>4, <1>6 DEF Redone, B

\* bit_set, bit_or and the others that take a value.
LEMMA CombineStep ==
  ASSUME GridsInv, NEW o \in Holders, NEW c \in Coords(obj[o]), NEW v \in Inputs, Combine(o, c, v)
  PROVE  GridsInv' /\ Grids!Next
<1> DEFINE x == obj[o]
           d == obj[o].data
           i == BitIndex(obj[o], c)
<1>1. Fine(x) /\ d \in Mem(x) /\ c \in Coords(x)
  BY HolderHeld
<1>2. v \in BitValues /\ v \in SUBSET ValueBits
  BY BitTableAssumption DEF BitValues
<1>3. PICK how \in {"set"} \cup RegionOps :
        Write(o, OneOp(how, d, i, v), Change(o, c, Size(1, 1), how, v))
  <2>1. \/ Write(o, BitSet(d, i, v), Change(o, c, Size(1, 1), "set", v))
        \/ \E op \in RegionOps : Write(o, BitOp(op, d, i, v), Change(o, c, Size(1, 1), op, v))
    BY DEF Combine
  <2>2. "set" \notin RegionOps
    BY DEF RegionOps
  <2>3. OneOp("set", d, i, v) = BitSet(d, i, v)
    BY DEF OneOp
  <2>4. \A op \in RegionOps : OneOp(op, d, i, v) = BitOp(op, d, i, v)
    BY <2>2 DEF OneOp
  <2> QED BY <2>1, <2>3, <2>4
<1> DEFINE e == OneOp(how, d, i, v)
<1>4. e \in Mem(x)
  <2>1. d \in WordArrays(0 .. WordsOf(x) - 1)
    BY <1>1 DEF Mem
  <2> HIDE DEF x, d, i
  <2>2. OneOp(how, d, i, v) \in WordArrays(0 .. WordsOf(x) - 1)
    BY <2>1, OneOpClosed
  <2> QED BY <2>2 DEF Mem
<1>5. Puts(e, d, i, Grids!Result(how, Got(x, d, c), v))
  <2>1. i = BitIndex(x, c)
    OBVIOUS
  <2> HIDE DEF x, d, i
  <2> QED BY <1>1, <1>2, <2>1, OneOpPuts
<1>6. Redone(x, d, e, Grids!Box(c[1], c[2], Size(1, 1)), how, [p \in Coords(x) |-> v])
  <2>1. i = BitIndex(x, c)
    OBVIOUS
  <2> HIDE DEF x, d, i, e
  <2> QED BY <1>1, <1>2, <1>4, <1>5, <2>1, OneRedone
<1>7. Size(1, 1) \in [w : Nat, h : Nat]
  BY DEF Size
<1> HIDE DEF e
<1> QED BY <1>2, <1>3, <1>6, <1>7, ChangeStep DEF e

\* bit_clear and bit_not.
LEMMA ClearOrNotStep ==
  ASSUME GridsInv, NEW o \in Holders, NEW c \in Coords(obj[o]), ClearOrNot(o, c)
  PROVE  GridsInv' /\ Grids!Next
<1> DEFINE x == obj[o]
           d == obj[o].data
           i == BitIndex(obj[o], c)
<1>1. Fine(x) /\ d \in Mem(x) /\ c \in Coords(x)
  BY HolderHeld
<1>2. {} \in BitValues /\ {} \in SUBSET ValueBits
  BY DEF BitValues
<1>3. PICK e, how : /\ Write(o, e, Change(o, c, Size(1, 1), how, {}))
                    /\ \/ e = BitClear(d, i) /\ how = "set"
                       \/ e = BitNot(d, i) /\ how = "not"
  BY DEF ClearOrNot
<1>4. e \in Mem(x)
  <2>1. d \in WordArrays(0 .. WordsOf(x) - 1)
    BY <1>1 DEF Mem
  <2> HIDE DEF x, d, i
  <2>2. /\ BitClear(d, i) \in WordArrays(0 .. WordsOf(x) - 1)
        /\ BitNot(d, i) \in WordArrays(0 .. WordsOf(x) - 1)
    BY <2>1, WordsClosed
  <2> QED BY <1>3, <2>2 DEF Mem
<1>5. Puts(e, d, i, Grids!Result(how, Got(x, d, c), {}))
  <2>1. i = BitIndex(x, c)
    OBVIOUS
  <2> HIDE DEF x, d, i
  <2>2. i \in Nat /\ Bit(i) + BitCount <= PackBits
    BY <1>1, <2>1, PlacesFit
  <2>3. Got(x, d, c) = BitGet(d, i)
    BY <2>1 DEF Got
  <2>4. /\ Puts(BitClear(d, i), d, i, {})
        /\ Puts(BitNot(d, i), d, i, ValueBits \ BitGet(d, i))
    BY <1>2, <2>2, OneValuePuts
  <2>5. /\ Grids!Result("set", Got(x, d, c), {}) = {}
        /\ Grids!Result("not", Got(x, d, c), {}) = ValueBits \ Got(x, d, c)
    BY DEF Grids!Result
  <2> QED BY <1>3, <2>3, <2>4, <2>5
<1>6. how \in {"set", "not"} \cup RegionOps
  BY <1>3
<1>7. Redone(x, d, e, Grids!Box(c[1], c[2], Size(1, 1)), how, [p \in Coords(x) |-> {}])
  <2>1. i = BitIndex(x, c)
    OBVIOUS
  <2> HIDE DEF x, d, i
  <2> QED BY <1>1, <1>2, <1>4, <1>5, <1>6, <2>1, OneRedone
<1>8. Size(1, 1) \in [w : Nat, h : Nat]
  BY DEF Size
<1> QED BY <1>2, <1>3, <1>6, <1>7, <1>8, ChangeStep

\* The places of a region of an object.
LEMMA RegionInExtent ==
  ASSUME NEW x, Fine(x), NEW r \in Regions(Lo(x), Extent(x))
  PROVE  /\ r.at \in Coords(x) /\ Inside(x, r.at, r.size)
         /\ r.size \in [w : Nat, h : Nat] /\ r.size.w \in Nat \ {0} /\ r.size.h \in Nat \ {0}
<1> DEFINE lo == Lo(x)
           n == Extent(x)
           c == r.at
           s == r.size
<1>1. lo \in Int /\ n.w \in Nat /\ n.h \in Nat
  <2>1. CASE x.kind = "table" /\ x.size \in TableSizes
    BY <2>1, Rows DEF Lo, Extent
  <2>2. CASE x.kind = "cell" /\ x.size \in CellSizes
    BY <2>2, SizesAre DEF Lo, Extent
  <2> QED BY <2>1, <2>2 DEF Fine
<1>2. Coords(x) = (lo .. lo + n.w - 1) \X (lo .. lo + n.h - 1)
  BY DEF Coords, Box
<1>3. /\ c \in (lo .. lo + n.w - 1) \X (lo .. lo + n.h - 1)
      /\ s \in [w : 1 .. n.w, h : 1 .. n.h]
      /\ c[1] + s.w <= lo + n.w /\ c[2] + s.h <= lo + n.h
  BY DEF Regions, Box
<1> HIDE DEF lo, n, c, s
<1>4. /\ s \in [w : Nat, h : Nat] /\ s.w \in Nat \ {0} /\ s.h \in Nat \ {0}
      /\ c[1] \in Int /\ c[2] \in Int /\ lo <= c[1] /\ lo <= c[2]
  BY <1>1, <1>3
<1>5. ASSUME NEW i \in 0 .. s.w - 1, NEW j \in 0 .. s.h - 1
      PROVE  <<c[1] + i, c[2] + j>> \in Coords(x)
  <2>1. c[1] + i \in lo .. lo + n.w - 1
    BY <1>1, <1>3, <1>4
  <2>2. c[2] + j \in lo .. lo + n.h - 1
    BY <1>1, <1>3, <1>4
  <2> QED BY <1>2, <2>1, <2>2
<1> QED BY <1>2, <1>3, <1>4, <1>5 DEF Inside, c, s

\* flip
LEMMA FlipStep ==
  ASSUME GridsInv, NEW o \in Holders, NEW r \in Regions(Lo(obj[o]), Extent(obj[o])), Flip(o, r)
  PROVE  GridsInv' /\ Grids!Next
<1> DEFINE x == obj[o]
           c == r.at
           n == r.size
           e == Flipped(obj[o].data, r.size, AdjIndex(obj[o], r.at))
<1>1. Fine(x) /\ x.data \in Mem(x) /\ r \in Regions(Lo(x), Extent(x))
  BY HolderHeld
<1>2. Write(o, e, Change(o, c, n, "not", {}))
  BY DEF Flip
<1>3. e = Flipped(x.data, n, AdjIndex(x, c))
  OBVIOUS
<1> HIDE DEF x, e
<1>4. /\ c \in Coords(x) /\ Inside(x, c, n)
      /\ n \in [w : Nat, h : Nat] /\ n.w \in Nat \ {0} /\ n.h \in Nat \ {0}
  BY <1>1, RegionInExtent
<1> HIDE DEF c, n
<1>5. Redone(x, x.data, e, Grids!Box(c[1], c[2], n), "not", [p \in Coords(x) |-> {}])
  BY <1>1, <1>3, <1>4, FlippedDone
<1>6. {} \in BitValues
  BY DEF BitValues
<1> QED BY <1>2, <1>4, <1>5, <1>6, ChangeStep DEF x

\* region_or and the others that take one value.
LEMMA RegionOpFillStep ==
  ASSUME GridsInv, NEW o \in Holders, NEW op \in RegionOps, NEW v \in Inputs,
         NEW r \in IndexRegions(obj[o]), RegionOpFill(o, op, v, r)
  PROVE  GridsInv' /\ Grids!Next
<1> DEFINE x == obj[o]
           c == r.at
           n == r.size
           e == Filled(op, obj[o].data, v, r.size, AdjIndex(obj[o], r.at))
<1>1. Fine(x) /\ x.data \in Mem(x) /\ r \in Regions(Lo(x), Extent(x))
  BY HolderHeld DEF IndexRegions
<1>2. Write(o, e, Change(o, c, n, op, v))
  BY DEF RegionOpFill
<1>3. e = Filled(op, x.data, v, n, AdjIndex(x, c))
  OBVIOUS
<1> HIDE DEF x, e
<1>4. /\ c \in Coords(x) /\ Inside(x, c, n)
      /\ n \in [w : Nat, h : Nat] /\ n.w \in Nat \ {0} /\ n.h \in Nat \ {0}
  BY <1>1, RegionInExtent
<1> HIDE DEF c, n
<1>5. v \in BitValues /\ v \in SUBSET ValueBits
  BY BitTableAssumption DEF BitValues
<1>6. Redone(x, x.data, e, Grids!Box(c[1], c[2], n), op, [p \in Coords(x) |-> v])
  BY <1>1, <1>3, <1>4, <1>5, FilledDone
<1> QED BY <1>2, <1>4, <1>5, <1>6, ChangeStep DEF x

\* set_buffer
LEMMA SetBufferStep ==
  ASSUME GridsInv, NEW o \in Tables, NEW v \in Inputs, SetBuffer(o, v)
  PROVE  GridsInv' /\ Grids!Next
<1> DEFINE x == obj[o]
           T == BufferRows(x) \cup BufferColumns(x)
           e == PutAll(x, x.data, v, T)
           k == [op |-> "frame", at |-> o, size |-> x.size, value |-> v]
           g == [p \in Coords(x) |-> Got(x, e, p)]
           B == Coords(x) \ Grids!Box(0, 0, x.size)
<1>1. /\ o \in Objects /\ Held(x) /\ x.data \in Mem(x)
      /\ x.kind = "table" /\ x.size \in TableSizes /\ o \in Holders
  BY HolderHeld DEF Holders
<1>2. v \in BitValues /\ v \in SUBSET ValueBits
  BY BitTableAssumption DEF BitValues
<1>3. Write(o, e, k)
  BY Zenon DEF SetBuffer, PutAll
<1>4. k.op = "frame" /\ k.at = o /\ k.size = x.size /\ k.value = v
  OBVIOUS
<1>5. k \in GridCalls
  <2>1. x.size \in [w : Nat, h : Nat]
    BY <1>1, SizesAre
  <2>2. k \in [op : {"frame"}, at : Objects, size : [w : Nat, h : Nat], value : BitValues]
    BY <1>1, <1>2, <2>1
  <2> QED BY <2>2 DEF GridCalls
<1>6. Redone(x, x.data, e, B, "set", [p \in Coords(x) |-> v])
  <2> HIDE DEF x
  <2> QED BY <1>1, <1>2, BufferDone
<1>7. e \in Mem(x) /\ (Clean(x, x.data) => Clean(x, e))
  BY <1>6 DEF Redone
<1>8. g = Grids!Combined(GridOf(x), B, "set", v)
  <2> DEFINE f == [p \in Coords(x) |-> v]
             how == "set"
  <2>1. Redone(x, x.data, e, B, how, f)
    BY <1>6
  <2> HIDE DEF e
  <2>2. g = GridIn(x, e)
    BY DEF GridIn
  <2> HIDE DEF x
  <2>3. \A q \in Coords(x) : f[q] = v
    OBVIOUS
  <2> HIDE DEF f, g, B, how, T, k
  <2>4. Held(x)
    BY <1>1
  <2>5. GridIn(x, e) = Grids!Combined(GridOf(x), B, how, v)
    BY <2>1, <2>3, <2>4, RedoneGrid
  <2> QED BY <2>2, <2>5 DEF how
<1>9. DOMAIN GridOf(x) = Coords(x)
  <2> HIDE DEF x
  <2> QED BY <1>1, HeldGrid
<1> HIDE DEF k, g, e
<1>10. Grids!Framed(g, k)
  BY <1>1, <1>4, <1>8, <1>9 DEF Grids!Framed
<1>11. Allowed(g, k)
  BY <1>10 DEF Allowed
<1> QED BY <1>1, <1>3, <1>4, <1>5, <1>7, <1>11, WriteStep DEF g

\* word_set
LEMMA WordSetStep ==
  ASSUME GridsInv, NEW o \in Holders, NEW c \in Coords(obj[o]), NEW v \in Memory,
         WordSet(o, Word(BitIndex(obj[o], c)), v)
  PROVE  GridsInv' /\ Grids!Next
<1> DEFINE x == obj[o]
           i == Word(BitIndex(x, c))
           part == PartOf(x, i, v)
           e == [x.data EXCEPT ![i] = v]
           k == [op |-> "word", at |-> o, part |-> part]
           g == [p \in Coords(x) |-> Got(x, e, p)]
<1>1. o \in Objects /\ Held(x) /\ Fine(x) /\ x.data \in Mem(x) /\ c \in Coords(x)
  BY HolderHeld
<1>2. v \in SUBSET WordBits
  BY BitTableAssumption
<1>3. /\ x.kind = "cell" => v \subseteq UNION { LeftShift(ValueBits, j * Stride) : j \in InWord(x, i) }
      /\ Write(o, e, k)
  BY DEF WordSet, PartOf, InWord
<1>4. i \in 0 .. WordsOf(x) - 1
  <2> HIDE DEF x
  <2> QED BY <1>1, PlacesFit
<1>5. k.op = "word" /\ k.at = o /\ k.part = part
  OBVIOUS
<1>6. k \in GridCalls
  <2>1. part \in SUBSET ((Int \X Int) \X BitValues)
    <3> HIDE DEF x, i
    <3> QED BY <1>1, PartsAreValues
  <2> HIDE DEF part
  <2>2. k \in [op : {"word"}, at : Objects, part : SUBSET ((Int \X Int) \X BitValues)]
    BY <1>1, <2>1
  <2> QED BY <2>2 DEF GridCalls
<1>7. /\ e \in Mem(x)
      /\ \A p \in Coords(x) :
           Got(x, e, p) = IF \E t \in part : t[1] = p
                          THEN (CHOOSE t \in part : t[1] = p)[2]
                          ELSE Got(x, x.data, p)
      /\ v \subseteq UNION { LeftShift(ValueBits, j * Stride) : j \in InWord(x, i) }
         /\ Clean(x, x.data) => Clean(x, e)
  <2> HIDE DEF x, i
  <2> QED BY <1>1, <1>2, <1>4, WordDone
<1>8. GridOf(x) = [p \in Coords(x) |-> Got(x, x.data, p)]
  <2> HIDE DEF x
  <2> QED BY <1>1, HeldGrid
<1>9. Grids!Overlaid(g, k)
  <2> HIDE DEF k, e, part
  <2>1. g = [p \in Coords(x) |-> IF \E t \in part : t[1] = p
                                 THEN (CHOOSE t \in part : t[1] = p)[2]
                                 ELSE GridOf(x)[p]]
    <3> HIDE DEF x
    <3> QED BY <1>7, <1>8
  <2>2. DOMAIN GridOf(x) = Coords(x)
    BY <1>8
  <2> QED BY <1>1, <1>5, <2>1, <2>2 DEF Grids!Overlaid
<1>10. Allowed(g, k)
  BY <1>9 DEF Allowed
<1> QED BY <1>1, <1>3, <1>5, <1>6, <1>7, <1>10, WriteStep

-----------------------------------------------------------------------------
(* The calls that move values from one object to another *)

\* Where the corners of a region fit, all of it does.
LEMMA FitsInside ==
  ASSUME NEW o, Fine(obj[o]), NEW c \in Int \X Int, NEW n, n.w \in Nat \ {0}, n.h \in Nat \ {0},
         Fits(o, c, n)
  PROVE  Inside(obj[o], c, n)
<1> DEFINE x == obj[o]
           C == Coords(x)
           lo == Lo(x)
           m == Extent(x)
<1>1. lo \in Int /\ m.w \in Nat /\ m.h \in Nat
  <2>1. Fine(x)
    OBVIOUS
  <2> HIDE DEF x
  <2>2. CASE x.kind = "table" /\ x.size \in TableSizes
    BY <2>2, Rows DEF Lo, Extent
  <2>3. CASE x.kind = "cell" /\ x.size \in CellSizes
    BY <2>3, SizesAre DEF Lo, Extent
  <2> QED BY <2>1, <2>2, <2>3 DEF Fine
<1>2. C = (lo .. lo + m.w - 1) \X (lo .. lo + m.h - 1)
  BY DEF Coords, Box
<1>3. <<c[1] + 0, c[2] + 0>> \in C /\ <<c[1] + (n.w - 1), c[2] + (n.h - 1)>> \in C
  BY DEF Fits
<1> HIDE DEF x, C, lo, m
<1>4. /\ c[1] + 0 \in lo .. lo + m.w - 1 /\ c[2] + 0 \in lo .. lo + m.h - 1
      /\ c[1] + (n.w - 1) \in lo .. lo + m.w - 1 /\ c[2] + (n.h - 1) \in lo .. lo + m.h - 1
  BY <1>2, <1>3
<1>5. ASSUME NEW i \in 0 .. n.w - 1, NEW j \in 0 .. n.h - 1
      PROVE  <<c[1] + i, c[2] + j>> \in C
  <2>1. c[1] + i \in lo .. lo + m.w - 1
    BY <1>1, <1>4
  <2>2. c[2] + j \in lo .. lo + m.h - 1
    BY <1>1, <1>4
  <2> QED BY <1>2, <2>1, <2>2
<1> QED BY <1>5 DEF Inside, C, x

\* The two arrays of a copy; and for each place what is at its counterpart.
TwoOf(q, p, d, b) == [z \in {q, p} |-> IF z = q THEN d ELSE b]
Moved(x, y, b, to, from) ==
  [c \in Coords(x) |-> Got(y, b, <<c[1] - to[1] + from[1], c[2] - to[2] + from[2]>>)]

\* What the loops of copy and region_op do, in these words.
LEMMA DrawnMoves ==
  ASSUME NEW x, Fine(x), NEW y, Fine(y), NEW d \in Mem(x), NEW b \in Mem(y),
         NEW q, NEW p, p = q => x = y /\ b = d,
         NEW how \in {"set"} \cup RegionOps,
         NEW n, n.w \in Nat \ {0}, n.h \in Nat \ {0},
         NEW to \in Coords(x), Inside(x, to, n), NEW from \in Coords(y), Inside(y, from, n),
         NEW e, e = Drawing(how, TwoOf(q, p, d, b), n, p, AdjIndex(y, from), q, AdjIndex(x, to))[q]
  PROVE  /\ e \in Mem(x) /\ (Clean(x, d) => Clean(x, e))
         /\ \A c \in Coords(x) \ Grids!Box(to[1], to[2], n) : Got(x, e, c) = Got(x, d, c)
         /\ ~ Smeared(q, p, to, from, n) =>
              Redone(x, d, e, Grids!Box(to[1], to[2], n), how, Moved(x, y, b, to, from))
  BY DrawnDone DEF TwoOf, Moved

\* A region that is drawn into an object: either it is what the grids say, or the call
\* smears, and then nothing outside the region is changed.
LEMMA DrawStep ==
  ASSUME GridsInv, NEW o \in Holders, NEW p \in Holders,
         NEW how \in {"set"} \cup RegionOps,
         NEW n \in [w : Nat, h : Nat], n.w \in Nat \ {0}, n.h \in Nat \ {0},
         NEW to \in Coords(obj[o]), Inside(obj[o], to, n),
         NEW from \in Coords(obj[p]), Inside(obj[p], from, n),
         NEW e, e = Drawing(how, TwoOf(o, p, obj[o].data, obj[p].data), n,
                            p, AdjIndex(obj[p], from), o, AdjIndex(obj[o], to))[o],
         Write(o, e, [op |-> how, at |-> o, to |-> to, of |-> p, from |-> from, size |-> n])
  PROVE  GridsInv' /\ Grids!Next
<1> DEFINE x == obj[o]
           y == obj[p]
           d == x.data
           b == y.data
           k == [op |-> how, at |-> o, to |-> to, of |-> p, from |-> from, size |-> n]
           g == [c \in Coords(x) |-> Got(x, e, c)]
           B == Grids!Box(to[1], to[2], n)
           f == Moved(x, y, b, to, from)
           grid == [q \in Objects |-> GridOf(obj[q])]
<1>1. /\ o \in Objects /\ Held(x) /\ Fine(x) /\ d \in Mem(x)
      /\ p \in Objects /\ Held(y) /\ Fine(y) /\ b \in Mem(y)
  BY HolderHeld
<1>2. p = o => x = y /\ b = d
  OBVIOUS
<1>3. /\ to \in Coords(x) /\ Inside(x, to, n) /\ from \in Coords(y) /\ Inside(y, from, n)
      /\ e = Drawing(how, TwoOf(o, p, d, b), n, p, AdjIndex(y, from), o, AdjIndex(x, to))[o]
  OBVIOUS
<1>4. Write(o, e, k)
  OBVIOUS
<1>5. /\ k.op = how /\ k.at = o /\ k.to = to /\ k.of = p /\ k.from = from /\ k.size = n
  OBVIOUS
<1> HIDE DEF x, y, d, b
<1>6. to \in Int \X Int /\ from \in Int \X Int
  <2>1. Coords(x) \in SUBSET (Int \X Int) /\ Coords(y) \in SUBSET (Int \X Int)
    BY <1>1, HeldGrid
  <2> QED BY <1>3, <2>1
<1>7. k \in GridCalls
  <2>1. k \in [op : {"set"} \cup RegionOps, at : Objects, to : Int \X Int, of : Objects,
               from : Int \X Int, size : [w : Nat, h : Nat]]
    BY <1>1, <1>6
  <2> QED BY <2>1 DEF GridCalls
<1>8. /\ e \in Mem(x) /\ (Clean(x, d) => Clean(x, e))
      /\ \A c \in Coords(x) \ B : Got(x, e, c) = Got(x, d, c)
      /\ ~ Smeared(o, p, to, from, n) => Redone(x, d, e, B, how, f)
  BY <1>1, <1>2, <1>3, DrawnMoves
<1>9. GridOf(x) = [c \in Coords(x) |-> Got(x, d, c)] /\ GridOf(y) = [c \in Coords(y) |-> Got(y, b, c)]
  BY <1>1, HeldGrid DEF d, b
<1>10. grid[o] = GridOf(x) /\ grid[p] = GridOf(y)
  BY <1>1 DEF x, y
<1>11. how \in {"set", "or", "and", "xor", "nand"}
  BY DEF RegionOps
<1>12. Grids!Smears(k) <=> Smeared(o, p, to, from, n)
  BY <1>5 DEF Grids!Smears, Smeared
<1> HIDE DEF k
<1>13. ASSUME Smeared(o, p, to, from, n) PROVE Allowed(g, k)
  <2>1. g \in [Coords(x) -> SUBSET ValueBits]
    BY <1>1, GotValue
  <2>2. DOMAIN grid[o] = Coords(x) /\ \A c \in Coords(x) \ B : g[c] = grid[o][c]
    <3> HIDE DEF B, grid
    <3> QED BY <1>8, <1>9, <1>10
  <2>3. DOMAIN g = Coords(x)
    OBVIOUS
  <2> HIDE DEF g
  <2>4. Grids!Drawn(g, k)
    BY <1>5, <1>11, <1>12, <1>13, <2>1, <2>2, <2>3 DEF Grids!Drawn
  <2> QED BY <2>4 DEF Allowed
<1>14. ASSUME ~ Smeared(o, p, to, from, n) PROVE Allowed(g, k)
  <2>1. ASSUME NEW c \in Coords(x), c \in B
        PROVE  <<c[1] - to[1] + from[1], c[2] - to[2] + from[2]>> \in Coords(y)
    <3> DEFINE i == c[1] - to[1]
               j == c[2] - to[2]
    <3>1. c[1] \in to[1] .. to[1] + n.w - 1 /\ c[2] \in to[2] .. to[2] + n.h - 1
      BY <2>1 DEF Grids!Box
    <3>2. i \in 0 .. n.w - 1 /\ j \in 0 .. n.h - 1
      BY <1>6, <3>1
    <3>3. <<from[1] + i, from[2] + j>> \in Coords(y)
      <4> HIDE DEF i, j
      <4> QED BY <1>3, <3>2 DEF Inside
    <3>4. from[1] + i = i + from[1] /\ from[2] + j = j + from[2]
      BY <1>6, <3>2
    <3> QED BY <3>3, <3>4
  <2>2. g = [c \in DOMAIN GridOf(x) |->
               IF c \in B
               THEN Grids!Result(how, GridOf(x)[c],
                                 GridOf(y)[<<c[1] - to[1] + from[1], c[2] - to[2] + from[2]>>])
               ELSE GridOf(x)[c]]
    <3>1. \A c \in Coords(x) :
            Got(x, e, c) = IF c \in B THEN Grids!Result(how, Got(x, d, c), f[c]) ELSE Got(x, d, c)
      BY <1>8, <1>14 DEF Redone
    <3>2. \A c \in Coords(x) : c \in B =>
            f[c] = GridOf(y)[<<c[1] - to[1] + from[1], c[2] - to[2] + from[2]>>]
      <4> HIDE DEF B
      <4> QED BY <1>9, <2>1 DEF Moved
    <3> HIDE DEF f, B
    <3> QED BY <1>9, <3>1, <3>2
  <2>3. g = Grids!Stamped(grid[o], grid[p], k)
    <3> HIDE DEF g, grid
    <3> QED BY <1>5, <1>10, <2>2 DEF Grids!Stamped
  <2> HIDE DEF g
  <2>4. Grids!Drawn(g, k)
    BY <1>5, <1>11, <1>12, <1>14, <2>3 DEF Grids!Drawn
  <2> QED BY <2>4 DEF Allowed
<1>15. Allowed(g, k)
  BY <1>13, <1>14
<1> HIDE DEF g
<1>16. e \in Mem(obj[o]) /\ (Clean(obj[o], obj[o].data) => Clean(obj[o], e))
  BY <1>8 DEF x, d
<1>17. Allowed([c \in Coords(obj[o]) |-> Got(obj[o], e, c)], k)
  BY <1>15 DEF g, x
<1> QED BY <1>4, <1>5, <1>7, <1>16, <1>17, WriteStep

\* What a region named by coordinates has is part of the object.
LEMMA OwnInExtent ==
  ASSUME NEW x, Fine(x), NEW r \in Regions(0, x.size)
  PROVE  r \in Regions(Lo(x), Extent(x))
<1>1. CASE x.kind = "table" /\ x.size \in TableSizes
  <2> DEFINE b == BufferSize
             m == x.size
             n == Pad(m)
             c == r.at
             s == r.size
  <2>1. /\ m.w \in Nat /\ m.h \in Nat /\ b \in Nat
        /\ n.w = m.w + 2 * b /\ n.h = m.h + 2 * b
    BY <1>1, Rows
  <2>2. /\ c \in (0 .. 0 + m.w - 1) \X (0 .. 0 + m.h - 1) /\ s \in [w : 1 .. m.w, h : 1 .. m.h]
        /\ c[1] + s.w <= 0 + m.w /\ c[2] + s.h <= 0 + m.h
        /\ r = [at |-> c, size |-> s]
    BY DEF Regions, Box
  <2>3. Lo(x) = -b /\ Extent(x) = n
    BY <1>1 DEF Lo, Extent
  <2> HIDE DEF b, m, n, c, s
  <2>4. c = <<c[1], c[2]>> /\ s = [w |-> s.w, h |-> s.h]
    BY <2>2
  <2>5. c[1] \in (-b) .. (-b) + n.w - 1 /\ c[2] \in (-b) .. (-b) + n.h - 1
    BY <2>1, <2>2
  <2>6. s.w \in 1 .. n.w /\ s.h \in 1 .. n.h
    BY <2>1, <2>2
  <2>7. c[1] + s.w <= (-b) + n.w /\ c[2] + s.h <= (-b) + n.h
    BY <2>1, <2>2
  <2>8. r \in [at : Box(-b, -b, n), size : [w : 1 .. n.w, h : 1 .. n.h]]
    <3>1. c \in Box(-b, -b, n)
      BY <2>4, <2>5 DEF Box
    <3>2. s \in [w : 1 .. n.w, h : 1 .. n.h]
      BY <2>4, <2>6
    <3> QED BY <2>2, <3>1, <3>2
  <2>9. r.at = c /\ r.size = s
    BY <2>2
  <2> QED BY <2>3, <2>7, <2>8, <2>9 DEF Regions
<1>2. CASE x.kind = "cell" /\ x.size \in CellSizes
  BY <1>2 DEF Lo, Extent
<1> QED BY <1>1, <1>2 DEF Fine

\* The two arrays of a copy, by name.
LEMMA TwoArrays ==
  ASSUME NEW o, NEW p
  PROVE  [q \in {o, p} |-> obj[q].data] = TwoOf(o, p, obj[o].data, obj[p].data)
  BY DEF TwoOf

\* copy
LEMMA CopyRegionStep ==
  ASSUME GridsInv, NEW o \in Holders, NEW p \in Holders, NEW c \in Coords(obj[o]),
         NEW r \in OwnRegions(obj[p]), CopyRegion(p, r, o, c)
  PROVE  GridsInv' /\ Grids!Next
<1> DEFINE x == obj[o]
           y == obj[p]
           n == r.size
           from == r.at
           m == TwoOf(o, p, obj[o].data, obj[p].data)
           e == Drawing("set", m, n, p, AdjIndex(y, from), o, AdjIndex(x, c))[o]
<1>1. Fine(x) /\ Fine(y) /\ Held(x) /\ c \in Coords(x)
  BY HolderHeld
<1>2. /\ Fits(o, c, n)
      /\ Write(o, e, [op |-> "set", at |-> o, to |-> c, of |-> p, from |-> from, size |-> n])
  BY TwoArrays DEF CopyRegion, Drawing, Draw
<1>3. r \in Regions(Lo(y), Extent(y))
  <2>1. r \in Regions(0, y.size)
    BY DEF OwnRegions
  <2> HIDE DEF x, y, n, from
  <2> QED BY <1>1, <2>1, OwnInExtent
<1>4. /\ from \in Coords(y) /\ Inside(y, from, n)
      /\ n \in [w : Nat, h : Nat] /\ n.w \in Nat \ {0} /\ n.h \in Nat \ {0}
  <2> HIDE DEF y
  <2> QED BY <1>1, <1>3, RegionInExtent
<1>5. c \in Int \X Int
  <2> HIDE DEF x
  <2>1. Coords(x) \in SUBSET (Int \X Int)
    BY <1>1, HeldGrid
  <2> QED BY <1>1, <2>1
<1>6. Inside(x, c, n)
  <2> HIDE DEF n
  <2> QED BY <1>1, <1>2, <1>4, <1>5, FitsInside
<1>7. "set" \in {"set"} \cup RegionOps
  OBVIOUS
<1> HIDE DEF n, from
<1> QED BY <1>1, <1>2, <1>4, <1>6, <1>7, DrawStep

\* region_or and the others that take a table or a cell.
LEMMA RegionOpStep ==
  ASSUME GridsInv, NEW o \in Holders, NEW p \in Holders, NEW c \in Coords(obj[o]),
         NEW op \in RegionOps, RegionOp(op, p, o, c)
  PROVE  GridsInv' /\ Grids!Next
<1> DEFINE x == obj[o]
           y == obj[p]
           n == y.size
           from == <<0, 0>>
           m == TwoOf(o, p, obj[o].data, obj[p].data)
           e == Drawing(op, m, n, p, AdjIndex(y, from), o, AdjIndex(x, c))[o]
           r == [at |-> from, size |-> n]
<1>1. Fine(x) /\ Fine(y) /\ Held(x) /\ c \in Coords(x)
  BY HolderHeld
<1>2. op # "set"
  BY DEF RegionOps
<1>3. /\ Fits(o, c, n)
      /\ Write(o, e, [op |-> op, at |-> o, to |-> c, of |-> p, from |-> from, size |-> n])
  BY <1>2, TwoArrays DEF RegionOp, Drawing, Draw
<1>4. n \in TableSizes \cup CellSizes
  BY <1>1 DEF Fine
<1>5. r \in Regions(0, n)
  <2> HIDE DEF n
  <2>1. n.w \in Nat \ {0} /\ n.h \in Nat \ {0} /\ n = [w |-> n.w, h |-> n.h]
    BY <1>4, SizesAre
  <2>2. 0 \in 0 .. 0 + n.w - 1 /\ 0 \in 0 .. 0 + n.h - 1 /\ n.w \in 1 .. n.w /\ n.h \in 1 .. n.h
        /\ 0 + n.w <= 0 + n.w /\ 0 + n.h <= 0 + n.h
    BY <2>1
  <2>3. from \in Box(0, 0, n) /\ n \in [w : 1 .. n.w, h : 1 .. n.h]
    BY <2>1, <2>2 DEF Box
  <2>4. r.at = from /\ r.size = n /\ from[1] = 0 /\ from[2] = 0
    OBVIOUS
  <2>5. r \in [at : Box(0, 0, n), size : [w : 1 .. n.w, h : 1 .. n.h]]
    BY <2>3
  <2> QED BY <2>2, <2>4, <2>5 DEF Regions
<1>6. r.at = from /\ r.size = n
  OBVIOUS
<1> HIDE DEF r
<1>7. r \in Regions(Lo(y), Extent(y))
  <2> HIDE DEF y, n
  <2> QED BY <1>1, <1>5, OwnInExtent DEF n
<1>8. /\ from \in Coords(y) /\ Inside(y, from, n)
      /\ n \in [w : Nat, h : Nat] /\ n.w \in Nat \ {0} /\ n.h \in Nat \ {0}
  <2> HIDE DEF y, n, from
  <2> QED BY <1>1, <1>6, <1>7, RegionInExtent
<1>9. c \in Int \X Int
  <2> HIDE DEF x
  <2>1. Coords(x) \in SUBSET (Int \X Int)
    BY <1>1, HeldGrid
  <2> QED BY <1>1, <2>1
<1>10. Inside(x, c, n)
  <2> HIDE DEF n
  <2> QED BY <1>1, <1>3, <1>8, <1>9, FitsInside
<1> HIDE DEF n, from
<1> QED BY <1>1, <1>3, <1>8, <1>10, DrawStep

-----------------------------------------------------------------------------
(* Making objects, copying them and giving them up *)

\* The size of a table with its buffer.
LEMMA PadSize ==
  ASSUME NEW n \in TableSizes
  PROVE  Pad(n) \in [w : Nat, h : Nat] /\ -BufferSize \in Int
<1>1. n.w \in Nat /\ n.h \in Nat /\ BufferSize \in Nat
  BY Rows
<1>2. n.w + 2 * BufferSize \in Nat /\ n.h + 2 * BufferSize \in Nat
  BY <1>1
<1> QED BY <1>1, <1>2 DEF Pad, Size

\* setup()
LEMMA SetupStep ==
  ASSUME GridsInv, NEW o \in Objects, NEW n \in TableSizes, Setup(o, n)
  PROVE  GridsInv' /\ Grids!Next
<1> DEFINE d == Words(TableWords(n), {})
           y == Table(n, d)
           k == Make(o, -BufferSize, Pad(n), {})
<1>1. d \in WordArrays(0 .. TableWords(n) - 1) /\ \A i \in DOMAIN d : d[i] = {}
  <2>1. {} \in SUBSET WordBits
    OBVIOUS
  <2>2. d \in WordArrays(0 .. TableWords(n) - 1)
    BY <2>1, WordsAre
  <2> QED BY <2>2 DEF Words
<1>2. Become(o, y, k)
  BY DEF Setup
<1> HIDE DEF d
<1>3. /\ Held(y) /\ Fine(y) /\ y.data = d /\ d \in Mem(y)
      /\ Coords(y) = Grids!Box(-BufferSize, -BufferSize, Pad(n))
  BY <1>1, TableHeld
<1> HIDE DEF y
<1>4. \A p \in Coords(y) : Got(y, d, p) = {}
  BY <1>1, <1>3, ZeroDone
<1>5. GridOf(y) = [p \in Grids!Box(-BufferSize, -BufferSize, Pad(n)) |-> {}]
  BY <1>3, <1>4, HeldGrid
<1>6. /\ k.op = "make" /\ k.at = o /\ k.lo = -BufferSize /\ k.size = Pad(n) /\ k.value = {}
      /\ k \in GridCalls
  <2>1. {} \in BitValues
    BY DEF BitValues
  <2>2. Pad(n) \in [w : Nat, h : Nat] /\ -BufferSize \in Int
    BY PadSize
  <2>3. k \in [op : {"make"}, at : Objects, lo : Int, size : [w : Nat, h : Nat], value : BitValues]
    BY <2>1, <2>2 DEF Make
  <2> QED BY <2>3 DEF Make, GridCalls
<1> HIDE DEF k
<1>7. Grids!Made(GridOf(y), k)
  BY <1>5, <1>6 DEF Grids!Made
<1>8. Allowed(GridOf(y), k)
  BY <1>7 DEF Allowed
<1> QED BY <1>2, <1>3, <1>6, <1>8, BecomeStep

\* setup() on memory of the client.
LEMMA SetupOnStep ==
  ASSUME GridsInv, NEW o \in Objects, NEW n \in TableSizes, SetupOn(o, n)
  PROVE  GridsInv' /\ Grids!Next
<1> DEFINE k == [op |-> "found", at |-> o, lo |-> -BufferSize, size |-> Pad(n)]
<1>1. PICK w \in Memory : Become(o, Table(n, Words(TableWords(n), w)), k)
  BY DEF SetupOn
<1> DEFINE d == Words(TableWords(n), w)
           y == Table(n, d)
<1>2. Become(o, y, k)
  BY <1>1
<1>3. d \in WordArrays(0 .. TableWords(n) - 1)
  <2>1. w \in SUBSET WordBits
    BY BitTableAssumption
  <2> QED BY <2>1, WordsAre
<1> HIDE DEF d
<1>4. /\ Held(y) /\ Coords(y) = Grids!Box(-BufferSize, -BufferSize, Pad(n))
  BY <1>3, TableHeld
<1> HIDE DEF y
<1>5. GridOf(y) \in [Grids!Box(-BufferSize, -BufferSize, Pad(n)) -> SUBSET ValueBits]
  BY <1>4, HeldGrid
<1>6. k.op = "found" /\ k.at = o /\ k.lo = -BufferSize /\ k.size = Pad(n)
  OBVIOUS
<1>7. k \in GridCalls
  <2>1. -BufferSize \in Int /\ Pad(n) \in [w : Nat, h : Nat]
    BY PadSize
  <2>2. k \in [op : {"found"}, at : Objects, lo : Int, size : [w : Nat, h : Nat]]
    BY <2>1
  <2> QED BY <2>2 DEF GridCalls
<1> HIDE DEF k
<1>8. Grids!Found(GridOf(y), k)
  BY <1>5, <1>6 DEF Grids!Found
<1>9. Allowed(GridOf(y), k)
  BY <1>8 DEF Allowed
<1> QED BY <1>2, <1>4, <1>6, <1>7, <1>9, BecomeStep

\* An object with the grid of another.
LEMMA DuplicateStep ==
  ASSUME GridsInv, NEW o \in Objects, NEW p \in Objects, NEW y, Held(y), GridOf(y) = GridOf(obj[p]),
         Become(o, y, Duplicate(o, p))
  PROVE  GridsInv' /\ Grids!Next
<1> DEFINE k == Duplicate(o, p)
           grid == [q \in Objects |-> GridOf(obj[q])]
<1>1. k.op = "duplicate" /\ k.at = o /\ k.of = p /\ k \in GridCalls
  BY DEF Duplicate, GridCalls
<1>2. Become(o, y, k)
  OBVIOUS
<1>3. grid[k.of] = GridOf(y)
  BY <1>1
<1> HIDE DEF k
<1>4. Grids!Copied(GridOf(y), k)
  BY <1>1, <1>3 DEF Grids!Copied
<1>5. Allowed(GridOf(y), k)
  BY <1>4 DEF Allowed
<1> QED BY <1>1, <1>2, <1>5, BecomeStep

\* The copy constructors.
LEMMA CopyStep ==
  ASSUME GridsInv, NEW o \in Objects, NEW p \in Holders, Become(o, obj[p], Duplicate(o, p))
  PROVE  GridsInv' /\ Grids!Next
<1>1. p \in Objects /\ Held(obj[p])
  BY HolderHeld
<1> QED BY <1>1, DuplicateStep

\* setup() with another table.
LEMMA SetupCopyStep ==
  ASSUME GridsInv, NEW o \in Objects, NEW p \in Tables \ {o}, SetupCopy(o, p)
  PROVE  GridsInv' /\ Grids!Next
<1> DEFINE x == obj[p]
           n == x.size
           z == Words(TableWords(n), {})
           new == Table(n, z)
           c == <<-BufferSize, -BufferSize>>
           start == AdjIndex(x, c)
           m == TwoOf(o, p, new.data, x.data)
           e == Drawing("set", m, Pad(n), p, start, o, start)[o]
           y == [new EXCEPT !.data = e]
<1>1. /\ p \in Objects /\ p # o /\ Held(x) /\ Fine(x) /\ x.data \in Mem(x)
      /\ x.kind = "table" /\ n \in TableSizes
  BY HolderHeld DEF Holders
<1>2. Become(o, y, Duplicate(o, p))
  BY DEF SetupCopy, Drawing, TwoOf
<1> HIDE DEF x
<1>3. z \in WordArrays(0 .. TableWords(n) - 1)
  <2>1. {} \in SUBSET WordBits
    OBVIOUS
  <2> QED BY <2>1, WordsAre
<1> HIDE DEF z
<1>4. /\ Held(new) /\ Fine(new) /\ new.kind = "table" /\ new.size = n /\ new.data = z /\ z \in Mem(new)
      /\ Coords(new) = Grids!Box(-BufferSize, -BufferSize, Pad(n))
  BY <1>1, <1>3, TableHeld
<1> HIDE DEF new
<1>5. /\ Coords(new) = Coords(x) /\ Mem(new) = Mem(x)
      /\ \A d, a : Got(new, d, a) = Got(x, d, a)
  BY <1>1, <1>4, SamePlaces
<1>6. AdjIndex(new, c) = start
  BY <1>1, <1>4 DEF AdjIndex, BitIndex, TableIndex, RowBits
<1>7. /\ Pad(n).w \in Nat \ {0} /\ Pad(n).h \in Nat \ {0} /\ BufferSize \in Nat
  BY <1>1, Rows
<1>8. c \in Coords(x) /\ Inside(x, c, Pad(n)) /\ Inside(new, c, Pad(n))
  <2> DEFINE b == BufferSize
             w == Pad(n).w
             h == Pad(n).h
  <2>1. Coords(x) = ((-b) .. (-b) + w - 1) \X ((-b) .. (-b) + h - 1)
    BY <1>4, <1>5 DEF Grids!Box
  <2>2. w \in Nat \ {0} /\ h \in Nat \ {0} /\ b \in Nat /\ c[1] = -b /\ c[2] = -b
    BY <1>7
  <2> HIDE DEF b, w, h
  <2>3. c \in Coords(x)
    <3>1. -b \in (-b) .. (-b) + w - 1 /\ -b \in (-b) .. (-b) + h - 1
      BY <2>2
    <3> QED BY <2>1, <3>1 DEF b
  <2> HIDE DEF c
  <2>4. ASSUME NEW i \in 0 .. w - 1, NEW j \in 0 .. h - 1
        PROVE  <<c[1] + i, c[2] + j>> \in Coords(x)
    <3>1. c[1] + i \in (-b) .. (-b) + w - 1 /\ c[2] + j \in (-b) .. (-b) + h - 1
      BY <2>2
    <3> QED BY <2>1, <3>1
  <2> QED BY <1>5, <2>3, <2>4 DEF Inside, w, h
<1>9. m = TwoOf(o, p, z, x.data)
  BY <1>4
<1>10. e = Drawing("set", m, Pad(n), p, AdjIndex(x, c), o, AdjIndex(new, c))[o]
  BY <1>6
<1>11. e \in Mem(new)
       /\ (~ Smeared(o, p, c, c, Pad(n)) =>
            Redone(new, z, e, Grids!Box(c[1], c[2], Pad(n)), "set", Moved(new, x, x.data, c, c)))
  <2> HIDE DEF c, e, m, start
  <2>1. c \in Coords(new)
    BY <1>5, <1>8
  <2>2. "set" \in {"set"} \cup RegionOps /\ (p = o => new = x /\ x.data = z)
    BY <1>1
  <2>3. e = Drawing("set", TwoOf(o, p, z, x.data), Pad(n), p, AdjIndex(x, c), o, AdjIndex(new, c))[o]
    BY <1>9, <1>10
  <2> QED BY <1>1, <1>4, <1>7, <1>8, <2>1, <2>2, <2>3, DrawnMoves
<1>12. ~ Smeared(o, p, c, c, Pad(n))
  BY <1>1 DEF Smeared
<1>13. Coords(x) \in SUBSET (Int \X Int)
  BY <1>1, HeldGrid
<1>14. \A a \in Coords(x) : <<a[1] - c[1] + c[1], a[2] - c[2] + c[2]>> = a
  <2> SUFFICES ASSUME NEW a \in Coords(x)
               PROVE  <<a[1] - c[1] + c[1], a[2] - c[2] + c[2]>> = a
    OBVIOUS
  <2>1. a \in Int \X Int /\ c[1] = -BufferSize /\ c[2] = -BufferSize
    BY <1>13
  <2>2. a[1] - c[1] + c[1] = a[1] /\ a[2] - c[2] + c[2] = a[2] /\ a = <<a[1], a[2]>>
    BY <1>7, <2>1
  <2> QED BY <2>2
<1>15. c[1] = -BufferSize /\ c[2] = -BufferSize
  OBVIOUS
<1> HIDE DEF e, c
<1>16. \A a \in Coords(x) : Got(x, e, a) = Got(x, x.data, a)
  <2> SUFFICES ASSUME NEW a \in Coords(x) PROVE Got(x, e, a) = Got(x, x.data, a)
    OBVIOUS
  <2> DEFINE f == Moved(new, x, x.data, c, c)
             B == Grids!Box(c[1], c[2], Pad(n))
  <2>1. Redone(new, z, e, B, "set", f)
    BY <1>11, <1>12
  <2>2. a \in Coords(new) /\ a \in B
    BY <1>4, <1>5, <1>15
  <2>3. f[a] = Got(x, x.data, a)
    BY <1>14, <2>2, <1>5 DEF Moved
  <2> HIDE DEF f, B
  <2>4. Got(new, e, a) = Grids!Result("set", Got(new, z, a), f[a])
    BY <2>1, <2>2 DEF Redone
  <2>5. Grids!Result("set", Got(new, z, a), f[a]) = f[a]
    BY DEF Grids!Result
  <2> QED BY <1>5, <2>3, <2>4, <2>5
<1>17. Held(y) /\ GridOf(y) = [a \in Coords(new) |-> Got(new, e, a)]
  <2>1. e \in Mem(new) /\ ~ (new.kind = "cell")
    BY <1>4, <1>11
  <2> QED BY <1>4, <2>1, WriteHeld
<1> HIDE DEF y
<1>18. GridOf(y) = GridOf(x)
  <2>1. GridOf(x) = [a \in Coords(x) |-> Got(x, x.data, a)]
    BY <1>1, HeldGrid
  <2> QED BY <1>5, <1>16, <1>17, <2>1
<1> QED BY <1>1, <1>2, <1>17, <1>18, DuplicateStep DEF x

\* construct()
LEMMA ConstructStep ==
  ASSUME GridsInv, NEW o \in Objects, NEW n \in CellSizes, NEW v \in BOOLEAN, Construct(o, n, v)
  PROVE  GridsInv' /\ Grids!Next
<1> DEFINE d == IF v THEN OnesWords(n) ELSE Words(CellWords(n), {})
           u == IF v THEN ValueBits ELSE {}
           y == Cell(n, d)
           k == Make(o, 0, n, u)
<1>1. Become(o, y, k)
  <2>1. [i \in 0 .. CellWords(n) - 1 |->
           LET w == IF v THEN WordBits ELSE {}
           IN  IF i = CellWords(n) - 1 THEN w \cap RightShift(WordBits, Unused(n)) ELSE w] = d
    <3>1. CASE v
      BY <3>1 DEF OnesWords
    <3>2. CASE ~ v
      BY <3>2 DEF Words
    <3> QED BY <3>1, <3>2
  <2> HIDE DEF d
  <2> QED BY <2>1 DEF Construct, MadeCell
<1>2. d \in WordArrays(0 .. CellWords(n) - 1)
  <2>1. OnesWords(n) \in WordArrays(0 .. CellWords(n) - 1)
    BY DEF OnesWords, WordArrays
  <2>2. Words(CellWords(n), {}) \in WordArrays(0 .. CellWords(n) - 1)
    <3>1. {} \in SUBSET WordBits
      OBVIOUS
    <3> QED BY <3>1, WordsAre
  <2> QED BY <2>1, <2>2
<1>3. ~ v => \A i \in DOMAIN d : d[i] = {}
  BY DEF Words
<1>4. v => d = OnesWords(n)
  OBVIOUS
<1> HIDE DEF d
<1>5. /\ Fine(y) /\ y.kind = "cell" /\ y.size = n /\ y.data = d /\ d \in Mem(y)
      /\ Coords(y) = Grids!Box(0, 0, n) /\ ((Tight => Clean(y, d)) => Held(y))
  BY <1>2, CellHeld
<1> HIDE DEF y
<1>6. (Tight => Clean(y, d)) /\ \A p \in Coords(y) : Got(y, d, p) = u
  <2>1. CASE v
    BY <1>4, <1>5, <2>1, OnesDone
  <2>2. CASE ~ v
    BY <1>3, <1>5, <2>2, ZeroDone
  <2> QED BY <2>1, <2>2
<1>7. Held(y)
  BY <1>5, <1>6
<1>8. GridOf(y) = [p \in Grids!Box(0, 0, n) |-> u]
  BY <1>5, <1>6, <1>7, HeldGrid
<1>9. /\ k.op = "make" /\ k.at = o /\ k.lo = 0 /\ k.size = n /\ k.value = u
      /\ k \in GridCalls
  <2>1. u \in BitValues
    BY DEF BitValues
  <2>2. n \in [w : Nat, h : Nat]
    BY SizesAre
  <2> HIDE DEF u
  <2>3. k \in [op : {"make"}, at : Objects, lo : Int, size : [w : Nat, h : Nat], value : BitValues]
    BY <2>1, <2>2 DEF Make
  <2> QED BY <2>3 DEF Make, GridCalls
<1> HIDE DEF k, u
<1>10. Grids!Made(GridOf(y), k)
  BY <1>8, <1>9 DEF Grids!Made
<1>11. Allowed(GridOf(y), k)
  BY <1>10 DEF Allowed
<1> QED BY <1>1, <1>7, <1>9, <1>11, BecomeStep

\* The destructors, and clear().
LEMMA DropStep ==
  ASSUME GridsInv, NEW o \in Objects, Drop(o)
  PROVE  GridsInv' /\ Grids!Next
<1> DEFINE k == [op |-> "drop", at |-> o]
<1>1. Become(o, None, k)
  BY DEF Drop
<1>2. k.op = "drop" /\ k.at = o /\ k \in GridCalls
  BY DEF GridCalls
<1>3. Idle(None) /\ GridOf(None) = << >>
  BY IdleGrid DEF Idle
<1> HIDE DEF k
<1>4. Allowed(GridOf(None), k)
  BY <1>2, <1>3 DEF Allowed, Grids!Dropped
<1> QED BY <1>1, <1>2, <1>3, <1>4, BecomeStep

\* setup(), when there is no memory for the new size.
LEMMA SetupThrowsStep ==
  ASSUME GridsInv, NEW o \in Objects, NEW n \in TableSizes, SetupThrows(o, n)
  PROVE  GridsInv' /\ Grids!Next
<1> DEFINE k == [op |-> "lose", at |-> o]
           y == Torn(n, obj[o])
<1>1. Become(o, y, k)
  BY DEF SetupThrows
<1>2. k.op = "lose" /\ k.at = o /\ k \in GridCalls
  BY DEF GridCalls
<1>3. /\ y.kind = "torn" /\ y.size = n
      /\ y.data = IF obj[o].kind \in {"table", "torn"} THEN obj[o].data ELSE << >>
  BY DEF Torn
<1> HIDE DEF y, k
<1>4. TornType(y)
  <2>1. CASE obj[o].kind = "table"
    <3>1. o \in Tables /\ o \in Holders
      BY <2>1 DEF Tables, Holders
    <3>2. obj[o].size \in TableSizes /\ obj[o].data \in Mem(obj[o])
      BY <3>1, HolderHeld
    <3>3. obj[o].data \in [0 .. TableWords(obj[o].size) - 1 -> SUBSET WordBits]
      BY <2>1, <3>2 DEF Mem, WordsOf, WordArrays
    <3> QED BY <1>3, <2>1, <3>2, <3>3 DEF TornType
  <2>2. CASE obj[o].kind = "torn"
    <3>1. ~ Held(obj[o])
      BY <2>2, HeldGrid
    <3>2. TornType(obj[o])
      BY <2>2, <3>1 DEF GridsInv, Idle, None, Shell
    <3> QED BY <1>3, <2>2, <3>2 DEF TornType
  <2>3. CASE obj[o].kind \notin {"table", "torn"}
    BY <1>3, <2>3 DEF TornType
  <2> QED BY <2>1, <2>2, <2>3
<1>5. Idle(y) /\ GridOf(y) = << >>
  BY <1>4, IdleGrid DEF Idle
<1>6. Allowed(GridOf(y), k)
  BY <1>2, <1>5 DEF Allowed, Grids!Dropped
<1> QED BY <1>1, <1>2, <1>5, <1>6, BecomeStep

\* The moves.
LEMMA MoveStep ==
  ASSUME GridsInv, NEW o \in Objects, NEW p \in (Tables \cup Torns) \ {o}, Move(o, p)
  PROVE  GridsInv' /\ Grids!Next
<1> DEFINE k == [op |-> "move", at |-> o, of |-> p]
           grid == [q \in Objects |-> GridOf(obj[q])]
<1>1. p \in Objects /\ p # o
  BY DEF Tables, Torns
<1>2. /\ calls < MaxCalls /\ calls' = calls + 1 /\ call' = k
      /\ obj' = [obj EXCEPT ![o] = obj[p], ![p] = Shell]
  BY DEF Move
<1>3. DOMAIN obj = Objects /\ calls \in 0 .. MaxCalls
  BY DEF GridsInv
<1>4. /\ DOMAIN obj' = Objects
      /\ \A q \in Objects : obj'[q] = IF q = p THEN Shell ELSE IF q = o THEN obj[p] ELSE obj[q]
  BY <1>1, <1>2, <1>3
<1>5. GridsInv'
  <2>1. calls' \in 0 .. MaxCalls
    BY <1>2, <1>3, BitTableAssumption
  <2>2. \A q \in Objects : Idle(obj'[q]) \/ Held(obj'[q])
    BY <1>1, <1>4 DEF GridsInv, Idle
  <2> QED BY <1>4, <2>1, <2>2 DEF GridsInv
<1>6. GridOf(Shell) = << >>
  BY IdleGrid DEF Idle
<1>7. grid' = [grid EXCEPT ![o] = grid[p], ![p] = << >>]
  BY <1>1, <1>4, <1>6
<1>8. k.op = "move" /\ k.at = o /\ k.of = p /\ k \in GridCalls
  BY <1>1 DEF GridCalls
<1> HIDE DEF k, grid
<1>9. Grids!Move(k)
  BY <1>7, <1>8 DEF Grids!Move, grid
<1> QED BY <1>2, <1>5, <1>8, <1>9 DEF Grids!Next

-----------------------------------------------------------------------------
(* The invariant, and what follows *)

\* Making, copying, moving and giving up.
LEMMA MakingGrids ==
  ASSUME GridsInv, Making
  PROVE  GridsInv' /\ Grids!Next
<1>1. PICK o \in Objects :
        \/ \E n \in TableSizes : Setup(o, n) \/ SetupThrows(o, n) \/ SetupOn(o, n)
        \/ \E p \in Tables \ {o} : SetupCopy(o, p) \/ SetupCopyThrows(o, p)
        \/ \E p \in (Tables \cup Torns) \ {o} : Move(o, p)
        \/ \E p \in Tables : CopyTable(o, p)
        \/ \E n \in CellSizes, v \in BOOLEAN : Construct(o, n, v)
        \/ \E p \in Cells : CopyCell(o, p)
        \/ Drop(o)
  BY DEF Making
<1>2. CASE \E n \in TableSizes : Setup(o, n) \/ SetupThrows(o, n) \/ SetupOn(o, n)
  BY <1>2, SetupStep, SetupThrowsStep, SetupOnStep
<1>3. CASE \E p \in Tables \ {o} : SetupCopy(o, p) \/ SetupCopyThrows(o, p)
  <2>1. ASSUME NEW p \in Tables \ {o} PROVE obj[p].size \in TableSizes
    BY HolderHeld DEF Holders
  <2> QED BY <1>3, <2>1, SetupCopyStep, SetupThrowsStep DEF SetupCopyThrows
<1>4. CASE \E p \in (Tables \cup Torns) \ {o} : Move(o, p)
  BY <1>4, MoveStep
<1>5. CASE \E p \in Tables : CopyTable(o, p)
  <2>1. Tables \subseteq Holders
    BY DEF Holders
  <2> QED BY <1>5, <2>1, CopyStep DEF CopyTable
<1>6. CASE \E n \in CellSizes, v \in BOOLEAN : Construct(o, n, v)
  BY <1>6, ConstructStep
<1>7. CASE \E p \in Cells : CopyCell(o, p)
  <2>1. Cells \subseteq Holders
    BY DEF Holders
  <2> QED BY <1>7, <2>1, CopyStep DEF CopyCell
<1>8. CASE Drop(o)
  BY <1>8, DropStep
<1> QED BY <1>1, <1>2, <1>3, <1>4, <1>5, <1>6, <1>7, <1>8

\* Changing values.
LEMMA ChangingGrids ==
  ASSUME GridsInv, Changing
  PROVE  GridsInv' /\ Grids!Next
<1>1. ASSUME NEW o \in Holders, NEW c \in Coords(obj[o]),
             \/ ClearOrNot(o, c)
             \/ \E v \in Inputs : Combine(o, c, v)
             \/ \E v \in Memory : WordSet(o, Word(BitIndex(obj[o], c)), v)
      PROVE  GridsInv' /\ Grids!Next
  BY <1>1, ClearOrNotStep, CombineStep, WordSetStep
<1>2. ASSUME NEW o \in Holders, NEW r \in Regions(Lo(obj[o]), Extent(obj[o])), Flip(o, r)
      PROVE  GridsInv' /\ Grids!Next
  BY <1>2, FlipStep
<1>3. ASSUME NEW o \in Holders, NEW r \in IndexRegions(obj[o]), NEW op \in RegionOps, NEW v \in Inputs,
             RegionOpFill(o, op, v, r)
      PROVE  GridsInv' /\ Grids!Next
  BY <1>3, RegionOpFillStep
<1>4. ASSUME NEW o \in Tables, NEW v \in Inputs, SetBuffer(o, v)
      PROVE  GridsInv' /\ Grids!Next
  BY <1>4, SetBufferStep
<1>5. ASSUME NEW o \in Holders, NEW p \in Holders, NEW c \in Coords(obj[o]),
             NEW r \in OwnRegions(obj[p]), CopyRegion(p, r, o, c)
      PROVE  GridsInv' /\ Grids!Next
  BY <1>5, CopyRegionStep
<1>6. ASSUME NEW o \in Holders, NEW p \in Holders, NEW c \in Coords(obj[o]), NEW op \in RegionOps,
             RegionOp(op, p, o, c)
      PROVE  GridsInv' /\ Grids!Next
  BY <1>6, RegionOpStep
<1> QED BY <1>1, <1>2, <1>3, <1>4, <1>5, <1>6 DEF Changing

\* It holds at first,
LEMMA GridsInvInit == Init => GridsInv
<1> SUFFICES ASSUME Init PROVE GridsInv
  OBVIOUS
<1>1. obj = [o \in Objects |-> None] /\ calls = 0
  BY DEF Init
<1>2. 0 \in 0 .. MaxCalls
  BY BitTableAssumption
<1> QED BY <1>1, <1>2 DEF GridsInv, Idle

\* every call keeps it, and does what the grids say.
LEMMA GridsStep == GridsInv /\ [Next]_vars => GridsInv' /\ [Grids!Next]_(Grids!vars)
<1> SUFFICES ASSUME GridsInv, [Next]_vars
             PROVE  GridsInv' /\ [Grids!Next]_(Grids!vars)
  OBVIOUS
<1>1. CASE Making
  BY <1>1, MakingGrids
<1>2. CASE Changing
  BY <1>2, ChangingGrids
<1>3. CASE UNCHANGED vars
  <2>1. obj' = obj /\ call' = call /\ calls' = calls
    BY <1>3 DEF vars
  <2>2. GridsInv'
    BY <2>1 DEF GridsInv
  <2>3. UNCHANGED Grids!vars
    BY <2>1 DEF Grids!vars
  <2> QED BY <2>2, <2>3
<1> QED BY <1>1, <1>2, <1>3 DEF Next

LEMMA GridsInvariant == Spec => []GridsInv
<1>1. GridsInv /\ [Next]_vars => GridsInv'
  BY GridsStep
<1> QED BY <1>1, GridsInvInit, PTL DEF Spec

\* An object always has the words that its kind and size call for, whatever was copied,
\* moved or written, in words, values, buffers and sizes of every width; only a table
\* whose setup() threw may not, and it keeps the words of some table, or none.
THEOREM TypeCorrect == Spec => []TypeOK
<1>1. GridsInv => TypeOK
  <2> SUFFICES ASSUME GridsInv, NEW o \in Objects
               PROVE  \/ obj[o] \in {None, Shell} \/ TornType(obj[o])
                      \/ /\ obj[o].kind = "table" /\ obj[o].size \in TableSizes
                         /\ obj[o].data \in [0 .. TableWords(obj[o].size) - 1 -> SUBSET WordBits]
                      \/ /\ obj[o].kind = "cell" /\ obj[o].size \in CellSizes
                         /\ obj[o].data \in [0 .. CellWords(obj[o].size) - 1 -> SUBSET WordBits]
    BY DEF TypeOK, GridsInv
  <2> DEFINE x == obj[o]
  <2>1. Idle(x) \/ (Fine(x) /\ x.data \in Mem(x))
    BY DEF GridsInv, Held
  <2> HIDE DEF x
  <2>2. CASE x.kind = "table" /\ x.size \in TableSizes /\ x.data \in Mem(x)
    BY <2>2 DEF Mem, WordsOf, WordArrays, x
  <2>3. CASE x.kind = "cell" /\ x.size \in CellSizes /\ x.data \in Mem(x)
    BY <2>3 DEF Mem, WordsOf, WordArrays, x
  <2> QED BY <2>1, <2>2, <2>3 DEF Fine, Idle, x
<1> QED BY <1>1, GridsInvariant, PTL

\* Every call, of one value, a word, a region or a buffer, changes the values of the grid
\* that it is asked to change, to what its name says, and no other value of any object:
\* bit_index, the loops of bit_ops and set_buffer agree on where values are.
THEOREM ImplementsGridsTheorem == Spec => ImplementsGrids
<1>1. Init => Grids!Init
  BY DEF Init, Grids!Init, GridOf, None
<1>2. GridsInv /\ [Next]_vars => [Grids!Next]_(Grids!vars)
  BY GridsStep
<1> QED BY <1>1, <1>2, GridsInvariant, PTL DEF Spec, ImplementsGrids, Grids!Spec

\* Rectangles are the same when what they have is.
LEMMA SameBox ==
  ASSUME NEW m, m \in CellSizes, NEW n, n \in CellSizes, Grids!Box(0, 0, m) = Grids!Box(0, 0, n)
  PROVE  m = n
<1>1. /\ m.w \in Nat \ {0} /\ m.h \in Nat \ {0} /\ m = [w |-> m.w, h |-> m.h]
      /\ n.w \in Nat \ {0} /\ n.h \in Nat \ {0} /\ n = [w |-> n.w, h |-> n.h]
  BY SizesAre
<1>2. ASSUME NEW a, NEW b, a.w \in Nat \ {0}, a.h \in Nat \ {0}, b.w \in Nat \ {0}, b.h \in Nat \ {0},
             Grids!Box(0, 0, a) = Grids!Box(0, 0, b)
      PROVE  a.w <= b.w /\ a.h <= b.h
  <2>1. a.w - 1 \in 0 .. 0 + a.w - 1 /\ a.h - 1 \in 0 .. 0 + a.h - 1
    BY <1>2
  <2>2. <<a.w - 1, a.h - 1>> \in (0 .. 0 + b.w - 1) \X (0 .. 0 + b.h - 1)
    BY <1>2, <2>1 DEF Grids!Box
  <2>3. a.w - 1 \in 0 .. 0 + b.w - 1 /\ a.h - 1 \in 0 .. 0 + b.h - 1
    BY <2>2
  <2> QED BY <1>2, <2>3
<1>3. m.w <= n.w /\ m.h <= n.h /\ n.w <= m.w /\ n.h <= m.h
  BY <1>1, <1>2
<1>4. m.w = n.w /\ m.h = n.h
  BY <1>1, <1>3
<1> QED BY <1>1, <1>4

\* No bit of a clean cell says more than its values.
LEMMA CleanWithin ==
  ASSUME NEW x, Fine(x), NEW d \in Mem(x), NEW e \in Mem(x), Clean(x, d),
         \A c \in Coords(x) : Got(x, d, c) = Got(x, e, c)
  PROVE  \A i \in 0 .. WordsOf(x) - 1 : d[i] \subseteq e[i]
<1> SUFFICES ASSUME NEW i \in 0 .. WordsOf(x) - 1, NEW b \in d[i]
             PROVE  b \in e[i]
  OBVIOUS
<1>1. DOMAIN d = 0 .. WordsOf(x) - 1
  BY DEF Mem, WordArrays
<1>2. PICK c \in Coords(x) :
        /\ Word(BitIndex(x, c)) = i
        /\ b \in Bit(BitIndex(x, c)) .. Bit(BitIndex(x, c)) + BitCount - 1
  BY <1>1 DEF Clean
<1> DEFINE id == BitIndex(x, c)
           j == b - Bit(id)
<1>3. id \in Nat /\ Bit(id) \in Nat /\ Bit(id) + BitCount <= PackBits
  BY PlacesFit
<1>4. BitGet(d, id) = BitGet(e, id)
  BY DEF Got
<1>5. Word(id) = i /\ b \in Bit(id) .. Bit(id) + BitCount - 1
  BY <1>2
<1> HIDE DEF id
<1>6. BitCount \in Nat
  BY ItemWidth
<1>7. j \in 0 .. BitCount - 1 /\ j + Bit(id) = b
  BY <1>3, <1>5, <1>6
<1>8. /\ BitGet(d, id) = { k \in 0 .. BitCount - 1 : k + Bit(id) \in d[i] }
      /\ BitGet(e, id) = { k \in 0 .. BitCount - 1 : k + Bit(id) \in e[i] }
  BY <1>3, <1>5, BitGetIs
<1> HIDE DEF j
<1>9. j \in BitGet(d, id)
  BY <1>7, <1>8
<1>10. j \in BitGet(e, id)
  BY <1>4, <1>9
<1> QED BY <1>7, <1>8, <1>10

\* operator== says that two cells are equal when, and only when, their sizes and values
\* are, as the bits of the last word that belong to no value stay zeros: of values that
\* leave no bits between them, as construct() fills those with ones.
THEOREM EqualCorrect == Spec => [](Tight => EqualMeansSame)
<1>1. GridsInv => (Tight => EqualMeansSame)
  <2> SUFFICES ASSUME GridsInv, Tight, NEW o \in Cells, NEW p \in Cells
               PROVE  (obj[o].size = obj[p].size /\ obj[o].data = obj[p].data)
                        <=> GridOf(obj[o]) = GridOf(obj[p])
    BY DEF EqualMeansSame
  <2> DEFINE x == obj[o]
             y == obj[p]
  <2>1. /\ Held(x) /\ x.kind = "cell" /\ x.size \in CellSizes
        /\ Held(y) /\ y.kind = "cell" /\ y.size \in CellSizes
    BY HolderHeld DEF Holders
  <2> HIDE DEF x, y
  <2>2. Fine(x) /\ x.data \in Mem(x) /\ Clean(x, x.data)
        /\ Fine(y) /\ y.data \in Mem(y) /\ Clean(y, y.data)
    BY <2>1 DEF Held
  <2>3. GridOf(x) = [c \in Coords(x) |-> Got(x, x.data, c)]
    BY <2>1, HeldGrid
  <2>4. GridOf(y) = [c \in Coords(y) |-> Got(y, y.data, c)]
    BY <2>1, HeldGrid
  <2>5. ASSUME x.size = y.size
        PROVE  /\ Coords(y) = Coords(x) /\ Mem(y) = Mem(x)
               /\ \A d : Clean(y, d) <=> Clean(x, d)
               /\ \A d, c : Got(y, d, c) = Got(x, d, c)
    BY <2>1, <2>5, SamePlaces
  <2>6. ASSUME x.size = y.size, x.data = y.data
        PROVE  GridOf(x) = GridOf(y)
    BY <2>3, <2>4, <2>5, <2>6
  <2>7. ASSUME GridOf(x) = GridOf(y)
        PROVE  x.size = y.size /\ x.data = y.data
    <3>1. Coords(x) = Coords(y)
      BY <2>3, <2>4, <2>7
    <3>2. x.size = y.size
      <4>1. Coords(x) = Grids!Box(0, 0, x.size) /\ Coords(y) = Grids!Box(0, 0, y.size)
        BY <2>1 DEF Coords, Lo, Extent, Box, Grids!Box
      <4> DEFINE m == x.size
                 n == y.size
      <4>2. m \in CellSizes /\ n \in CellSizes /\ Grids!Box(0, 0, m) = Grids!Box(0, 0, n)
        BY <2>1, <3>1, <4>1
      <4> HIDE DEF m, n
      <4>3. m = n
        BY <4>2, SameBox
      <4> QED BY <4>3 DEF m, n
    <3> DEFINE d == x.data
               e == y.data
    <3>3. /\ d \in Mem(x) /\ e \in Mem(x) /\ Clean(x, d) /\ Clean(x, e)
          /\ \A c \in Coords(x) : Got(x, d, c) = Got(y, e, c)
          /\ \A c : Got(y, e, c) = Got(x, e, c)
      <4>1. \A c \in Coords(x) : GridOf(x)[c] = Got(x, d, c) /\ GridOf(y)[c] = Got(y, e, c)
        BY <2>3, <2>4, <3>1
      <4> QED BY <2>2, <2>5, <2>7, <3>2, <4>1
    <3> HIDE DEF d, e
    <3>4. \A c \in Coords(x) : Got(x, d, c) = Got(x, e, c)
      BY <3>3
    <3>5. \A i \in 0 .. WordsOf(x) - 1 : d[i] \subseteq e[i]
      BY <2>2, <3>3, <3>4, CleanWithin
    <3>6. \A i \in 0 .. WordsOf(x) - 1 : e[i] \subseteq d[i]
      BY <2>2, <3>3, <3>4, CleanWithin
    <3>7. d = e
      <4> DEFINE S == 0 .. WordsOf(x) - 1
      <4>1. \A i \in S : d[i] = e[i]
        BY <3>5, <3>6
      <4>2. d \in [S -> SUBSET WordBits] /\ e \in [S -> SUBSET WordBits]
        BY <3>3 DEF Mem, WordArrays
      <4> HIDE DEF S
      <4>3. d = [i \in S |-> d[i]] /\ e = [i \in S |-> e[i]]
        BY <4>2
      <4> QED BY <4>1, <4>3
    <3> QED BY <3>2, <3>7 DEF d, e
  <2> QED BY <2>6, <2>7 DEF x, y
<1> QED BY <1>1, GridsInvariant, PTL

\* region() returns what the checks of a debug build expect, and reads within the
\* table, for words, values, buffers and tables of every size.
THEOREM RegionsCorrect == Spec => []RegionsMatch
<1>1. GridsInv => RegionsMatch
  <2> SUFFICES ASSUME GridsInv, NEW o \in Tables,
                      NEW r \in Regions(-BufferSize, Pad(obj[o].size)),
                      RegionReadable(r.size)
               PROVE  LET x == obj[o]
                          id == BitIndex(x, r.at)
                          n == RowWords(x.size)
                      IN  /\ RegionWords(n, id, r.size) \subseteq 0 .. TableWords(x.size) - 1
                          /\ Tight =>
                               Region(x.data, n, id, r.size)
                                 = UNION { LeftShift(Value(x, <<r.at[1] + s[1], r.at[2] + s[2]>>),
                                                     BitCount * (s[2] * r.size.w + s[1]))
                                           : s \in Box(0, 0, r.size) }
    BY DEF RegionsMatch
  <2>1. obj[o].kind = "table" /\ obj[o].size \in TableSizes
    BY HolderHeld DEF Holders
  <2> QED BY <2>1, RegionInside, RegionValues
<1> QED BY <1>1, GridsInvariant, PTL

-----------------------------------------------------------------------------
(* Packed words *)

\* The mask of a segment.
LEMMA SegmentMask ==
  ASSUME NEW t \in Types, NEW g \in 1 .. t.bits
  PROVE  make_mask(t.bits, g, 0) = BitsOf(g)
<1>1. t.bits \in Nat /\ t.bits > 0 /\ g \in 0 .. t.bits /\ 0 \in 0 .. t.bits
  BY Widths
<1>2. Within(t.bits, g, 0)
  BY <1>1 DEF Within
<1>3. make_mask(t.bits, g, 0) = 0 .. 0 + g - 1
  BY <1>1, <1>2, MasksOfTypes DEF MasksMatch
<1>4. 0 .. 0 + g - 1 = 0 .. g - 1
  BY <1>1
<1> QED BY <1>3, <1>4 DEF BitsOf

\* One value after the others.
PackOne(t, g, a, out) == (a \cap BitsOf(g)) \cup Left(t.bits, out, g)

LEMMA PackOneWord ==
  ASSUME NEW t \in Types, NEW g \in 1 .. t.bits, NEW a, NEW out
  PROVE  PackOne(t, g, a, out) \in SUBSET BitsOf(t.bits)
<1>1. t.bits \in Nat
  BY Widths
<1> QED BY <1>1 DEF PackOne, Left, BitsOf

\* The least number of a set.
LEMMA MinFacts ==
  ASSUME NEW s \in SUBSET Int, NEW m \in s, \A y \in s : m <= y
  PROVE  Min(s) = m
<1>1. Min(s) \in s /\ \A y \in s : Min(s) <= y
  BY DEF Min
<1>2. Min(s) \in Int /\ m \in Int /\ Min(s) <= m /\ m <= Min(s)
  BY <1>1
<1> QED BY <1>2

\* A fold from the right takes the numbers up to n in their order, the least last.
LEMMA Tails ==
  ASSUME NEW n \in Nat, NEW k \in 1 .. n
  PROVE  /\ k .. n \in SUBSET (1 .. n) /\ k .. n # {}
         /\ Min(k .. n) = k /\ (k .. n) \ {k} = (k + 1) .. n
<1>1. k \in k .. n /\ k .. n \in SUBSET (1 .. n) /\ k .. n \in SUBSET Int /\ \A y \in k .. n : k <= y
  OBVIOUS
<1>2. Min(k .. n) = k
  BY <1>1, MinFacts
<1>3. (k .. n) \ {k} = (k + 1) .. n
  OBVIOUS
<1> QED BY <1>1, <1>2, <1>3

\* The results of bit_pack_lsb, from the last value to the first.
RightPacked(t, g, n, args, R) ==
  R[n + 1] = {} /\ \A k \in 1 .. n : R[k] = PackOne(t, g, args[k], R[k + 1])

LEMMA RightPacks ==
  ASSUME NEW t \in Types, NEW g \in 1 .. t.bits, NEW n \in Nat,
         NEW args \in [1 .. n -> SUBSET BitsOf(t.bits)]
  PROVE  \E R : RightPacked(t, g, n, args, R) /\ bit_pack_lsb(t, g, args) = R[1]
<1> DEFINE T == 1 .. n
           X == SUBSET BitsOf(t.bits)
           Put(i, out) == PackOne(t, g, args[i], out)
           Is(q) == q = [s \in SUBSET T |-> IF s = {} THEN {} ELSE Put(Min(s), q[s \ {Min(s)}])]
           c == [s \in SUBSET T |-> Min(s)]
           F == [z \in T \X X |-> Put(z[1], z[2])]
<1>1. IsFiniteSet(T) /\ {} \in X
  BY FS_Interval
<1>2. \A s \in SUBSET T : s # {} => Min(s) \in s
  <2> SUFFICES ASSUME NEW s \in SUBSET T, s # {} PROVE Min(s) \in s
    OBVIOUS
  <2>1. s \in SUBSET Nat
    OBVIOUS
  <2>2. PICK m \in s : \A y \in s : m <= y
    BY <2>1, Least
  <2>3. Min(s) = m
    BY <2>1, <2>2, MinFacts
  <2> QED BY <2>3
<1>3. F \in [T \X X -> X]
  <2>1. \A i, out : Put(i, out) \in X
    BY PackOneWord
  <2> HIDE DEF Put, X
  <2> QED BY <2>1
<1>4. PICK q \in [SUBSET T -> X] : FoldOf(q, T, c, {}, F)
  <2>1. \A s \in SUBSET T : s # {} => c[s] \in s
    BY <1>2
  <2> HIDE DEF X, F, c, T
  <2> QED BY <1>1, <1>3, <2>1, FoldExists
<1>5. Is(q)
  <2>1. ASSUME NEW s \in SUBSET T, s # {}
        PROVE  q[s] = Put(Min(s), q[s \ {Min(s)}])
    <3>1. Min(s) \in T /\ s \ {Min(s)} \in SUBSET T
      BY <1>2, <2>1
    <3>2. q[s \ {Min(s)}] \in X
      <4> HIDE DEF X, T
      <4> QED BY <3>1
    <3>3. q[s] = F[<<c[s], q[s \ {c[s]}]>>]
      <4> HIDE DEF F, c, T, X
      <4> QED BY <1>4, <2>1 DEF FoldOf
    <3>4. c[s] = Min(s)
      OBVIOUS
    <3> HIDE DEF X, T, Put, c
    <3> QED BY <3>1, <3>2, <3>3, <3>4
  <2>2. q[{}] = {}
    BY <1>4 DEF FoldOf
  <2> HIDE DEF Put, X, T, c, F
  <2> QED BY <2>1, <2>2
<1> DEFINE h == CHOOSE q0 : Is(q0)
<1>6. Is(h)
  <2> HIDE DEF Is
  <2> QED BY <1>5
<1>7. bit_pack_lsb(t, g, args) = h[T]
  <2>1. DOMAIN args = T
    OBVIOUS
  <2>2. make_mask(t.bits, g, 0) = BitsOf(g)
    BY SegmentMask
  <2> QED BY <2>1, <2>2 DEF bit_pack_lsb, FoldRight, MapThenFoldSet, PackOne
<1> HIDE DEF h
<1> DEFINE R == [k \in 1 .. n + 1 |-> h[k .. n]]
<1>8. R[n + 1] = {}
  <2>1. (n + 1) .. n = {} /\ n + 1 \in 1 .. n + 1
    OBVIOUS
  <2>2. h[{}] = {}
    <3> HIDE DEF Put
    <3> QED BY <1>6
  <2> QED BY <2>1, <2>2
<1>9. ASSUME NEW k \in 1 .. n PROVE R[k] = PackOne(t, g, args[k], R[k + 1])
  <2>1. k \in 1 .. n + 1 /\ k + 1 \in 1 .. n + 1
    OBVIOUS
  <2> DEFINE s == k .. n
  <2>2. s \in SUBSET T /\ s # {} /\ Min(s) = k /\ s \ {k} = (k + 1) .. n
    BY Tails
  <2>3. h[s] = Put(Min(s), h[s \ {Min(s)}])
    <3> HIDE DEF Put, s, T
    <3> QED BY <1>6, <2>2
  <2>4. h[s] = Put(k, h[(k + 1) .. n])
    <3> HIDE DEF Put, s
    <3> QED BY <2>2, <2>3
  <2> QED BY <2>1, <2>4
<1>10. R[1] = h[T]
  BY DEF T
<1>11. RightPacked(t, g, n, args, R)
  <2> HIDE DEF R
  <2> QED BY <1>8, <1>9 DEF RightPacked
<1> HIDE DEF R
<1> QED BY <1>7, <1>10, <1>11

\* The results of bit_pack_msb, from the first value to the last.
LeftPacked(t, g, n, args, L) ==
  L[0] = {} /\ \A k \in 1 .. n : L[k] = PackOne(t, g, args[k], L[k - 1])

LEMMA LeftPacks ==
  ASSUME NEW t \in Types, NEW g \in 1 .. t.bits, NEW n \in Nat,
         NEW args \in [1 .. n -> SUBSET BitsOf(t.bits)]
  PROVE  \E L : LeftPacked(t, g, n, args, L) /\ bit_pack_msb(t, g, args) = L[n]
<1> DEFINE T == 1 .. n
           X == SUBSET BitsOf(t.bits)
           Put(i, out) == Left(t.bits, out, g) \cup (args[i] \cap BitsOf(g))
           Is(q) == q = [s \in SUBSET T |-> IF s = {} THEN {} ELSE Put(Max(s), q[s \ {Max(s)}])]
           F == [z \in T \X X |-> Put(z[1], z[2])]
<1>1. {} \in X
  OBVIOUS
<1>2. \A s \in SUBSET T : s # {} => Max(s) \in s
  BY MaxFacts
<1>3. F \in [T \X X -> X]
  <2>1. \A i, out : Put(i, out) \in X
    BY PackOneWord DEF PackOne
  <2> HIDE DEF Put, X
  <2> QED BY <2>1
<1>4. PICK q \in [SUBSET T -> X] : FoldsLeft(q, n, {}, F)
  <2> HIDE DEF X, F
  <2> QED BY <1>1, <1>3, LeftFold
<1>5. Is(q)
  <2>1. ASSUME NEW s \in SUBSET T, s # {}
        PROVE  q[s] = Put(Max(s), q[s \ {Max(s)}])
    <3>1. Max(s) \in T /\ s \ {Max(s)} \in SUBSET T
      BY <1>2, <2>1
    <3>2. q[s \ {Max(s)}] \in X
      <4> HIDE DEF X, T
      <4> QED BY <3>1
    <3>3. q[s] = F[<<Max(s), q[s \ {Max(s)}]>>]
      <4> HIDE DEF F, X
      <4> QED BY <1>4, <2>1 DEF FoldsLeft
    <3> HIDE DEF X, T, Put
    <3> QED BY <3>1, <3>2, <3>3
  <2>2. q[{}] = {}
    BY <1>4 DEF FoldsLeft
  <2> HIDE DEF Put, X, T, F
  <2> QED BY <2>1, <2>2
<1> DEFINE h == CHOOSE q0 : Is(q0)
<1>6. Is(h)
  <2> HIDE DEF Is
  <2> QED BY <1>5
<1>7. bit_pack_msb(t, g, args) = h[T]
  <2>1. DOMAIN args = T
    OBVIOUS
  <2>2. make_mask(t.bits, g, 0) = BitsOf(g)
    BY SegmentMask
  <2> QED BY <2>1, <2>2 DEF bit_pack_msb, FoldLeft, MapThenFoldSet
<1> HIDE DEF h
<1> DEFINE L == [k \in 0 .. n |-> h[1 .. k]]
<1>8. L[0] = {}
  <2>1. 1 .. 0 = {} /\ 0 \in 0 .. n
    OBVIOUS
  <2>2. h[{}] = {}
    <3> HIDE DEF Put
    <3> QED BY <1>6
  <2> QED BY <2>1, <2>2
<1>9. ASSUME NEW k \in 1 .. n PROVE L[k] = PackOne(t, g, args[k], L[k - 1])
  <2>1. k \in 0 .. n /\ k - 1 \in 0 .. n
    OBVIOUS
  <2> DEFINE s == 1 .. k
  <2>2. s \in SUBSET T /\ s # {} /\ Max(s) = k /\ s \ {k} = 1 .. (k - 1)
    BY Segments
  <2>3. h[s] = Put(Max(s), h[s \ {Max(s)}])
    <3> HIDE DEF Put, s, T
    <3> QED BY <1>6, <2>2
  <2>4. h[s] = Put(k, h[1 .. (k - 1)])
    <3> HIDE DEF Put, s
    <3> QED BY <2>2, <2>3
  <2>5. \A out : Put(k, out) = PackOne(t, g, args[k], out)
    BY DEF PackOne
  <2> HIDE DEF Put
  <2> QED BY <2>1, <2>4, <2>5
<1>10. L[n] = h[T]
  BY DEF T
<1>11. LeftPacked(t, g, n, args, L)
  <2> HIDE DEF L
  <2> QED BY <1>8, <1>9 DEF LeftPacked
<1> HIDE DEF L
<1> QED BY <1>7, <1>10, <1>11

\* What is packed from value k on is the segments of those values, and no more.
SegmentsFrom(g, n, args, k, v) ==
  /\ v \subseteq BitsOf((n + 1 - k) * g)
  /\ \A i \in 0 .. n - k : \A b \in BitsOf(g) : i * g + b \in v <=> b \in args[k + i]

\* Places of segments.
LEMMA SegmentPlaces ==
  ASSUME NEW g \in Nat \ {0}, NEW n \in Nat, NEW i \in 0 .. n - 1, NEW b \in BitsOf(g)
  PROVE  /\ i * g \in Nat /\ n * g \in Nat /\ (i + 1) * g = i * g + g
         /\ i * g + b \in Nat /\ i * g + b < (i + 1) * g /\ (i + 1) * g <= n * g
<1>1. i \in Nat /\ b \in Nat /\ b < g
  BY DEF BitsOf
<1>2. \A u, v \in Nat : u * v \in Nat
  OBVIOUS
<1>3. i * g \in Nat /\ n * g \in Nat /\ (n - i - 1) * g \in Nat
  BY <1>1, <1>2
<1>4. (i + 1) * g = i * g + g
  BY <1>1
<1>5. n * g = (i + 1) * g + (n - i - 1) * g
  BY <1>1
<1> QED BY <1>1, <1>3, <1>4, <1>5

LEMMA PackMore ==
  ASSUME NEW t \in Types, NEW g \in 1 .. t.bits, NEW n \in Nat, n * g <= t.bits,
         NEW args, NEW k \in 1 .. n, NEW out, SegmentsFrom(g, n, args, k + 1, out)
  PROVE  SegmentsFrom(g, n, args, k, PackOne(t, g, args[k], out))
<1> DEFINE v == PackOne(t, g, args[k], out)
           m == n - k
<1>1. t.bits \in Nat /\ g \in Nat \ {0} /\ m \in Nat /\ n + 1 - k = m + 1 /\ n + 1 - (k + 1) = m
      /\ n - (k + 1) = m - 1
  BY Widths
<1>2. /\ out \subseteq BitsOf(m * g)
      /\ \A i \in 0 .. m - 1 : \A b \in BitsOf(g) : i * g + b \in out <=> b \in args[k + 1 + i]
  BY <1>1 DEF SegmentsFrom
<1>3. m * g \in Nat /\ (m + 1) * g = m * g + g /\ (m + 1) * g <= t.bits
  <2>1. m \in 0 .. n - 1 /\ 0 \in BitsOf(g)
    BY <1>1 DEF BitsOf
  <2>2. m * g \in Nat /\ (m + 1) * g = m * g + g /\ (m + 1) * g <= n * g /\ n * g \in Nat
    BY <1>1, <2>1, SegmentPlaces
  <2> QED BY <1>1, <2>2
<1>4. \A y \in Int : y \in v <=>
        \/ y \in args[k] /\ y \in BitsOf(g)
        \/ y - g \in out /\ y \in BitsOf(t.bits)
  <2>1. out \subseteq Int
    BY <1>2, <1>3 DEF BitsOf
  <2>2. \A y \in Int : y \in { b + g : b \in out } <=> y - g \in out
    BY <1>1, <2>1
  <2> QED BY <2>2 DEF PackOne, Left
<1>5. v \subseteq Int
  BY <1>1 DEF PackOne, Left, BitsOf
<1>6. v \subseteq BitsOf((m + 1) * g)
  <2> SUFFICES ASSUME NEW y \in v PROVE y \in BitsOf((m + 1) * g)
    OBVIOUS
  <2>1. y \in Int
    BY <1>5
  <2>2. CASE y \in BitsOf(g)
    BY <1>1, <1>3, <2>2 DEF BitsOf
  <2>3. CASE y - g \in out
    <3>1. y - g \in BitsOf(m * g)
      BY <1>2, <2>3
    <3> QED BY <1>1, <1>3, <2>1, <3>1 DEF BitsOf
  <2> HIDE DEF v
  <2> QED BY <1>4, <2>1, <2>2, <2>3
<1> HIDE DEF v
<1>7. ASSUME NEW i \in 0 .. m, NEW b \in BitsOf(g)
      PROVE  i * g + b \in v <=> b \in args[k + i]
  <2>1. b \in Nat /\ b < g
    BY <1>1 DEF BitsOf
  <2>2. CASE i = 0
    <3>1. i * g + b = b /\ k + i = k
      BY <1>1, <2>1, <2>2
    <3>2. b - g \notin out
      BY <1>1, <1>2, <1>3, <2>1 DEF BitsOf
    <3> QED BY <1>4, <2>1, <3>1, <3>2
  <2>3. CASE i # 0
    <3> DEFINE j == i - 1
    <3>1. j \in 0 .. m - 1 /\ i = j + 1 /\ k + 1 + j = k + i
      BY <1>1, <2>3
    <3> HIDE DEF j
    <3>2. j * g \in Nat /\ (j + 1) * g = j * g + g /\ (j + 1) * g <= m * g
      BY <1>1, <3>1, SegmentPlaces
    <3> DEFINE y == i * g + b
    <3>3. y = (j * g + b) + g
      BY <1>1, <2>1, <3>1, <3>2
    <3> HIDE DEF y
    <3>4. y \in Int /\ y - g = j * g + b /\ y \notin BitsOf(g) /\ y \in BitsOf(t.bits)
      BY <1>1, <1>3, <2>1, <3>2, <3>3 DEF BitsOf
    <3>5. y - g \in out <=> b \in args[k + i]
      BY <1>2, <3>1, <3>4
    <3> QED BY <1>4, <3>4, <3>5 DEF y
  <2> QED BY <2>2, <2>3
<1> QED BY <1>1, <1>6, <1>7 DEF SegmentsFrom, v

\* All of them.
LEMMA PackedSegments ==
  ASSUME NEW t \in Types, NEW g \in 1 .. t.bits, NEW n \in Nat, n * g <= t.bits,
         NEW args, NEW R, RightPacked(t, g, n, args, R)
  PROVE  SegmentsFrom(g, n, args, 1, R[1])
<1> DEFINE Ok(k) == SegmentsFrom(g, n, args, k, R[k])
           D == { j \in Nat : j <= n => Ok(n + 1 - j) }
<1>1. 0 \in D
  <2>1. n + 1 - 0 = n + 1 /\ n + 1 - (n + 1) = 0 /\ n - (n + 1) = -1 /\ 0 * g = 0
    BY Widths
  <2>2. R[n + 1] = {} /\ 0 .. -1 = {}
    BY DEF RightPacked
  <2>3. Ok(n + 1)
    BY <2>1, <2>2 DEF SegmentsFrom
  <2> HIDE DEF Ok
  <2> QED BY <2>1, <2>3
<1>2. ASSUME NEW j \in D PROVE j + 1 \in D
  <2> SUFFICES ASSUME j + 1 <= n PROVE Ok(n + 1 - (j + 1))
    OBVIOUS
  <2> DEFINE k == n - j
  <2>1. k \in 1 .. n /\ n + 1 - (j + 1) = k /\ n + 1 - j = k + 1 /\ j <= n
    OBVIOUS
  <2> HIDE DEF k
  <2>2. SegmentsFrom(g, n, args, k + 1, R[k + 1])
    BY <2>1
  <2>3. R[k] = PackOne(t, g, args[k], R[k + 1])
    BY <2>1 DEF RightPacked
  <2>4. Ok(k)
    BY <2>1, <2>2, <2>3, PackMore
  <2> HIDE DEF Ok
  <2> QED BY <2>1, <2>4
<1>3. D = Nat
  <2>1. D \in SUBSET Nat
    OBVIOUS
  <2> HIDE DEF D
  <2> QED BY <1>1, <1>2, <2>1, Induction
<1>4. Ok(n + 1 - n)
  <2>1. n \in D
    <3> HIDE DEF D
    <3> QED BY <1>3
  <2>2. n <= n
    OBVIOUS
  <2> HIDE DEF Ok
  <2> QED BY <2>1, <2>2
<1>5. n + 1 - n = 1
  OBVIOUS
<1> HIDE DEF Ok
<1>6. Ok(1)
  BY <1>4, <1>5
<1> QED BY <1>6 DEF Ok

\* What comes out.
LEMMA Unpacked ==
  ASSUME NEW t \in Types, NEW g \in 1 .. t.bits, NEW n \in Nat, n * g <= t.bits,
         NEW args, NEW v, SegmentsFrom(g, n, args, 1, v), NEW i \in 0 .. n - 1
  PROVE  bit_unpack_lsb(t, g, i, v) = Segment(t, g, args[i + 1])
<1> DEFINE w == t.bits
           a == args[i + 1]
           e == (i + 1) * g
<1>1. w \in Nat /\ g \in Nat \ {0} /\ g <= w
  BY Widths
<1>2. i * g \in Nat /\ e = i * g + g /\ e <= w
  <2>1. 0 \in BitsOf(g)
    BY <1>1 DEF BitsOf
  <2>2. i * g \in Nat /\ e = i * g + g /\ e <= n * g /\ n * g \in Nat
    BY <1>1, <2>1, SegmentPlaces
  <2> QED BY <1>1, <2>2
<1>3. \A b \in BitsOf(g) : i * g + b \in v <=> b \in a
  <2>1. n - 1 = n - 1 /\ 1 + i = i + 1
    OBVIOUS
  <2> QED BY <2>1 DEF SegmentsFrom
<1>4. v \subseteq Int
  <2>1. n + 1 - 1 = n /\ n * g \in Int
    BY <1>1
  <2> QED BY <2>1 DEF SegmentsFrom, BitsOf
<1>5. make_mask(w, g, 0) = BitsOf(g)
  BY SegmentMask
<1> HIDE DEF w, a, e
<1>6. CASE ~ t.signed
  <2>1. Right(w, v, i * g) \cap BitsOf(g) = a \cap BitsOf(g)
    <3>1. \A b \in BitsOf(g) : b \in BitsOf(w - i * g) /\ b + i * g = i * g + b
      BY <1>1, <1>2 DEF BitsOf
    <3>2. \A b \in BitsOf(g) : b \in Right(w, v, i * g) <=> b \in a
      BY <1>3, <3>1 DEF Right
    <3> QED BY <3>2
  <2>2. bit_unpack_lsb(t, g, i, v) = Right(w, v, i * g) \cap BitsOf(g)
    BY <1>5, <1>6 DEF bit_unpack_lsb, bit_right_shift, w
  <2>3. Segment(t, g, a) = a \cap BitsOf(g)
    BY <1>6 DEF Segment
  <2> QED BY <2>1, <2>2, <2>3 DEF a
<1>7. CASE t.signed
  <2> DEFINE s == w - e
             u == Left(w, v, s)
  <2>1. s \in Nat /\ w - g \in Nat
    BY <1>1, <1>2
  <2>2. \A b \in BitsOf(g) : b + (w - g) \in u <=> b \in a
    <3> SUFFICES ASSUME NEW b \in BitsOf(g) PROVE b + (w - g) \in u <=> b \in a
      OBVIOUS
    <3>1. b \in Int /\ b + (w - g) \in BitsOf(w) /\ (i * g + b) + s = b + (w - g)
      BY <1>1, <1>2 DEF BitsOf
    <3>2. \A y \in Int : y + s = b + (w - g) <=> y = i * g + b
      BY <1>2, <2>1, <3>1
    <3> HIDE DEF s
    <3>3. b + (w - g) \in { y + s : y \in v } <=> i * g + b \in v
      BY <1>4, <3>1, <3>2
    <3> QED BY <1>3, <3>1, <3>3 DEF Left
  <2>3. w - 1 \in u <=> g - 1 \in a
    <3>1. g - 1 \in BitsOf(g) /\ (g - 1) + (w - g) = w - 1
      BY <1>1 DEF BitsOf
    <3> HIDE DEF u
    <3> QED BY <2>2, <3>1
  <2>4. bit_unpack_lsb(t, g, i, v) = bit_shift(t, u, 0 - (w - g))
    <3>1. bit_unpack_lsb(t, g, i, v) = bit_shift_set(t, w - g, 0, u)
      BY <1>7 DEF bit_unpack_lsb, bit_left_shift, w, e
    <3> QED BY <3>1 DEF bit_shift_set
  <2> HIDE DEF s
  <2>5. CASE g = w
    <3>1. 0 - (w - g) = 0 /\ w - g = 0
      BY <1>1, <2>5
    <3>2. bit_shift(t, u, 0 - (w - g)) = Left(w, u, 0)
      BY <3>1 DEF bit_shift, bit_left_shift, w
    <3>3. Left(w, u, 0) = a \cap BitsOf(g)
      <4>1. u \subseteq BitsOf(w) /\ BitsOf(w) \subseteq Int
        BY DEF Left, BitsOf
      <4>2. { y + 0 : y \in u } = u
        <5> HIDE DEF u
        <5> QED BY <4>1
      <4>3. \A b \in BitsOf(g) : b \in u <=> b \in a
        <5>1. \A b \in BitsOf(g) : b + (w - g) = b
          BY <1>1, <3>1 DEF BitsOf
        <5> HIDE DEF u
        <5> QED BY <2>2, <5>1
      <4> HIDE DEF u
      <4> QED BY <2>5, <4>1, <4>2, <4>3 DEF Left
    <3>4. Segment(t, g, a) = a \cap BitsOf(g)
      <4>1. g .. t.bits - 1 = {}
        BY <1>1, <2>5 DEF w
      <4> QED BY <4>1 DEF Segment
    <3> HIDE DEF u
    <3> QED BY <2>4, <3>2, <3>3, <3>4 DEF a
  <2>6. CASE g # w
    <3>1. 0 - (w - g) < 0 /\ -(0 - (w - g)) = w - g /\ w - (w - g) = g
      BY <1>1, <2>6
    <3>2. bit_shift(t, u, 0 - (w - g)) = RightSigned(w, u, w - g)
      <4> HIDE DEF u
      <4> QED BY <1>7, <3>1 DEF bit_shift, bit_right_shift, w
    <3>3. Right(w, u, w - g) = a \cap BitsOf(g)
      <4> HIDE DEF u
      <4> QED BY <2>2, <3>1 DEF Right
    <3>4. RightSigned(w, u, w - g) = Segment(t, g, a)
      <4> HIDE DEF u
      <4> QED BY <1>7, <2>3, <3>1, <3>3 DEF RightSigned, Segment, w
    <3> HIDE DEF u
    <3> QED BY <2>4, <3>2, <3>4 DEF a
  <2> QED BY <2>5, <2>6
<1> QED BY <1>6, <1>7

\* The two orders.
LEMMA PackedReverse ==
  ASSUME NEW t \in Types, NEW g \in 1 .. t.bits, NEW n \in Nat,
         NEW args \in [1 .. n -> SUBSET BitsOf(t.bits)]
  PROVE  bit_pack_msb(t, g, args) = bit_pack_lsb(t, g, Reverse(args))
<1> DEFINE rev == Reverse(args)
<1>1. rev = [i \in 1 .. n |-> args[(n - i) + 1]]
  <2>1. Len(args) = n
    OBVIOUS
  <2> QED BY <2>1 DEF Reverse
<1>2. rev \in [1 .. n -> SUBSET BitsOf(t.bits)]
  <2>1. \A i \in 1 .. n : (n - i) + 1 \in 1 .. n
    OBVIOUS
  <2> HIDE DEF rev
  <2> QED BY <1>1, <2>1
<1> HIDE DEF rev
<1>3. PICK R : RightPacked(t, g, n, rev, R) /\ bit_pack_lsb(t, g, rev) = R[1]
  BY <1>2, RightPacks
<1>4. PICK L : LeftPacked(t, g, n, args, L) /\ bit_pack_msb(t, g, args) = L[n]
  BY LeftPacks
<1> DEFINE D == { k \in Nat : k <= n => L[k] = R[n + 1 - k] }
<1>5. 0 \in D
  <2>1. n + 1 - 0 = n + 1
    OBVIOUS
  <2> QED BY <1>3, <1>4, <2>1 DEF RightPacked, LeftPacked
<1>6. ASSUME NEW k \in D PROVE k + 1 \in D
  <2> SUFFICES ASSUME k + 1 <= n PROVE L[k + 1] = R[n + 1 - (k + 1)]
    OBVIOUS
  <2> DEFINE j == n - k
  <2>1. j \in 1 .. n /\ n + 1 - (k + 1) = j /\ n + 1 - k = j + 1 /\ k + 1 \in 1 .. n
        /\ (k + 1) - 1 = k /\ (n - j) + 1 = k + 1
    OBVIOUS
  <2> HIDE DEF j
  <2>2. L[k + 1] = PackOne(t, g, args[k + 1], L[k])
    BY <1>4, <2>1 DEF LeftPacked
  <2>3. R[j] = PackOne(t, g, rev[j], R[j + 1])
    BY <1>3, <2>1 DEF RightPacked
  <2>4. rev[j] = args[k + 1]
    BY <1>1, <2>1
  <2>5. L[k] = R[j + 1]
    BY <2>1
  <2> QED BY <2>1, <2>2, <2>3, <2>4, <2>5
<1>7. n \in D
  <2>1. D \in SUBSET Nat
    OBVIOUS
  <2> HIDE DEF D
  <2>2. D = Nat
    BY <1>5, <1>6, <2>1, Induction
  <2> QED BY <2>2
<1>8. n + 1 - n = 1
  OBVIOUS
<1> QED BY <1>3, <1>4, <1>7, <1>8 DEF rev

\* As many segments as fit.
LEMMA SegmentsFit ==
  ASSUME NEW t \in Types, NEW g \in 1 .. t.bits, NEW a \in Nat,
         NEW n \in 1 .. Min({a, t.bits \div g})
  PROVE  n \in Nat /\ n * g <= t.bits
<1>1. t.bits \in Nat /\ g \in Nat \ {0}
  BY Widths
<1> DEFINE q == t.bits \div g
<1>2. q \in Nat /\ t.bits = g * q + (t.bits % g) /\ (t.bits % g) \in Nat
  BY <1>1
<1> HIDE DEF q
<1>3. Min({a, q}) \in Int /\ Min({a, q}) <= q
  <2>1. CASE a <= q
    <3>1. {a, q} \in SUBSET Int /\ a \in {a, q} /\ \A y \in {a, q} : a <= y
      BY <1>2, <2>1
    <3>2. Min({a, q}) = a
      BY <3>1, MinFacts
    <3> QED BY <2>1, <3>2
  <2>2. CASE ~ (a <= q)
    <3>1. {a, q} \in SUBSET Int /\ q \in {a, q} /\ \A y \in {a, q} : q <= y
      BY <1>2, <2>2
    <3>2. Min({a, q}) = q
      BY <3>1, MinFacts
    <3> QED BY <1>2, <3>2
  <2> QED BY <2>1, <2>2
<1>4. n \in Nat /\ n <= q
  <2>1. n \in 1 .. Min({a, q})
    BY DEF q
  <2> QED BY <1>2, <1>3, <2>1
<1>5. q * g = n * g + (q - n) * g /\ q * g = g * q
  BY <1>1, <1>2, <1>4
<1>6. (q - n) * g \in Nat /\ n * g \in Nat
  <2>1. \A u, v \in Nat : u * v \in Nat
    OBVIOUS
  <2> QED BY <1>1, <1>2, <1>4, <2>1
<1> QED BY <1>1, <1>2, <1>4, <1>5, <1>6

\* What is packed comes out again, in segments of any width and words of any number of them.
LEMMA PacksOfTypes == PacksRoundTrip
<1> SUFFICES ASSUME NEW t \in PackTypes, NEW g \in 1 .. t.bits,
                    NEW n \in 1 .. Min({MaxArgs, t.bits \div g}),
                    NEW args \in [1 .. n -> SUBSET BitsOf(t.bits)]
             PROVE  /\ bit_pack_lsb(t, g, args) \subseteq BitsOf(n * g)
                    /\ \A i \in 1 .. n :
                         bit_unpack_lsb(t, g, i - 1, bit_pack_lsb(t, g, args)) = Segment(t, g, args[i])
                    /\ bit_pack_msb(t, g, args) = bit_pack_lsb(t, g, Reverse(args))
  BY DEF PacksRoundTrip
<1>1. t \in Types /\ MaxArgs \in Nat
  BY PackTypesAssumption
<1>2. n \in Nat /\ n * g <= t.bits
  BY <1>1, SegmentsFit
<1>3. PICK R : RightPacked(t, g, n, args, R) /\ bit_pack_lsb(t, g, args) = R[1]
  BY <1>1, <1>2, RightPacks
<1>4. SegmentsFrom(g, n, args, 1, R[1])
  BY <1>1, <1>2, <1>3, PackedSegments
<1>5. R[1] \subseteq BitsOf(n * g)
  <2>1. n + 1 - 1 = n
    BY <1>2
  <2> QED BY <1>4, <2>1 DEF SegmentsFrom
<1>6. ASSUME NEW i \in 1 .. n
      PROVE  bit_unpack_lsb(t, g, i - 1, R[1]) = Segment(t, g, args[i])
  <2>1. i - 1 \in 0 .. n - 1 /\ (i - 1) + 1 = i
    BY <1>2
  <2>2. bit_unpack_lsb(t, g, i - 1, R[1]) = Segment(t, g, args[(i - 1) + 1])
    BY <1>1, <1>2, <1>4, <2>1, Unpacked
  <2> QED BY <2>1, <2>2
<1>7. bit_pack_msb(t, g, args) = bit_pack_lsb(t, g, Reverse(args))
  BY <1>1, <1>2, PackedReverse
<1> QED BY <1>3, <1>5, <1>6, <1>7

-----------------------------------------------------------------------------
(* Powers of two *)

\* The subsets of n + 1 numbers are those of n, without the last and with it.
LEMMA PowerNext ==
  ASSUME NEW n \in Nat
  PROVE  2 ^ (n + 1) = 2 ^ n + 2 ^ n /\ 2 ^ n \in Nat \ {0}
<1> DEFINE S == 1 .. n
           T == 1 .. n + 1
           A == SUBSET S
           B == { s \cup {n + 1} : s \in A }
           f == [s \in A |-> s \cup {n + 1}]
<1>1. IsFiniteSet(S) /\ Cardinality(S) = n /\ IsFiniteSet(T) /\ Cardinality(T) = n + 1
  BY FS_Interval
<1>2. IsFiniteSet(A) /\ Cardinality(A) = 2 ^ n
  <2> HIDE DEF S
  <2> QED BY <1>1, FS_SUBSET
<1>3. Cardinality(SUBSET T) = 2 ^ (n + 1)
  <2> HIDE DEF T
  <2> QED BY <1>1, FS_SUBSET
<1>4. n + 1 \notin S /\ T = S \cup {n + 1}
  OBVIOUS
<1>5. SUBSET T = A \cup B /\ A \cap B = {}
  <2> HIDE DEF S, T
  <2>1. ASSUME NEW s \in SUBSET T PROVE s \in A \cup B
    <3>1. CASE n + 1 \in s
      <4>1. s = (s \ {n + 1}) \cup {n + 1} /\ s \ {n + 1} \in A
        BY <1>4, <3>1
      <4> QED BY <4>1
    <3>2. CASE n + 1 \notin s
      BY <1>4, <3>2
    <3> QED BY <3>1, <3>2
  <2>2. A \cup B \subseteq SUBSET T
    BY <1>4
  <2>3. A \cap B = {}
    BY <1>4
  <2> QED BY <2>1, <2>2, <2>3
<1>6. ExistsBijection(A, B)
  <2> HIDE DEF S
  <2>1. f \in [A -> B] /\ \A t \in B : \E s \in A : f[s] = t
    OBVIOUS
  <2>2. \A s, t \in A : f[s] = f[t] => s = t
    <3> SUFFICES ASSUME NEW s \in A, NEW t \in A, s \cup {n + 1} = t \cup {n + 1}
                 PROVE  s = t
      OBVIOUS
    <3>1. n + 1 \notin s /\ n + 1 \notin t
      BY <1>4
    <3> QED BY <3>1
  <2> HIDE DEF A, B, f
  <2>3. f \in Bijection(A, B)
    BY <2>1, <2>2, Fun_IsBij
  <2> QED BY <2>3 DEF ExistsBijection
<1>7. IsFiniteSet(B) /\ Cardinality(B) = Cardinality(A)
  <2> HIDE DEF A, B
  <2> QED BY <1>2, <1>6, FS_Bijection
<1>8. Cardinality(A \cup B) = Cardinality(A) + Cardinality(B) - Cardinality(A \cap B)
  <2> HIDE DEF A, B
  <2> QED BY <1>2, <1>7, FS_Union
<1>9. Cardinality(A) \in Nat /\ Cardinality(A) # 0
  <2>1. {} \in A
    OBVIOUS
  <2> HIDE DEF A
  <2> QED BY <1>2, <2>1, FS_CardinalityType, FS_EmptySet
<1>10. Cardinality(A \cap B) = 0
  BY <1>5, FS_EmptySet
<1>11. Cardinality(A \cup B) = 2 ^ (n + 1)
  BY <1>3, <1>5
<1> HIDE DEF A, B, T
<1>12. 2 ^ n \in Nat /\ 2 ^ n # 0
  BY <1>2, <1>9
<1>13. Cardinality(A \cup B) = 2 ^ n + 2 ^ n - 0
  BY <1>2, <1>7, <1>8, <1>10
<1>14. 2 ^ n + 2 ^ n - 0 = 2 ^ n + 2 ^ n
  BY <1>12
<1> QED BY <1>11, <1>12, <1>13, <1>14

LEMMA PowerZero == 2 ^ 0 = 1
  OBVIOUS

\* Exponents add up.
LEMMA PowerSum ==
  ASSUME NEW a \in Nat, NEW b \in Nat
  PROVE  2 ^ (a + b) = 2 ^ a * 2 ^ b
<1> DEFINE D == { k \in Nat : 2 ^ (a + k) = 2 ^ a * 2 ^ k }
<1>1. 0 \in D
  <2>1. a + 0 = a /\ 2 ^ a \in Nat
    BY PowerNext
  <2> QED BY <2>1, PowerZero
<1>2. ASSUME NEW k \in D PROVE k + 1 \in D
  <2>1. a + (k + 1) = (a + k) + 1 /\ a + k \in Nat
    OBVIOUS
  <2>2. 2 ^ ((a + k) + 1) = 2 ^ (a + k) + 2 ^ (a + k) /\ 2 ^ (a + k) \in Nat
    BY <2>1, PowerNext
  <2>3. 2 ^ (k + 1) = 2 ^ k + 2 ^ k /\ 2 ^ k \in Nat /\ 2 ^ a \in Nat
    BY PowerNext
  <2>4. \A u, v \in Nat : u * (v + v) = u * v + u * v
    OBVIOUS
  <2>5. 2 ^ a * 2 ^ (k + 1) = 2 ^ a * 2 ^ k + 2 ^ a * 2 ^ k
    BY <2>3, <2>4
  <2> QED BY <2>1, <2>2, <2>5
<1>3. D = Nat
  <2>1. D \in SUBSET Nat
    OBVIOUS
  <2> HIDE DEF D
  <2> QED BY <1>1, <1>2, <2>1, Induction
<1> QED BY <1>3

-----------------------------------------------------------------------------
(* Sums of powers of two *)

\* The value of the bits of v.
Weight(v) == MapThenSumSet(LAMBDA b : 2 ^ b, v)

\* The fold that computes it.
SumFold(S, h) ==
  \A s \in SUBSET S :
    h[s] = IF s = {} THEN 0
           ELSE 2 ^ (CHOOSE x \in s : TRUE) + h[s \ {CHOOSE x \in s : TRUE}]

LEMMA SumFoldExists ==
  ASSUME NEW S \in SUBSET Nat, IsFiniteSet(S)
  PROVE  \E h : SumFold(S, h) /\ Weight(S) = h[S]
<1> DEFINE first(s) == CHOOSE x \in s : TRUE
           c == [s \in SUBSET S |-> first(s)]
           Put(i, out) == 2 ^ i + out
           F == [z \in S \X Int |-> Put(z[1], z[2])]
           Is(q) == q = [s \in SUBSET S |-> IF s = {} THEN 0 ELSE Put(first(s), q[s \ {first(s)}])]
<1>1. \A s \in SUBSET S : s # {} => first(s) \in s
  OBVIOUS
<1>2. F \in [S \X Int -> Int]
  <2>1. \A i \in S, out \in Int : Put(i, out) \in Int
    <3> SUFFICES ASSUME NEW i \in S, NEW out \in Int PROVE Put(i, out) \in Int
      OBVIOUS
    <3>1. i \in Nat
      OBVIOUS
    <3>2. 2 ^ i \in Nat
      BY <3>1, PowerNext
    <3> QED BY <3>2
  <2> HIDE DEF Put
  <2> QED BY <2>1
<1>3. PICK q \in [SUBSET S -> Int] : FoldOf(q, S, c, 0, F)
  <2>1. \A s \in SUBSET S : s # {} => c[s] \in s
    BY <1>1
  <2>2. 0 \in Int
    OBVIOUS
  <2> HIDE DEF F, c
  <2> QED BY <1>2, <2>1, <2>2, FoldExists
<1>4. Is(q)
  <2>1. ASSUME NEW s \in SUBSET S, s # {}
        PROVE  q[s] = Put(first(s), q[s \ {first(s)}])
    <3>1. first(s) \in S /\ s \ {first(s)} \in SUBSET S
      BY <1>1, <2>1
    <3>2. q[s \ {first(s)}] \in Int
      <4> HIDE DEF first
      <4> QED BY <3>1
    <3>3. q[s] = F[<<c[s], q[s \ {c[s]}]>>]
      <4> HIDE DEF F, c
      <4> QED BY <1>3, <2>1 DEF FoldOf
    <3>4. c[s] = first(s)
      OBVIOUS
    <3> HIDE DEF first, Put, c
    <3> QED BY <3>1, <3>2, <3>3, <3>4
  <2>2. q[{}] = 0
    BY <1>3 DEF FoldOf
  <2> HIDE DEF Put, first, c, F
  <2> QED BY <2>1, <2>2
<1> DEFINE h == CHOOSE q0 : Is(q0)
<1>5. Is(h)
  <2> HIDE DEF Is
  <2> QED BY <1>4
<1>6. Weight(S) = h[S]
  BY DEF Weight, MapThenSumSet, MapThenFoldSet
<1> HIDE DEF h
<1> DEFINE g == [s \in SUBSET S |-> h[s]]
<1>7. SumFold(S, g)
  <2> SUFFICES ASSUME NEW s \in SUBSET S
               PROVE  g[s] = IF s = {} THEN 0 ELSE Put(first(s), g[s \ {first(s)}])
    BY DEF SumFold
  <2>1. s \ {first(s)} \in SUBSET S
    OBVIOUS
  <2>2. h[s] = IF s = {} THEN 0 ELSE Put(first(s), h[s \ {first(s)}])
    <3> HIDE DEF Put, first
    <3> QED BY <1>5
  <2> HIDE DEF Put, first
  <2> QED BY <2>1, <2>2
<1> QED BY <1>6, <1>7

\* Folds of a set and of one that contains it agree.
LEMMA SumFoldsAgree ==
  ASSUME NEW T, NEW S, IsFiniteSet(T), S \subseteq T, NEW g, NEW h, SumFold(S, g), SumFold(T, h)
  PROVE  g[S] = h[S]
<1> DEFINE D == { k \in Nat : \A s \in SUBSET S : Cardinality(s) <= k => g[s] = h[s] }
           first(s) == CHOOSE x \in s : TRUE
<1>1. \A s \in SUBSET S : IsFiniteSet(s) /\ Cardinality(s) \in Nat
  <2> SUFFICES ASSUME NEW s \in SUBSET S PROVE IsFiniteSet(s) /\ Cardinality(s) \in Nat
    OBVIOUS
  <2>1. s \in SUBSET T
    OBVIOUS
  <2> QED BY <2>1, FS_Subset, FS_CardinalityType
<1>2. \A s \in SUBSET S :
        /\ g[s] = IF s = {} THEN 0 ELSE 2 ^ first(s) + g[s \ {first(s)}]
        /\ h[s] = IF s = {} THEN 0 ELSE 2 ^ first(s) + h[s \ {first(s)}]
  BY DEF SumFold
<1>3. 0 \in D
  <2> SUFFICES ASSUME NEW s \in SUBSET S, Cardinality(s) <= 0 PROVE g[s] = h[s]
    OBVIOUS
  <2>1. s = {}
    BY <1>1, FS_EmptySet
  <2> HIDE DEF first
  <2> QED BY <1>2, <2>1
<1>4. ASSUME NEW k \in D PROVE k + 1 \in D
  <2> SUFFICES ASSUME NEW s \in SUBSET S, Cardinality(s) <= k + 1, s # {} PROVE g[s] = h[s]
    <3> HIDE DEF first
    <3> QED BY <1>2
  <2> DEFINE r == s \ {first(s)}
  <2>1. first(s) \in s
    OBVIOUS
  <2> HIDE DEF first
  <2>2. Cardinality(r) = Cardinality(s) - 1
    BY <1>1, <2>1, FS_RemoveElement
  <2>3. Cardinality(r) <= k /\ r \in SUBSET S
    BY <1>1, <2>2
  <2>4. g[r] = h[r]
    BY <2>3
  <2> QED BY <1>2, <2>4
<1>5. D = Nat
  <2>1. D \in SUBSET Nat
    OBVIOUS
  <2> HIDE DEF D
  <2> QED BY <1>3, <1>4, <2>1, Induction
<1>6. Cardinality(S) \in D /\ Cardinality(S) <= Cardinality(S)
  BY <1>1, <1>5
<1> QED BY <1>6

\* A fold may take any element first.
LEMMA SumFoldAny ==
  ASSUME NEW T \in SUBSET Nat, IsFiniteSet(T), NEW h, SumFold(T, h)
  PROVE  \A s \in SUBSET T :
           /\ h[s] \in Nat
           /\ s = {} => h[s] = 0
           /\ \A x \in s : h[s] = 2 ^ x + h[s \ {x}]
<1> DEFINE Ok(s) == h[s] \in Nat /\ \A x \in s : h[s] = 2 ^ x + h[s \ {x}]
           D == { k \in Nat : \A s \in SUBSET T : Cardinality(s) <= k => Ok(s) }
           first(s) == CHOOSE x \in s : TRUE
<1>1. \A s \in SUBSET T : IsFiniteSet(s) /\ Cardinality(s) \in Nat
  BY FS_Subset, FS_CardinalityType
<1>2. \A s \in SUBSET T : h[s] = IF s = {} THEN 0 ELSE 2 ^ first(s) + h[s \ {first(s)}]
  BY DEF SumFold
<1>3. \A x \in T : 2 ^ x \in Nat
  BY PowerNext
<1>4. h[{}] = 0
  <2> HIDE DEF first
  <2> QED BY <1>2
<1>5. 0 \in D
  <2> SUFFICES ASSUME NEW s \in SUBSET T, Cardinality(s) <= 0 PROVE Ok(s)
    OBVIOUS
  <2>1. s = {}
    BY <1>1, FS_EmptySet
  <2> QED BY <1>4, <2>1
<1>6. ASSUME NEW k \in D PROVE k + 1 \in D
  <2>0. Ok({})
    BY <1>4
  <2> SUFFICES ASSUME NEW s \in SUBSET T, Cardinality(s) <= k + 1, s # {} PROVE Ok(s)
    <3> HIDE DEF Ok
    <3> QED BY <2>0
  <2> DEFINE c == first(s)
  <2>1. c \in s
    OBVIOUS
  <2>2. h[s] = 2 ^ c + h[s \ {c}]
    <3> HIDE DEF first
    <3> QED BY <1>2
  <2> HIDE DEF c
  <2>3. ASSUME NEW x \in s PROVE Ok(s \ {x}) /\ 2 ^ x \in Nat
    <3>1. Cardinality(s \ {x}) = Cardinality(s) - 1
      BY <1>1, FS_RemoveElement
    <3>2. Cardinality(s \ {x}) <= k /\ s \ {x} \in SUBSET T
      BY <1>1, <3>1
    <3> HIDE DEF Ok
    <3> QED BY <1>3, <3>2
  <2>4. h[s \ {c}] \in Nat /\ 2 ^ c \in Nat
    BY <2>1, <2>3
  <2>5. ASSUME NEW x \in s PROVE h[s] = 2 ^ x + h[s \ {x}]
    <3>1. CASE x = c
      BY <2>2, <3>1
    <3>2. CASE x # c
      <4> DEFINE r == (s \ {c}) \ {x}
      <4>1. h[s \ {c}] = 2 ^ x + h[r]
        <5>1. x \in s \ {c}
          BY <3>2
        <5> QED BY <2>1, <2>3, <5>1
      <4>2. h[s \ {x}] = 2 ^ c + h[(s \ {x}) \ {c}]
        <5>1. c \in s \ {x}
          BY <2>1, <3>2
        <5> QED BY <2>3, <5>1
      <4>3. (s \ {x}) \ {c} = r
        OBVIOUS
      <4>4. h[r] \in Nat
        <5>1. r \in SUBSET T /\ Cardinality(s \ {x}) <= k /\ c \in s \ {x}
          <6>1. Cardinality(s \ {x}) = Cardinality(s) - 1
            BY <1>1, FS_RemoveElement
          <6> QED BY <1>1, <2>1, <3>2, <6>1
        <5>2. Cardinality((s \ {x}) \ {c}) <= k
          <6>1. s \ {x} \in SUBSET T
            OBVIOUS
          <6>2. Cardinality((s \ {x}) \ {c}) = Cardinality(s \ {x}) - 1 /\ Cardinality(s \ {x}) \in Nat
            BY <1>1, <5>1, <6>1, FS_RemoveElement
          <6> QED BY <5>1, <6>2
        <5>3. Ok(r)
          <6> HIDE DEF Ok
          <6> QED BY <4>3, <5>1, <5>2
        <5> QED BY <5>3
      <4>5. 2 ^ x \in Nat /\ 2 ^ c \in Nat
        BY <2>1, <2>3
      <4> HIDE DEF r
      <4>6. h[s \ {x}] = 2 ^ c + h[r]
        BY <4>2, <4>3
      <4>7. \A i, j, l \in Nat : i + (j + l) = j + (i + l)
        OBVIOUS
      <4>8. 2 ^ c + (2 ^ x + h[r]) = 2 ^ x + (2 ^ c + h[r])
        BY <4>4, <4>5, <4>7
      <4> QED BY <2>2, <4>1, <4>6, <4>8
    <3> QED BY <3>1, <3>2
  <2>6. h[s] \in Nat
    BY <2>2, <2>4
  <2> QED BY <2>5, <2>6
<1>7. D = Nat
  <2>1. D \in SUBSET Nat
    OBVIOUS
  <2> HIDE DEF D
  <2> QED BY <1>5, <1>6, <2>1, Induction
<1> SUFFICES ASSUME NEW s \in SUBSET T
             PROVE  Ok(s) /\ (s = {} => h[s] = 0)
  OBVIOUS
<1>8. Cardinality(s) \in D
  <2> HIDE DEF D
  <2> QED BY <1>1, <1>7
<1>9. Cardinality(s) <= Cardinality(s)
  BY <1>1
<1>10. Ok(s)
  <2> HIDE DEF Ok
  <2> QED BY <1>8, <1>9
<1> HIDE DEF D
<1> QED BY <1>4, <1>10

\* What is needed of weights.
LEMMA WeightFacts ==
  ASSUME NEW v \in SUBSET Nat, IsFiniteSet(v)
  PROVE  /\ Weight(v) \in Nat
         /\ v = {} => Weight(v) = 0
         /\ \A x \in v : Weight(v) = 2 ^ x + Weight(v \ {x})
<1>1. PICK h : SumFold(v, h) /\ Weight(v) = h[v]
  BY SumFoldExists
<1>2. /\ h[v] \in Nat /\ (v = {} => h[v] = 0)
      /\ \A x \in v : h[v] = 2 ^ x + h[v \ {x}]
  BY <1>1, SumFoldAny
<1>3. ASSUME NEW x \in v PROVE Weight(v \ {x}) = h[v \ {x}]
  <2> DEFINE s == v \ {x}
  <2>1. s \in SUBSET v /\ s \in SUBSET Nat /\ IsFiniteSet(s)
    BY FS_Subset
  <2> HIDE DEF s
  <2>2. PICK g : SumFold(s, g) /\ Weight(s) = g[s]
    BY <2>1, SumFoldExists
  <2>3. IsFiniteSet(v) /\ s \subseteq v /\ SumFold(s, g) /\ SumFold(v, h)
    BY <1>1, <2>1, <2>2
  <2>4. g[s] = h[s]
    BY <2>3, SumFoldsAgree
  <2> QED BY <2>2, <2>4 DEF s
<1> QED BY <1>1, <1>2, <1>3

-----------------------------------------------------------------------------
(* Words as numbers *)

\* The weight of the bits of a word.
LEMMA WordWeight ==
  ASSUME NEW n \in Nat, NEW v \in SUBSET BitsOf(n)
  PROVE  /\ Weight(v) \in Nat
         /\ v = {} => Weight(v) = 0
         /\ \A x \in v : Weight(v) = 2 ^ x + Weight(v \ {x})
<1>1. IsFiniteSet(BitsOf(n)) /\ BitsOf(n) \subseteq Nat
  BY FS_Interval DEF BitsOf
<1>2. v \in SUBSET Nat /\ IsFiniteSet(v)
  BY <1>1, FS_Subset
<1> QED BY <1>2, WeightFacts

\* The bits of a word of n + 1 bits are those of one of n, and may be bit n.
LEMMA TopBit ==
  ASSUME NEW n \in Nat, NEW v \in SUBSET BitsOf(n + 1)
  PROVE  /\ n \notin v => v \in SUBSET BitsOf(n)
         /\ v \ {n} \in SUBSET BitsOf(n)
         /\ n \in v => Weight(v) = 2 ^ n + Weight(v \ {n})
         /\ 2 ^ n \in Nat
<1>1. BitsOf(n + 1) \ {n} = BitsOf(n)
  BY DEF BitsOf
<1>2. n \in v => Weight(v) = 2 ^ n + Weight(v \ {n})
  <2>1. n + 1 \in Nat
    OBVIOUS
  <2> QED BY <2>1, WordWeight
<1>3. 2 ^ n \in Nat
  BY PowerNext
<1> QED BY <1>1, <1>2, <1>3

\* Words of n bits are numbers below 2 ^ n.
LEMMA WeightBelow ==
  ASSUME NEW n \in Nat, NEW v \in SUBSET BitsOf(n)
  PROVE  Weight(v) < 2 ^ n
<1> DEFINE D == { k \in Nat : \A s \in SUBSET BitsOf(k) : Weight(s) < 2 ^ k }
<1>1. 0 \in D
  <2> SUFFICES ASSUME NEW s \in SUBSET BitsOf(0) PROVE Weight(s) < 2 ^ 0
    OBVIOUS
  <2>1. s = {}
    BY DEF BitsOf
  <2>2. 0 \in Nat /\ s \in SUBSET BitsOf(0)
    OBVIOUS
  <2>3. Weight(s) = 0
    BY <2>1, <2>2, WordWeight
  <2> QED BY <2>3, PowerZero
<1>2. ASSUME NEW k \in D PROVE k + 1 \in D
  <2> SUFFICES ASSUME NEW s \in SUBSET BitsOf(k + 1) PROVE Weight(s) < 2 ^ (k + 1)
    OBVIOUS
  <2>1. /\ k \notin s => s \in SUBSET BitsOf(k)
        /\ s \ {k} \in SUBSET BitsOf(k)
        /\ k \in s => Weight(s) = 2 ^ k + Weight(s \ {k})
    BY TopBit
  <2>2. 2 ^ (k + 1) = 2 ^ k + 2 ^ k /\ 2 ^ k \in Nat
    BY PowerNext
  <2>3. Weight(s \ {k}) < 2 ^ k /\ Weight(s \ {k}) \in Nat
    BY <2>1, WordWeight
  <2>4. CASE k \in s
    BY <2>1, <2>2, <2>3, <2>4
  <2>5. CASE k \notin s
    <3>1. Weight(s) < 2 ^ k /\ Weight(s) \in Nat
      BY <2>1, <2>5, WordWeight
    <3> QED BY <2>2, <3>1
  <2> QED BY <2>4, <2>5
<1>3. D = Nat
  <2>1. D \in SUBSET Nat
    OBVIOUS
  <2> HIDE DEF D
  <2> QED BY <1>1, <1>2, <2>1, Induction
<1> QED BY <1>3

\* Bits moved up by s.
Raised(v, s) == { b + s : b \in v }

\* Each move doubles the number.
LEMMA WeightRaised ==
  ASSUME NEW n \in Nat, NEW v \in SUBSET BitsOf(n), NEW s \in Nat
  PROVE  /\ Raised(v, s) \in SUBSET BitsOf(n + s)
         /\ Weight(Raised(v, s)) = Weight(v) * 2 ^ s
<1> DEFINE D == { k \in Nat : \A u \in SUBSET BitsOf(k) : Weight(Raised(u, s)) = Weight(u) * 2 ^ s }
<1>0. \A k \in Nat : \A u \in SUBSET BitsOf(k) : Raised(u, s) \in SUBSET BitsOf(k + s)
  BY DEF Raised, BitsOf
<1>1. 0 \in D
  <2> SUFFICES ASSUME NEW u \in SUBSET BitsOf(0) PROVE Weight(Raised(u, s)) = Weight(u) * 2 ^ s
    OBVIOUS
  <2>0. u = {}
    BY DEF BitsOf
  <2>1. u = {} /\ Raised(u, s) = {}
    BY <2>0 DEF Raised
  <2>2. 0 \in Nat /\ {} \in SUBSET BitsOf(0)
    OBVIOUS
  <2>3. Weight({}) = 0
    BY <2>2, WordWeight
  <2>4. 2 ^ s \in Nat
    BY PowerNext
  <2> QED BY <2>1, <2>3, <2>4
<1>2. ASSUME NEW k \in D PROVE k + 1 \in D
  <2> SUFFICES ASSUME NEW u \in SUBSET BitsOf(k + 1)
               PROVE  Weight(Raised(u, s)) = Weight(u) * 2 ^ s
    OBVIOUS
  <2> DEFINE r == u \ {k}
  <2>1. /\ k \notin u => u \in SUBSET BitsOf(k)
        /\ r \in SUBSET BitsOf(k)
        /\ k \in u => Weight(u) = 2 ^ k + Weight(r)
    BY TopBit
  <2>2. CASE k \in u
    <3> DEFINE R == Raised(u, s)
               m == k + s
    <3>0. m \in Nat /\ k + 1 + s = m + 1 /\ k + 1 \in Nat
      OBVIOUS
    <3>1. R \in SUBSET BitsOf(m + 1) /\ m \in R
      <4>1. R \in SUBSET BitsOf(k + 1 + s)
        BY <1>0, <3>0
      <4> QED BY <2>2, <3>0, <4>1 DEF Raised
    <3>2. Raised(u, s) \ {k + s} = Raised(r, s)
      <4>1. \A b \in u : b \in Int
        BY DEF BitsOf
      <4>2. \A b \in Int : b + s = k + s => b = k
        OBVIOUS
      <4> QED BY <4>1, <4>2 DEF Raised
    <3>3. Weight(Raised(u, s)) = 2 ^ (k + s) + Weight(Raised(r, s))
      <4>1. Weight(R) = 2 ^ m + Weight(R \ {m})
        <5> HIDE DEF R, m
        <5> QED BY <3>0, <3>1, TopBit
      <4> QED BY <3>2, <4>1
    <3>4. Weight(Raised(r, s)) = Weight(r) * 2 ^ s
      BY <2>1
    <3>5. 2 ^ (k + s) = 2 ^ k * 2 ^ s /\ 2 ^ k \in Nat /\ 2 ^ s \in Nat
      BY PowerSum, PowerNext
    <3>6. Weight(r) \in Nat
      BY <2>1, WordWeight
    <3>7. \A i, j, l \in Nat : (i + j) * l = i * l + j * l
      OBVIOUS
    <3>8. (2 ^ k + Weight(r)) * 2 ^ s = 2 ^ k * 2 ^ s + Weight(r) * 2 ^ s
      BY <3>5, <3>6, <3>7
    <3> QED BY <2>1, <2>2, <3>3, <3>4, <3>5, <3>8
  <2>3. CASE k \notin u
    BY <2>1, <2>3
  <2> QED BY <2>2, <2>3
<1>3. D = Nat
  <2>1. D \in SUBSET Nat
    OBVIOUS
  <2> HIDE DEF D
  <2> QED BY <1>1, <1>2, <2>1, Induction
<1> QED BY <1>0, <1>3

\* Numbers without common bits add up to the one with the bits of both.
LEMMA WeightUnion ==
  ASSUME NEW n \in Nat, NEW v \in SUBSET BitsOf(n), NEW u \in SUBSET BitsOf(n), v \cap u = {}
  PROVE  Weight(v \cup u) = Weight(v) + Weight(u)
<1> DEFINE D == { k \in Nat : \A a, b \in SUBSET BitsOf(k) : a \cap b = {} => Weight(a \cup b) = Weight(a) + Weight(b) }
<1>1. 0 \in D
  <2> SUFFICES ASSUME NEW a \in SUBSET BitsOf(0), NEW b \in SUBSET BitsOf(0)
               PROVE  Weight(a \cup b) = Weight(a) + Weight(b)
    OBVIOUS
  <2>1. a = {} /\ b = {} /\ a \cup b = {}
    BY DEF BitsOf
  <2>2. 0 \in Nat /\ {} \in SUBSET BitsOf(0)
    OBVIOUS
  <2>3. Weight({}) = 0
    BY <2>2, WordWeight
  <2> QED BY <2>1, <2>3
<1>2. ASSUME NEW k \in D PROVE k + 1 \in D
  <2> SUFFICES ASSUME NEW a \in SUBSET BitsOf(k + 1), NEW b \in SUBSET BitsOf(k + 1), a \cap b = {}
               PROVE  Weight(a \cup b) = Weight(a) + Weight(b)
    OBVIOUS
  <2> DEFINE c == a \cup b
             A == a \ {k}
             B == b \ {k}
             C == c \ {k}
  <2>0. c \in SUBSET BitsOf(k + 1)
    OBVIOUS
  <2>1. k \in a => Weight(a) = 2 ^ k + Weight(A)
    BY TopBit
  <2>2. k \in b => Weight(b) = 2 ^ k + Weight(B)
    BY TopBit
  <2>3. k \in c => Weight(c) = 2 ^ k + Weight(C)
    <3> HIDE DEF c
    <3> QED BY <2>0, TopBit
  <2>4. A \in SUBSET BitsOf(k) /\ B \in SUBSET BitsOf(k)
    BY TopBit
  <2>5. C = A \cup B /\ A \cap B = {}
    OBVIOUS
  <2>6. Weight(C) = Weight(A) + Weight(B)
    <3> HIDE DEF A, B, C
    <3> QED BY <2>4, <2>5
  <2>7. Weight(A) \in Nat /\ Weight(B) \in Nat /\ 2 ^ k \in Nat
    <3> HIDE DEF A, B
    <3> QED BY <2>4, WordWeight, PowerNext
  <2>8. /\ k \notin a => A = a
        /\ k \notin b => B = b
        /\ k \notin c => C = c
    OBVIOUS
  <2>9. (k \in c <=> k \in a \/ k \in b) /\ ~ (k \in a /\ k \in b)
    OBVIOUS
  <2> HIDE DEF A, B, C, c
  <2>10. Weight(c) = Weight(a) + Weight(b)
    <3>1. CASE k \in a
      BY <2>1, <2>3, <2>6, <2>7, <2>8, <2>9, <3>1
    <3>2. CASE k \in b
      BY <2>2, <2>3, <2>6, <2>7, <2>8, <2>9, <3>2
    <3>3. CASE k \notin a /\ k \notin b
      BY <2>6, <2>8, <2>9, <3>3
    <3> QED BY <3>1, <3>2, <3>3
  <2> QED BY <2>10 DEF c
<1>3. D = Nat
  <2>1. D \in SUBSET Nat
    OBVIOUS
  <2> HIDE DEF D
  <2> QED BY <1>1, <1>2, <2>1, Induction
<1> QED BY <1>3

\* All bits from k on.
LEMMA WeightAbove ==
  ASSUME NEW n \in Nat, NEW k \in 0 .. n
  PROVE  Weight(k .. n - 1) = 2 ^ n - 2 ^ k
<1> DEFINE D == { j \in Nat : Weight(k .. k + j - 1) = 2 ^ (k + j) - 2 ^ k }
<1>0. \A j \in Nat : 2 ^ (k + j) \in Nat
  BY PowerNext
<1>1. 0 \in D
  <2>1. k .. k + 0 - 1 = {} /\ k + 0 = k /\ 0 \in Nat /\ {} \in SUBSET BitsOf(0)
    OBVIOUS
  <2>2. Weight({}) = 0
    BY <2>1, WordWeight
  <2>3. 2 ^ k \in Nat
    BY PowerNext
  <2> QED BY <2>1, <2>2, <2>3
<1>2. ASSUME NEW j \in D PROVE j + 1 \in D
  <2> DEFINE v == k .. k + (j + 1) - 1
             m == k + j
  <2>1. m \in Nat /\ v \in SUBSET BitsOf(m + 1) /\ m \in v /\ v \ {m} = k .. k + j - 1 /\ k + (j + 1) = m + 1
    BY DEF BitsOf
  <2>2. Weight(k .. k + j - 1) = 2 ^ m - 2 ^ k
    OBVIOUS
  <2> HIDE DEF v, m
  <2>3. Weight(v) = 2 ^ m + Weight(v \ {m})
    BY <2>1, TopBit
  <2>4. 2 ^ (m + 1) = 2 ^ m + 2 ^ m /\ 2 ^ m \in Nat /\ 2 ^ k \in Nat
    BY <2>1, PowerNext
  <2>5. Weight(v) = 2 ^ (m + 1) - 2 ^ k
    <3>1. \A a, b \in Nat : a + (a - b) = (a + a) - b
      OBVIOUS
    <3>2. Weight(v) = 2 ^ m + (2 ^ m - 2 ^ k)
      BY <2>1, <2>2, <2>3
    <3>3. 2 ^ m + (2 ^ m - 2 ^ k) = (2 ^ m + 2 ^ m) - 2 ^ k
      BY <2>4, <3>1
    <3> QED BY <2>4, <3>2, <3>3
  <2> QED BY <2>1, <2>5 DEF v
<1>3. D = Nat
  <2>1. D \in SUBSET Nat
    OBVIOUS
  <2> HIDE DEF D
  <2> QED BY <1>1, <1>2, <2>1, Induction
<1>4. n - k \in Nat /\ k + (n - k) = n
  OBVIOUS
<1>5. n - k \in D
  <2> HIDE DEF D
  <2> QED BY <1>3, <1>4
<1> QED BY <1>4, <1>5

\* A number has one quotient and one remainder, the negative ones too.
LEMMA IntSplit ==
  ASSUME NEW B \in Nat \ {0}, NEW q \in Int, NEW r \in 0 .. B - 1, NEW x, x = q * B + r
  PROVE  x \in Int /\ x \div B = q /\ x % B = r
<1>1. x \in Int
  OBVIOUS
<1>2. x \div B \in Int /\ x % B \in 0 .. B - 1 /\ x = (x \div B) * B + (x % B)
  BY <1>1
<1>3. ASSUME NEW p \in Int, NEW s \in 0 .. B - 1, q * B + r = p * B + s
      PROVE  q = p /\ r = s
  <2>1. ASSUME NEW i \in Int, NEW j \in Int, i < j PROVE i * B + B <= j * B
    <3>1. (j - i) * B >= B
      BY <2>1
    <3> QED BY <2>1, <3>1
  <2>2. ~ (q < p) /\ ~ (p < q)
    <3>1. q < p => q * B + B <= p * B
      BY <2>1
    <3>2. p < q => p * B + B <= q * B
      BY <2>1
    <3>3. q * B \in Int /\ p * B \in Int
      OBVIOUS
    <3> QED BY <1>3, <3>1, <3>2, <3>3
  <2>3. q = p
    BY <2>2
  <2> QED BY <1>3, <2>3
<1> QED BY <1>1, <1>2, <1>3

\* Powers of two are positive.
LEMMA PowerIs ==
  ASSUME NEW n \in Nat
  PROVE  2 ^ n \in Nat \ {0}
  BY PowerNext

\* A number is the one of its bits from s on, times 2 ^ s, and that of those below.
LEMMA WordSplit ==
  ASSUME NEW w \in Nat, NEW v \in SUBSET BitsOf(w), NEW s \in 0 .. w
  PROVE  /\ Right(w, v, s) \in SUBSET BitsOf(w - s) /\ w - s \in Nat
         /\ v \cap BitsOf(s) \in SUBSET BitsOf(s)
         /\ Weight(v) = Weight(Right(w, v, s)) * 2 ^ s + Weight(v \cap BitsOf(s))
<1> DEFINE R == Right(w, v, s)
           L == v \cap BitsOf(s)
<1>1. R \in SUBSET BitsOf(w - s) /\ w - s \in Nat /\ (w - s) + s = w /\ s \in Nat
  BY DEF Right
<1>2. L \in SUBSET BitsOf(s) /\ L \in SUBSET BitsOf(w)
  OBVIOUS
<1>3. v = Raised(R, s) \cup L
  <2>1. \A b \in v : b \in Nat /\ b < w /\ (b \in BitsOf(s) <=> b < s)
    BY DEF BitsOf
  <2>2. \A b \in v : b >= s => b \in Raised(R, s)
    <3> SUFFICES ASSUME NEW b \in v, b >= s PROVE b \in Raised(R, s)
      OBVIOUS
    <3>1. b - s \in BitsOf(w - s) /\ (b - s) + s = b
      BY <2>1 DEF BitsOf
    <3>2. b - s \in R
      BY <3>1 DEF Right
    <3> QED BY <3>1, <3>2 DEF Raised
  <2>3. Raised(R, s) \subseteq v
    BY DEF Raised, Right
  <2> QED BY <2>1, <2>2, <2>3
<1>4. Raised(R, s) \cap L = {}
  BY DEF Raised, Right, BitsOf
<1> HIDE DEF R, L
<1>5. Raised(R, s) \in SUBSET BitsOf(w) /\ Weight(Raised(R, s)) = Weight(R) * 2 ^ s
  <2>1. Raised(R, s) \in SUBSET BitsOf((w - s) + s) /\ Weight(Raised(R, s)) = Weight(R) * 2 ^ s
    BY <1>1, WeightRaised
  <2> QED BY <1>1, <2>1
<1>6. Weight(Raised(R, s) \cup L) = Weight(Raised(R, s)) + Weight(L)
  BY <1>2, <1>4, <1>5, WeightUnion
<1> QED BY <1>1, <1>2, <1>3, <1>5, <1>6 DEF R, L

\* Bits from s on are a quotient, bits below s a remainder.
LEMMA WordParts ==
  ASSUME NEW w \in Nat, NEW v \in SUBSET BitsOf(w), NEW s \in 0 .. w
  PROVE  /\ Weight(Right(w, v, s)) = Weight(v) \div 2 ^ s
         /\ Weight(v \cap BitsOf(s)) = Weight(v) % 2 ^ s
<1> DEFINE R == Right(w, v, s)
           L == v \cap BitsOf(s)
<1>1. /\ R \in SUBSET BitsOf(w - s) /\ w - s \in Nat /\ L \in SUBSET BitsOf(s)
      /\ Weight(v) = Weight(R) * 2 ^ s + Weight(L)
  BY WordSplit
<1> HIDE DEF R, L
<1>2. Weight(R) \in Nat /\ Weight(L) \in Nat /\ Weight(L) < 2 ^ s /\ 2 ^ s \in Nat \ {0}
  BY <1>1, WordWeight, WeightBelow, PowerIs
<1> DEFINE B == 2 ^ s
           q == Weight(R)
           r == Weight(L)
           x == Weight(v)
<1>3. B \in Nat \ {0} /\ q \in Int /\ r \in 0 .. B - 1 /\ x = q * B + r
  <2> HIDE DEF B, q, r, x
  <2>1. B \in Nat \ {0} /\ q \in Nat /\ r \in Nat /\ r < B /\ x = q * B + r
    BY <1>1, <1>2 DEF B, q, r, x
  <2> QED BY <2>1
<1> HIDE DEF B, q, r, x
<1>4. x \div B = q /\ x % B = r
  BY <1>3, IntSplit
<1> QED BY <1>4 DEF B, q, r, x, R, L

\* Bits that are moved up and cut, of a number without or with a sign.
LEMMA LeftParts ==
  ASSUME NEW w \in Nat, NEW v \in SUBSET BitsOf(w), NEW s \in 0 .. w, NEW k \in {0, 1}
  PROVE  Weight(Left(w, v, s)) = ((Weight(v) - k * 2 ^ w) * 2 ^ s) % 2 ^ w
<1> DEFINE h == w - s
           lo == v \cap BitsOf(h)
           R == Right(w, v, h)
<1>1. h \in 0 .. w /\ w - h = s /\ h \in Nat /\ s \in Nat /\ h + s = w
  OBVIOUS
<1>2. Left(w, v, s) = Raised(lo, s)
  <2>1. \A b \in v : b \in Nat /\ (b + s \in BitsOf(w) <=> b \in BitsOf(h))
    BY <1>1 DEF BitsOf
  <2> QED BY <2>1 DEF Left, Raised
<1> HIDE DEF h
<1>3. /\ R \in SUBSET BitsOf(s) /\ lo \in SUBSET BitsOf(h)
      /\ Weight(v) = Weight(R) * 2 ^ h + Weight(lo)
  BY <1>1, WordSplit
<1> HIDE DEF lo, R
<1>4. /\ Weight(R) \in Nat /\ Weight(lo) \in Nat /\ Weight(lo) < 2 ^ h
      /\ 2 ^ h \in Nat \ {0} /\ 2 ^ s \in Nat \ {0} /\ 2 ^ w \in Nat \ {0} /\ 2 ^ w = 2 ^ h * 2 ^ s
  BY <1>1, <1>3, WordWeight, WeightBelow, PowerIs, PowerSum
<1>5. Weight(Left(w, v, s)) = Weight(lo) * 2 ^ s
  BY <1>1, <1>2, <1>3, WeightRaised
<1> DEFINE P == 2 ^ h
           S == 2 ^ s
           W == 2 ^ w
           H == Weight(R)
           L == Weight(lo)
<1>6. /\ P \in Nat \ {0} /\ S \in Nat \ {0} /\ W \in Nat \ {0} /\ W = P * S /\ H \in Nat /\ L \in Nat /\ L < P
      /\ Weight(v) = H * P + L /\ Weight(Left(w, v, s)) = L * S /\ k \in Nat
  BY <1>3, <1>4, <1>5
<1> HIDE DEF P, S, W, H, L
<1> DEFINE x == (Weight(v) - k * W) * S
<1>7. L * S \in 0 .. W - 1
  <2>1. (P - L) * S >= 1
    BY <1>6
  <2>2. (P - L) * S = P * S - L * S /\ L * S \in Nat
    BY <1>6
  <2> QED BY <1>6, <2>1, <2>2
<1>8. x = (H - k * S) * W + L * S
  <2>1. (H * P + L - k * W) * S = H * (P * S) + L * S - k * S * W
    BY <1>6
  <2>2. (H - k * S) * W = H * W - k * S * W
    BY <1>6
  <2>3. H * W \in Int /\ L * S \in Int /\ k * S * W \in Int
    BY <1>6
  <2>4. x = H * W + L * S - k * S * W
    BY <1>6, <2>1
  <2> HIDE DEF x
  <2> QED BY <2>2, <2>3, <2>4
<1>9. H - k * S \in Int
  BY <1>6
<1> HIDE DEF x
<1>10. x % W = L * S
  <2> DEFINE q == H - k * S
             r == L * S
  <2>1. q \in Int /\ r \in 0 .. W - 1 /\ x = q * W + r /\ W \in Nat \ {0}
    BY <1>6, <1>7, <1>8, <1>9
  <2> HIDE DEF q, r
  <2>2. x % W = r
    BY <2>1, IntSplit
  <2> QED BY <2>2 DEF r
<1> QED BY <1>6, <1>10 DEF x, W, S

-----------------------------------------------------------------------------
(* Shifts and counts *)

\* The sign of a word, as a number.
Sign(t, v) == IF t.signed /\ t.bits - 1 \in v THEN 1 ELSE 0

\* Words as numbers, in a type with a sign and without.
LEMMA NumberIs ==
  ASSUME NEW t \in Types, NEW v \in SUBSET BitsOf(t.bits)
  PROVE  /\ NumberOf(t, v) = Weight(v) - Sign(t, v) * 2 ^ t.bits
         /\ NumberOf(Unsigned(t), v) = Weight(v)
         /\ Sign(t, v) \in {0, 1}
<1>1. t.bits \in Nat
  BY Widths
<1>2. Weight(v) \in Nat /\ 2 ^ t.bits \in Nat
  BY <1>1, WordWeight, PowerIs
<1>3. \A u : NumberOf(u, v) = Weight(v) - IF u.signed /\ u.bits - 1 \in v THEN 2 ^ u.bits ELSE 0
  BY Zenon DEF NumberOf, Weight
<1>4. ~ Unsigned(t).signed
  <2>1. t \in [bits : Nat \ {0}, signed : BOOLEAN]
    BY TypesAssumption
  <2> QED BY <2>1 DEF Unsigned
<1>5. NumberOf(Unsigned(t), v) = Weight(v)
  <2>1. NumberOf(Unsigned(t), v) = Weight(v) - 0
    BY <1>3, <1>4
  <2> QED BY <1>2, <2>1
<1>6. NumberOf(t, v) = Weight(v) - Sign(t, v) * 2 ^ t.bits
  <2>1. CASE t.signed /\ t.bits - 1 \in v
    BY <1>2, <1>3, <2>1 DEF Sign
  <2>2. CASE ~ (t.signed /\ t.bits - 1 \in v)
    BY <1>2, <1>3, <2>2 DEF Sign
  <2> QED BY <2>1, <2>2
<1> QED BY <1>5, <1>6 DEF Sign

\* A number with a sign that is shifted down is divided, rounding down.
LEMMA SignedParts ==
  ASSUME NEW t \in Types, NEW v \in SUBSET BitsOf(t.bits), NEW s \in 0 .. t.bits - 1
  PROVE  /\ bit_right_shift(t, v, s) \in SUBSET BitsOf(t.bits)
         /\ NumberOf(t, bit_right_shift(t, v, s)) = NumberOf(t, v) \div 2 ^ s
<1> DEFINE w == t.bits
           R == Right(w, v, s)
           top == w - s .. w - 1
           L == v \cap BitsOf(s)
           z == bit_right_shift(t, v, s)
<1>1. w \in Nat /\ w > 0 /\ s \in 0 .. w /\ t.signed \in BOOLEAN /\ w - s \in Nat /\ (w - s) + s = w /\ s \in Nat
  BY Widths
<1>2. /\ R \in SUBSET BitsOf(w - s) /\ L \in SUBSET BitsOf(s)
      /\ Weight(v) = Weight(R) * 2 ^ s + Weight(L)
  <2> HIDE DEF w
  <2> QED BY <1>1, WordSplit DEF w
<1>3. R \in SUBSET BitsOf(w)
  BY <1>1, <1>2 DEF BitsOf
<1>4. top \in SUBSET BitsOf(w) /\ top \cap R = {}
  BY <1>1, <1>2 DEF BitsOf
<1>5. Weight(top) = 2 ^ w - 2 ^ (w - s)
  <2> HIDE DEF w
  <2>1. w - s \in 0 .. w
    BY <1>1
  <2> QED BY <1>1, <2>1, WeightAbove DEF top
<1>6. z = IF Sign(t, v) = 1 THEN R \cup top ELSE R
  <2>1. CASE t.signed /\ t.bits - 1 \in v
    <3>1. z = R \cup top
      BY <2>1 DEF bit_right_shift, RightSigned
    <3>2. Sign(t, v) = 1
      BY <2>1 DEF Sign
    <3> HIDE DEF z, R, top
    <3> QED BY <3>1, <3>2
  <2>2. CASE ~ (t.signed /\ t.bits - 1 \in v)
    <3>1. z = R \/ z = R \cup {}
      BY <2>2 DEF bit_right_shift, RightSigned
    <3>2. Sign(t, v) = 0
      BY <2>2 DEF Sign
    <3> HIDE DEF z, R, top
    <3> QED BY <3>1, <3>2
  <2> QED BY <2>1, <2>2
<1>7. Sign(t, z) = Sign(t, v)
  <2>1. CASE Sign(t, v) = 1
    <3>1. t.signed /\ w - 1 \in v /\ z = R \cup top
      BY <1>6, <2>1 DEF Sign
    <3>2. CASE s = 0
      <4>1. w - 1 \in R
        BY <1>1, <3>1, <3>2 DEF Right, BitsOf
      <4> QED BY <2>1, <3>1, <4>1 DEF Sign
    <3>3. CASE s # 0
      <4>1. w - 1 \in top
        BY <1>1, <3>3
      <4> QED BY <2>1, <3>1, <4>1 DEF Sign
    <3> QED BY <3>2, <3>3
  <2>2. CASE Sign(t, v) # 1
    <3>1. z = R /\ Sign(t, v) = 0 /\ (t.signed => w - 1 \notin v)
      BY <1>6, <2>2 DEF Sign
    <3>2. t.signed => w - 1 \notin R
      <4> SUFFICES ASSUME t.signed, w - 1 \in R PROVE FALSE
        OBVIOUS
      <4>1. (w - 1) + s \in v
        BY DEF Right
      <4>2. (w - 1) + s < w
        BY <1>1, <4>1 DEF BitsOf
      <4>3. s = 0 /\ (w - 1) + s = w - 1
        BY <1>1, <4>2
      <4> QED BY <3>1, <4>1, <4>3
    <3> QED BY <3>1, <3>2 DEF Sign
  <2> QED BY <2>1, <2>2
<1>8. z \in SUBSET BitsOf(w)
  BY <1>3, <1>4, <1>6
<1>9. Weight(z) = Weight(R) + Sign(t, v) * (2 ^ w - 2 ^ (w - s))
  <2> HIDE DEF w, R, top, z
  <2>0. Weight(R) \in Nat /\ 2 ^ w \in Nat /\ 2 ^ (w - s) \in Nat
    BY <1>1, <1>3, WordWeight, PowerIs
  <2>1. CASE Sign(t, v) = 1
    <3>1. Weight(R \cup top) = Weight(R) + Weight(top)
      BY <1>1, <1>3, <1>4, WeightUnion
    <3> QED BY <1>5, <1>6, <2>0, <2>1, <3>1
  <2>2. CASE Sign(t, v) # 1
    <3>1. Sign(t, v) = 0
      BY <2>2 DEF Sign
    <3> QED BY <1>6, <2>0, <2>2, <3>1
  <2> QED BY <2>1, <2>2
<1> HIDE DEF w, R, top, L, z
<1>10. /\ NumberOf(t, v) = Weight(v) - Sign(t, v) * 2 ^ w
       /\ NumberOf(t, z) = Weight(z) - Sign(t, v) * 2 ^ w
       /\ Sign(t, v) \in {0, 1}
  BY <1>7, <1>8, NumberIs DEF w
<1>11. /\ Weight(R) \in Nat /\ Weight(L) \in Nat /\ Weight(L) < 2 ^ s
       /\ 2 ^ s \in Nat \ {0} /\ 2 ^ w \in Nat \ {0} /\ 2 ^ (w - s) \in Nat \ {0}
       /\ 2 ^ w = 2 ^ (w - s) * 2 ^ s
  BY <1>1, <1>2, WordWeight, WeightBelow, PowerIs, PowerSum
<1> DEFINE S == 2 ^ s
           W == 2 ^ w
           P == 2 ^ (w - s)
           k == Sign(t, v)
           q == Weight(R)
           r == Weight(L)
           x == NumberOf(t, v)
           y == NumberOf(t, z)
<1>12. /\ S \in Nat \ {0} /\ W \in Nat \ {0} /\ P \in Nat \ {0} /\ W = P * S /\ q \in Nat /\ r \in Nat /\ r < S
       /\ x = q * S + r - k * W /\ y = q + k * (W - P) - k * W /\ k \in {0, 1}
  BY <1>2, <1>9, <1>10, <1>11
<1> HIDE DEF S, W, P, k, q, r, x, y
<1>13. y \in Int /\ r \in 0 .. S - 1 /\ x = y * S + r
  BY <1>12
<1>14. x \div S = y
  BY <1>12, <1>13, IntSplit
<1> QED BY <1>8, <1>14 DEF S, x, y, w, z

\* Shifts as products and quotients.
LEMMA ShiftNumbers ==
  ASSUME NEW t \in Types, NEW v \in SUBSET BitsOf(t.bits), NEW s \in BitsOf(t.bits)
  PROVE  /\ bit_left_shift(t, v, s) \in SUBSET BitsOf(t.bits)
         /\ NumberOf(Unsigned(t), bit_left_shift(t, v, s)) = (NumberOf(t, v) * 2 ^ s) % 2 ^ t.bits
         /\ bit_right_shift(t, v, s) \in SUBSET BitsOf(t.bits)
         /\ NumberOf(t, bit_right_shift(t, v, s)) = NumberOf(t, v) \div 2 ^ s
         /\ NumberOf(Unsigned(t), bit_right_nshift(t, v, s)) = NumberOf(Unsigned(t), v) \div 2 ^ s
         /\ s = 0 => bit_left_shift(t, v, 0) = bit_right_shift(t, v, 0)
         /\ s = 0 => bit_left_shift(t, v, 0) = bit_right_nshift(t, v, 0)
<1> DEFINE w == t.bits
           L == Left(w, v, s)
           R == Right(w, v, s)
<1>1. w \in Nat /\ w > 0 /\ s \in 0 .. w /\ s \in 0 .. w - 1 /\ w - s \in Nat /\ s \in Nat
  BY Widths DEF BitsOf
<1>2. L \in SUBSET BitsOf(w) /\ bit_left_shift(t, v, s) = L
  BY DEF Left, bit_left_shift
<1>3. R \in SUBSET BitsOf(w) /\ bit_right_nshift(t, v, s) = R
  BY <1>1 DEF Right, bit_right_nshift, BitsOf
<1>4. NumberOf(Unsigned(t), L) = Weight(L) /\ NumberOf(Unsigned(t), R) = Weight(R)
  BY <1>2, <1>3, NumberIs DEF w
<1>5. NumberOf(Unsigned(t), v) = Weight(v) /\ NumberOf(t, v) = Weight(v) - Sign(t, v) * 2 ^ w
      /\ Sign(t, v) \in {0, 1}
  BY NumberIs
<1>6. Weight(L) = ((Weight(v) - Sign(t, v) * 2 ^ w) * 2 ^ s) % 2 ^ w
  <2> HIDE DEF w
  <2> QED BY <1>1, <1>5, LeftParts DEF L, w
<1>7. Weight(R) = Weight(v) \div 2 ^ s
  <2> HIDE DEF w
  <2> QED BY <1>1, WordParts DEF R, w
<1>8. /\ bit_right_shift(t, v, s) \in SUBSET BitsOf(t.bits)
      /\ NumberOf(t, bit_right_shift(t, v, s)) = NumberOf(t, v) \div 2 ^ s
  BY <1>1, SignedParts
<1>9. ASSUME s = 0
      PROVE  /\ bit_left_shift(t, v, 0) = bit_right_shift(t, v, 0)
             /\ bit_left_shift(t, v, 0) = bit_right_nshift(t, v, 0)
  <2>1. \A b \in v : b + 0 = b /\ b \in BitsOf(w) /\ b \in BitsOf(w - 0)
    BY <1>1 DEF BitsOf
  <2>2. Left(w, v, 0) = v
    BY <2>1 DEF Left
  <2>3. \A b \in BitsOf(w - 0) : b + 0 = b
    BY DEF BitsOf
  <2>4. Right(w, v, 0) = v
    BY <2>1, <2>3 DEF Right
  <2>5. w - 0 .. w - 1 = {}
    BY <1>1
  <2>6. RightSigned(w, v, 0) = v
    BY <2>4, <2>5 DEF RightSigned
  <2> QED BY <2>2, <2>4, <2>6 DEF bit_left_shift, bit_right_shift, bit_right_nshift
<1> HIDE DEF L, R
<1>10. NumberOf(Unsigned(t), L) = (NumberOf(t, v) * 2 ^ s) % 2 ^ w
  BY <1>4, <1>5, <1>6
<1>11. NumberOf(Unsigned(t), R) = NumberOf(Unsigned(t), v) \div 2 ^ s
  BY <1>4, <1>5, <1>7
<1> QED BY <1>2, <1>3, <1>8, <1>9, <1>10, <1>11 DEF w

\* The functions that choose the direction by the sign of the distance.
LEMMA Directions ==
  ASSUME NEW t \in Types, NEW v \in SUBSET BitsOf(t.bits), NEW s \in BitsOf(t.bits)
  PROVE  /\ bit_shift(t, v, s) = bit_left_shift(t, v, s)
         /\ bit_nshift(t, v, s) = bit_left_shift(t, v, s)
         /\ bit_shift(t, v, -s) = bit_right_shift(t, v, s)
         /\ bit_nshift(t, v, -s) = bit_right_nshift(t, v, s)
<1>1. s \in Nat /\ - (-s) = s
  BY DEF BitsOf
<1>2. CASE s = 0
  <2>1. -s = 0
    BY <1>1, <1>2
  <2>2. /\ bit_left_shift(t, v, 0) = bit_right_shift(t, v, 0)
        /\ bit_left_shift(t, v, 0) = bit_right_nshift(t, v, 0)
    BY <1>2, ShiftNumbers
  <2> QED BY <1>2, <2>1, <2>2 DEF bit_shift, bit_nshift
<1>3. CASE s # 0
  <2>1. -s < 0 /\ ~ (s < 0)
    BY <1>1, <1>3
  <2> QED BY <1>1, <2>1 DEF bit_shift, bit_nshift
<1> QED BY <1>2, <1>3

\* The highest and the lowest bit.
LEMMA EndBits ==
  ASSUME NEW w \in Nat, NEW v \in SUBSET BitsOf(w), v # {}
  PROVE  /\ clz_index(w, v) \in v /\ \A b \in v : b <= clz_index(w, v)
         /\ ctz(w, v) \in v /\ \A b \in v : ctz(w, v) <= b
<1>1. v \subseteq Nat
  BY DEF BitsOf
<1>2. PICK l \in v : \A b \in v : l <= b
  BY <1>1, Least
<1>3. Min(v) = l
  <2>1. v \in SUBSET Int
    BY <1>1
  <2> QED BY <1>2, <2>1, MinFacts
<1> DEFINE m == Max(v)
<1>4. m \in v /\ \A b \in v : b <= m
  <2>1. \A b \in v : b <= w
    BY DEF BitsOf
  <2> QED BY <1>1, <2>1, Greatest
<1> HIDE DEF m
<1>5. Promoted(w) \in Nat
  BY IntBitsAssumption DEF Promoted
<1>6. clz_index(w, v) = m
  <2>1. m \in Int
    BY <1>1, <1>4
  <2>2. \A a, b \in Int : a - 1 - (a - 1 - b) = b
    OBVIOUS
  <2> QED BY <1>5, <2>1, <2>2 DEF clz_index, clz, m
<1> QED BY <1>2, <1>3, <1>4, <1>6 DEF ctz

\* The powers of two around a number.
LEMMA CountNumbers ==
  ASSUME NEW w \in Nat, NEW v \in SUBSET BitsOf(w), v # {}
  PROVE  /\ 2 ^ clz_index(w, v) <= Weight(v) /\ Weight(v) < 2 ^ (clz_index(w, v) + 1)
         /\ Weight(v) % 2 ^ ctz(w, v) = 0 /\ Weight(v) % 2 ^ (ctz(w, v) + 1) # 0
<1> DEFINE h == clz_index(w, v)
           l == ctz(w, v)
<1>1. h \in v /\ (\A b \in v : b <= h) /\ l \in v /\ (\A b \in v : l <= b)
  BY EndBits
<1> HIDE DEF h, l
<1>2. h \in Nat /\ l \in Nat /\ l \in 0 .. w /\ l + 1 \in 0 .. w
  <2>1. h \in BitsOf(w) /\ l \in BitsOf(w)
    BY <1>1
  <2> QED BY <2>1 DEF BitsOf
<1>3. 2 ^ h <= Weight(v)
  <2>1. Weight(v) = 2 ^ h + Weight(v \ {h}) /\ v \ {h} \in SUBSET BitsOf(w)
    BY <1>1, WordWeight
  <2>2. Weight(v \ {h}) \in Nat /\ 2 ^ h \in Nat
    BY <1>2, <2>1, WordWeight, PowerIs
  <2> QED BY <2>1, <2>2
<1>4. Weight(v) < 2 ^ (h + 1)
  <2>1. h + 1 \in Nat /\ v \in SUBSET BitsOf(h + 1)
    BY <1>1, <1>2 DEF BitsOf
  <2> QED BY <2>1, WeightBelow
<1>5. Weight(v) % 2 ^ l = 0
  <2>1. v \cap BitsOf(l) = {}
    BY <1>1, <1>2 DEF BitsOf
  <2>2. Weight(v \cap BitsOf(l)) = Weight(v) % 2 ^ l
    BY <1>2, WordParts
  <2>3. Weight({}) = 0
    BY WordWeight
  <2> QED BY <2>1, <2>2, <2>3
<1>6. Weight(v) % 2 ^ (l + 1) # 0
  <2>1. v \cap BitsOf(l + 1) = {l}
    BY <1>1, <1>2 DEF BitsOf
  <2>2. Weight(v \cap BitsOf(l + 1)) = Weight(v) % 2 ^ (l + 1)
    BY <1>2, WordParts
  <2>3. Weight({l}) = 2 ^ l + Weight({l} \ {l}) /\ Weight({l} \ {l}) \in Nat
    <3>1. {l} \in SUBSET BitsOf(w) /\ {l} \ {l} \in SUBSET BitsOf(w) /\ l \in {l}
      BY <1>1
    <3> QED BY <3>1, WordWeight
  <2>4. 2 ^ l \in Nat \ {0}
    BY <1>2, PowerIs
  <2> QED BY <2>1, <2>2, <2>3, <2>4
<1> QED BY <1>3, <1>4, <1>5, <1>6 DEF h, l

\* Shifts multiply and divide by powers of two, and counts find those around a number.
LEMMA NumbersOfTypes == NumbersMatch
<1> SUFFICES ASSUME NEW t \in Types, NEW v \in SUBSET BitsOf(t.bits)
             PROVE  /\ \A s \in BitsOf(t.bits) :
                         /\ NumberOf(Unsigned(t), bit_shift(t, v, s)) = (NumberOf(t, v) * 2 ^ s) % 2 ^ t.bits
                         /\ NumberOf(Unsigned(t), bit_nshift(t, v, s)) = (NumberOf(t, v) * 2 ^ s) % 2 ^ t.bits
                         /\ NumberOf(t, bit_shift(t, v, -s)) = NumberOf(t, v) \div 2 ^ s
                         /\ NumberOf(Unsigned(t), bit_nshift(t, v, -s)) = NumberOf(Unsigned(t), v) \div 2 ^ s
                         /\ \A to \in BitsOf(t.bits) :
                              NumberOf(Unsigned(t), bit_shift_from_to(t, v, s, to))
                                = ((NumberOf(t, v) \div 2 ^ s) * 2 ^ to) % 2 ^ t.bits
                    /\ v # {} =>
                         /\ 2 ^ clz_index(t.bits, v) <= NumberOf(Unsigned(t), v)
                         /\ NumberOf(Unsigned(t), v) < 2 ^ (clz_index(t.bits, v) + 1)
                         /\ NumberOf(Unsigned(t), v) % 2 ^ ctz(t.bits, v) = 0
                         /\ NumberOf(Unsigned(t), v) % 2 ^ (ctz(t.bits, v) + 1) # 0
  BY DEF NumbersMatch
<1>1. ASSUME NEW s \in BitsOf(t.bits)
      PROVE  /\ NumberOf(Unsigned(t), bit_shift(t, v, s)) = (NumberOf(t, v) * 2 ^ s) % 2 ^ t.bits
             /\ NumberOf(Unsigned(t), bit_nshift(t, v, s)) = (NumberOf(t, v) * 2 ^ s) % 2 ^ t.bits
             /\ NumberOf(t, bit_shift(t, v, -s)) = NumberOf(t, v) \div 2 ^ s
             /\ NumberOf(Unsigned(t), bit_nshift(t, v, -s)) = NumberOf(Unsigned(t), v) \div 2 ^ s
  BY ShiftNumbers, Directions
<1>2. ASSUME NEW s \in BitsOf(t.bits), NEW to \in BitsOf(t.bits)
      PROVE  NumberOf(Unsigned(t), bit_shift_from_to(t, v, s, to))
               = ((NumberOf(t, v) \div 2 ^ s) * 2 ^ to) % 2 ^ t.bits
  <2> DEFINE z == bit_right_shift(t, v, s)
  <2>1. z \in SUBSET BitsOf(t.bits) /\ NumberOf(t, z) = NumberOf(t, v) \div 2 ^ s
    BY ShiftNumbers
  <2> HIDE DEF z
  <2>2. NumberOf(Unsigned(t), bit_left_shift(t, z, to)) = (NumberOf(t, z) * 2 ^ to) % 2 ^ t.bits
    BY <2>1, ShiftNumbers
  <2> QED BY <2>1, <2>2 DEF bit_shift_from_to, z
<1>3. NumberOf(Unsigned(t), v) = Weight(v) /\ t.bits \in Nat
  BY NumberIs, Widths
<1>4. ASSUME v # {}
      PROVE  /\ 2 ^ clz_index(t.bits, v) <= Weight(v) /\ Weight(v) < 2 ^ (clz_index(t.bits, v) + 1)
             /\ Weight(v) % 2 ^ ctz(t.bits, v) = 0 /\ Weight(v) % 2 ^ (ctz(t.bits, v) + 1) # 0
  BY <1>3, <1>4, CountNumbers
<1> QED BY <1>1, <1>2, <1>3, <1>4

-----------------------------------------------------------------------------
(* Powers of any number *)

\* q has the powers of val up to p.
PowersOf(val, p, q) == q[0] = 1 /\ \A k \in 1 .. p : q[k] = val * q[k - 1]

LEMMA PowerOf ==
  ASSUME NEW val \in Int, NEW p \in Nat
  PROVE  \E q : PowersOf(val, p, q) /\ Power(val, p) = q[p]
<1> DEFINE Is(q) == q = [k \in 0 .. p |-> IF k = 0 THEN 1 ELSE val * q[k - 1]]
           F == [y \in Int |-> val * y]
<1>1. PICK g \in [0 .. p -> Int] : Iterated(g, p, 1, F)
  <2>1. F \in [Int -> Int] /\ 1 \in Int
    OBVIOUS
  <2> HIDE DEF F
  <2> QED BY <2>1, Iterate
<1>2. Is(g)
  <2>1. g[0] = 1
    BY <1>1 DEF Iterated
  <2>2. ASSUME NEW k \in 0 .. p, k # 0 PROVE g[k] = val * g[k - 1]
    <3>1. k \in 1 .. p /\ k - 1 \in 0 .. p
      BY <2>2
    <3>2. g[k] = F[g[k - 1]] /\ g[k - 1] \in Int
      <4> HIDE DEF F
      <4> QED BY <1>1, <3>1 DEF Iterated
    <3> QED BY <3>2
  <2> HIDE DEF F
  <2> QED BY <2>1, <2>2
<1> DEFINE h == CHOOSE q : Is(q)
<1>3. Is(h)
  <2> HIDE DEF Is
  <2> QED BY <1>2
<1>4. Power(val, p) = h[p]
  BY DEF Power
<1> HIDE DEF h
<1>5. PowersOf(val, p, h)
  <2>1. h[0] = 1
    BY <1>3
  <2>2. ASSUME NEW k \in 1 .. p PROVE h[k] = val * h[k - 1]
    <3>1. k \in 0 .. p /\ k # 0
      OBVIOUS
    <3> QED BY <1>3, <3>1
  <2> QED BY <2>1, <2>2 DEF PowersOf
<1> QED BY <1>4, <1>5

\* The first powers, and the ones that follow.
LEMMA PowerSteps ==
  ASSUME NEW val \in Int, NEW n \in Nat
  PROVE  Power(val, 0) = 1 /\ Power(val, n + 1) = val * Power(val, n)
<1>1. ASSUME NEW p \in Nat, NEW q, PowersOf(val, p, q), NEW m \in 0 .. p, NEW r, PowersOf(val, m, r)
      PROVE  q[m] = r[m]
  <2> DEFINE D == { k \in Nat : k <= m => q[k] = r[k] }
  <2>1. 0 \in D
    BY <1>1 DEF PowersOf
  <2>2. ASSUME NEW k \in D PROVE k + 1 \in D
    <3> SUFFICES ASSUME k + 1 <= m PROVE q[k + 1] = r[k + 1]
      OBVIOUS
    <3>1. k + 1 \in 1 .. m /\ k + 1 \in 1 .. p /\ (k + 1) - 1 = k /\ k <= m
      OBVIOUS
    <3>2. q[k] = r[k]
      BY <3>1
    <3>3. q[k + 1] = val * q[k] /\ r[k + 1] = val * r[k]
      BY <1>1, <3>1 DEF PowersOf
    <3> QED BY <3>2, <3>3
  <2>3. D = Nat
    <3>1. D \in SUBSET Nat
      OBVIOUS
    <3> HIDE DEF D
    <3> QED BY <2>1, <2>2, <3>1, Induction
  <2> QED BY <2>3
<1>2. Power(val, 0) = 1
  <2>1. PICK q : PowersOf(val, 0, q) /\ Power(val, 0) = q[0]
    <3>1. 0 \in Nat
      OBVIOUS
    <3> QED BY <3>1, PowerOf
  <2> QED BY <2>1 DEF PowersOf
<1>3. PICK q : PowersOf(val, n + 1, q) /\ Power(val, n + 1) = q[n + 1]
  <2>1. n + 1 \in Nat
    OBVIOUS
  <2> QED BY <2>1, PowerOf
<1>4. PICK r : PowersOf(val, n, r) /\ Power(val, n) = r[n]
  BY PowerOf
<1>5. q[n] = r[n]
  <2>1. n + 1 \in Nat /\ n \in 0 .. n + 1
    OBVIOUS
  <2> QED BY <1>1, <1>3, <1>4, <2>1
<1>6. q[n + 1] = val * q[n]
  <2>1. n + 1 \in 1 .. n + 1 /\ (n + 1) - 1 = n
    OBVIOUS
  <2> QED BY <1>3, <2>1 DEF PowersOf
<1> QED BY <1>2, <1>3, <1>4, <1>5, <1>6

\* Powers are integers.
LEMMA PowerType ==
  ASSUME NEW val \in Int, NEW n \in Nat
  PROVE  Power(val, n) \in Int
<1> DEFINE D == { k \in Nat : Power(val, k) \in Int }
<1>1. 0 \in D
  BY PowerSteps
<1>2. ASSUME NEW k \in D PROVE k + 1 \in D
  <2>1. Power(val, k + 1) = val * Power(val, k) /\ Power(val, k) \in Int
    BY PowerSteps
  <2> QED BY <2>1
<1>3. D = Nat
  <2>1. D \in SUBSET Nat
    OBVIOUS
  <2> HIDE DEF D
  <2> QED BY <1>1, <1>2, <2>1, Induction
<1> QED BY <1>3

\* The exponents of a product of powers add up.
LEMMA PowerAdds ==
  ASSUME NEW val \in Int, NEW a \in Nat, NEW b \in Nat
  PROVE  Power(val, a + b) = Power(val, a) * Power(val, b)
<1> DEFINE D == { k \in Nat : Power(val, a + k) = Power(val, a) * Power(val, k) }
<1>0. Power(val, a) \in Int
  BY PowerType
<1>1. 0 \in D
  <2>1. a + 0 = a /\ Power(val, 0) = 1
    BY PowerSteps
  <2> QED BY <1>0, <2>1
<1>2. ASSUME NEW k \in D PROVE k + 1 \in D
  <2>1. a + (k + 1) = (a + k) + 1 /\ a + k \in Nat
    OBVIOUS
  <2>2. Power(val, (a + k) + 1) = val * Power(val, a + k)
    BY <2>1, PowerSteps
  <2>3. Power(val, k + 1) = val * Power(val, k) /\ Power(val, k) \in Int
    BY PowerSteps, PowerType
  <2>4. \A i, j, l \in Int : i * (j * l) = j * (i * l)
    OBVIOUS
  <2>5. val * (Power(val, a) * Power(val, k)) = Power(val, a) * (val * Power(val, k))
    BY <1>0, <2>3, <2>4
  <2>6. Power(val, a + k) = Power(val, a) * Power(val, k)
    OBVIOUS
  <2> QED BY <2>1, <2>2, <2>3, <2>5, <2>6
<1>3. D = Nat
  <2>1. D \in SUBSET Nat
    OBVIOUS
  <2> HIDE DEF D
  <2> QED BY <1>1, <1>2, <2>1, Induction
<1> QED BY <1>3

-----------------------------------------------------------------------------
(* Powers by squaring *)

\* Each bit doubles what is above it, and adds itself.
LEMMA Halves ==
  ASSUME NEW p \in Nat, NEW j \in Nat
  PROVE  /\ p \div 2 ^ j \in Nat /\ p \div 2 ^ (j + 1) \in Nat
         /\ (p \div 2 ^ j) % 2 \in {0, 1}
         /\ p \div 2 ^ j = (p \div 2 ^ (j + 1)) + (p \div 2 ^ (j + 1)) + ((p \div 2 ^ j) % 2)
<1> DEFINE B == 2 ^ j
           C == 2 ^ (j + 1)
           q == p \div B
           r == p % B
           a == q \div 2
           c == q % 2
<1>1. B \in Nat \ {0} /\ C = B + B
  BY PowerNext
<1> HIDE DEF B, C
<1>2. q \in Nat /\ r \in 0 .. B - 1 /\ p = B * q + r
  BY <1>1, Parts
<1> HIDE DEF q, r
<1>3. a \in Nat /\ c \in {0, 1} /\ q = a + a + c
  BY <1>2
<1> HIDE DEF a, c
<1>4. p \div C = a
  <2> DEFINE s == B * c + r
  <2>1. s \in 0 .. C - 1
    <3>1. CASE c = 0
      BY <1>1, <1>2, <3>1
    <3>2. CASE c = 1
      BY <1>1, <1>2, <3>2
    <3> QED BY <1>3, <3>1, <3>2
  <2>2. p = a * C + s
    <3>1. B * (a + a + c) = a * (B + B) + B * c
      BY <1>1, <1>3
    <3>2. a * (B + B) \in Int /\ B * c \in Int /\ r \in Int
      BY <1>1, <1>2, <1>3
    <3> QED BY <1>1, <1>2, <1>3, <3>1, <3>2
  <2>3. C \in Nat \ {0} /\ a \in Int
    BY <1>1, <1>3
  <2> HIDE DEF s
  <2> QED BY <2>1, <2>2, <2>3, IntSplit
<1> QED BY <1>2, <1>3, <1>4 DEF B, C, q, a, c

\* There is nothing above the bits of a word.
LEMMA AboveWord ==
  ASSUME NEW p \in Nat, p < 2 ^ IntBits, NEW h \in 0 .. IntBits, \A b \in WordOf(p) : b < h
  PROVE  p \div 2 ^ h = 0
<1> DEFINE D == { k \in Nat : k <= IntBits - h => p \div 2 ^ (IntBits - k) = 0 }
<1>0. IntBits \in Nat /\ IntBits > 0
  BY IntBitsAssumption
<1>1. 0 \in D
  <2>1. p \div 2 ^ IntBits = 0
    <3> DEFINE B == 2 ^ IntBits
    <3>1. B \in Nat \ {0}
      BY <1>0, PowerIs
    <3>2. p \in 0 .. B - 1 /\ p = 0 * B + p /\ 0 \in Int
      BY <3>1
    <3> HIDE DEF B
    <3>3. p \div B = 0
      BY <3>1, <3>2, IntSplit
    <3> QED BY <3>3 DEF B
  <2>2. IntBits - 0 = IntBits
    BY <1>0
  <2> QED BY <2>1, <2>2
<1>2. ASSUME NEW k \in D PROVE k + 1 \in D
  <2> SUFFICES ASSUME k + 1 <= IntBits - h PROVE p \div 2 ^ (IntBits - (k + 1)) = 0
    OBVIOUS
  <2> DEFINE j == IntBits - (k + 1)
  <2>1. j \in Nat /\ j >= h /\ j < IntBits /\ j + 1 = IntBits - k /\ k <= IntBits - h
    BY <1>0
  <2>2. p \div 2 ^ (IntBits - k) = 0
    BY <2>1
  <2> HIDE DEF j
  <2>3. p \div 2 ^ (j + 1) = 0
    BY <2>1, <2>2
  <2>4. /\ p \div 2 ^ j = (p \div 2 ^ (j + 1)) + (p \div 2 ^ (j + 1)) + ((p \div 2 ^ j) % 2)
        /\ (p \div 2 ^ j) % 2 \in {0, 1}
    BY <2>1, Halves
  <2>5. j \notin WordOf(p)
    <3> SUFFICES ASSUME j \in WordOf(p) PROVE FALSE
      OBVIOUS
    <3>1. j < h
      OBVIOUS
    <3> QED BY <2>1, <3>1
  <2>6. (p \div 2 ^ j) % 2 # 1
    <3>1. j \in BitsOf(IntBits)
      BY <1>0, <2>1 DEF BitsOf
    <3> QED BY <2>5, <3>1 DEF WordOf
  <2>7. (p \div 2 ^ j) % 2 = 0
    BY <2>4, <2>6
  <2>8. p \div 2 ^ j = 0 + 0 + 0
    BY <2>3, <2>4, <2>7
  <2> QED BY <2>8 DEF j
<1>3. D = Nat
  <2>1. D \in SUBSET Nat
    OBVIOUS
  <2> HIDE DEF D
  <2> QED BY <1>1, <1>2, <2>1, Induction
<1>4. IntBits - h \in Nat /\ IntBits - (IntBits - h) = h /\ IntBits - h <= IntBits - h
  BY <1>0
<1>5. IntBits - h \in D
  <2> HIDE DEF D
  <2> QED BY <1>3, <1>4
<1> QED BY <1>4, <1>5

\* What ipow_ makes of the power so far, at a bit.
Squared(val, p, i, out) == IF i \in p THEN out * out * val ELSE out * out

\* The results of ipow_, from the highest bit to the lowest.
SquareSteps(val, p, N, L) ==
  L[0] = 1 /\ \A k \in 1 .. N : L[k] = Squared(val, p, N - k, L[k - 1])

LEMMA Squares ==
  ASSUME NEW val \in Int, NEW p, clz_index(IntBits, p) \in Nat
  PROVE  \E L : /\ SquareSteps(val, p, clz_index(IntBits, p) + 1, L)
               /\ ipow_(val, p) = L[clz_index(IntBits, p) + 1]
<1> DEFINE N == clz_index(IntBits, p) + 1
           T == 1 .. N
           args == Downwards(p)
           Put(i, out) == Squared(val, p, args[i], out)
           Is(q) == q = [s \in SUBSET T |-> IF s = {} THEN 1 ELSE Put(Max(s), q[s \ {Max(s)}])]
           F == [z \in T \X Int |-> Put(z[1], z[2])]
<1>0. args = [k \in T |-> N - k]
  <2> DEFINE top == clz_index(IntBits, p)
  <2>1. args = [k \in 1 .. top + 1 |-> top + 1 - k]
    BY DEF Downwards
  <2> HIDE DEF top
  <2>2. \A k \in 1 .. top + 1 : top + 1 - k = (top + 1) - k
    BY DEF top
  <2> HIDE DEF args
  <2> QED BY <2>1, <2>2 DEF top
<1>1. N \in Nat
  OBVIOUS
<1> HIDE DEF N
<1>2. \A s \in SUBSET T : s # {} => Max(s) \in s
  BY <1>1, MaxFacts
<1>3. F \in [T \X Int -> Int]
  <2>1. \A i, out : out \in Int => Put(i, out) \in Int
    BY DEF Squared
  <2> HIDE DEF Put
  <2> QED BY <2>1
<1>4. PICK q \in [SUBSET T -> Int] : FoldsLeft(q, N, 1, F)
  <2>1. 1 \in Int
    OBVIOUS
  <2> HIDE DEF F
  <2> QED BY <1>1, <1>3, <2>1, LeftFold
<1>5. Is(q)
  <2>1. ASSUME NEW s \in SUBSET T, s # {}
        PROVE  q[s] = Put(Max(s), q[s \ {Max(s)}])
    <3>1. Max(s) \in T /\ s \ {Max(s)} \in SUBSET T
      BY <1>2, <2>1
    <3>2. q[s \ {Max(s)}] \in Int
      <4> HIDE DEF T
      <4> QED BY <3>1
    <3>3. q[s] = F[<<Max(s), q[s \ {Max(s)}]>>]
      <4> HIDE DEF F
      <4> QED BY <1>4, <2>1 DEF FoldsLeft
    <3> HIDE DEF T, Put
    <3> QED BY <3>1, <3>2, <3>3
  <2>2. q[{}] = 1
    BY <1>4 DEF FoldsLeft
  <2> HIDE DEF Put, T, F
  <2> QED BY <2>1, <2>2
<1> DEFINE h == CHOOSE q0 : Is(q0)
<1>6. Is(h)
  <2> HIDE DEF Is
  <2> QED BY <1>5
<1>7. ipow_(val, p) = h[T]
  <2>1. DOMAIN args = T
    BY <1>0
  <2> QED BY <2>1 DEF ipow_, FoldLeft, MapThenFoldSet, Squared
<1> HIDE DEF h
<1> DEFINE L == [k \in 0 .. N |-> h[1 .. k]]
<1>8. L[0] = 1
  <2>1. 1 .. 0 = {} /\ 0 \in 0 .. N
    BY <1>1
  <2>2. h[{}] = 1
    <3> HIDE DEF Put
    <3> QED BY <1>6
  <2> QED BY <2>1, <2>2
<1>9. ASSUME NEW k \in 1 .. N PROVE L[k] = Squared(val, p, N - k, L[k - 1])
  <2>1. k \in 0 .. N /\ k - 1 \in 0 .. N
    BY <1>1
  <2> DEFINE s == 1 .. k
  <2>2. s \in SUBSET T /\ s # {} /\ Max(s) = k /\ s \ {k} = 1 .. (k - 1)
    BY <1>1, Segments
  <2>3. h[s] = Put(Max(s), h[s \ {Max(s)}])
    <3> HIDE DEF Put, s, T
    <3> QED BY <1>6, <2>2
  <2>4. h[s] = Put(k, h[1 .. (k - 1)])
    <3> HIDE DEF Put, s
    <3> QED BY <2>2, <2>3
  <2>5. args[k] = N - k
    <3> HIDE DEF args
    <3> QED BY <1>0
  <2> HIDE DEF args
  <2> QED BY <2>1, <2>4, <2>5
<1>10. L[N] = h[T]
  BY <1>1 DEF T
<1>11. SquareSteps(val, p, N, L)
  <2> HIDE DEF L
  <2> QED BY <1>8, <1>9 DEF SquareSteps
<1> HIDE DEF L
<1> QED BY <1>7, <1>10, <1>11 DEF N

\* A power by squaring is the power: after each bit, that of the bits so far.
LEMMA SquaresPower ==
  ASSUME NEW val \in Int, NEW p \in Nat \ {0}, p < 2 ^ IntBits
  PROVE  ipow_(val, WordOf(p)) = Power(val, p)
<1> DEFINE v == WordOf(p)
           top == clz_index(IntBits, v)
           N == top + 1
<1>1. IntBits \in Nat /\ IntBits > 0 /\ v \in SUBSET BitsOf(IntBits)
  BY IntBitsAssumption DEF WordOf
<1>2. v # {}
  <2> SUFFICES ASSUME v = {} PROVE FALSE
    OBVIOUS
  <2>1. 0 \in 0 .. IntBits /\ \A b \in WordOf(p) : b < 0
    BY <1>1
  <2>2. p \div 2 ^ 0 = 0
    BY <2>1, AboveWord
  <2> QED BY <2>2, PowerZero
<1>3. top \in v /\ \A b \in v : b <= top
  <2> HIDE DEF v
  <2> QED BY <1>1, <1>2, EndBits
<1>4. N \in Nat /\ N \in 0 .. IntBits /\ \A b \in WordOf(p) : b < N
  <2> HIDE DEF top
  <2> QED BY <1>1, <1>3 DEF BitsOf
<1>5. p \div 2 ^ N = 0
  <2> HIDE DEF N
  <2> QED BY <1>4, AboveWord
<1>6. PICK L : SquareSteps(val, v, N, L) /\ ipow_(val, v) = L[N]
  <2>1. top \in Nat
    <3> HIDE DEF top, v
    <3> QED BY <1>1, <1>3 DEF BitsOf
  <2> HIDE DEF v
  <2> QED BY <2>1, Squares
<1> HIDE DEF N, top
<1> DEFINE D == { k \in Nat : k <= N => L[k] = Power(val, p \div 2 ^ (N - k)) }
<1>7. 0 \in D
  <2>1. N - 0 = N /\ L[0] = 1 /\ Power(val, 0) = 1
    BY <1>4, <1>6, PowerSteps DEF SquareSteps
  <2> QED BY <1>5, <2>1
<1>8. ASSUME NEW k \in D PROVE k + 1 \in D
  <2> SUFFICES ASSUME k + 1 <= N PROVE L[k + 1] = Power(val, p \div 2 ^ (N - (k + 1)))
    OBVIOUS
  <2> DEFINE j == N - (k + 1)
  <2>0. j \in Nat /\ j < N
    BY <1>4
  <2>1. /\ j \in Nat /\ j + 1 = N - k /\ k <= N /\ k + 1 \in 1 .. N /\ (k + 1) - 1 = k
        /\ j \in BitsOf(IntBits)
    <3>1. j + 1 = N - k /\ k <= N /\ k + 1 \in 1 .. N /\ (k + 1) - 1 = k
      BY <1>4
    <3> HIDE DEF j
    <3>2. j \in BitsOf(IntBits)
      BY <1>1, <1>4, <2>0 DEF BitsOf
    <3> QED BY <2>0, <3>1, <3>2
  <2>2. L[k] = Power(val, p \div 2 ^ (N - k))
    BY <2>1
  <2>3. L[k + 1] = Squared(val, v, j, L[k])
    BY <1>6, <2>1 DEF SquareSteps
  <2> HIDE DEF j
  <2> DEFINE a == p \div 2 ^ (j + 1)
             c == (p \div 2 ^ j) % 2
             n == p \div 2 ^ j
  <2>4. a \in Nat /\ c \in {0, 1} /\ n = a + a + c
    BY <2>1, Halves
  <2>5. L[k] = Power(val, a)
    BY <2>1, <2>2
  <2>6. c = 1 <=> j \in v
    BY <2>1 DEF WordOf
  <2> HIDE DEF a, c, n
  <2>7. Power(val, a + a) = Power(val, a) * Power(val, a) /\ Power(val, a) \in Int /\ a + a \in Nat
    <3>1. Power(val, a + a) = Power(val, a) * Power(val, a)
      BY <2>4, PowerAdds
    <3>2. Power(val, a) \in Int
      BY <2>4, PowerType
    <3>3. a + a \in Nat
      BY <2>4
    <3> QED BY <3>1, <3>2, <3>3
  <2>8. L[k + 1] = Power(val, n)
    <3>1. CASE c = 1
      <4>1. L[k + 1] = Power(val, a) * Power(val, a) * val
        BY <2>3, <2>5, <2>6, <3>1 DEF Squared
      <4>2. Power(val, n) = val * Power(val, a + a)
        BY <2>4, <2>7, <3>1, PowerSteps
      <4>3. \A i \in Int : i * i * val = val * (i * i)
        OBVIOUS
      <4>4. Power(val, a) * Power(val, a) * val = val * (Power(val, a) * Power(val, a))
        BY <2>7, <4>3
      <4> QED BY <2>7, <4>1, <4>2, <4>4
    <3>2. CASE c = 0
      <4>1. L[k + 1] = Power(val, a) * Power(val, a)
        BY <2>3, <2>5, <2>6, <3>2 DEF Squared
      <4>2. n = a + a
        BY <2>4, <3>2
      <4> QED BY <2>7, <4>1, <4>2
    <3> QED BY <2>4, <3>1, <3>2
  <2> QED BY <2>8 DEF n, j
<1>9. D = Nat
  <2>1. D \in SUBSET Nat
    OBVIOUS
  <2> HIDE DEF D
  <2> QED BY <1>7, <1>8, <2>1, Induction
<1>10. L[N] = Power(val, p \div 2 ^ (N - N))
  <2>1. N \in D /\ N <= N
    <3> HIDE DEF D
    <3> QED BY <1>4, <1>9
  <2> QED BY <2>1
<1>11. N - N = 0 /\ p \div 1 = p
  BY <1>4
<1> QED BY <1>6, <1>10, <1>11, PowerZero

\* The results of the loop of ipow_int.
ProductSteps(val, N, L) == L[0] = val /\ \A k \in 1 .. N : L[k] = L[k - 1] * val

LEMMA Products ==
  ASSUME NEW val \in Int, NEW N \in Nat
  PROVE  \E L : ProductSteps(val, N, L)
                /\ FoldLeft(LAMBDA ans, k : ans * val, val, [k \in 1 .. N |-> k]) = L[N]
<1> DEFINE T == 1 .. N
           args == [k \in T |-> k]
           Put(i, out) == out * val
           Is(q) == q = [s \in SUBSET T |-> IF s = {} THEN val ELSE Put(args[Max(s)], q[s \ {Max(s)}])]
           F == [z \in T \X Int |-> Put(args[z[1]], z[2])]
<1>2. \A s \in SUBSET T : s # {} => Max(s) \in s
  BY MaxFacts
<1>3. F \in [T \X Int -> Int]
  OBVIOUS
<1>4. PICK q \in [SUBSET T -> Int] : FoldsLeft(q, N, val, F)
  <2> HIDE DEF F
  <2> QED BY <1>3, LeftFold
<1>5. Is(q)
  <2>1. ASSUME NEW s \in SUBSET T, s # {}
        PROVE  q[s] = Put(args[Max(s)], q[s \ {Max(s)}])
    <3>1. Max(s) \in T /\ s \ {Max(s)} \in SUBSET T
      BY <1>2, <2>1
    <3>2. q[s \ {Max(s)}] \in Int
      <4> HIDE DEF T
      <4> QED BY <3>1
    <3>3. q[s] = F[<<Max(s), q[s \ {Max(s)}]>>]
      <4> HIDE DEF F
      <4> QED BY <1>4, <2>1 DEF FoldsLeft
    <3> HIDE DEF T, Put, args
    <3> QED BY <3>1, <3>2, <3>3
  <2>2. q[{}] = val
    BY <1>4 DEF FoldsLeft
  <2> HIDE DEF Put, T, F, args
  <2> QED BY <2>1, <2>2
<1> DEFINE h == CHOOSE q0 : Is(q0)
<1>6. Is(h)
  <2> HIDE DEF Is
  <2> QED BY <1>5
<1>7. FoldLeft(LAMBDA ans, k : ans * val, val, args) = h[T]
  <2>1. DOMAIN args = T
    OBVIOUS
  <2> QED BY <2>1 DEF FoldLeft, MapThenFoldSet
<1> HIDE DEF h
<1> DEFINE L == [k \in 0 .. N |-> h[1 .. k]]
<1>8. L[0] = val
  <2>1. 1 .. 0 = {} /\ 0 \in 0 .. N
    OBVIOUS
  <2>2. h[{}] = val
    <3> HIDE DEF Put
    <3> QED BY <1>6
  <2> QED BY <2>1, <2>2
<1>9. ASSUME NEW k \in 1 .. N PROVE L[k] = L[k - 1] * val
  <2>1. k \in 0 .. N /\ k - 1 \in 0 .. N
    OBVIOUS
  <2> DEFINE s == 1 .. k
  <2>2. s \in SUBSET T /\ s # {} /\ Max(s) = k /\ s \ {k} = 1 .. (k - 1)
    BY Segments
  <2>3. h[s] = Put(args[Max(s)], h[s \ {Max(s)}])
    <3> HIDE DEF Put, s, T, args
    <3> QED BY <1>6, <2>2
  <2>4. h[s] = h[1 .. (k - 1)] * val
    <3> HIDE DEF s, args
    <3> QED BY <2>2, <2>3
  <2> QED BY <2>1, <2>4
<1>10. L[N] = h[T]
  BY DEF T
<1>11. ProductSteps(val, N, L)
  <2> HIDE DEF L
  <2> QED BY <1>8, <1>9 DEF ProductSteps
<1> HIDE DEF L
<1> QED BY <1>7, <1>10, <1>11

\* Powers of integers, a factor at a time.
LEMMA ProductsPower ==
  ASSUME NEW val \in Int, NEW p \in Nat \ {0}
  PROVE  ipow_int(val, p) = Power(val, p)
<1> DEFINE N == p - 1
<1>1. N \in Nat /\ N + 1 = p /\ ~ (p <= 0)
  OBVIOUS
<1>2. ipow_int(val, p) = FoldLeft(LAMBDA ans, k : ans * val, val, [k \in 1 .. N |-> k])
  BY <1>1 DEF ipow_int
<1> HIDE DEF N
<1>3. PICK L : /\ ProductSteps(val, N, L)
               /\ FoldLeft(LAMBDA ans, k : ans * val, val, [k \in 1 .. N |-> k]) = L[N]
  BY <1>1, Products
<1> DEFINE D == { k \in Nat : k <= N => L[k] = Power(val, k + 1) }
<1>4. 0 \in D
  <2>1. Power(val, 0 + 1) = val * Power(val, 0) /\ Power(val, 0) = 1 /\ L[0] = val
    <3>1. 0 \in Nat
      OBVIOUS
    <3> QED BY <1>3, <3>1, PowerSteps DEF ProductSteps
  <2> QED BY <2>1
<1>5. ASSUME NEW k \in D PROVE k + 1 \in D
  <2> SUFFICES ASSUME k + 1 <= N PROVE L[k + 1] = Power(val, (k + 1) + 1)
    OBVIOUS
  <2>1. k + 1 \in 1 .. N /\ (k + 1) - 1 = k /\ k <= N /\ k + 1 \in Nat
    BY <1>1
  <2>2. L[k] = Power(val, k + 1)
    BY <2>1
  <2>3. L[k + 1] = L[k] * val
    BY <1>3, <2>1 DEF ProductSteps
  <2>4. Power(val, (k + 1) + 1) = val * Power(val, k + 1) /\ Power(val, k + 1) \in Int
    BY <2>1, PowerSteps, PowerType
  <2> QED BY <2>2, <2>3, <2>4
<1>6. D = Nat
  <2>1. D \in SUBSET Nat
    OBVIOUS
  <2> HIDE DEF D
  <2> QED BY <1>4, <1>5, <2>1, Induction
<1>7. L[N] = Power(val, N + 1)
  <2>1. N \in D /\ N <= N
    <3> HIDE DEF D
    <3> QED BY <1>1, <1>6
  <2> QED BY <2>1
<1> QED BY <1>1, <1>2, <1>3, <1>7

-----------------------------------------------------------------------------
(* Division *)

\* The rest has the sign of the dividend, and is less than the divisor.
LEMMA Rests ==
  ASSUME NEW a \in Int, NEW b \in Int \ {0}
  PROVE  /\ div(a, b) \in Int /\ Abs(b) \in Nat \ {0} /\ Abs(a) \in Nat
         /\ (Abs(a) % Abs(b)) \in 0 .. Abs(b) - 1
         /\ a - b * div(a, b) = IF a < 0 THEN -(Abs(a) % Abs(b)) ELSE Abs(a) % Abs(b)
<1> DEFINE A == Abs(a)
           B == Abs(b)
           q == A \div B
           r == A % B
<1>1. A \in Nat /\ B \in Nat \ {0}
  BY DEF Abs
<1>2. q \in Nat /\ r \in 0 .. B - 1 /\ A = B * q + r
  <2> HIDE DEF A, B
  <2> QED BY <1>1, Parts
<1>3. (a < 0 => A = -a) /\ (~ (a < 0) => A = a) /\ (b < 0 => B = -b) /\ (~ (b < 0) => B = b)
  BY DEF Abs
<1>4. div(a, b) = IF (a < 0) = (b < 0) THEN q ELSE -q
  BY DEF div
<1> HIDE DEF A, B, q, r
<1>5. div(a, b) \in Int
  BY <1>2, <1>4
<1>6. CASE a < 0 /\ b < 0
  <2>1. div(a, b) = q
    BY <1>4, <1>6
  <2>2. b * q = - (B * q)
    BY <1>2, <1>3, <1>6
  <2>3. a - b * q = -r
    BY <1>1, <1>2, <1>3, <1>6, <2>2
  <2> QED BY <1>1, <1>2, <1>5, <1>6, <2>1, <2>3 DEF A, B, r
<1>7. CASE a < 0 /\ ~ (b < 0)
  <2>1. div(a, b) = -q
    BY <1>4, <1>7
  <2>2. b * (-q) = - (B * q)
    BY <1>2, <1>3, <1>7
  <2>3. a - b * (-q) = -r
    BY <1>1, <1>2, <1>3, <1>7, <2>2
  <2> QED BY <1>1, <1>2, <1>5, <1>7, <2>1, <2>3 DEF A, B, r
<1>8. CASE ~ (a < 0) /\ b < 0
  <2>1. div(a, b) = -q
    BY <1>4, <1>8
  <2>2. b * (-q) = B * q
    BY <1>2, <1>3, <1>8
  <2>3. a - b * (-q) = r
    BY <1>1, <1>2, <1>3, <1>8, <2>2
  <2> QED BY <1>1, <1>2, <1>5, <1>8, <2>1, <2>3 DEF A, B, r
<1>9. CASE ~ (a < 0) /\ ~ (b < 0)
  <2>1. div(a, b) = q
    BY <1>4, <1>9
  <2>2. b * q = B * q
    BY <1>2, <1>3, <1>9
  <2>3. a - b * q = r
    BY <1>1, <1>2, <1>3, <1>9, <2>2
  <2> QED BY <1>1, <1>2, <1>5, <1>9, <2>1, <2>3 DEF A, B, r
<1> QED BY <1>6, <1>7, <1>8, <1>9

\* Division rounds towards 0.
LEMMA Divides ==
  ASSUME NEW a \in Int, NEW b \in Int \ {0}
  PROVE  LET left == a - b * div(a, b)
         IN  /\ Abs(left) < Abs(b)
             /\ left < 0 => a < 0
             /\ left > 0 => a > 0
<1> DEFINE left == a - b * div(a, b)
           r == Abs(a) % Abs(b)
           B == Abs(b)
<1>1. r \in 0 .. B - 1 /\ B \in Nat \ {0} /\ left = IF a < 0 THEN -r ELSE r
  BY Rests
<1>2. a = 0 => r = 0
  <2> SUFFICES ASSUME a = 0 PROVE r = 0
    OBVIOUS
  <2>1. Abs(a) = 0
    BY DEF Abs
  <2>2. Abs(b) \in Nat \ {0}
    BY <1>1
  <2> HIDE DEF B
  <2>3. 0 % Abs(b) = 0
    BY <2>2
  <2> QED BY <2>1, <2>3
<1> HIDE DEF left, r, B
<1>3. Abs(left) < B
  BY <1>1 DEF Abs
<1>4. left < 0 => a < 0
  BY <1>1
<1>5. left > 0 => a > 0
  BY <1>1, <1>2
<1> QED BY <1>3, <1>4, <1>5 DEF left, B

\* div_modulo leaves a remainder below 0 for dividends below 0.
LEMMA DividesModulo ==
  ASSUME NEW a \in Int, NEW b \in Int \ {0}, b > 0
  PROVE  LET d == div_modulo(a, b)
         IN  /\ d.a * b + d.m = a /\ Abs(d.m) < b
             /\ d.m < 0 <=> a < 0 /\ a % b # 0
             /\ a >= 0 => d = [a |-> a \div b, m |-> a % b]
<1> DEFINE q == div(a, b)
           left == a - b * q
           r == Abs(a) % Abs(b)
<1>1. r \in 0 .. b - 1 /\ b \in Nat \ {0} /\ q \in Int /\ Abs(a) \in Nat
      /\ left = IF a < 0 THEN -r ELSE r
  <2>1. Abs(b) = b
    BY DEF Abs
  <2> QED BY <2>1, Rests
<1>2. div_modulo(a, b) = [a |-> q, m |-> left]
  BY DEF div_modulo, Rest
<1>3. q * b + left = a
  BY <1>1
<1>4. a >= 0 => a \div b = q /\ a % b = left
  <2> SUFFICES ASSUME a >= 0 PROVE a \div b = q /\ a % b = left
    OBVIOUS
  <2>1. ~ (a < 0)
    OBVIOUS
  <2> HIDE DEF q, left, r
  <2>2. b \in Nat \ {0} /\ q \in Int /\ left \in 0 .. b - 1 /\ a = q * b + left
    BY <1>1, <1>3, <2>1
  <2> QED BY <2>2, IntSplit
<1>5. a < 0 => (a % b # 0 <=> r # 0)
  <2> SUFFICES ASSUME a < 0 PROVE a % b # 0 <=> r # 0
    OBVIOUS
  <2>1. a = q * b + (-r)
    BY <1>1, <1>3
  <2> HIDE DEF q, left, r
  <2>2. CASE r = 0
    <3>1. 0 \in 0 .. b - 1 /\ a = q * b + 0
      BY <1>1, <2>1, <2>2
    <3>2. a % b = 0
      BY <1>1, <3>1, IntSplit
    <3> QED BY <2>2, <3>2
  <2>3. CASE r # 0
    <3> DEFINE p == q - 1
               s == b - r
    <3>1. p \in Int /\ s \in 0 .. b - 1 /\ s # 0
      BY <1>1, <2>3
    <3>2. a = p * b + s
      <4>1. (q - 1) * b = q * b - b /\ q * b \in Int
        BY <1>1
      <4> QED BY <1>1, <2>1, <4>1
    <3> HIDE DEF p, s
    <3>3. a % b = s
      BY <1>1, <3>1, <3>2, IntSplit
    <3> QED BY <2>3, <3>1, <3>3
  <2> QED BY <2>2, <2>3
<1> HIDE DEF q, left, r
<1>6. Abs(left) < b
  BY <1>1 DEF Abs
<1>7. left < 0 <=> a < 0 /\ a % b # 0
  BY <1>1, <1>5
<1> QED BY <1>2, <1>3, <1>4, <1>6, <1>7

\* Powers are powers and divisions divisions.
LEMMA MathOfNumbers == MathMatches
<1>1. ASSUME NEW val \in Bases
      PROVE  ipow_float(val, 0) = <<1, 1>> /\ ipow_int(val, 0) = 1
  <2>1. ipow_float(val, 0) = <<1, 1>>
    BY DEF ipow_float
  <2>2. 0 <= 0
    OBVIOUS
  <2>3. ipow_int(val, 0) = 1
    BY <2>2 DEF ipow_int
  <2> QED BY <2>1, <2>3
<1>2. ASSUME NEW val \in Bases, NEW p \in 1 .. 2 ^ (IntBits - 1) - 1
      PROVE  /\ ipow_float(val, p) = <<Power(val, p), 1>> /\ ipow_int(val, p) = Power(val, p)
             /\ ipow_float(val, -p) = <<1, Power(val, p)>> /\ ipow_int(val, -p) = 1
  <2>1. val \in Int /\ p \in Nat \ {0}
    BY MathAssumption
  <2>2. p < 2 ^ IntBits
    <3> DEFINE j == IntBits - 1
    <3>1. j \in Nat /\ j + 1 = IntBits
      BY IntBitsAssumption
    <3> HIDE DEF j
    <3>2. 2 ^ (j + 1) = 2 ^ j + 2 ^ j /\ 2 ^ j \in Nat
      BY <3>1, PowerNext
    <3>3. p <= 2 ^ j - 1
      BY DEF j
    <3> QED BY <2>1, <3>1, <3>2, <3>3
  <2>3. ipow_(val, WordOf(p)) = Power(val, p)
    BY <2>1, <2>2, SquaresPower
  <2>4. ipow_int(val, p) = Power(val, p)
    BY <2>1, ProductsPower
  <2>5. -p < 0 /\ -p <= 0 /\ - (-p) = p /\ -p # 0 /\ ~ (-p > 0) /\ p > 0 /\ p # 0 /\ ~ (p < 0)
    BY <2>1
  <2>6. ipow_float(val, p) = <<Power(val, p), 1>>
    BY <2>3, <2>5 DEF ipow_float
  <2>7. ipow_float(val, -p) = <<1, Power(val, p)>>
    BY <2>3, <2>5 DEF ipow_float
  <2>8. ipow_int(val, -p) = 1
    BY <2>5 DEF ipow_int
  <2> QED BY <2>4, <2>6, <2>7, <2>8
<1>3. ASSUME NEW a \in Dividends, NEW b \in Divisors
      PROVE  a \in Int /\ b \in Int \ {0}
  BY MathAssumption
<1>4. \A a \in Dividends : \A b \in Divisors :
        LET left == a - b * div(a, b)
        IN  /\ Abs(left) < Abs(b)
            /\ left < 0 => a < 0
            /\ left > 0 => a > 0
  BY <1>3, Divides
<1>5. \A a \in Dividends : \A b \in Divisors :
        b > 0 =>
          LET d == div_modulo(a, b)
          IN  /\ d.a * b + d.m = a /\ Abs(d.m) < b
              /\ d.m < 0 <=> a < 0 /\ a % b # 0
              /\ a >= 0 => d = [a |-> a \div b, m |-> a % b]
  BY <1>3, DividesModulo
<1> QED BY <1>1, <1>2, <1>4, <1>5 DEF MathMatches

-----------------------------------------------------------------------------
(* The functions on bits *)

\* make_mask has the bits it names in types of every width, narrower than int or
\* not; make_msb_mask in those as wide as int.
THEOREM MasksCorrect == MasksMatch /\ (Spec => []Masks)
<1>1. Masks
  BY MasksOfTypes DEF Masks, AtFirst
<1> QED BY <1>1, MasksOfTypes, PTL

\* The functions that move a field of a word, signed or not, move that field to
\* its new place and clear all the other bits, the copies of the sign included.
THEOREM FieldsCorrect == FieldsMatch /\ (Spec => []Fields)
<1>1. Fields
  BY FieldsOfTypes DEF Fields, AtFirst
<1> QED BY <1>1, FieldsOfTypes, PTL

\* bit_unpack gets from a word what bit_pack put in it, cut to the width of a
\* segment and with its sign, and bit_pack_msb packs the values the other way
\* round: for every width of word and segment, and every number of values.
THEOREM PacksCorrect == PacksRoundTrip /\ (Spec => []Packs)
<1>1. Packs
  BY PacksOfTypes DEF Packs, AtFirst
<1> QED BY <1>1, PacksOfTypes, PTL

\* Shifts of words of every width, signed or not, are products with powers of
\* two, cut to the width, and quotients rounded down; counts find the powers of
\* two around a number; the squarings of ipow_, which go through the bits of the
\* exponent, give the power; and division rounds towards 0.
THEOREM NumbersCorrect == NumbersMatch /\ MathMatches /\ (Spec => []Numbers)
<1>1. Numbers
  BY NumbersOfTypes, MathOfNumbers DEF Numbers, AtFirst
<1> QED BY <1>1, NumbersOfTypes, MathOfNumbers, PTL

=============================================================================
