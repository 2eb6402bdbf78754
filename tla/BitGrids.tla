------------------------------- MODULE BitGrids -------------------------------
(***************************************************************************)
(* What bit_table.hpp promises: rectangles of values that a call changes   *)
(* where it says and nowhere else.  A grid is a function from <<x, y>> to  *)
(* sets of bits; it is empty where there is none.                          *)
(***************************************************************************)
EXTENDS Integers

CONSTANTS
  Objects,
  Full,    \* all bits of a value
  Calls    \* the calls there are, with their arguments

VARIABLES
  grid,
  call     \* the last call

vars == <<grid, call>>

Box(x, y, n) == (x .. x + n.w - 1) \X (y .. y + n.h - 1)

Result(op, old, v) ==
  CASE op = "set" -> v
    [] op = "or" -> old \cup v
    [] op = "and" -> old \cap v
    [] op = "xor" -> (old \ v) \cup (v \ old)
    [] op = "nand" -> Full \ (old \cap v)
    [] op = "not" -> Full \ old

\* The part of a grid at B gets v.
Combined(g, B, op, v) ==
  [c \in DOMAIN g |-> IF c \in B THEN Result(op, g[c], v) ELSE g[c]]

\* The part of g at k.to gets that of f at k.from.
Stamped(g, f, k) ==
  [c \in DOMAIN g |->
     IF c \in Box(k.to[1], k.to[2], k.size)
     THEN Result(k.op, g[c],
                 f[<<c[1] - k.to[1] + k.from[1], c[2] - k.to[2] + k.from[2]>>])
     ELSE g[c]]

\* A region moved within one grid, onto values that are still to be read.
Smears(k) ==
  /\ k.of = k.at
  /\ k.to[2] > k.from[2] \/ (k.to[2] = k.from[2] /\ k.to[1] > k.from[1])
  /\ Box(k.to[1], k.to[2], k.size) \cap Box(k.from[1], k.from[2], k.size) # {}

\* What the grid of a call is after it.
Made(g, k) == k.op = "make" /\ g = [c \in Box(k.lo, k.lo, k.size) |-> k.value]
Found(g, k) ==
  k.op = "found" /\ g \in [Box(k.lo, k.lo, k.size) -> SUBSET Full]
Copied(g, k) == k.op = "duplicate" /\ g = grid[k.of]
Dropped(g, k) == k.op \in {"drop", "lose"} /\ g = << >>
Changed(g, k) ==
  /\ k.op = "change"
  /\ g = Combined(grid[k.at], Box(k.to[1], k.to[2], k.size), k.how, k.value)


\* k.part has places and the values they get.
Overlaid(g, k) ==
  /\ k.op = "word"
  /\ g = [c \in DOMAIN grid[k.at] |->
            IF \E p \in k.part : p[1] = c
            THEN (CHOOSE p \in k.part : p[1] = c)[2]
            ELSE grid[k.at][c]]

\* The buffer is all that is outside the k.size columns and rows at <<0, 0>>.
Framed(g, k) ==
  /\ k.op = "frame"
  /\ g = Combined(grid[k.at], DOMAIN grid[k.at] \ Box(0, 0, k.size), "set", k.value)
Drawn(g, k) ==
  /\ k.op \in {"set", "or", "and", "xor", "nand"}
  /\ IF Smears(k)
     THEN /\ g \in [DOMAIN grid[k.at] -> SUBSET Full]
          /\ \A c \in DOMAIN g \ Box(k.to[1], k.to[2], k.size) : g[c] = grid[k.at][c]
     ELSE g = Stamped(grid[k.at], grid[k.of], k)

Init == grid = [o \in Objects |-> << >>] /\ call = [op |-> "none"]

Do(k) ==
  LET g == grid'[k.at]
  IN  /\ \/ Made(g, k)
         \/ Found(g, k)
         \/ Copied(g, k)
         \/ Dropped(g, k)
         \/ Changed(g, k)
         \/ Overlaid(g, k)
         \/ Framed(g, k)
         \/ Drawn(g, k)
      /\ \A o \in Objects \ {k.at} : grid'[o] = grid[o]
      /\ DOMAIN grid' = Objects

Move(k) ==
  /\ k.op = "move"
  /\ grid' = [grid EXCEPT ![k.at] = grid[k.of], ![k.of] = << >>]

Next == call' \in Calls /\ (Do(call') \/ Move(call'))

Spec == Init /\ [][Next]_vars

=============================================================================
