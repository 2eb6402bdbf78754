------------------------------ MODULE SliceArray ------------------------------
(***************************************************************************)
(* slice_array.hpp: arrays whose elements are in chunks of one             *)
(* SliceFactory.  An array has a pointer, a number of elements (back -     *)
(* front) and the level of its chunk, which is Empty, 128 in the source,   *)
(* when it has none.  Elements are values in the factory's memory, where   *)
(* the factory keeps its links as well.                                    *)
(*                                                                         *)
(* Whenever the factory asks its memory resource for a block the answer    *)
(* may be an exception.  The element type has no destructor: resize()      *)
(* leaves that of the elements it drops out.                               *)
(* The definitions commented "A bug:" are used by no specification here.   *)
(***************************************************************************)
EXTENDS SliceFactoryLists, Sequences

CONSTANTS
  Arrays,
  Values,
  Empty,
  Tollerance,
  MaxCount     \* a bound on the elements of an array

ASSUME SliceArrayAssumption ==
  /\ Tollerance \in 0 .. 31
  /\ MaxCount \in 0 .. SlicesOf[MaxLevel]
  /\ Empty \notin Levels

VARIABLES
  array,
  stale,   \* the arrays whose memory is the factory's again, by a reset() or a
           \* call that threw: they have to be forgotten before they are used
  call     \* the last call, for the properties alone

arrayVars == <<factory, array, stale, call>>

\* The elements that an iterator range or a count and a value give.
Contents(n) == [0 .. n - 1 -> Values]

NoArray == [front |-> NULL, count |-> 0, level |-> Empty]

ArrayInit ==
  /\ factory = NewFactory
  /\ array = [a \in Arrays |-> NoArray]
  /\ stale = {}
  /\ call = [op |-> "none"]

-----------------------------------------------------------------------------

\* The level that has room for n elements.
LevelOf(n) == Min({ l \in Levels : n <= SlicesOf[l] })

\* The chunk is large enough and not too large.
Keeps(x, l) == x.level # Empty /\ x.level - l \in 0 .. Tollerance

\* The calls, with what they are given.  A call that throws has "lose" if the
\* array's memory is gone then, and "fail" if nothing has changed.
CallOn(op, a) == [op |-> op, at |-> a]
CallAssign(a, n, e) == [op |-> "assign", at |-> a, list |-> [i \in 1 .. n |-> e[i - 1]]]
CallResize(a, n, v) == [op |-> "resize", at |-> a, count |-> n, value |-> v]

\* dealloc_, where there is something to give back.
WithoutChunk(f, x) ==
  IF x.level = Empty THEN f ELSE Deallocated(f, x.front, Lift(x.level))

Element(f, x, i) == f.body[x.front[1]][x.front[2] + i]

\* Elements 0 .. n - 1 of a chunk at p, as e gives them.
Written(f, p, n, e) ==
  [f EXCEPT !.body[p[1]] =
     [o \in Units |-> IF o \in p[2] .. p[2] + n - 1 THEN e[o - p[2]] ELSE @[o]]]

\* assign: the old chunk goes back before the new one is asked for.
AssignNew(a, n, e) ==
  LET x == array[a]
      l == LevelOf(n)
      f == WithoutChunk(factory, x)
  IN  /\ ~Keeps(x, l)
      /\ \E s \in Supply(f, Lift(l)) :
           LET c == Allocated(f, Lift(l), s)
           IN  /\ factory' = Written(c.f, c.p, n, e)
               /\ array' = [array EXCEPT ![a] = [front |-> c.p, count |-> n, level |-> l]]

AssignKeep(a, n, e) ==
  /\ Keeps(array[a], LevelOf(n))
  /\ factory' = Written(factory, array[a].front, n, e)
  /\ array' = [array EXCEPT ![a].count = n]

Assign(a, n, e) ==
  /\ a \notin stale
  /\ AssignNew(a, n, e) \/ AssignKeep(a, n, e)
  /\ call' = CallAssign(a, n, e)
  /\ UNCHANGED stale

\* A bug: a client that does not know that the old chunk is gone.
AssignThrowsUnnoticed(a, n) ==
  LET f == WithoutChunk(factory, array[a])
  IN  /\ a \notin stale
      /\ ~Keeps(array[a], LevelOf(n))
      /\ Asks(f, Lift(LevelOf(n)))
      /\ factory' = f
      /\ call' = CallOn("lose", a)
      /\ UNCHANGED <<array, stale>>

\* The exception leaves resize_ between the two: front and level still name the
\* chunk that was given back.
AssignThrows(a, n) ==
  LET f == WithoutChunk(factory, array[a])
  IN  /\ a \notin stale
      /\ ~Keeps(array[a], LevelOf(n))
      /\ Asks(f, Lift(LevelOf(n)))
      /\ factory' = f
      /\ stale' = IF array[a].level = Empty THEN stale ELSE stale \cup {a}
      /\ call' = CallOn("lose", a)
      /\ UNCHANGED array

\* A bug: cap is left at 0, and the value is written over what was moved.
ResizeNewFilled(a, n, v) ==
  LET x == array[a]
      l == LevelOf(n)
  IN  /\ ~Keeps(x, l)
      /\ \E s \in Supply(factory, Lift(l)) :
           LET c == Allocated(factory, Lift(l), s)
           IN  /\ factory' = Written(WithoutChunk(c.f, x), c.p, n, [i \in 0 .. n - 1 |-> v])
               /\ array' = [array EXCEPT ![a] = [front |-> c.p, count |-> n, level |-> l]]

\* resize: the elements go to the new chunk before the old one goes back.
ResizeNew(a, n, v) ==
  LET x == array[a]
      l == LevelOf(n)
  IN  /\ ~Keeps(x, l)
      /\ \E s \in Supply(factory, Lift(l)) :
           LET c == Allocated(factory, Lift(l), s)
               kept == [i \in 0 .. n - 1 |-> IF i < x.count THEN Element(c.f, x, i) ELSE v]
           IN  /\ factory' = Written(WithoutChunk(c.f, x), c.p, n, kept)
               /\ array' = [array EXCEPT ![a] = [front |-> c.p, count |-> n, level |-> l]]

ResizeKeep(a, n, v) ==
  LET x == array[a]
  IN  /\ Keeps(x, LevelOf(n))
      /\ factory' = Written(factory, x.front, n,
           [i \in 0 .. n - 1 |-> IF i < x.count THEN Element(factory, x, i) ELSE v])
      /\ array' = [array EXCEPT ![a].count = n]

Resize(a, n, v) ==
  /\ a \notin stale
  /\ ResizeNew(a, n, v) \/ ResizeKeep(a, n, v)
  /\ call' = CallResize(a, n, v)
  /\ UNCHANGED stale

\* try_alloc_ asks before anything is changed.
ResizeThrows(a, n) ==
  /\ a \notin stale
  /\ ~Keeps(array[a], LevelOf(n))
  /\ Asks(factory, Lift(LevelOf(n)))
  /\ call' = CallOn("fail", a)
  /\ UNCHANGED <<factory, array, stale>>

\* assign_init, for an array without memory, whatever it has in its fields.
AssignInit(a, n, e) ==
  LET l == LevelOf(n)
  IN  /\ a \in stale \/ array[a].level = Empty
      /\ \E s \in Supply(factory, Lift(l)) :
           LET c == Allocated(factory, Lift(l), s)
           IN  /\ factory' = Written(c.f, c.p, n, e)
               /\ array' = [array EXCEPT ![a] = [front |-> c.p, count |-> n, level |-> l]]
      /\ stale' = stale \ {a}
      /\ call' = CallAssign(a, n, e)

AssignInitThrows(a, n) ==
  /\ a \in stale \/ array[a].level = Empty
  /\ Asks(factory, Lift(LevelOf(n)))
  /\ call' = CallOn("fail", a)
  /\ UNCHANGED <<factory, array, stale>>

\* clear() does nothing to an array that has memory.  Of one that has none it
\* fails the assert of dealloc_, and that is left out.
Clear(a) ==
  /\ a \notin stale
  /\ array[a].level # Empty
  /\ call' = CallOn("clear", a)
  /\ UNCHANGED <<factory, array, stale>>

ClearInit(a) ==
  /\ a \in stale
  /\ array' = [array EXCEPT ![a] = NoArray]
  /\ stale' = stale \ {a}
  /\ call' = CallOn("forget", a)
  /\ UNCHANGED factory

\* reset() of the factory takes the memory of all arrays.
ArrayReset ==
  /\ factory' = ResetFactory(factory)
  /\ stale' = { a \in Arrays : array[a].level # Empty }
  /\ call' = [op |-> "reset"]
  /\ UNCHANGED array

ArrayNext ==
  \/ ArrayReset
  \/ \E a \in Arrays : Clear(a) \/ ClearInit(a)
  \/ \E a \in Arrays, n \in 0 .. MaxCount :
       \/ \E e \in Contents(n) : Assign(a, n, e) \/ AssignInit(a, n, e)
       \/ \E v \in Values : Resize(a, n, v)
       \/ AssignThrows(a, n) \/ ResizeThrows(a, n) \/ AssignInitThrows(a, n)

ArraySpec == ArrayInit /\ [][ArrayNext]_arrayVars

=============================================================================
