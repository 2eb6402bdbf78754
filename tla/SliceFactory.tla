----------------------------- MODULE SliceFactory -----------------------------
(***************************************************************************)
(* slice_factory.hpp: chunks of 2^level slices, cut from blocks ("slabs")  *)
(* that belong to one level each; a chunk above slab_max_level has a block *)
(* of its own.  Chunks given back are chained through their own memory,    *)
(* blocks through two words before theirs:                                 *)
(*   next   the block before it on the same level (get_slab_pointer_at)    *)
(*   head   the slices used so far (get_slab_pos_at) or, in a block that   *)
(*          waits to be used again, the next one that waits                *)
(*          (get_slab_pointer2_at): the same memory                        *)
(* The factory is a record, and its operations are operators on it, so     *)
(* that SliceArray can do several in one step.  A pointer is a block and   *)
(* the number of a slice, every slice has room for a link, and memory      *)
(* nobody has written holds Data.                                          *)
(* The definitions commented "A bug:" are used by no specification here.   *)
(***************************************************************************)
EXTENDS Integers, FiniteSetsExt

CONSTANTS
  Slabs,      \* the blocks of the memory resource
  MinLevel,   \* slab_min_level()
  MaxLevel,   \* slab_max_level()
  TopLevel,   \* the highest level, 31 in the source
  SlabUnits,  \* init_slab_count(), the slices of a block
  NULL,
  Data        \* what is no link

VARIABLE factory

\* The slices of a chunk: 1 << level.
SlicesOf[l \in 0 .. TopLevel + 1] == IF l = 0 THEN 1 ELSE 2 * SlicesOf[l - 1]

Levels == 0 .. TopLevel
Regular == MinLevel .. MaxLevel
Units == 0 .. Max({SlicesOf[TopLevel], SlabUnits}) - 1

ASSUME SliceFactoryAssumption ==
  /\ MinLevel \in Nat /\ MaxLevel \in Nat /\ TopLevel \in Nat
  /\ MinLevel <= MaxLevel /\ MaxLevel <= TopLevel
  /\ SlabUnits \in Nat
  /\ SlicesOf[MaxLevel] <= SlabUnits /\ SlabUnits < SlicesOf[MaxLevel + 1]
  /\ IsFiniteSet(Slabs)
  /\ NULL # Data
  /\ {NULL, Data} \cap (Slabs \cup Slabs \X Units \cup Levels) = {}

NewFactory ==
  [reuse     |-> [l \in Levels |-> NULL],
   slab      |-> [l \in Levels |-> NULL],
   slabReuse |-> NULL,
   next      |-> [s \in Slabs |-> Data],
   head      |-> [s \in Slabs |-> Data],
   body      |-> [s \in Slabs |-> [o \in Units |-> Data]],
   size      |-> [s \in Slabs |-> NULL]]  \* NULL: not allocated

Owned(f) == { s \in Slabs : f.size[s] # NULL }

\* get_slab_size_padded, as the level that stands for the size.
BlockSize(l) == IF l <= MaxLevel THEN MaxLevel ELSE l

Lift(l) == IF l < MinLevel THEN MinLevel ELSE l

Chunk(p, l) == { <<p[1], o>> : o \in p[2] .. p[2] + SlicesOf[Lift(l)] - 1 }

\* What can be reached from x by following the links of function link.
Chain(link, x) ==
  LET D == DOMAIN link
      reach[n \in 0 .. Cardinality(D)] ==
        IF n = 0 THEN {x} \cap D
        ELSE LET near == reach[n - 1]
             IN  near \cup ({ link[y] : y \in near } \cap D)
  IN  reach[Cardinality(D)]

-----------------------------------------------------------------------------
(* allocate *)

\* A bug: the highest level gets no block that waits.
MustAskAtMax(f, l) == l >= MaxLevel \/ f.slabReuse = NULL

\* The memory resource has to be asked for a block.
MustAsk(f, l) == l > MaxLevel \/ f.slabReuse = NULL

\* allocate_slab: the block it returns, s when it asks the memory resource.
SlabTaken(f, l, s) ==
  IF MustAsk(f, l) THEN s
  ELSE IF f.next[f.slabReuse] # NULL THEN f.next[f.slabReuse]
  ELSE f.slabReuse

\* A bug: the blocks behind the one taken are forgotten.
WithoutTakenOrBehind(f, l, s) ==
  IF MustAsk(f, l) THEN [f EXCEPT !.size[s] = BlockSize(l)]
  ELSE IF f.next[f.slabReuse] # NULL
  THEN [f EXCEPT !.next[f.slabReuse] = NULL]
  ELSE [f EXCEPT !.slabReuse = f.head[f.slabReuse]]

\* allocate_slab: what it leaves.  Of the blocks that wait, those behind the
\* first on the same level go first.
WithoutTaken(f, l, s) ==
  IF MustAsk(f, l) THEN [f EXCEPT !.size[s] = BlockSize(l)]
  ELSE IF f.next[f.slabReuse] # NULL
  THEN [f EXCEPT !.next[f.slabReuse] = f.next[f.next[f.slabReuse]]]
  ELSE [f EXCEPT !.slabReuse = f.head[f.slabReuse]]

\* A new block for level l, before the others of the level.
WithSlab(f, l, s) ==
  LET n == SlabTaken(f, l, s)
  IN  [WithoutTaken(f, l, s) EXCEPT
         !.head[n] = IF l <= MaxLevel THEN 0 ELSE Data,
         !.next[n] = f.slab[l],
         !.slab[l] = n]

\* A bug: a chunk may reach over the end of the block.
HasRoomForSlice(f, l) == f.slab[l] # NULL /\ f.head[f.slab[l]] < SlabUnits

HasRoom(f, l) ==
  f.slab[l] # NULL /\ f.head[f.slab[l]] + SlicesOf[l] <= SlabUnits

\* A chunk from the block of its level, from where the last one ended.
Cut(f, l) ==
  LET s == f.slab[l]
  IN  [p |-> <<s, f.head[s]>>, f |-> [f EXCEPT !.head[s] = @ + SlicesOf[l]]]

\* A bug: the chunk stays the first of those given back.
ReusedStays(f, l) == [p |-> f.reuse[l], f |-> f]

\* The chunk given back last.
Reused(f, l) ==
  LET p == f.reuse[l]
  IN  [p |-> p, f |-> [f EXCEPT !.reuse[l] = f.body[p[1]][p[2]]]]

Single(f, l) == [p |-> <<f.slab[l], 0>>, f |-> f]

\* allocate(l): the chunk p and the factory f after it.
Allocated(f, l, s) ==
  CASE f.reuse[l] # NULL                    -> Reused(f, l)
    [] f.reuse[l] = NULL /\ l > MaxLevel    -> Single(WithSlab(f, l, s), l)
    [] f.reuse[l] = NULL /\ l <= MaxLevel   ->
         Cut(IF HasRoom(f, l) THEN f ELSE WithSlab(f, l, s), l)

\* The blocks the memory resource may answer with, if it is asked.
Supply(f, l) ==
  IF f.reuse[l] = NULL /\ MustAsk(f, l) /\ (l <= MaxLevel => ~HasRoom(f, l))
  THEN Slabs \ Owned(f)
  ELSE {NULL}

\* The memory resource is asked for a block, and may throw.
Asks(f, l) == Supply(f, l) # {NULL}

-----------------------------------------------------------------------------
(* deallocate, reset, free *)

\* deallocate(p, l).  Above slab_max_level the link is the word that chains the
\* blocks of the level.
Deallocated(f, p, l) ==
  IF l <= MaxLevel
  THEN [f EXCEPT !.body[p[1]][p[2]] = f.reuse[l], !.reuse[l] = p]
  ELSE [f EXCEPT !.next[p[1]] = IF f.reuse[l] = NULL THEN NULL ELSE f.reuse[l][1],
                 !.reuse[l] = p]

\* The blocks of set S go back to the memory resource.
Returned(f, S) ==
  [f EXCEPT !.size = [s \in Slabs |-> IF s \in S THEN NULL ELSE @[s]],
            !.next = [s \in Slabs |-> IF s \in S THEN Data ELSE @[s]],
            !.head = [s \in Slabs |-> IF s \in S THEN Data ELSE @[s]],
            !.body = [s \in Slabs |-> IF s \in S THEN [o \in Units |-> Data] ELSE @[s]]]

InUse(f, L) == { l \in L : f.slab[l] # NULL }

\* The levels in L begin anew.
Emptied(f, L) ==
  [f EXCEPT !.reuse = [l \in Levels |-> IF l \in InUse(f, L) THEN NULL ELSE @[l]],
            !.slab = [l \in Levels |-> IF l \in L THEN NULL ELSE @[l]]]

\* free_range
FreeRange(f, L) ==
  Emptied(Returned(f, UNION { Chain(f.next, f.slab[l]) : l \in InUse(f, L) }), L)

\* A bug: what waits already is forgotten.
DetachedOnly(f) ==
  LET used == InUse(f, Regular)
      before(l) == { k \in used : k < l }
  IN  [f EXCEPT
         !.slabReuse = IF used = {} THEN NULL ELSE f.slab[Max(used)],
         !.head = [s \in Slabs |->
           IF \E l \in used : f.slab[l] = s
           THEN LET l == CHOOSE l \in used : f.slab[l] = s
                IN  IF before(l) = {} THEN NULL ELSE f.slab[Max(before(l))]
           ELSE @[s]]]

\* The first loop of reset(): the chain of each level waits behind those of the
\* levels above it and before what waits already.
Detached(f) ==
  LET used == InUse(f, Regular)
      before(l) == { k \in used : k < l }
  IN  [f EXCEPT
         !.slabReuse = IF used = {} THEN @ ELSE f.slab[Max(used)],
         !.head = [s \in Slabs |->
           IF \E l \in used : f.slab[l] = s
           THEN LET l == CHOOSE l \in used : f.slab[l] = s
                IN  IF before(l) = {} THEN f.slabReuse ELSE f.slab[Max(before(l))]
           ELSE @[s]]]

ResetFactory(f) ==
  FreeRange(Emptied(Detached(f), Regular), { l \in Levels : l > MaxLevel })

\* free_reuse
FreeReuse(f) == Returned(f, Chain(f.head, f.slabReuse))

\* free(): of each chain that waits, the first block only.
FreeFactory(f) == FreeReuse(FreeRange(f, { l \in Levels : l >= MinLevel }))

=============================================================================
