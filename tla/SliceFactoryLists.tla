--------------------------- MODULE SliceFactoryLists ---------------------------
(***************************************************************************)
(* What the lists of a SliceFactory hold, for the properties of its users. *)
(***************************************************************************)
EXTENDS SliceFactory

Pointers == Slabs \X Units

\* The blocks of a level.
InLevel(f, l) == Chain(f.next, f.slab[l])

\* The blocks that wait to be used again: chains, by their first blocks.
WaitingHeads(f) == Chain(f.head, f.slabReuse)
Waiting(f) == UNION { Chain(f.next, s) : s \in WaitingHeads(f) }

\* The word a chunk begins with, as get_reuse_pointer_at reads it.
Links(f) == [p \in Pointers |-> f.body[p[1]][p[2]]]

\* The chunks of a level that were given back.
FreeList(f, l) ==
  IF l <= MaxLevel
  THEN Chain(Links(f), f.reuse[l])
  ELSE IF f.reuse[l] = NULL THEN {}
  ELSE Chain(f.next, f.reuse[l][1]) \X {0}

\* The chunks cut from the blocks of a level.
CutOf(f, l) ==
  IF l <= MaxLevel
  THEN { p \in InLevel(f, l) \X Units :
           p[2] % SlicesOf[l] = 0 /\ p[2] + SlicesOf[l] <= f.head[p[1]] }
  ELSE InLevel(f, l) \X {0}

\* The words that are links of those lists.
Linked(f) == UNION { FreeList(f, l) : l \in Levels }

\* Each block that was allocated is in one chain, of the level whose size it
\* has or of those that wait; so none is lost, returned twice or returned with
\* another size.  The word head is a position or a link as the chain demands.
BlocksIn(f) ==
  /\ Owned(f) = Waiting(f) \cup UNION { InLevel(f, l) : l \in Levels }
  /\ \A l \in Levels :
       /\ InLevel(f, l) \cap Waiting(f) = {}
       /\ \A k \in Levels : k # l => InLevel(f, k) \cap InLevel(f, l) = {}
       /\ \A s \in InLevel(f, l) :
            /\ f.size[s] = BlockSize(l)
            /\ l <= MaxLevel => f.head[s] \in 0 .. SlabUnits
  /\ \A s \in Waiting(f) : f.size[s] = MaxLevel
  /\ \A s \in WaitingHeads(f) : f.head[s] \in Slabs \cup {NULL}
  /\ \A s, t \in WaitingHeads(f) :
       s # t => Chain(f.next, s) \cap Chain(f.next, t) = {}

\* Each chunk cut from a block is held (H[l] of level l) or in
\* the list of its level, which ends and holds no chunk twice; never both.
ChunksIn(f, H) ==
  \A l \in Levels :
    /\ CutOf(f, l) = H[l] \cup FreeList(f, l)
    /\ H[l] \cap FreeList(f, l) = {}
    /\ l \in Regular /\ FreeList(f, l) # {} =>
         Cardinality({ p \in FreeList(f, l) : f.body[p[1]][p[2]] = NULL }) = 1

-----------------------------------------------------------------------------
(* The invariant the proofs rest on, where chunks above MaxLevel are not given
   back one by one *)

\* A list: every link leads on or is NULL, and one of them is.
IsList(link, x) ==
  /\ x \in DOMAIN link \cup {NULL}
  /\ \A y \in Chain(link, x) : link[y] \in DOMAIN link \cup {NULL}
  /\ x # NULL => \E y \in Chain(link, x) : link[y] = NULL

\* Types, with W for what clients may write.
Factories(W) ==
  [reuse     : [Levels -> Pointers \cup {NULL}],
   slab      : [Levels -> Slabs \cup {NULL}],
   slabReuse : Slabs \cup {NULL},
   next      : [Slabs -> Slabs \cup {NULL, Data}],
   head      : [Slabs -> (0 .. SlabUnits) \cup Slabs \cup {NULL, Data}],
   body      : [Slabs -> [Units -> W]],
   size      : [Slabs -> Levels \cup {NULL}]]

\* The levels that are used, and those that have a list of free chunks.
LevelsIn(f) ==
  \A l \in Levels :
    /\ l \notin Regular => f.reuse[l] = NULL
    /\ l < MinLevel => f.slab[l] = NULL

\* The chains of blocks are lists: of each level, of the first blocks that wait,
\* and behind each of those.
BlockLists(f) ==
  /\ \A l \in Levels : IsList(f.next, f.slab[l])
  /\ IsList(f.head, f.slabReuse)
  /\ \A s \in WaitingHeads(f) : IsList(f.next, s)

\* So are the free chunks of each level.
FreeLists(f) == \A l \in Regular : IsList(Links(f), f.reuse[l])

\* Blocks are cut at multiples of the size of their chunks.
Aligned(f) == \A l \in Regular : \A s \in InLevel(f, l) : f.head[s] % SlicesOf[l] = 0

Sound(f) ==
  /\ LevelsIn(f)
  /\ BlockLists(f)
  /\ FreeLists(f)
  /\ Aligned(f)
  /\ BlocksIn(f)

=============================================================================
