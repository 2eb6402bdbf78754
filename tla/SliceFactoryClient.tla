-------------------------- MODULE SliceFactoryClient --------------------------
(***************************************************************************)
(* A SliceFactory and clients that allocate, deallocate what they hold     *)
(* with the level they asked for, write what they like in it, reset the    *)
(* factory, and free it, which its destructor does too.                    *)
(***************************************************************************)
EXTENDS SliceFactoryLists

CONSTANTS
  Given,    \* the levels of the chunks clients give back one by one
  MaxFree   \* a bound on the chunks given back and not used again

VARIABLES
  held,      \* the chunks clients hold, with the level they asked for
  dangling   \* slabReuse leads to blocks that were returned

vars == <<factory, held, dangling>>

HeldAt(l) == { c[1] : c \in { d \in held : Lift(d[2]) = l } }

-----------------------------------------------------------------------------

Init ==
  /\ factory = NewFactory
  /\ held = {}
  /\ dangling = FALSE

\* The client's data fills the chunk.
Filled(f, p, l) ==
  [f EXCEPT !.body[p[1]] =
     [o \in Units |-> IF <<p[1], o>> \in Chunk(p, l) THEN Data ELSE @[o]]]

\* A link that was overwritten leads anywhere: that is left out.
Allocate(l) ==
  /\ ~dangling
  /\ factory.reuse[Lift(l)] # Data
  /\ \E s \in Supply(factory, Lift(l)) :
       LET a == Allocated(factory, Lift(l), s)
       IN  /\ factory' = Filled(a.f, a.p, l)
           /\ held' = held \cup {<<a.p, l>>}
  /\ UNCHANGED dangling

\* Nothing has changed when the memory resource is asked.
AllocateThrows(l) ==
  /\ ~dangling
  /\ Asks(factory, Lift(l))
  /\ UNCHANGED vars

\* The same holds of a list that begins with such a link.
Deallocate(c) ==
  /\ ~dangling
  /\ c[2] \in Given
  /\ \A l \in Levels : factory.reuse[l] # Data
  /\ Cardinality(UNION { FreeList(factory, l) \X {l} : l \in Levels }) < MaxFree
  /\ factory' = Deallocated(factory, c[1], Lift(c[2]))
  /\ held' = held \ {c}
  /\ UNCHANGED dangling

\* What clients hold is theirs no more.
Reset ==
  /\ ~dangling
  /\ factory' = ResetFactory(factory)
  /\ held' = {}
  /\ UNCHANGED dangling

\* free() forgets its levels and leaves slabReuse as it is: if blocks waited, the
\* factory leads to memory it has returned and must not be touched again, and
\* if none did it can be used anew.
Free ==
  /\ ~dangling
  /\ factory' = FreeFactory(factory)
  /\ held' = {}
  /\ dangling' = (factory.slabReuse # NULL)

Next ==
  \/ \E l \in Levels : Allocate(l) \/ AllocateThrows(l)
  \/ \E c \in held : Deallocate(c)
  \/ Reset
  \/ Free

Spec == Init /\ [][Next]_vars

-----------------------------------------------------------------------------
(* Properties *)

\* Types of the factory's lists and headers.
TypeOK ==
  /\ factory.reuse \in [Levels -> Pointers \cup {NULL, Data}]
  /\ factory.slab \in [Levels -> Slabs \cup {NULL}]
  /\ factory.slabReuse \in Slabs \cup {NULL}
  /\ factory.next \in [Slabs -> Slabs \cup {NULL, Data}]
  /\ factory.head \in [Slabs -> (0 .. SlabUnits) \cup Slabs \cup {NULL, Data}]
  /\ factory.body \in [Slabs -> [Units -> Pointers \cup {NULL, Data}]]
  /\ factory.size \in [Slabs -> Levels \cup {NULL}]
  /\ held \subseteq Pointers \X Levels

\* No two chunks that clients hold share a slice, and each is in memory that is
\* there: what one client writes no other sees.
HeldDisjoint ==
  /\ \A c, d \in held : c # d => Chunk(c[1], c[2]) \cap Chunk(d[1], d[2]) = {}
  /\ \A c \in held :
       /\ c[1][1] \in Owned(factory)
       /\ c[1][2] + SlicesOf[Lift(c[2])]
            <= IF Lift(c[2]) <= MaxLevel THEN SlabUnits ELSE SlicesOf[Lift(c[2])]

\* No block is lost, returned twice or returned with another size: each one is
\* in one chain, of its level or of those that wait.
BlocksAccounted == ~dangling => BlocksIn(factory)

\* No chunk is handed out twice or lost: each one is held by a client or in the
\* list of its level.
ChunksAccounted == ~dangling => ChunksIn(factory, [l \in Levels |-> HeldAt(l)])

\* reset() "releases all memory, reuses blocks" (slice_factory.hpp:91): after it
\* every block left waits to be used again.
ReleasesAll == [][Reset => Owned(factory') = Waiting(factory')]_vars

\* The other half of that line: the memory resource is asked for a block only
\* when all blocks of that size are in use.
ReusesBlocks ==
  [][\A s \in Owned(factory') \ Owned(factory) :
       factory'.size[s] = MaxLevel => Waiting(factory) = {}]_vars

\* What free() leaves behind: of each chain that waits all blocks but the
\* first; so nothing, unless a reset() found two blocks on one level.
FreeLeaves ==
  [][Free => Owned(factory') = Waiting(factory) \ WaitingHeads(factory)]_vars

-----------------------------------------------------------------------------
(* The inductive invariant *)

\* What a client may find in the words of a block.
Words == Pointers \cup {NULL, Data}

Inv ==
  /\ factory \in Factories(Words)
  /\ held \subseteq Pointers \X Levels
  /\ \A c, d \in held : c[1] = d[1] => c = d
  /\ dangling \in BOOLEAN
  /\ IF dangling THEN held = {} ELSE Sound(factory)
  /\ ChunksIn(factory, [l \in Levels |-> HeldAt(l)])

=============================================================================
