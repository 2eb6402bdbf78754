# inxlib: specifications, model checks and proofs

inxlib is a header-only C++20 library of containers, allocators and utilities
(`src/include/inxlib`, about 4900 lines).  It is single-threaded, has no I/O to
speak of and nothing persistent.  Its tests only compile it.  What is hard in it
is pointer structure: an intrusive red-black tree, arrays and pools that hand
out memory and take it back, lists kept inside that memory, and values packed
in words.  This directory models those parts in TLA+, checks them with TLC and
proves the most important results with TLAPS.

1. [The system](#1-the-system)
2. [Modules and how they correspond to the code](#2-modules-and-how-they-correspond-to-the-code)
3. [What the runs check](#3-what-the-runs-check)
4. [What is proved](#4-what-is-proved)
5. [Findings](#5-findings)
6. [What is not modelled](#6-what-is-not-modelled)
7. [Plan](#7-plan)

## 1. The system

Paths are below `src/include/inxlib`.

| component | state | operations | uses |
|---|---|---|---|
| `data/mary_tree.hpp` | a node's parent and M children, the tree's root | connect, disconnect, replace, swap | - |
| `data/binary_tree.hpp` | the same, M = 2 | rotations, in-order walks | mary_tree |
| `data/redblack_tree.hpp` | a colour per node, `m_root`, `m_size` | insert (root, leaf, before, after), erase, clear, iterators, searches | binary_tree |
| `data/block_array.hpp` | a table of blocks, `data_size`, `access_size`, `access_at` | push_back, emplace_back, clear, reset, element access | an allocator |
| `data/factory.hpp` | pool, list of constructed objects with a cursor, flags (`Factory`); slots given back (`ReuseFactory`); chain of slabs (`ReclaimFactory`) | construct, destruct, allocate, deallocate, release, reset | `std::pmr` |
| `data/slice_factory.hpp` | blocks by level, lists of free chunks and of waiting blocks, all inside the blocks | allocate, deallocate, reset, free | `std::pmr` |
| `data/slice_array.hpp` | front, back, level of a chunk | assign, assign_init, resize, clear, clear_init | slice_factory |
| `data/bit_table.hpp` | words, width, height | set-up and copies, functions of one value, of the buffer and of regions | bits |
| `util/bits.hpp`, `util/math.hpp` | none | masks, shifts, packing, counts; divisions, powers | - |
| `util/functions.hpp` | a callable with a flag or an object it owns | construction, assignment, call | - |
| `util/iterator.hpp`, `util/virtual_pointer.hpp`, `util/numeric_types.hpp`, `util/xoshiro256.hpp`, `inx.hpp`, `io/transformers.hpp` | see section 6 | | |

**How they interact.**  The red-black tree is built on the link operations of
the binary tree and temporarily leaves its own links stale while it swaps and
unlinks nodes.  A `slice_array` holds a chunk of a `slice_factory` that other
arrays share, and the factory keeps its lists in the same memory as the arrays'
elements; `reset()` of the factory takes the memory from under every array.
The factories sit on a memory resource that may throw.  `bit_table` and
`bit_cell` copy regions into each other although they lay out rows differently.

**What is hard.**  Nothing runs concurrently, no message is sent and nothing
survives a restart.  The hazards listed in `PROJECT.json` are of other kinds:
long sequences of legal calls (erasing from tall trees; clearing and refilling;
resetting twice), state that is stale when it is read (a word that is a position
or a link depending on what its block is used for; a list whose nodes are kept
from before a `release()`), order inside a call (copy before giving the old
chunk back; count before allocating), a limit that is met (a full node, a full
table, a full word), one step of several that throws, and, in the arithmetic on
words, types narrower than `int`, signs, and shifts by none or all of the bits.

**What makes each component correct.**

* *trees*: parents and children agree; the client's order is kept by every
  rotation and swap; the red-black conditions; every `assert`; every loop ends.
* *block_array*: elements never move; every block is returned once, every object
  destroyed once; the array is the list of what was pushed.
* *factories*: every object is destroyed exactly once and before its memory
  goes; a slot is held, reusable or lost to an exception; the chain grows only when it is full.
* *slices*: no two clients share memory; no block or chunk is lost; the links do
  not overwrite elements; each array is the sequence it was given.
* *bit_table*: a call changes the values it names and no others; reads stay
  inside the memory; equal cells have equal words.
* *bits, math*: masks and shifts give the bits, counts and powers the numbers that
  their names say, whatever the width and the sign of the type.

## 2. Modules and how they correspond to the code

The modules under proof contain no RECURSIVE operator; recursion is written as
recursive functions or folds.  `X.tla` has the state and one action per
operation, `XProps.tla` the properties, `MCX.tla` with `MCX*.cfg` the instances
for TLC, `XProofs.tla` the theorems.  Definitions commented "A bug:" are
plausible mistakes; no specification uses them, and the mutants of
`PROJECT.json` put them in place of the definition that follows them to show
that a property would notice.

### The trees

`BinaryTree` translates the member functions of `mary_tree.hpp` (M = 2) and
`binary_tree.hpp` to operators on a heap record (root, size, parent, children,
colour).  `RedBlackTree` composes them to the calls of `redblack_tree.hpp`.  A
call is an action, **and so is every pass of a loop**: `pc` names the running
loop, `cur` and `side` are its local variables.  No other call can come between,
so the states with `pc # "idle"` are the loop heads, and an invariant there is a
loop invariant.  `members` is the client's knowledge of which nodes are in the
tree; the code has no such variable.  Nodes have no keys in this tree: the
client says where each goes, and `BoundsCorrect` gives them keys to search for.

| pc | loop of the source |
|---|---|
| `search` | the descent in `insert_before`, `insert_after`, and to the neighbour in `eraseNode` |
| `insertNormalise` | `insertNormalise` |
| `eraseNormalise` | `eraseNodeNormalise` |

`OrderedList` is the abstract specification: a sequence of nodes, edited at the
named place, once per call.  `RedBlackTreeInv` has the invariants and the
inductive invariant, `RedBlackTreeProps` what needs sequences.

### BlockArray

`access` is the table, `access_at` the entry being filled, `store` the memory of
the blocks (an object or `Raw`), `live` the blocks that are allocated.
`Modulus` is 2^32, so that the uint32 products of the source wrap.  `FailingSpec`
adds pushes in which the allocator or the constructor throws.  `AppendList` is
the abstract specification.

### Factories

`Factory` models the list of constructed objects node by node with its cursor
(`obj_it`, `obj_i`), the flag before each object, and the pool.  `ReuseFactory`
EXTENDS it with `m_reuse`.  `alive` and `raw` are the client's side.  Exceptions of
the constructor of `T` (`ConstructThrows`, `ReuseConstructThrows`), and of a `m_reuse`
that cannot grow (`ReuseDestructThrows`, `ReuseDeallocateThrows`), are in `Spec` and
`ReuseSpec`.  A slot that `allocate()` has taken when the constructor throws
(factory.hpp:203), or whose object is destroyed when `push_back` throws (196), belongs to nobody until
`release()`: it is in `lost`.  A `deallocate()` that throws leaves the slot with
the client.  The push that finds no memory for a list node leaves the list in disorder
(section 5) and is in `FailingSpec` of `Factory` only.

`ReclaimFactory` has the chain of slabs, the place that comes next and the
places given back; `held` is the client's side.  Its exceptions are in `Spec`:
no memory for a slab, a constructor of `T` that throws when its place has been
taken, and a `m_reuse` that cannot grow.  `lost` has the places the last two take
out of use until the next `reset()` or `release()`: nothing in the code gives
them back.  That `m_reuse` reserves 64 entries at first is not modelled, so it may
fail to grow earlier than it would.

### Slices

`SliceFactory` is a record and operators on it, because `SliceArray` does several
of them within one call.  Each block has the two words before its memory
(`next`, `head`) that the source addresses with `get_slab_pointer_at`,
`get_slab_pos_at` and `get_slab_pointer2_at`; the last two are one word, and the
model keeps it one.  Links of free chunks are in `body`, the memory of the
chunks.  `SliceFactoryLists` says which chunks and blocks the lists hold.
`SliceFactoryClient` is a factory with any clients.  After `free()` it can be used
again, unless blocks waited: `slabReuse` then leads to memory that was returned
(`dangling`), and nothing more may be done with it.  A memory resource that throws leaves
the factory as it was (`AllocateThrows`).

`SliceArray` composes a factory with arrays, whose elements are in its memory.
In `AssignThrows`, `ResizeThrows` and `AssignInitThrows` the memory resource has no
block: `assign` has given its chunk back by then, and its array is one of `stale`,
the arrays that name memory they do not have, as after a `reset()` of the factory.
A stale array must be given new memory by `assign_init` or be emptied by
`clear_init`.  `ArrayStore` is the abstract specification: independent sequences, with
`call`, the last call, to which each step is tied: what `assign` was given is there after it,
`resize` keeps the elements that fit and puts its value behind them, a failed
`assign` has lost them, any other failed call has changed nothing.  Only of `clear()`,
which does not do what its name says (section 5), the store says no more than that
all elements stay or none does.

### Bit tables

`Bits` translates `bits.hpp`, `IntegerMath` `math.hpp`, as operators on words (sets
of bits) of a type with a width and a sign.  `IntBits` is the width of `int`, to which
narrower operands are promoted: what `~` and `>>` give then depends on it.  `BitsProps`
states what they should give, without them.  `BitOps`, `BitTable` and `ipow_` are
built from the same operators.

`BitOps` has the functions of one value, the loops over
regions (as folds in the order of the source, with the `adj_index` that steps
through them) and `region()`, which reads across words at byte addresses.
`BitTable` lays out tables (rows start at a word, with a buffer and one word to
spare) and cells (rows follow each other), and has the calls.  A table that was
moved from (`Shell`) keeps its size and the address of the other's words; the client
only sets it up, moves to it or gives it up.  So it does with a table whose `setup()` threw:
width, height and row length are written before `make_unique` (bit_table.hpp:391-394, 403-406),
so that it has its new size over the words it had before (`Torn`, from `SetupThrows` and
`SetupCopyThrows`), or over none.  It can be moved from as it is.  A constructor
that throws leaves no object.  `BitGrids` is the abstract
specification: functions from coordinates to values.  `call` records the
last call, so that the refinement says of each call what it may change.

## 3. What the runs check

| run | instance | checks |
|---|---|---|
| `redblack` | trees of up to 14 nodes | `TypeOK`, `LinksConsistent`, `Coloured`, `Balanced`, `AssertionsHold`, `LoopInvariants`, `IteratorsWalk`, `BoundsCorrect`, `PassesProgress`, `CallsReturn`, `ImplementsList` |
| `blockarray` | 5 blocks of 2, first table of 2, 9 elements, sizes modulo 32 | `TypeOK`, `NoLeaks`, `ObjectsMatch`, `AssertionsHold`, `ElementsStay`, `ImplementsList` |
| `blockarray_fails` | the same with exceptions | `ElementsReachable`: violated |
| `reusefactory` | 3 slots, nodes of 2, 5 objects between releases, with exceptions | `TypeOK`, `NodesSuffice`, `FlagsTellAlive`, `AliveListed`, `SlotsAccounted` |
| `factory_fails` | 4 slots, nodes of 2, with exceptions | `NodesSuffice`: violated |
| `reclaimfactory` | 3 slabs of 2, with exceptions | `PlacesAccounted`, `GrowsWhenFull` |
| `slicefactory` | 4 blocks of 3 slices, levels 0 to 2, level 2 above the maximum | `TypeOK`, `HeldDisjoint`, `BlocksAccounted`, `ChunksAccounted`, `ReusesBlocks`, `FreeLeaves` |
| `slicefactory_over` | chunks above the maximum are given back too | `ReleasesAll`: violated |
| `slicearray` | 2 arrays of up to 3 elements of 2 values, 3 blocks of 4 slices, chunks of 2 or 4, with exceptions | `ChunksOfArrays`, `ImplementsArrays` |
| `bit_table` | 2 objects, values of 2 bits in words of 8, buffer 1, 3 calls; types of 1, 3, 4 and 6 bits, `int` of 4 | `TypeOK`, `RegionsMatch`, `EqualMeansSame`, `ImplementsGrids`; `Masks`, `Fields`, `Numbers`, `Packs` |
| `bit_cell_resource` | cells constructed by a memory_resource too, 4 calls | `EqualMeansSame`: violated |
| `bits_documented` | the types of `bit_table` | `DocumentedBits`: violated |

### Bounds, and why they are enough

* **redblack.**  The first tree in which `eraseNodeNormalise` meets a red sibling
  in its second pass has 11 nodes; 14 leave room to reach it from several
  shapes.  The run has the VIEW `Shape`: nodes lose their names and keep their
  colour, their roles in the running call and their links.  That is sound because no
  action tells nodes apart and no action reads the links of nodes outside the
  tree.  It is so for `CallsReturn` too: whether a call runs, whether a pass can be made
  and whether a step is a pass is the same in all states of one shape, and every pass changes the
  shape, so that a behaviour of shapes is one of states.
* **blockarray.**  Nine elements in blocks of two need five blocks: the table of
  two grows to four and to eight entries.  `2 * MaxSize <= Modulus` keeps
  the client in half the range; what happens beyond is in section 5.
* **reusefactory.**  Five objects fill two nodes and begin a third, and with three
  slots some slot is always listed more than once.  The plain `Factory` has
  the same list and is proved; its own run is `factory_fails`.
* **reclaimfactory.**  Three slabs: the one kept by `release()`, one in the middle,
  one at the end of the chain.  There is no bound on the calls.
* **slicefactory.**  Blocks of three slices leave a slice unused when filled
  with chunks of two, so chunks that do not fit occur.  Four blocks give waiting
  chains with blocks before, within and behind.  Not more than `MaxFree` = 3 chunks
  wait to be used again: enough for a list with a first, a middle and a last one,
  and for lists of different levels.  The VIEW leaves out memory that
  no list reaches, which nobody reads before writing it.
* **slicearray.**  With the tolerance of one level, arrays of one to three elements
  keep a larger chunk, exchange it for a smaller or a larger one, and share blocks.  The
  minimum level is 1 here, so that what an array asks for and gives back (level 0) is not what
  the factory has (level 1); `slicefactory` has the minimum 0.
* **bit_table.**  Tables are 2 or 3 wide, that is 4 or 5 with the buffer, one word and
  more than one; cells of 5 by 2 have three words and leave bits unused.
  Two calls make the objects and the third is every call at every place;
  or one makes a table and two change it.  `MaxCalls` bounds the run, and a state
  at the bound has no successor, hence `CHECK_DEADLOCK FALSE`.  The VIEW
  leaves out `call`, which no action reads.
* **bits, math.**  Every word of types narrower than `int` (1 and 3 bits), as wide (4) and wider
  (6), with and without a sign, and every shift and field; powers up to the seventh, which
  use all bits of an exponent but the sign; bases -2 to 2; quotients of -9 to 9 by -4 to 4.
  These formulas do not depend on the state.  They are evaluated in the initial state
  of the run whose components they belong to (`AtFirst`).
* SYMMETRY is used for blocks, slots, values, arrays and objects, none of which any
  action or property orders or names, and not in the run with liveness.

`slicefactory` says `CHECK_DEADLOCK FALSE` because a factory that leads to memory it
has returned may not be used again.

### Fairness

Only `redblack` assumes any: weak fairness of the passes of a running call
(`FairSpec`), which its invariants and action properties do not use.  A C++ function
that is called is executed until it returns, so a running call takes its next step; no
call is ever obliged to be made.  `PassesProgress` is the reason behind
`CallsReturn`: a number that every pass makes smaller.

## 4. What is proved

The proof modules are `RedBlackTreeProofs` and `RedBlackTreeListProofs`, `BlockArrayProofs`,
`FactoryProofs`, `ReclaimFactoryProofs`, `SliceProofs` and `BitProofs`, with
`SliceFactoryFacts` for what is said of the factory of all its clients.  All theorems hold for every value
of the constants that satisfies the assumptions of the modules.

**Red-black tree** (`RedBlackTreeProofs`, `RedBlackTreeListProofs`; `Nodes` any finite set that does not
contain `NULL`).  `TypeCorrect`, `SizeCorrect`, `LinksCorrect`, `LocalsCorrect`,
`ColoursCorrect` and `AssertionsCorrect` say that `TypeOK`, `SizeMatches`,
`LinksConsistent`, `LocalsInTree`, `Coloured` and `AssertionsHold` are invariants
of `Spec`.  They follow from `Invariance`.  `LinksConsistent` is not inductive: it
also holds of a ring of nodes, in which a rotation goes wrong, and the asserts of
`eraseNodeNormalise` need a sibling whose existence only the counts of black nodes
give.  The inductive invariant therefore says that there are functions `sub` (the nodes
below each node, which makes the links a tree) and `bh` (the number of black nodes
on every path down), with the one exception that the running loop is there to
repair: a red pair at `cur` in `insertNormalise`, one black node missing on one
side of `cur` in `eraseNormalise`.  The first part of the module has what each link
operation does to a heap, the second what each case of the two repairs does
to `sub` and `bh`, and the third one step per action.  TLC checks the same
invariant as `LoopInvariants`, with `sub` and `bh` computed.  The fourth part proves that
what is computed is what the invariant speaks of (`LoopsCorrect`): the definitions
follow links to the depth that the number of nodes allows (`NodesFinite`: a program
has finitely many), a tree is no deeper, and an induction over it compares them
with `sub` and `bh` (`TreeUp`, `TreeDown`: sets of nodes in the place of
predicates).  From it follow `BalanceCorrect`, that no two paths down count differently many
black nodes, and `ProgressCorrect`, that each pass of each loop lowers what the
call has left to do.  The fifth part, in a module of its own with the sixth, proves the refinement,
`ListImplemented`.  What an
operator does to the order of the nodes follows from what it does to the links of a
few of them: nodes with the same links have the same sequence (`SameWalk`), and when a
subtree is replaced, its part of the sequence is replaced and nothing else
(`ReplacedInWalk`).  So rotations and colours change nothing, a leaf comes next to the
node it hangs under, and the two exchanged by `swap_node` are neighbours in the order, of
which one is taken out.  The calls that insert need an invariant of their own,
`SearchOrder`: at each pass the subtree of the node they are at stands beside the node they
are for.  The sixth part is about the loops that follow links without a bound, which are
recursive functions over all nodes, in a tree or not: such a function exists whatever
cycles the links have (`Follows`), and in a tree it stops where part 5 says.
`IteratorsCorrect` follows, that `++` and `--` go to the neighbours in the order and walk the whole
list, and `SearchesCorrect`, that a descent which turns right at the nodes for which an ordering
says yes ends at the first one for which it says no.

**BlockArray** (`BlockArrayProofs`; blocks and tables of any size, any `Modulus`; the
client stays in half of the range, `NoOverflow`).  `ArrayInvariance` proves `Inv`, and
from it `ArrayTypeCorrect`, `ArrayKeepsBlocks`, `ArrayDestroysOnce`, `ArrayElementsStay`, `ArrayAssertions`
and the refinement `ArrayImplementsList`.  `Inv` adds to the properties that the
table has no entry twice and none behind a null entry, that `access_at` is the entry
of the next element, and that the capacity stays in the range.

**Factories** (`FactoryProofs`; nodes of any size, any number of slots).
`FactoryInvariance` and `ReuseInvariance`, and from them `FactoryTypeCorrect`, that the
nodes hold what was pushed (`FactoryNodesSuffice`), that `release()` finds every object alive (`FactoryAliveListed`), destroys
none twice although slots are listed repeatedly (`ReuseFlagsTellAlive`), that no
memory is given back with an object in it (`ReuseAliveInPool`), and that each slot in
use is held, reusable or lost, never two of these (`ReuseSlotsAccounted`), all of it through constructors and
deallocations that throw.  The key is `CursorBehindLast`: `obj_size`
counts exactly the entries before the cursor.

**ReclaimFactory** (`ReclaimFactoryProofs`; slabs of any size, any bound on their
number).  `ReclaimInvariance` proves that `TypeOK` and `PlacesAccounted` are together
inductive: every place before the cursor is held, waits to be used again once, or was
lost to an exception, and no place is two of these.  From it `ReclaimTypeCorrect`,
`ReclaimPlacesAccounted` and `ReclaimGrowsWhenFull`, that a slab is made only when all
places of those there are in use.

**Slice factory** (`SliceFactoryFacts`, `SliceProofs`; any number of blocks, any
size of blocks and slices, any levels; clients give back one by one only chunks of the
levels up to `slab_max_level`, `Given \subseteq 0 .. MaxLevel`, because the code is wrong
about the others, see section 5).  `Invariance` proves `Inv`, and from it follow
`TypeCorrect`, `ChunksApart` (no two clients share memory), `BlocksCorrect` and
`ChunksCorrect` (nothing is lost or listed twice), and the action properties `ResetReleases`,
`BlocksReused` and `FreeLeavesRest`.  The properties are not inductive: the links of free
chunks are in the memory that clients write, so one has to know that every list ends,
that no two lists meet, and that every chunk was cut at a multiple of its size within what its block
has given out; `Sound` says so.  `Chain` counts the links it follows, so what is in a list is
a statement about all natural numbers; the induction it takes is done with the least number
for which a step would fail (`Least`, `Induction` for sets in the place of predicates).
`SliceFactoryFacts` has what each operator does to lists, blocks and chunks, for
any words that chunks may hold.

**Slice array** (`SliceProofs`; any arrays, values, tolerance and number of
elements that the largest level has room for).  `ArraysInvariance` proves `ArrayInv`, from it
`ArraysChunksCorrect`, and `ArraysImplementStore` is the refinement: through every call, every
exception and every `reset()` each array is the sequence that the last call on it says.  Each lemma is
about any factory, arrays and set of stale arrays (`Good`), so that a call is taken apart in
the states between what it does: `assign` is `GivenBack` and then `Got`, `resize` is `Moved`, and
what keeps its chunk is `Rewritten`.  What makes it true is `OtherItems`: the words of a
chunk that one holds are no other array's, and no link of the factory is among them.

**Bits** (`BitProofs`; types of any width, `int` of any width).  `MasksCorrect`,
`FieldsCorrect` and `PacksCorrect`: what `Masks`, `Fields` and `Packs` check for small types,
few values and every word holds for all.  `make_msb_mask` in types narrower than `int` and
`bit_nshift_v` are not among them: they are wrong (`bits_documented`).

`NumbersCorrect` says so of `Numbers`: shifts, signed or not, are products and quotients by
powers of two, counts find the powers of two around a number, `ipow` gives the power and division
rounds towards 0, for words of any width and for the numbers in `Bases`, `Dividends` and
`Divisors`, which may be any but a divisor 0 (`MathAssumption`).  The provers know nothing of `^`, so
what is needed of it is proved.  A power of two is the number of subsets of a set,
and each further element doubles them (`PowerNext`); exponents add up (`PowerSum`).  The number of
a word is a fold over its bits that takes them in an order nobody knows; any bit may be
taken first (`SumFoldAny`, by induction on the number of bits), and the rest is induction on the
width: a word of n bits is below `2 ^ n`, moved bits multiply (`WeightRaised`), disjoint words add
up.  So the bits from s on are the quotient by `2 ^ s` and those below the remainder
(`WordSplit`), and the copies of the sign that `>>` brings in are what rounding
down needs (`SignedParts`).  The loop of `ipow_` has after each bit the power whose exponent is the bits so far
(`SquaresPower`), which needs that the first bit it looks at, `clz_index`, is the highest (`AboveWord`).

**Bit tables** (`BitProofs`; any number of objects, sizes, buffer, width of values and words).
`ImplementsGridsTheorem` proves the refinement: every call, of one value, a word, a region or
a buffer, is a step of `BitGrids`.  `TypeCorrect` proves that the words an object needs are
there, but after a `setup()` that threw, `EqualCorrect` that cells are equal when their values are, `RegionsCorrect` what
`region()` gathers.  The argument has three parts.

* Where values are.  `TableSum` writes the place of a value as a sum of whole rows, whole words
  and whole values; every value is within one word (`Places`), no two share a bit
  (`ValuesDisjoint`), and so a function of one value changes that value and no other
  (`OneValuePuts`).  For `region()` this is nearly all: what it returns depends on where
  values are and not on what they are.
* What loops do.  They are folds, which the community modules define by recursion and CHOOSE.
  `FoldExists` gives the function that such a definition chooses, for a fold over any finite
  set in any order; `Least` and `Induction` come from the well-foundedness of `<`, so that no
  library theorem with an operator as a parameter is needed.  By induction on the steps, a loop
  over different places redoes each value once (`LoopDone`).  When a region is drawn in
  its own object, that is so only as far as a value is read before it is overwritten; the grids
  leave what a smeared region gets open (`Smears` of `BitGrids`), and only that.
* What is invariant.  `GridsInv`: an object that can be used has the words its kind and size call for, and, where
  values fill their words (`Tight`), no bit of a cell is one outside of its values
  (`Clean`).  The second part is what `EqualMeansSame` needs besides the values: `construct` clears
  the unused bits of the last word, and every later call only writes bits of values.

`EqualCorrect` has `Tight`, that the width of a value is that of its place, as a condition.
Values of 3 bits take 4, `construct` with `true` leaves ones between
them, and such a cell differs from one that was filled with the same values value by value.

**Only model-checked**: liveness (`CallsReturn`, out of this prover's reach; that every pass brings
a call nearer to its end is proved, `ProgressCorrect`), and what a slice factory does when
chunks above `slab_max_level` are given back.  All other properties that hold are proved.

## 5. Findings

Five runs find the code at odds with its own asserts or comments:

* `blockarray_fails`: `push_next_address` counts the element (block_array.hpp:190)
  before it allocates.  If that throws, `at()` accepts an index without memory and
  the assert at 305 fails.
* `factory_fails`: `push` moves the cursor to entry 0 (factory.hpp:63) before it
  allocates the next node.  If that throws, the next push overwrites the first entry
  of a full node: an object is never destroyed, and the assert at 133 fails.
* `slicefactory_over`: a chunk above `slab_max_level` that is given back overwrites
  the word that chains the blocks of its level (slice_factory.hpp:147), and `reset()`
  does not find those behind it, although line 91 says `// releases all memory,
  reuses blocks`.
* `bit_cell_resource`: the mask of bit_table.hpp:742 is shifted the wrong way: a cell
  constructed with `true` by a memory_resource keeps ones in its unused bits and has
  zeros at the start of its last word, under the comment `ensure non-used bits at
  end are set to zero`.
* `bits_documented`: bits.hpp:87 says `make_msb_mask: bit mask from msb`; in types narrower
  than `int` the mask is empty, unless it is of all bits, because `~0` is an `int` with a sign,
  of which `>>` shifts in ones (97).  And bits.hpp:203 says of the neutral shift `signed values
  always inserts 0, even for negative numbers`, 276 of both directions `neutral shifts left or
  right`; the form of `bit_nshift` for constants calls `bit_shift` (305).  `DocumentedBits` is
  `MsbMasksAsSaid \/ NeutralShiftsAsSaid`: that it is violated shows both, and one
  correction of the code alone would make the run pass.

Seen while reading, and without a run:

* slice_array.hpp:139: `clear()` tests for the opposite.  It does nothing to an array
  that has memory, and for one that has none it fails the assert at 259.
* slice_array.hpp:36 says `+-1` of the tolerance; 243 and 265 keep a chunk that is larger
  than needed, never one that is smaller.
* slice_factory.hpp:176: `free_reuse` follows the links between waiting chains and not
  those within one; blocks behind the first are never returned.  `FreeLeaves` states
  exactly what is left.  It leaves `slabReuse` as it was (88), so that the destructor after
  a `free()` returns the blocks that waited a second time, and a factory used again hands them out; no text says that it may be used.
* slice_factory.hpp:52: `slab_min_level` divides where it should compare, so that slices
  smaller than a pointer are possible.
* factory.hpp:293: `ReclaimFactory::release` drops all slabs but the first without
  freeing them (`unique_ptr::release`).
* block_array.hpp:193: the capacity in elements is computed in uint32 and is 0 from
  element 2^31 + 1 on; the assert fails for an array that is in order.
* block_array.hpp: iterators keep the address of the table, which a push that makes it
  grow frees; the reverse iterators (`return end()`) and `reserve` do not compile when
  they are used.
* slice_array.hpp: `resize(n, a[0])` and `assign(n, a[0])` read their argument through a
  chunk that was given back already.
* bit_table.hpp:138: `flip` passes a complement to `bit_set`, whose assert (217)
  wants no bit above the value; it holds only for values as wide as a word.
  `Flipped` is what a build without asserts does.
* bit_table.hpp:318: `region()` takes the values of a row for contiguous, which
  they are not when BitCount is 3, 5, 6 or 7; the assert at 496 then fails.  `RegionsMatch`
  is stated for the tight widths.
* bit_table.hpp:405: the padded width is converted to `pack_type` before it is divided: with
  8-bit words a width of 256 gives rows that are too short.
* bit_table.hpp:389: `setup(t)` of an empty table with a buffer reads through a null pointer,
  and of a table with itself reads the new memory.  386: a table that was moved from keeps its
  size and its pointer.
* bit_table.hpp:648, 655, 841, 848: `region_op` with a part drops OP; 788: `m_header.word()`; 301
  and 309: `region()` one column wide.  None of these compiles when it is used.
* bit_table.hpp:510: `getRowBits`, which nothing calls, gives the values of a row and not its
  bits.
* bits.hpp: `popcount` of a negative number narrower than `int` counts the
  bits of an `int`; a mask of no bits at the very end, and `bit_pack_msb` with segments as
  wide as the word, shift by the width, which C++ leaves undefined.
* math.hpp: `div_modulo` takes the remainder as an unsigned number before it asks whether it
  is negative, and so never corrects it.
* bit_table.hpp: the hash of a cell shifts words narrower than `size_t` by their width.
* iterator.hpp: the difference of two iterators has the wrong sign, `it[i]` does not
  count from `it`, and `+=` and `-=` do not compile when they are used.
* functions.hpp:205: the move assignment of `destruct_object_adaptor` has no return statement, and
  moving one to itself destroys its object; one whose `emplace` throws keeps the object
  it has just destroyed, and destroys it again.

## 6. What is not modelled

* `util/functions.hpp`: wrappers of one callable with one flag or pointer, which no other header
  uses.  Each operation is two assignments without a loop, a sharing or an interplay that
  a model would bring out more than reading them does (see section 5).
* `util/iterator.hpp`: an index with arithmetic; block arrays are accessed by index.
* `util/virtual_pointer.hpp`, `util/numeric_types.hpp`, `inx.hpp`: decided by types at compile
  time.
* `util/xoshiro256.hpp`: a generator; 64-bit linear arithmetic without a safety property.
* `io/transformers.hpp`: formatting of floating-point numbers.
* `src/tools/src_update.py`, tests and build files: maintenance; the tests only include headers.

Within the modelled parts these are left out:

* moves of trees, and the copies of block arrays and the assignment of slice factories that
  the classes have by default: a moved tree shares its nodes with the one it came from, a
  copy its blocks, and every property would fail at the next call on either;
* the functions above that do not compile when they are used, and `mary_tree::degree`;
* slices smaller than a link;
* element types with a destructor in slice arrays;
* a list node that cannot be allocated in `ReuseFactory`, whose list is that of `Factory` (`factory_fails`);
* of the bit tables `setup()` with the table itself, copies between objects whose words differ in
  type, copies of a part of a buffer named by an `index_t`, and `std::hash` of cells;
* of `math.hpp` overflow and rounding.

## 7. Plan

Order of the modules: trees, because everything hard about pointers is there; block array and
factories, whose objects must be destroyed once; slices, which compose an allocator and its
client; bit tables, and the functions on bits and numbers that they and the slices are
built from.  All of these are in place, and so are the proofs of every safety property, action
property and refinement that the runs check.  What is left is a slice factory whose client gives
back chunks above `slab_max_level`: the run `slicefactory_over` shows what goes wrong, not
what is still right then.
