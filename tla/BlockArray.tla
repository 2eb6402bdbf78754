------------------------------ MODULE BlockArray ------------------------------
(***************************************************************************)
(* block_array.hpp: an array that grows in blocks of 2^BlockPower elements *)
(* and never moves one.  A table `access' points at the blocks; when it is *)
(* full a table of twice the size replaces it.  clear() keeps the blocks   *)
(* for the next elements, reset() gives everything back.                   *)
(*                                                                         *)
(* Pointers into the table (access_at) are indices, and no table is one    *)
(* without entries.  store is the memory of the blocks: what object, if    *)
(* any, is alive in each place.  The elements have a destructor; for those *)
(* without one the code skips their destruction, which nobody could see.   *)
(* reserve() is left out: it does not compile when it is instantiated.     *)
(* The definitions commented "A bug:" are used by no specification here.   *)
(***************************************************************************)
EXTENDS Integers

CONSTANTS
  Blocks,      \* the blocks the allocator can hand out
  Values,
  NULL,        \* nullptr
  Raw,         \* memory without an object
  BlockCount,  \* block_count(), 2^BlockPower
  MinAccess,   \* min_access_size, 16 in the source
  Modulus,     \* 2^32, the range of the uint32 sizes
  MaxSize      \* a bound on the elements a client pushes

ASSUME BlockArrayAssumption ==
  /\ BlockCount \in Nat \ {0}
  /\ MinAccess \in Nat \ {0}
  /\ Modulus \in Nat
  /\ MaxSize \in Nat
  /\ MinAccess * BlockCount < Modulus
  /\ MaxSize < Modulus
  /\ NULL \notin Blocks
  /\ NULL \notin Nat
  /\ Raw \notin Values

VARIABLES
  access,       \* the table of blocks
  access_size,  \* how many entries the code believes it has
  access_at,    \* the entry being filled, NULL at the end of a block
  data_size,
  store,        \* the memory of each block
  live          \* the blocks that are allocated

vars == <<access, access_size, access_at, data_size, store, live>>

Slots == 0 .. BlockCount - 1
NoTable == [k \in {} |-> NULL]  \* access is nullptr
Free == Blocks \ live
Wrap(n) == n % Modulus

\* split_index
Block(i) == i \div BlockCount
Offset(i) == i % BlockCount

Init ==
  /\ access = NoTable
  /\ access_size = 0
  /\ access_at = NULL
  /\ data_size = 0
  /\ store = [b \in Blocks |-> [j \in Slots |-> Raw]]
  /\ live = {}

-----------------------------------------------------------------------------
(* update_access(i): the three ways to have a block at entry i *)

FirstTable(i) ==
  /\ access = NoTable
  /\ access_size' = MinAccess
  /\ \E b \in Free :
       /\ access' = [k \in 0 .. MinAccess - 1 |-> IF k = 0 THEN b ELSE NULL]
       /\ live' = live \cup {b}

\* A bug: the old table is copied one entry short.
GrowTableShortCopy(i) ==
  /\ access # NoTable /\ i >= access_size
  /\ access_size' = Wrap(2 * access_size)
  /\ \E b \in Free :
       /\ access' = [k \in 0 .. access_size' - 1 |->
                       IF k < i - 1 THEN access[k] ELSE IF k = i THEN b ELSE NULL]
       /\ live' = live \cup {b}

\* A bug: the size of the table is not doubled with the table.
GrowTableSameSize(i) ==
  /\ access # NoTable /\ i >= access_size
  /\ UNCHANGED access_size
  /\ \E b \in Free :
       /\ access' = [k \in 0 .. 2 * access_size - 1 |->
                       IF k < i THEN access[k] ELSE IF k = i THEN b ELSE NULL]
       /\ live' = live \cup {b}

GrowTable(i) ==
  /\ access # NoTable /\ i >= access_size
  /\ access_size' = Wrap(2 * access_size)
  /\ \E b \in Free :
       /\ access' = [k \in 0 .. access_size' - 1 |->
                       IF k < i THEN access[k] ELSE IF k = i THEN b ELSE NULL]
       /\ live' = live \cup {b}

NextBlock(i) ==
  /\ access # NoTable /\ i < access_size
  /\ UNCHANGED access_size
  /\ \/ /\ access[i] = NULL
        /\ \E b \in Free :
             /\ access' = [access EXCEPT ![i] = b]
             /\ live' = live \cup {b}
     \/ /\ access[i] # NULL
        /\ UNCHANGED <<access, live>>

UpdateAccess(i) == FirstTable(i) \/ GrowTable(i) \/ NextBlock(i)

\* The entry where push_next_address takes the next place.
Filling == IF access_at = NULL THEN Block(data_size) ELSE access_at

\* push_next_address: the element is counted before there is a place for it.
NextAddress ==
  /\ data_size < MaxSize
  /\ data_size' = Wrap(data_size + 1)
  /\ \/ /\ access_at = NULL
        /\ UpdateAccess(Block(data_size))
     \/ /\ access_at # NULL
        /\ UNCHANGED <<access, access_size, live>>
  /\ access_at' = IF Offset(data_size) = BlockCount - 1 THEN NULL ELSE Filling

\* push_back, emplace_back.
PushBack(v) ==
  /\ NextAddress
  /\ store' = [store EXCEPT ![access'[Filling]][Offset(data_size)] = v]

-----------------------------------------------------------------------------

\* A bug: the last element is left alone.
DestroyedButLast ==
  IF data_size = 0 THEN {}
  ELSE { p \in (0 .. Block(data_size - 1)) \X Slots :
           p[1] < Block(data_size - 1) \/ p[2] < Offset(data_size - 1) }

\* The places whose objects clear() destroys, by table entry and offset: all of
\* the blocks before that of the last element, and its block up to it.
Destroyed ==
  IF data_size = 0 THEN {}
  ELSE { p \in (0 .. Block(data_size - 1)) \X Slots :
           p[1] < Block(data_size - 1) \/ p[2] <= Offset(data_size - 1) }

DestroyAll ==
  store' = [b \in Blocks |-> [j \in Slots |->
              IF \E p \in Destroyed : access[p[1]] = b /\ p[2] = j
              THEN Raw ELSE store[b][j]]]

\* A bug: the entry that was being filled is still the one to fill.
ClearKeepsPlace ==
  /\ DestroyAll
  /\ data_size' = 0
  /\ UNCHANGED <<access, access_size, access_at, live>>

Clear ==
  /\ DestroyAll
  /\ access_at' = NULL
  /\ data_size' = 0
  /\ UNCHANGED <<access, access_size, live>>

\* A bug: only the blocks that hold elements are given back.
ReturnedUsed ==
  IF data_size = 0 THEN {} ELSE { access[i] : i \in 0 .. Block(data_size - 1) }

\* The blocks given back: those before the first null entry.
Returned ==
  { access[i] : i \in { k \in 0 .. access_size - 1 :
                           \A j \in 0 .. k : access[j] # NULL } }

\* reset(), and so the destructor.
Reset ==
  /\ DestroyAll
  /\ access_at' = NULL
  /\ data_size' = 0
  /\ live' = live \ Returned
  /\ access' = NoTable
  /\ access_size' = 0

Next == Clear \/ Reset \/ \E v \in Values : PushBack(v)

Spec == Init /\ [][Next]_vars

-----------------------------------------------------------------------------
(***************************************************************************)
(* A push that throws: when the allocator has no memory for the table or   *)
(* for the block, or the element's constructor throws.  The element has    *)
(* been counted by then, and the sizes of a new table set.                 *)
(***************************************************************************)

NoTableMemory(i) ==
  /\ access = NoTable \/ i >= access_size
  /\ access_size' = IF access = NoTable THEN MinAccess ELSE Wrap(2 * access_size)
  /\ UNCHANGED <<access, access_at>>

NoBlockMemory(i) ==
  \/ /\ access = NoTable
     /\ access_size' = MinAccess
     /\ access' = [k \in 0 .. MinAccess - 1 |-> NULL]
     /\ UNCHANGED access_at
  \/ /\ access # NoTable /\ i >= access_size
     /\ access_size' = Wrap(2 * access_size)
     /\ access' = [k \in 0 .. access_size' - 1 |-> IF k < i THEN access[k] ELSE NULL]
     /\ UNCHANGED access_at
  \/ /\ access # NoTable /\ i < access_size /\ access[i] = NULL
     /\ access_at' = i
     /\ UNCHANGED <<access, access_size>>

AllocatorThrows ==
  /\ data_size < MaxSize
  /\ data_size' = Wrap(data_size + 1)
  /\ access_at = NULL
  /\ NoTableMemory(Block(data_size)) \/ NoBlockMemory(Block(data_size))
  /\ UNCHANGED <<store, live>>

ConstructorThrows == NextAddress /\ UNCHANGED store

PushFails == AllocatorThrows \/ ConstructorThrows

FailingSpec == Init /\ [][Next \/ PushFails]_vars

=============================================================================
