-------------------------------- MODULE Factory --------------------------------
(***************************************************************************)
(* factory.hpp, Factory<T> for a T with a destructor: objects in a pool    *)
(* that only grows, and a list of all that was constructed, so that        *)
(* release() can destroy what the client did not.  A flag before each      *)
(* object says whether it is still to be destroyed.                        *)
(*                                                                         *)
(* m_pool is the standard library's monotonic resource: it hands out fresh *)
(* slots and takes none back before release().  obj_it is the number of    *)
(* the node it points at, 0 for before_begin().  For a T without a         *)
(* destructor the factory is its pool, with nothing to go wrong.           *)
(* The definitions commented "A bug:" are used by no specification here.   *)
(***************************************************************************)
EXTENDS Integers, Sequences

CONSTANTS
  Slots,      \* the places of the pool
  NodeSize,   \* entries in a node of the list, 512 in the source
  NULL,
  Raw,        \* memory outside of the pool
  MaxPushes   \* a bound on the objects constructed between two releases

ASSUME FactoryAssumption ==
  /\ NodeSize \in Nat \ {0}
  /\ MaxPushes \in Nat
  /\ NULL \notin Slots
  /\ Raw \notin BOOLEAN

VARIABLES
  pool,      \* slots taken from m_pool
  del,       \* the flag before each slot
  objects,   \* the list: nodes of slots
  obj_it,    \* the node being filled
  obj_i,     \* and the next entry in it
  obj_size,
  alive,     \* objects constructed and not yet destroyed
  raw        \* slots the client allocated without constructing in them

listVars == <<objects, obj_it, obj_i, obj_size>>
vars == <<pool, del, listVars, alive, raw>>

EmptyNode == [j \in 0 .. NodeSize - 1 |-> NULL]

Init ==
  /\ pool = {}
  /\ del = [p \in Slots |-> Raw]
  /\ objects = << >>
  /\ obj_it = 0
  /\ obj_i = NodeSize
  /\ obj_size = 0
  /\ alive = {}
  /\ raw = {}

-----------------------------------------------------------------------------
(* The list *)

\* A bug: a full node is filled again.
NodeFirst == IF obj_it = 0 THEN 1 ELSE obj_it

\* A bug: a node is full one entry late.
IndexOneLate == IF obj_i > NodeSize THEN 0 ELSE obj_i

\* Where push puts the next entry, and the nodes there are then.
Node == IF obj_i >= NodeSize THEN obj_it + 1 ELSE obj_it
Index == IF obj_i >= NodeSize THEN 0 ELSE obj_i
Nodes == IF Node > Len(objects) THEN Append(objects, EmptyNode) ELSE objects

Push(p) ==
  /\ objects' = [Nodes EXCEPT ![Node][Index] = p]
  /\ obj_it' = Node
  /\ obj_i' = Index + 1
  /\ obj_size' = obj_size + 1

Entry(k) == objects[k \div NodeSize + 1][k % NodeSize]

\* A bug: the last entry is not looked at.
ListedButLast == { Entry(k) : k \in 0 .. obj_size - 2 }

\* What release() goes through.
Listed == { Entry(k) : k \in 0 .. obj_size - 1 }

-----------------------------------------------------------------------------
(* The operations, by the slot p they work on *)

Fresh == Slots \ pool

\* construct_
Construct_(p) ==
  /\ obj_size < MaxPushes
  /\ del' = [del EXCEPT ![p] = TRUE]
  /\ alive' = alive \cup {p}
  /\ Push(p)

\* A bug: the flag stays.
DestructKeepsFlag(p) ==
  /\ alive' = alive \ {p}
  /\ UNCHANGED <<del, listVars>>

\* destruct_
Destruct_(p) ==
  /\ del' = [del EXCEPT ![p] = FALSE]
  /\ alive' = alive \ {p}
  /\ UNCHANGED listVars

Construct(p) ==
  /\ pool' = pool \cup {p}
  /\ Construct_(p)
  /\ UNCHANGED raw

\* The flag of a slot that was not constructed in is what the memory holds.
FlagOfMemory(p) == \E b \in BOOLEAN : del' = [del EXCEPT ![p] = b]

\* construct(), when the constructor of T throws: the slot is taken, and no more.
ConstructThrows(p) ==
  /\ pool' = pool \cup {p}
  /\ FlagOfMemory(p)
  /\ UNCHANGED <<listVars, alive, raw>>

Destruct(p) ==
  /\ Destruct_(p)
  /\ UNCHANGED <<pool, raw>>

Allocate(p) ==
  /\ pool' = pool \cup {p}
  /\ raw' = raw \cup {p}
  /\ FlagOfMemory(p)
  /\ UNCHANGED <<listVars, alive>>

Deallocate(p) ==
  /\ raw' = raw \ {p}
  /\ UNCHANGED <<pool, del, listVars, alive>>

\* release(), and so the destructor.  The nodes stay for the next objects.
Release ==
  /\ alive' = alive \ { p \in Listed : del[p] = TRUE }
  /\ del' = [p \in Slots |-> Raw]
  /\ pool' = {}
  /\ raw' = {}
  /\ obj_it' = 0
  /\ obj_i' = NodeSize
  /\ obj_size' = 0
  /\ UNCHANGED objects

Next ==
  \/ Release
  \/ \E p \in Fresh : Construct(p) \/ ConstructThrows(p) \/ Allocate(p)
  \/ \E p \in alive : Destruct(p)
  \/ \E p \in raw : Deallocate(p)

Spec == Init /\ [][Next]_vars

-----------------------------------------------------------------------------
(***************************************************************************)
(* There is no memory for a new node: the object has been constructed and  *)
(* flagged by then, and obj_i points at the start of the old node.  (With  *)
(* no node at all the next push writes before the list: that is left out.) *)
(***************************************************************************)

ConstructFails(p) ==
  /\ obj_i >= NodeSize
  /\ obj_it = Len(objects)
  /\ obj_it > 0
  /\ pool' = pool \cup {p}
  /\ del' = [del EXCEPT ![p] = TRUE]
  /\ alive' = alive \cup {p}
  /\ obj_i' = 0
  /\ UNCHANGED <<objects, obj_it, obj_size, raw>>

FailingSpec == Init /\ [][Next \/ \E p \in Fresh : ConstructFails(p)]_vars

=============================================================================
