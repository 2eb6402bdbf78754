------------------------------ MODULE SliceProofs ------------------------------
(***************************************************************************)
(* The two clients of a SliceFactory.                                      *)
(* The invariant of SliceFactoryClient holds for all blocks and levels,    *)
(* and with it what the run checks on a few, as long as clients give back  *)
(* one by one chunks of the levels up to MaxLevel only (Given); what the   *)
(* code does with the others is the finding of another run.                *)
(* The invariant of SliceArray holds for all arrays, values, blocks and    *)
(* levels, and the arrays are the sequences that ArrayStore promises.      *)
(* Both are proved of any factory f, arrays arr and set st of arrays that  *)
(* have to be forgotten, so that the two or three things that a call does  *)
(* to its factory can be taken one after the other.                        *)
(***************************************************************************)
EXTENDS SliceFactoryClient, SliceArrayProps, SliceFactoryFacts

(***************************************************************************)
(* Clients that hold chunks                                                *)
(***************************************************************************)

\* The chunks of a set that clients may hold, by the levels they were cut for.
Handed(h) == [l \in Levels |-> { c[1] : c \in { d \in h : Lift(d[2]) = l } }]

\* Nothing is handed out.
LEMMA HandedNone == Handed({}) = [l \in Levels |-> {}]
  BY DEF Handed

\* What is handed out at a level.
LEMMA HandedAt ==
  ASSUME NEW h \in SUBSET (Pointers \X Levels)
  PROVE  /\ DOMAIN Handed(h) = Levels
         /\ \A c \in h : c[1] \in Handed(h)[Lift(c[2])]
         /\ \A l \in Levels : \A p \in Handed(h)[l] : \E c \in h : c[1] = p /\ Lift(c[2]) = l
<1>1. DOMAIN Handed(h) = Levels
  BY DEF Handed
<1>2. ASSUME NEW c \in h PROVE c[1] \in Handed(h)[Lift(c[2])]
  <2>1. Lift(c[2]) \in Levels
    BY LiftFacts
  <2> QED BY <2>1 DEF Handed
<1>3. ASSUME NEW l \in Levels, NEW p \in Handed(h)[l] PROVE \E c \in h : c[1] = p /\ Lift(c[2]) = l
  BY DEF Handed
<1> QED BY <1>1, <1>2, <1>3

\* A client gets a chunk.
LEMMA HandedMore ==
  ASSUME NEW h \in SUBSET (Pointers \X Levels), NEW p \in Pointers, NEW l \in Levels
  PROVE  Handed(h \cup {<<p, l>>}) = With(Handed(h), Lift(l), p)
<1> DEFINE g == h \cup {<<p, l>>}
           At(x, k) == { c[1] : c \in { d \in x : Lift(d[2]) = k } }
<1>1. ASSUME NEW k \in Levels
      PROVE  At(g, k) = IF k = Lift(l) THEN At(h, k) \cup {p} ELSE At(h, k)
  <2>1. CASE k = Lift(l)
    <3>1. { d \in g : Lift(d[2]) = k } = { d \in h : Lift(d[2]) = k } \cup {<<p, l>>}
      BY <2>1
    <3>2. At(g, k) = At(h, k) \cup {<<p, l>>[1]}
      BY <3>1
    <3> QED BY <2>1, <3>2
  <2>2. CASE k # Lift(l)
    <3>1. { d \in g : Lift(d[2]) = k } = { d \in h : Lift(d[2]) = k }
      BY <2>2
    <3> QED BY <2>2, <3>1
  <2> QED BY <2>1, <2>2
<1>2. Handed(g) = [k \in Levels |-> At(g, k)] /\ Handed(h) = [k \in Levels |-> At(h, k)]
  BY DEF Handed
<1> HIDE DEF At, g
<1>3. Handed(g) = [k \in Levels |-> IF k = Lift(l) THEN At(h, k) \cup {p} ELSE At(h, k)]
  BY <1>1, <1>2
<1>4. With(Handed(h), Lift(l), p)
        = [k \in Levels |-> IF k = Lift(l) THEN At(h, k) \cup {p} ELSE At(h, k)]
  BY <1>2 DEF With
<1> QED BY <1>3, <1>4 DEF g

\* A client gives back a chunk that it holds once.
LEMMA HandedLess ==
  ASSUME NEW h \in SUBSET (Pointers \X Levels), NEW c \in h,
         \A d \in h : c[1] = d[1] => c = d
  PROVE  Handed(h \ {c}) = Without(Handed(h), Lift(c[2]), c[1])
<1> DEFINE g == h \ {c}
           At(x, k) == { e[1] : e \in { d \in x : Lift(d[2]) = k } }
<1>1. ASSUME NEW k \in Levels
      PROVE  At(g, k) = IF k = Lift(c[2]) THEN At(h, k) \ {c[1]} ELSE At(h, k)
  <2>1. CASE k = Lift(c[2])
    <3>1. \A q : q \in At(g, k) <=> \E d \in h : d # c /\ Lift(d[2]) = k /\ q = d[1]
      OBVIOUS
    <3>2. \A q : q \in At(h, k) <=> \E d \in h : Lift(d[2]) = k /\ q = d[1]
      OBVIOUS
    <3> HIDE DEF At
    <3>3. \A q : q \in At(g, k) <=> q \in At(h, k) /\ q # c[1]
      BY <3>1, <3>2
    <3> QED BY <2>1, <3>3
  <2>2. CASE k # Lift(c[2])
    <3>1. { d \in g : Lift(d[2]) = k } = { d \in h : Lift(d[2]) = k }
      BY <2>2
    <3> QED BY <2>2, <3>1
  <2> QED BY <2>1, <2>2
<1>2. Handed(g) = [k \in Levels |-> At(g, k)] /\ Handed(h) = [k \in Levels |-> At(h, k)]
  BY DEF Handed
<1> HIDE DEF At, g
<1>3. Handed(g) = [k \in Levels |-> IF k = Lift(c[2]) THEN At(h, k) \ {c[1]} ELSE At(h, k)]
  BY <1>1, <1>2
<1>4. Without(Handed(h), Lift(c[2]), c[1])
        = [k \in Levels |-> IF k = Lift(c[2]) THEN At(h, k) \ {c[1]} ELSE At(h, k)]
  BY <1>2 DEF Without
<1> QED BY <1>3, <1>4 DEF g

\* Inv, in the words of SliceFactoryFacts.
LEMMA InvFacts ==
  ASSUME Inv
  PROVE  /\ factory \in Factories(Words)
         /\ held \in SUBSET (Pointers \X Levels)
         /\ \A c, d \in held : c[1] = d[1] => c = d
         /\ dangling \in BOOLEAN
         /\ dangling => held = {}
         /\ ~ dangling => Sound(factory)
         /\ Shared(factory, Handed(held))
<1>1. [l \in Levels |-> HeldAt(l)] = Handed(held)
  BY DEF HeldAt, Handed
<1>2. Shared(factory, Handed(held))
  <2>1. ChunksIn(factory, Handed(held))
    BY <1>1 DEF Inv
  <2> HIDE DEF Handed
  <2> QED BY <2>1 DEF ChunksIn, Shared
<1> QED BY <1>2 DEF Inv

\* And back.
LEMMA InvFrom ==
  ASSUME factory \in Factories(Words), held \in SUBSET (Pointers \X Levels),
         \A c, d \in held : c[1] = d[1] => c = d,
         dangling \in BOOLEAN, dangling => held = {} /\ FreeLists(factory),
         ~ dangling => Sound(factory), Shared(factory, Handed(held))
  PROVE  Inv
<1>1. [l \in Levels |-> HeldAt(l)] = Handed(held)
  BY DEF HeldAt, Handed
<1>2. FreeLists(factory)
  BY DEF Sound
<1>3. ChunksIn(factory, Handed(held))
  BY <1>2, ChunksFrom
<1> QED BY <1>1, <1>3 DEF Inv

\* The same, of the next state.
LEMMA InvNext ==
  ASSUME factory' \in Factories(Words), held' \in SUBSET (Pointers \X Levels),
         \A c, d \in held' : c[1] = d[1] => c = d,
         dangling' \in BOOLEAN, dangling' => held' = {} /\ FreeLists(factory'),
         ~ dangling' => Sound(factory'), Shared(factory', Handed(held'))
  PROVE  Inv'
<1>1. [l \in Levels |-> HeldAt(l)'] = Handed(held')
  BY DEF HeldAt, Handed
<1>2. FreeLists(factory')
  BY DEF Sound
<1>3. ChunksIn(factory', Handed(held'))
  BY <1>2, ChunksFrom
<1> QED BY <1>1, <1>3 DEF Inv

\* The data of clients is among the words, with all pointers.
LEMMA WordsFacts == Data \in Words /\ Pointers \cup {NULL} \subseteq Words
  BY DEF Words

-----------------------------------------------------------------------------
(* The inductive invariant *)

\* The factory begins with nothing.
LEMMA InitInv == Init => Inv
<1> SUFFICES ASSUME Init PROVE Inv
  OBVIOUS
<1>1. factory = NewFactory /\ held = {} /\ dangling = FALSE
  BY DEF Init
<1>2. /\ factory \in Factories(Words) /\ Sound(factory)
      /\ Shared(factory, Handed(held))
  BY <1>1, NewFacts, HandedNone, WordsFacts
<1> QED BY <1>1, <1>2, InvFrom

\* A client gets a chunk, and fills it.
LEMMA AllocateInv ==
  ASSUME Inv, NEW l \in Levels, Allocate(l)
  PROVE  Inv'
<1> DEFINE ll == Lift(l)
           H == Handed(held)
<1>1. ll \in Levels /\ MinLevel <= ll
  BY LiftFacts
<1>2. PICK s \in Supply(factory, ll) :
        /\ factory' = Filled(Allocated(factory, ll, s).f, Allocated(factory, ll, s).p, l)
        /\ held' = held \cup {<<Allocated(factory, ll, s).p, l>>}
  BY DEF Allocate
<1> DEFINE a == Allocated(factory, ll, s)
           p == a.p
           b == [o \in Units |-> IF <<p[1], o>> \in Chunk(p, l) THEN Data ELSE a.f.body[p[1]][o]]
<1>3. ~ dangling /\ ~ dangling' /\ dangling' \in BOOLEAN
  BY InvFacts DEF Allocate
<1>4. /\ factory \in Factories(Words) /\ Sound(factory) /\ Shared(factory, H)
      /\ held \in SUBSET (Pointers \X Levels) /\ DOMAIN H = Levels
      /\ \A c, d \in held : c[1] = d[1] => c = d
  BY <1>3, InvFacts, HandedAt
<1> HIDE DEF H, ll
<1>5. /\ a.f \in Factories(Words) /\ Sound(a.f) /\ Shared(a.f, With(H, ll, p))
      /\ p \in Pointers /\ \A k \in Levels : p \notin H[k]
  BY <1>1, <1>2, <1>4, AllocatedFacts
<1>6. factory' = [a.f EXCEPT !.body[p[1]] = b]
  BY <1>2 DEF Filled
<1> HIDE DEF a, p
<1>7. Handed(held') = With(H, ll, p)
  BY <1>2, <1>4, <1>5, HandedMore DEF H, ll, p, a
<1>8. p \in With(H, ll, p)[ll]
  BY <1>1, <1>4 DEF With
<1>9. b \in [Units -> Words]
  <2>1. p[1] \in Slabs
    BY <1>5 DEF Pointers
  <2>2. a.f.body[p[1]] \in [Units -> Words]
    BY <1>5, <2>1 DEF Factories
  <2> QED BY <2>2, WordsFacts
<1>10. \A o \in Units : o \notin Span(p, ll) => b[o] = a.f.body[p[1]][o]
  BY DEF Chunk, Span, ll
<1> HIDE DEF b
<1>11. factory' \in Factories(Words) /\ Sound(factory') /\ Shared(factory', With(H, ll, p))
  BY <1>1, <1>5, <1>6, <1>8, <1>9, <1>10, FilledFacts
<1>12. /\ held' \in SUBSET (Pointers \X Levels)
       /\ \A c, d \in held' : c[1] = d[1] => c = d
  <2>1. held' = held \cup {<<p, l>>}
    BY <1>2 DEF p, a, ll
  <2>2. \A c \in held : c[1] # p
    <3>1. \A c \in held : c[1] \in H[Lift(c[2])] /\ Lift(c[2]) \in Levels
      BY <1>4, HandedAt, LiftFacts DEF H
    <3> QED BY <1>5, <3>1
  <2> QED BY <1>4, <1>5, <2>1, <2>2
<1> QED BY <1>3, <1>7, <1>11, <1>12, InvNext

\* A client gives back a chunk of a level up to MaxLevel.
LEMMA DeallocateInv ==
  ASSUME Given \subseteq 0 .. MaxLevel, Inv, NEW c \in held, Deallocate(c)
  PROVE  Inv'
<1> DEFINE l == Lift(c[2])
           p == c[1]
           H == Handed(held)
<1>1. ~ dangling /\ ~ dangling' /\ dangling' \in BOOLEAN
  BY InvFacts DEF Deallocate
<1>2. /\ factory \in Factories(Words) /\ Sound(factory) /\ Shared(factory, H)
      /\ held \in SUBSET (Pointers \X Levels) /\ DOMAIN H = Levels
      /\ \A d, e \in held : d[1] = e[1] => d = e
      /\ p \in H[l]
  BY <1>1, InvFacts, HandedAt
<1>3. l \in Regular
  <2>1. c[2] \in Levels /\ c[2] \in 0 .. MaxLevel
    BY <1>2 DEF Deallocate
  <2>2. c[2] <= MaxLevel
    BY <2>1
  <2> QED BY <2>1, <2>2, LiftFacts
<1>4. factory' = Deallocated(factory, p, l) /\ held' = held \ {c}
  BY DEF Deallocate
<1>5. Handed(held') = Without(H, l, p)
  BY <1>2, <1>4, HandedLess
<1> HIDE DEF l, p, H
<1>6. factory' \in Factories(Words) /\ Sound(factory') /\ Shared(factory', Without(H, l, p))
  BY <1>2, <1>3, <1>4, WordsFacts, DeallocatedFacts
<1>7. /\ held' \in SUBSET (Pointers \X Levels)
      /\ \A d, e \in held' : d[1] = e[1] => d = e
  BY <1>2, <1>4
<1> QED BY <1>1, <1>5, <1>6, <1>7, InvNext

\* reset() takes all chunks back.
LEMMA ResetInv ==
  ASSUME Inv, Reset
  PROVE  Inv' /\ Owned(factory') = Waiting(factory') /\ Owned(factory') \subseteq Owned(factory)
<1>1. /\ ~ dangling /\ ~ dangling' /\ dangling' \in BOOLEAN
      /\ factory' = ResetFactory(factory) /\ held' = {}
  BY InvFacts DEF Reset
<1>2. factory \in Factories(Words) /\ Sound(factory) /\ Shared(factory, Handed(held))
  BY <1>1, InvFacts
<1>3. /\ factory' \in Factories(Words) /\ Sound(factory')
      /\ Shared(factory', [l \in Levels |-> {}])
      /\ Owned(factory') = Waiting(factory') /\ Owned(factory') \subseteq Owned(factory)
  BY <1>1, <1>2, WordsFacts, ResetFacts
<1>4. Shared(factory', Handed(held'))
  BY <1>1, <1>3, HandedNone
<1> QED BY <1>1, <1>3, <1>4, InvNext

\* free() returns the blocks, and may leave slabReuse behind.
LEMMA FreeInv ==
  ASSUME Inv, Free
  PROVE  /\ Inv'
         /\ Owned(factory') = Waiting(factory) \ WaitingHeads(factory)
         /\ Owned(factory') \subseteq Owned(factory)
<1>1. /\ ~ dangling /\ dangling' = (factory.slabReuse # NULL)
      /\ factory' = FreeFactory(factory) /\ held' = {}
  BY DEF Free
<1>2. factory \in Factories(Words) /\ Sound(factory) /\ Shared(factory, Handed(held))
  BY <1>1, InvFacts
<1>3. /\ factory' \in Factories(Words) /\ FreeLists(factory')
      /\ Shared(factory', [l \in Levels |-> {}])
      /\ factory.slabReuse = NULL => Sound(factory')
      /\ Owned(factory') = Waiting(factory) \ WaitingHeads(factory)
      /\ Owned(factory') \subseteq Owned(factory)
  BY <1>1, <1>2, WordsFacts, FreeFacts
<1>4. Shared(factory', Handed(held'))
  BY <1>1, <1>3, HandedNone
<1>5. dangling' \in BOOLEAN /\ (~ dangling' => factory.slabReuse = NULL)
  BY <1>1
<1> QED BY <1>1, <1>3, <1>4, <1>5, InvNext

\* Every step keeps the invariant.
LEMMA NextInv ==
  ASSUME Given \subseteq 0 .. MaxLevel, Inv, [Next]_vars
  PROVE  Inv'
<1>1. ASSUME UNCHANGED vars PROVE Inv'
  <2>1. factory' = factory /\ held' = held /\ dangling' = dangling
    BY <1>1 DEF vars
  <2>2. /\ factory \in Factories(Words) /\ held \in SUBSET (Pointers \X Levels)
        /\ \A c, d \in held : c[1] = d[1] => c = d
        /\ dangling \in BOOLEAN /\ (dangling => held = {}) /\ (~ dangling => Sound(factory))
        /\ Shared(factory, Handed(held))
    BY InvFacts
  <2> QED BY <2>1 DEF Inv, HeldAt
<1>2. ASSUME NEW l \in Levels, Allocate(l) PROVE Inv'
  BY <1>2, AllocateInv
<1>3. ASSUME NEW l \in Levels, AllocateThrows(l) PROVE Inv'
  BY <1>1, <1>3 DEF AllocateThrows
<1>4. ASSUME NEW c \in held, Deallocate(c) PROVE Inv'
  BY <1>4, DeallocateInv
<1>5. ASSUME Reset PROVE Inv'
  BY <1>5, ResetInv
<1>6. ASSUME Free PROVE Inv'
  BY <1>6, FreeInv
<1> QED BY <1>1, <1>2, <1>3, <1>4, <1>5, <1>6 DEF Next

\* Inv holds in all states, for all levels and blocks: the lists of chunks given
\* back and the chains of blocks end, and share nothing but what they should.
THEOREM Invariance ==
  ASSUME Given \subseteq 0 .. MaxLevel
  PROVE  Spec => []Inv
<1>1. Init => Inv
  BY InitInv
<1>2. Inv /\ [Next]_vars => Inv'
  BY NextInv
<1> QED BY <1>1, <1>2, PTL DEF Spec

-----------------------------------------------------------------------------
(* What follows from it *)

\* The factory's lists, headers and links have their types.
THEOREM TypeCorrect ==
  ASSUME Given \subseteq 0 .. MaxLevel
  PROVE  Spec => []TypeOK
<1>1. Inv => TypeOK
  BY DEF Inv, TypeOK, Factories, Words
<1> QED BY <1>1, Invariance, PTL

\* No two chunks that clients hold share a slice, and each is in a block that is
\* there and large enough: what one client writes no other sees.
THEOREM ChunksApart ==
  ASSUME Given \subseteq 0 .. MaxLevel
  PROVE  Spec => []HeldDisjoint
<1>1. ASSUME Inv PROVE HeldDisjoint
  <2> DEFINE H == Handed(held)
  <2>1. CASE dangling
    BY <1>1, <2>1, InvFacts DEF HeldDisjoint
  <2>2. CASE ~ dangling
    <3>1. /\ factory \in Factories(Words) /\ BlocksIn(factory) /\ Shared(factory, H)
          /\ held \in SUBSET (Pointers \X Levels)
          /\ \A c, d \in held : c[1] = d[1] => c = d
      BY <1>1, <2>2, InvFacts DEF Sound
    <3>2. \A c \in held : /\ c[1] \in H[Lift(c[2])] /\ Lift(c[2]) \in Levels /\ c[1] \in Pointers
      BY <3>1, HandedAt, LiftFacts
    <3> HIDE DEF H
    <3>3. \A c \in held : Chunk(c[1], c[2]) = { <<c[1][1], o>> : o \in Span(c[1], Lift(c[2])) }
      BY DEF Chunk, Span
    <3>4. ASSUME NEW c \in held, NEW d \in held, c # d
          PROVE  Chunk(c[1], c[2]) \cap Chunk(d[1], d[2]) = {}
      <4>1. c[1] # d[1]
        BY <3>1, <3>4
      <4>2. \/ c[1][1] # d[1][1]
            \/ Span(c[1], Lift(c[2])) \cap Span(d[1], Lift(d[2])) = {}
        BY <3>1, <3>2, <4>1, HeldApart
      <4> QED BY <3>3, <4>2
    <3>5. ASSUME NEW c \in held
          PROVE  /\ c[1][1] \in Owned(factory)
                 /\ c[1][2] + SlicesOf[Lift(c[2])]
                      <= IF Lift(c[2]) <= MaxLevel THEN SlabUnits ELSE SlicesOf[Lift(c[2])]
      BY <3>1, <3>2, HeldFits
    <3> QED BY <3>4, <3>5 DEF HeldDisjoint
  <2> QED BY <2>1, <2>2
<1> QED BY <1>1, Invariance, PTL

\* No block is lost, returned twice or returned with another size.
THEOREM BlocksCorrect ==
  ASSUME Given \subseteq 0 .. MaxLevel
  PROVE  Spec => []BlocksAccounted
<1>1. Inv => BlocksAccounted
  BY DEF Inv, Sound, BlocksAccounted
<1> QED BY <1>1, Invariance, PTL

\* No chunk is handed out twice or lost.
THEOREM ChunksCorrect ==
  ASSUME Given \subseteq 0 .. MaxLevel
  PROVE  Spec => []ChunksAccounted
<1>1. Inv => ChunksAccounted
  BY DEF Inv, ChunksAccounted
<1> QED BY <1>1, Invariance, PTL

\* After reset() every block left waits to be used again.
THEOREM ResetReleases ==
  ASSUME Given \subseteq 0 .. MaxLevel
  PROVE  Spec => ReleasesAll
<1>1. Inv /\ [Next]_vars => [Reset => Owned(factory') = Waiting(factory')]_vars
  BY ResetInv
<1> QED BY <1>1, Invariance, PTL DEF Spec, ReleasesAll

\* The memory resource is asked for a block only when none of its size waits.
THEOREM BlocksReused ==
  ASSUME Given \subseteq 0 .. MaxLevel
  PROVE  Spec => ReusesBlocks
<1> DEFINE New == \A s \in Owned(factory') \ Owned(factory) :
                    factory'.size[s] = MaxLevel => Waiting(factory) = {}
<1>1. ASSUME Inv, Next PROVE New
  <2>1. ASSUME NEW l \in Levels, Allocate(l) PROVE New
    <3> DEFINE ll == Lift(l)
    <3>1. PICK s \in Supply(factory, ll) :
            factory' = Filled(Allocated(factory, ll, s).f, Allocated(factory, ll, s).p, l)
      BY <2>1 DEF Allocate
    <3> DEFINE a == Allocated(factory, ll, s)
               t == WithoutTaken(factory, ll, s)
    <3>2. ll \in Levels /\ factory \in Factories(Words)
      BY <1>1, InvFacts, LiftFacts
    <3> HIDE DEF ll
    <3>3. factory'.size = a.f.size
      BY <3>1 DEF Filled
    <3>4. a.f.size = factory.size \/ a.f.size = t.size
      BY <3>2, AllocatedFields
    <3>5. ASSUME NEW u \in Slabs, t.size[u] # NULL, factory.size[u] = NULL,
                 t.size[u] = MaxLevel
          PROVE  Waiting(factory) = {}
      <4>1. MustAsk(factory, ll) /\ t.size = [factory.size EXCEPT ![s] = BlockSize(ll)]
        BY <3>5 DEF WithoutTaken
      <4>2. u = s /\ BlockSize(ll) = MaxLevel
        BY <3>2, <3>5, <4>1 DEF Factories
      <4>3. ~ (ll > MaxLevel)
        <5>1. ll <= MaxLevel /\ ll \in Levels
          BY <3>2, <4>2, Constants DEF BlockSize
        <5> HIDE DEF ll
        <5> QED BY <5>1, Constants
      <4>4. factory.slabReuse = NULL
        BY <4>1, <4>3 DEF MustAsk
      <4> QED BY <3>2, <4>4, ListTypes
    <3> HIDE DEF a, t
    <3> QED BY <3>3, <3>4, <3>5 DEF Owned
  <2>2. ASSUME NEW l \in Levels, AllocateThrows(l) PROVE New
    BY <2>2 DEF AllocateThrows, vars
  <2>3. ASSUME NEW c \in held, Deallocate(c) PROVE New
    <3>1. factory'.size = factory.size
      BY <2>3 DEF Deallocate, Deallocated
    <3> QED BY <3>1 DEF Owned
  <2>4. ASSUME Reset PROVE New
    BY <1>1, <2>4, ResetInv
  <2>5. ASSUME Free PROVE New
    BY <1>1, <2>5, FreeInv
  <2> QED BY <1>1, <2>1, <2>2, <2>3, <2>4, <2>5 DEF Next
<1>2. Inv /\ [Next]_vars => [New]_vars
  BY <1>1
<1> QED BY <1>2, Invariance, PTL DEF Spec, ReusesBlocks

\* What free() leaves: of each chain that waits all blocks but the first.
THEOREM FreeLeavesRest ==
  ASSUME Given \subseteq 0 .. MaxLevel
  PROVE  Spec => FreeLeaves
<1>1. Inv /\ [Next]_vars
        => [Free => Owned(factory') = Waiting(factory) \ WaitingHeads(factory)]_vars
  BY FreeInv
<1> QED BY <1>1, Invariance, PTL DEF Spec, FreeLeaves

(***************************************************************************)
(* Arrays                                                                  *)
(***************************************************************************)

\* The arrays that have memory, as Holders.
Has(arr, st) == { a \in Arrays \ st : arr[a].level # Empty }

\* Their chunks, by level.
Out(arr, st) ==
  [l \in Levels |-> { arr[a].front : a \in { b \in Has(arr, st) : Lift(arr[b].level) = l } }]

\* What they hold, as Elements.
Items(f, arr, st) ==
  [a \in Arrays |-> IF a \in Has(arr, st)
                    THEN [i \in 1 .. arr[a].count |-> Element(f, arr[a], i - 1)]
                    ELSE << >>]

\* The same, but x for array a.
But(items, a, x) == [b \in Arrays |-> IF b = a THEN x ELSE items[b]]

\* What n elements may be, and the sequence of those that e gives.
Filling(n) == [0 .. n - 1 -> ArrayWords]

Sequence(n, e) == [i \in 1 .. n |-> e[i - 1]]

\* The arrays when a has n elements in a chunk of its own, at p.
Holding(arr, a, p, n) == [arr EXCEPT ![a] = [front |-> p, count |-> n, level |-> LevelOf(n)]]

\* The arrays when a has n elements where it had another number.
Recounted(arr, a, n) == [arr EXCEPT ![a].count = n]

Records == [front : Pointers \cup {NULL}, count : 0 .. MaxCount,
            level : (0 .. MaxLevel) \cup {Empty}]

\* The arrays' part of ArrayInv.
Typed(arr, st) ==
  /\ arr \in [Arrays -> Records]
  /\ st \subseteq Arrays
  /\ \A a \in Arrays : arr[a].level = Empty => arr[a].count = 0
  /\ \A a \in Has(arr, st) : arr[a].front \in Pointers /\ arr[a].count <= SlicesOf[arr[a].level]
  /\ \A a, b \in Has(arr, st) : a # b => arr[a].front # arr[b].front

\* ArrayInv, of any state.
Good(f, arr, st) ==
  /\ f \in Factories(ArrayWords) /\ Sound(f)
  /\ Typed(arr, st)
  /\ Shared(f, Out(arr, st))

\* Only the slices of chunk p of level l are written.
Elsewhere(f, g, p, l) ==
  \A s \in Slabs, o \in Units : s # p[1] \/ o \notin Span(p, l) => g.body[s][o] = f.body[s][o]

-----------------------------------------------------------------------------
(* Levels *)

\* The level for n elements has room for them.
LEMMA LevelFacts ==
  ASSUME NEW n \in 0 .. MaxCount
  PROVE  /\ LevelOf(n) \in Levels /\ LevelOf(n) \in 0 .. MaxLevel /\ LevelOf(n) # Empty
         /\ n <= SlicesOf[LevelOf(n)]
         /\ Lift(LevelOf(n)) \in Regular
<1> DEFINE S == { l \in Levels : n <= SlicesOf[l] }
<1>1. MaxLevel \in S
  <2>1. n <= MaxCount /\ MaxCount \in 0 .. SlicesOf[MaxLevel] /\ n \in Nat
    BY SliceArrayAssumption
  <2>2. MaxLevel \in Levels /\ SlicesOf[MaxLevel] \in Nat
    BY Constants, SlicesFacts
  <2> QED BY <2>1, <2>2
<1>2. S \in SUBSET Nat
  BY Constants
<1>3. Min(S) \in S /\ \A l \in S : Min(S) <= l
  <2>1. \E m \in S : \A l \in S : m <= l
    <3> HIDE DEF S
    <3> QED BY <1>1, <1>2, Least
  <2> QED BY <2>1 DEF Min
<1>4. LevelOf(n) \in S /\ LevelOf(n) <= MaxLevel
  BY <1>1, <1>3 DEF LevelOf
<1>5. LevelOf(n) \in Levels /\ LevelOf(n) \in Nat /\ MaxLevel \in Nat
  BY <1>2, <1>4, Constants
<1>6. LevelOf(n) \in 0 .. MaxLevel
  BY <1>4, <1>5
<1>7. LevelOf(n) # Empty
  BY <1>5, SliceArrayAssumption
<1> QED BY <1>4, <1>5, <1>6, <1>7, LiftFacts

\* A chunk that is kept has room.
LEMMA KeepsFacts ==
  ASSUME NEW arr, NEW st, Typed(arr, st), NEW a \in Arrays, NEW n \in 0 .. MaxCount,
         Keeps(arr[a], LevelOf(n))
  PROVE  arr[a].level # Empty /\ n <= SlicesOf[arr[a].level]
<1> DEFINE k == arr[a].level
           l == LevelOf(n)
<1>1. k # Empty /\ k - l \in 0 .. Tollerance
  BY DEF Keeps
<1>2. k \in 0 .. MaxLevel
  <2>1. arr[a] \in Records
    BY DEF Typed
  <2> QED BY <1>1, <2>1 DEF Records
<1>3. l \in Levels /\ n <= SlicesOf[l]
  BY LevelFacts
<1> HIDE DEF k, l
<1>4. k \in Levels /\ k \in Nat /\ l \in Nat
  BY <1>2, <1>3, Constants, SliceFactoryAssumption DEF Levels
<1>5. l <= k
  BY <1>1, <1>4, SliceArrayAssumption
<1>6. SlicesOf[l] <= SlicesOf[k] /\ SlicesOf[l] \in Nat /\ SlicesOf[k] \in Nat
  BY <1>3, <1>4, <1>5, SlicesFacts
<1>7. n \in Nat
  OBVIOUS
<1> QED BY <1>1, <1>3, <1>6, <1>7 DEF k

\* The chunk of an array that has memory, and its words.
LEMMA ChunkFacts ==
  ASSUME NEW arr, NEW st, Typed(arr, st), NEW a \in Has(arr, st)
  PROVE  /\ a \in Arrays /\ a \notin st
         /\ arr[a].level \in Levels /\ Lift(arr[a].level) \in Regular
         /\ Lift(arr[a].level) \in Levels
         /\ arr[a].front \in Out(arr, st)[Lift(arr[a].level)]
         /\ arr[a].count \in Nat /\ arr[a].count <= SlicesOf[Lift(arr[a].level)]
         /\ SlicesOf[arr[a].level] <= SlicesOf[Lift(arr[a].level)]
<1> DEFINE k == arr[a].level
           ll == Lift(k)
<1>1. a \in Arrays /\ a \notin st /\ k # Empty
  BY DEF Has
<1>2. k \in 0 .. MaxLevel /\ arr[a].count \in Nat
  <2>1. arr[a] \in Records
    BY <1>1 DEF Typed
  <2> QED BY <1>1, <2>1 DEF Records
<1>3. k \in Levels /\ k <= MaxLevel
  BY <1>2, SliceFactoryAssumption DEF Levels
<1>4. ll \in Regular /\ ll \in Levels /\ k <= ll
  BY <1>3, LiftFacts
<1>5. arr[a].front \in Out(arr, st)[ll]
  BY <1>4 DEF Out
<1>6. arr[a].count <= SlicesOf[k]
  BY DEF Typed
<1>7. SlicesOf[k] <= SlicesOf[ll] /\ SlicesOf[k] \in Nat /\ SlicesOf[ll] \in Nat
  BY <1>3, <1>4, SlicesFacts
<1> HIDE DEF k, ll
<1>8. arr[a].count <= SlicesOf[ll]
  BY <1>2, <1>6, <1>7
<1> QED BY <1>1, <1>2, <1>3, <1>4, <1>5, <1>7, <1>8 DEF k, ll

-----------------------------------------------------------------------------
(* What is handed out *)

\* An array that has no memory makes no difference.
LEMMA OutWithout ==
  ASSUME NEW arr, NEW st, Typed(arr, st), NEW a \in Arrays, a \notin Has(arr, st)
  PROVE  /\ Has(arr, st \cup {a}) = Has(arr, st) /\ Out(arr, st \cup {a}) = Out(arr, st)
         /\ Typed(arr, st \cup {a})
<1>1. Has(arr, st \cup {a}) = Has(arr, st)
  BY DEF Has
<1> QED BY <1>1 DEF Out, Typed

\* An array that has memory and is to be forgotten.
LEMMA OutLess ==
  ASSUME NEW arr, NEW st, Typed(arr, st), NEW a \in Has(arr, st)
  PROVE  /\ Has(arr, st \cup {a}) = Has(arr, st) \ {a}
         /\ Out(arr, st \cup {a}) = Without(Out(arr, st), Lift(arr[a].level), arr[a].front)
         /\ Typed(arr, st \cup {a})
<1> DEFINE S == Has(arr, st)
           At(x, l) == { arr[b].front : b \in { c \in x : Lift(arr[c].level) = l } }
           p == arr[a].front
           k == Lift(arr[a].level)
<1>1. Has(arr, st \cup {a}) = S \ {a}
  BY DEF Has
<1>2. \A b \in S : b # a => arr[b].front # p
  BY DEF Typed
<1>3. ASSUME NEW l \in Levels
      PROVE  At(S \ {a}, l) = IF l = k THEN At(S, l) \ {p} ELSE At(S, l)
  <2>1. \A q : q \in At(S \ {a}, l) <=> \E b \in S : b # a /\ Lift(arr[b].level) = l /\ q = arr[b].front
    OBVIOUS
  <2>2. \A q : q \in At(S, l) <=> \E b \in S : Lift(arr[b].level) = l /\ q = arr[b].front
    OBVIOUS
  <2> HIDE DEF At, S, p
  <2>3. CASE l = k
    <3>1. \A q : q \in At(S \ {a}, l) <=> q \in At(S, l) /\ q # p
      BY <1>2, <2>1, <2>2 DEF p
    <3> QED BY <2>3, <3>1
  <2>4. CASE l # k
    <3>1. \A q : q \in At(S \ {a}, l) <=> q \in At(S, l)
      BY <2>1, <2>2, <2>4
    <3> QED BY <2>4, <3>1
  <2> QED BY <2>3, <2>4
<1>4. /\ Out(arr, st \cup {a}) = [l \in Levels |-> At(S \ {a}, l)]
      /\ Out(arr, st) = [l \in Levels |-> At(S, l)]
  BY <1>1 DEF Out
<1>5. Out(arr, st \cup {a}) = Without(Out(arr, st), k, p)
  <2> HIDE DEF At, S, k, p
  <2>1. Out(arr, st \cup {a}) = [l \in Levels |-> IF l = k THEN At(S, l) \ {p} ELSE At(S, l)]
    BY <1>3, <1>4
  <2>2. Without(Out(arr, st), k, p) = [l \in Levels |-> IF l = k THEN At(S, l) \ {p} ELSE At(S, l)]
    BY <1>4 DEF Without
  <2> QED BY <2>1, <2>2
<1>6. Typed(arr, st \cup {a})
  <2>1. a \in Arrays
    BY DEF Has
  <2> QED BY <1>1, <2>1 DEF Typed
<1> QED BY <1>1, <1>5, <1>6

\* An array that is to be forgotten holds nothing.
LEMMA ItemsLess ==
  ASSUME NEW f, NEW arr, NEW st, NEW a \in Arrays
  PROVE  Items(f, arr, st \cup {a}) = But(Items(f, arr, st), a, << >>)
<1>1. Has(arr, st \cup {a}) = Has(arr, st) \ {a}
  BY DEF Has
<1> QED BY <1>1 DEF Items, But

\* An array gets a chunk.
LEMMA OutMore ==
  ASSUME NEW arr, NEW st, Typed(arr, st), NEW a \in st,
         NEW p \in Pointers, NEW n \in 0 .. MaxCount, NEW k \in 0 .. MaxLevel, k # Empty,
         n <= SlicesOf[k], \A l \in Levels : p \notin Out(arr, st)[l],
         NEW new, new = [arr EXCEPT ![a] = [front |-> p, count |-> n, level |-> k]]
  PROVE  /\ Has(new, st \ {a}) = Has(arr, st) \cup {a}
         /\ Out(new, st \ {a}) = With(Out(arr, st), Lift(k), p)
         /\ Typed(new, st \ {a})
<1> DEFINE S == Has(arr, st)
           At(x, r, l) == { r[b].front : b \in { c \in x : Lift(r[c].level) = l } }
<1>1. /\ a \in Arrays /\ a \notin S /\ S \subseteq Arrays
      /\ arr \in [Arrays -> Records] /\ st \subseteq Arrays
  BY DEF Has, Typed
<1>2. /\ new[a] = [front |-> p, count |-> n, level |-> k]
      /\ \A b \in Arrays : b # a => new[b] = arr[b]
      /\ new \in [Arrays -> Records]
  <2>1. [front |-> p, count |-> n, level |-> k] \in Records
    BY DEF Records
  <2> QED BY <1>1, <2>1
<1>3. new[a].front = p /\ new[a].count = n /\ new[a].level = k
  BY <1>2
<1>4. Has(new, st \ {a}) = S \cup {a}
  BY <1>1, <1>2, <1>3 DEF Has
<1>5. \A b \in S : arr[b].front # p
  <2> SUFFICES ASSUME NEW b \in S PROVE arr[b].front # p
    OBVIOUS
  <2>1. Lift(arr[b].level) \in Levels /\ arr[b].front \in Out(arr, st)[Lift(arr[b].level)]
    BY ChunkFacts
  <2> QED BY <2>1
<1>6. ASSUME NEW l \in Levels
      PROVE  At(S \cup {a}, new, l) = IF l = Lift(k) THEN At(S, arr, l) \cup {p} ELSE At(S, arr, l)
  <2>1. \A q : q \in At(S \cup {a}, new, l)
                <=> \E b \in S \cup {a} : Lift(new[b].level) = l /\ q = new[b].front
    OBVIOUS
  <2>2. \A q : q \in At(S, arr, l) <=> \E b \in S : Lift(arr[b].level) = l /\ q = arr[b].front
    OBVIOUS
  <2>3. \A b \in S : new[b] = arr[b]
    BY <1>1, <1>2
  <2> HIDE DEF At, S
  <2>4. \A q : q \in At(S \cup {a}, new, l) <=> q \in At(S, arr, l) \/ (Lift(k) = l /\ q = p)
    <3> SUFFICES ASSUME NEW q
                 PROVE  q \in At(S \cup {a}, new, l)
                          <=> q \in At(S, arr, l) \/ (Lift(k) = l /\ q = p)
      OBVIOUS
    <3>1. q \in At(S \cup {a}, new, l)
            <=> \/ \E b \in S : Lift(new[b].level) = l /\ q = new[b].front
                \/ Lift(new[a].level) = l /\ q = new[a].front
      BY <2>1
    <3>2. (\E b \in S : Lift(new[b].level) = l /\ q = new[b].front)
            <=> \E b \in S : Lift(arr[b].level) = l /\ q = arr[b].front
      BY <2>3
    <3> QED BY <1>3, <2>2, <3>1, <3>2
  <2> QED BY <2>4
<1>7. /\ Out(new, st \ {a}) = [l \in Levels |-> At(S \cup {a}, new, l)]
      /\ Out(arr, st) = [l \in Levels |-> At(S, arr, l)]
  BY <1>4 DEF Out
<1>8. Out(new, st \ {a}) = With(Out(arr, st), Lift(k), p)
  <2> HIDE DEF At, S
  <2>1. Out(new, st \ {a})
          = [l \in Levels |-> IF l = Lift(k) THEN At(S, arr, l) \cup {p} ELSE At(S, arr, l)]
    BY <1>6, <1>7
  <2>2. With(Out(arr, st), Lift(k), p)
          = [l \in Levels |-> IF l = Lift(k) THEN At(S, arr, l) \cup {p} ELSE At(S, arr, l)]
    BY <1>7 DEF With
  <2> QED BY <2>1, <2>2
<1>9. Typed(new, st \ {a})
  <2>1. \A b \in Arrays : new[b].level = Empty => new[b].count = 0
    BY <1>2, <1>3 DEF Typed
  <2>2. \A b \in S \cup {a} : new[b].front \in Pointers /\ new[b].count <= SlicesOf[new[b].level]
    BY <1>1, <1>2, <1>3 DEF Typed
  <2>3. \A b, c \in S \cup {a} : b # c => new[b].front # new[c].front
    BY <1>1, <1>2, <1>3, <1>5 DEF Typed
  <2> QED BY <1>1, <1>2, <1>4, <2>1, <2>2, <2>3 DEF Typed
<1> QED BY <1>4, <1>8, <1>9

-----------------------------------------------------------------------------
(* What is written *)

\* Writing in one chunk leaves the words of another as they are.
LEMMA OtherWords ==
  ASSUME NEW f \in Factories(ArrayWords), BlocksIn(f), NEW H, Shared(f, H),
         NEW k \in Levels, NEW p \in H[k], NEW l \in Regular, NEW q \in H[l], p # q,
         NEW g, Elsewhere(f, g, p, k), NEW i \in Nat, i < SlicesOf[l]
  PROVE  g.body[q[1]][q[2] + i] = f.body[q[1]][q[2] + i]
<1>1. l \in Levels /\ l <= MaxLevel
  BY Constants
<1>2. q \in Pointers /\ q[2] \in Nat /\ q[2] + SlicesOf[l] <= SlabUnits
  BY <1>1, HeldFits
<1>3. SlicesOf[l] \in Nat /\ SlabUnits \in Nat
  BY <1>1, SlicesFacts
<1>4. q[2] + i \in Nat /\ q[2] + i < SlabUnits /\ q[2] + i \in Span(q, l)
  BY <1>2, <1>3 DEF Span
<1>5. q[2] + i \in Units /\ q[1] \in Slabs
  BY <1>2, <1>4, UnitsFacts DEF Pointers
<1>6. p[1] # q[1] \/ Span(p, k) \cap Span(q, l) = {}
  BY <1>1, HeldApart
<1> QED BY <1>4, <1>5, <1>6 DEF Elsewhere

\* So the elements of an array stay, unless its chunk is the one.
LEMMA OtherItems ==
  ASSUME NEW arr, NEW st, Typed(arr, st),
         NEW f \in Factories(ArrayWords), BlocksIn(f), NEW H, Shared(f, H),
         \A l \in Levels : Out(arr, st)[l] \subseteq H[l],
         NEW k \in Levels, NEW p \in H[k],
         \A b \in Has(arr, st) : arr[b].front # p,
         NEW g, Elsewhere(f, g, p, k)
  PROVE  Items(g, arr, st) = Items(f, arr, st)
<1> SUFFICES ASSUME NEW a \in Has(arr, st), NEW i \in 1 .. arr[a].count
             PROVE  Element(g, arr[a], i - 1) = Element(f, arr[a], i - 1)
  BY DEF Items
<1> DEFINE q == arr[a].front
           l == Lift(arr[a].level)
<1>1. /\ l \in Regular /\ l \in Levels /\ q \in H[l] /\ q # p
      /\ arr[a].count \in Nat /\ arr[a].count <= SlicesOf[l]
  BY ChunkFacts
<1>2. SlicesOf[l] \in Nat
  BY <1>1, SlicesFacts
<1>3. i - 1 \in Nat /\ i - 1 < SlicesOf[l]
  <2> HIDE DEF l
  <2> QED BY <1>1, <1>2
<1> HIDE DEF q, l
<1>4. g.body[q[1]][q[2] + (i - 1)] = f.body[q[1]][q[2] + (i - 1)]
  BY <1>1, <1>3, OtherWords
<1> QED BY <1>4 DEF Element, q

\* Elements are written in a chunk that a client holds.
LEMMA WrittenFacts ==
  ASSUME NEW f \in Factories(ArrayWords), Sound(f), NEW H, Shared(f, H),
         NEW l \in Regular, NEW p \in H[l], NEW n \in Nat, n <= SlicesOf[l],
         NEW e \in Filling(n),
         NEW g, g = Written(f, p, n, e)
  PROVE  /\ g \in Factories(ArrayWords) /\ Sound(g) /\ Shared(g, H)
         /\ Elsewhere(f, g, p, l)
         /\ \A i \in 0 .. n - 1 : g.body[p[1]][p[2] + i] = e[i]
<1> DEFINE b == [o \in Units |-> IF o \in p[2] .. p[2] + n - 1 THEN e[o - p[2]] ELSE f.body[p[1]][o]]
<1>1. l \in Levels /\ l <= MaxLevel
  BY Constants
<1>2. p \in Pointers /\ p[2] \in Nat /\ p[2] + SlicesOf[l] <= SlabUnits
  BY <1>1, HeldFits DEF Sound
<1>3. SlicesOf[l] \in Nat /\ SlabUnits \in Nat
  BY <1>1, SlicesFacts
<1>4. p[1] \in Slabs /\ f.body[p[1]] \in [Units -> ArrayWords]
  BY <1>2 DEF Pointers, Factories
<1>5. Units \subseteq Nat
  BY UnitsFacts
<1>6. b \in [Units -> ArrayWords]
  <2> SUFFICES ASSUME NEW o \in Units PROVE b[o] \in ArrayWords
    OBVIOUS
  <2>1. CASE o \in p[2] .. p[2] + n - 1
    <3>1. o - p[2] \in 0 .. n - 1
      BY <1>2, <1>5, <2>1
    <3> QED BY <2>1, <3>1 DEF Filling
  <2>2. CASE o \notin p[2] .. p[2] + n - 1
    BY <1>4, <2>2
  <2> QED BY <2>1, <2>2
<1>7. \A o \in Units : o \notin Span(p, l) => b[o] = f.body[p[1]][o]
  <2> SUFFICES ASSUME NEW o \in Units, o \in p[2] .. p[2] + n - 1 PROVE o \in Span(p, l)
    OBVIOUS
  <2> QED BY <1>2, <1>3, <1>5 DEF Span
<1>8. \A i \in 0 .. n - 1 : b[p[2] + i] = e[i]
  <2> SUFFICES ASSUME NEW i \in 0 .. n - 1 PROVE b[p[2] + i] = e[i]
    OBVIOUS
  <2>1. p[2] + i \in Nat /\ p[2] + i < SlabUnits /\ p[2] + i \in p[2] .. p[2] + n - 1
    BY <1>2, <1>3
  <2>2. p[2] + i \in Units
    BY <2>1, UnitsFacts
  <2>3. (p[2] + i) - p[2] = i
    BY <1>2
  <2> QED BY <2>1, <2>2, <2>3
<1>9. g = [f EXCEPT !.body[p[1]] = b]
  BY DEF Written
<1> HIDE DEF b
<1>10. g \in Factories(ArrayWords) /\ Sound(g) /\ Shared(g, H)
  BY <1>1, <1>6, <1>7, <1>9, FilledFacts
<1>11. g.body[p[1]] = b /\ \A s \in Slabs : s # p[1] => g.body[s] = f.body[s]
  BY <1>4, <1>9 DEF Factories
<1>12. Elsewhere(f, g, p, l)
  BY <1>7, <1>11 DEF Elsewhere
<1> QED BY <1>8, <1>10, <1>11, <1>12

-----------------------------------------------------------------------------
(* What the calls are made of *)

\* dealloc_ of an array that has memory: in any factory in which its chunk is held.
LEMMA DroppedFacts ==
  ASSUME NEW f \in Factories(ArrayWords), Sound(f), NEW H, DOMAIN H = Levels, Shared(f, H),
         NEW arr, NEW st, Typed(arr, st), NEW a \in Has(arr, st),
         arr[a].front \in H[Lift(arr[a].level)],
         NEW g, g = WithoutChunk(f, arr[a])
  PROVE  /\ g \in Factories(ArrayWords) /\ Sound(g)
         /\ Shared(g, Without(H, Lift(arr[a].level), arr[a].front))
         /\ Elsewhere(f, g, arr[a].front, Lift(arr[a].level))
<1> DEFINE p == arr[a].front
           l == Lift(arr[a].level)
<1>1. l \in Regular /\ l \in Levels /\ arr[a].level # Empty /\ l <= MaxLevel
  <2>1. l \in Regular
    BY ChunkFacts
  <2> QED BY <2>1, Constants DEF Has
<1>2. g = Deallocated(f, p, l)
  BY <1>1 DEF WithoutChunk
<1> HIDE DEF p, l
<1>3. Pointers \cup {NULL} \subseteq ArrayWords
  BY DEF ArrayWords
<1>4. p \in H[l]
  BY DEF p, l
<1>5. g \in Factories(ArrayWords) /\ Sound(g) /\ Shared(g, Without(H, l, p))
  BY <1>1, <1>2, <1>3, <1>4, DeallocatedFacts
<1>6. p \in Pointers /\ p[2] \in Nat /\ SlicesOf[l] \in Nat /\ SlicesOf[l] > 0
  BY <1>1, <1>4, HeldFits, SlicesFacts DEF Sound
<1>7. p[2] \in Span(p, l) /\ p[1] \in Slabs /\ p[2] \in Units
  BY <1>6 DEF Span, Pointers
<1>8. g.body = [f.body EXCEPT ![p[1]][p[2]] = f.reuse[l]]
  BY <1>1, <1>2 DEF Deallocated
<1>9. Elsewhere(f, g, p, l)
  <2> SUFFICES ASSUME NEW s \in Slabs, NEW o \in Units, s # p[1] \/ o # p[2]
               PROVE  g.body[s][o] = f.body[s][o]
    BY <1>7 DEF Elsewhere
  <2>1. f.body \in [Slabs -> [Units -> ArrayWords]]
    BY DEF Factories
  <2> QED BY <1>7, <1>8, <2>1
<1> QED BY <1>5, <1>9 DEF p, l

\* An array gives back what it has, and is to be forgotten.
LEMMA GivenBack ==
  ASSUME NEW f, NEW arr, NEW st, Good(f, arr, st), NEW a \in Arrays, a \notin st,
         NEW g, g = WithoutChunk(f, arr[a])
  PROVE  /\ Good(g, arr, st \cup {a})
         /\ Items(g, arr, st \cup {a}) = But(Items(f, arr, st), a, << >>)
<1>1. f \in Factories(ArrayWords) /\ Sound(f) /\ Typed(arr, st) /\ Shared(f, Out(arr, st))
      /\ DOMAIN Out(arr, st) = Levels
  BY DEF Good, Out
<1>2. CASE a \in Has(arr, st)
  <2> DEFINE p == arr[a].front
             l == Lift(arr[a].level)
             H == Out(arr, st)
  <2>1. l \in Levels /\ p \in H[l]
    BY <1>1, <1>2, ChunkFacts
  <2>2. /\ g \in Factories(ArrayWords) /\ Sound(g) /\ Shared(g, Without(H, l, p))
        /\ Elsewhere(f, g, p, l)
    BY <1>1, <1>2, <2>1, DroppedFacts
  <2>3. /\ Has(arr, st \cup {a}) = Has(arr, st) \ {a}
        /\ Out(arr, st \cup {a}) = Without(H, l, p)
        /\ Typed(arr, st \cup {a})
    BY <1>1, <1>2, OutLess
  <2>4. \A b \in Has(arr, st \cup {a}) : arr[b].front # p
    BY <1>1, <1>2, <2>3 DEF Typed
  <2> HIDE DEF p, l, H
  <2>5. \A k \in Levels : Out(arr, st \cup {a})[k] \subseteq H[k]
    BY <1>1, <2>3 DEF Without, H
  <2>6. f \in Factories(ArrayWords) /\ BlocksIn(f) /\ Shared(f, H)
    BY <1>1 DEF Sound, H
  <2>7. Items(g, arr, st \cup {a}) = Items(f, arr, st \cup {a})
    BY <2>1, <2>2, <2>3, <2>4, <2>5, <2>6, OtherItems
  <2>8. Items(f, arr, st \cup {a}) = But(Items(f, arr, st), a, << >>)
    BY ItemsLess
  <2>9. Good(g, arr, st \cup {a})
    BY <2>2, <2>3 DEF Good
  <2> QED BY <2>7, <2>8, <2>9
<1>3. CASE a \notin Has(arr, st)
  <2>1. g = f
    BY <1>3 DEF WithoutChunk, Has
  <2>2. Good(f, arr, st \cup {a})
    BY <1>1, <1>3, OutWithout DEF Good
  <2> QED BY <2>1, <2>2, ItemsLess
<1> QED BY <1>2, <1>3

\* An array that has no memory takes a chunk that is held, and its elements are
\* written.
LEMMA Bound ==
  ASSUME NEW f \in Factories(ArrayWords), Sound(f), NEW arr, NEW st, Typed(arr, st),
         NEW a \in st, NEW p \in Pointers, NEW n \in 0 .. MaxCount,
         \A l \in Levels : p \notin Out(arr, st)[l],
         Shared(f, With(Out(arr, st), Lift(LevelOf(n)), p)),
         NEW e \in Filling(n),
         NEW g, g = Written(f, p, n, e),
         NEW new, new = Holding(arr, a, p, n)
  PROVE  /\ Good(g, new, st \ {a})
         /\ Items(g, new, st \ {a}) = But(Items(f, arr, st), a, Sequence(n, e))
<1> DEFINE k == LevelOf(n)
           ll == Lift(k)
           H == With(Out(arr, st), ll, p)
<1>1. /\ k \in Levels /\ k \in 0 .. MaxLevel /\ k # Empty /\ n <= SlicesOf[k]
      /\ ll \in Regular
  BY LevelFacts
<1>2. ll \in Levels /\ k <= ll /\ n \in Nat
  BY <1>1, Constants, LiftFacts
<1>3. n <= SlicesOf[ll]
  <2>1. SlicesOf[k] <= SlicesOf[ll] /\ SlicesOf[k] \in Nat /\ SlicesOf[ll] \in Nat
    BY <1>1, <1>2, SlicesFacts
  <2> HIDE DEF k, ll
  <2> QED BY <1>1, <1>2, <2>1
<1>4. p \in H[ll] /\ \A l \in Levels : Out(arr, st)[l] \subseteq H[l]
  BY <1>2 DEF With, Out
<1>5. /\ Has(new, st \ {a}) = Has(arr, st) \cup {a}
      /\ Out(new, st \ {a}) = H
      /\ Typed(new, st \ {a})
  <2>1. new = [arr EXCEPT ![a] = [front |-> p, count |-> n, level |-> k]]
    BY DEF Holding
  <2> HIDE DEF k
  <2>2. /\ Has(new, st \ {a}) = Has(arr, st) \cup {a}
        /\ Out(new, st \ {a}) = With(Out(arr, st), Lift(k), p)
        /\ Typed(new, st \ {a})
    BY <1>1, <2>1, OutMore
  <2> QED BY <2>2
<1>6. a \in Arrays /\ a \notin Has(arr, st) /\ arr \in [Arrays -> Records]
  BY DEF Typed, Has
<1>7. new[a].front = p /\ new[a].count = n /\ \A b \in Arrays : b # a => new[b] = arr[b]
  BY <1>6 DEF Holding
<1> HIDE DEF k, ll, H
<1>8. Shared(f, H)
  BY DEF H, ll, k
<1>9. /\ g \in Factories(ArrayWords) /\ Sound(g) /\ Shared(g, H)
      /\ Elsewhere(f, g, p, ll)
      /\ \A i \in 0 .. n - 1 : g.body[p[1]][p[2] + i] = e[i]
  BY <1>1, <1>2, <1>3, <1>4, <1>8, WrittenFacts
<1>10. Items(g, arr, st) = Items(f, arr, st)
  <2>1. \A b \in Has(arr, st) : arr[b].front # p
    BY ChunkFacts
  <2>2. BlocksIn(f)
    BY DEF Sound
  <2> QED BY <1>2, <1>4, <1>8, <1>9, <2>1, <2>2, OtherItems
<1>11. \A i \in 1 .. n : Element(g, new[a], i - 1) = e[i - 1]
  <2> SUFFICES ASSUME NEW i \in 1 .. n PROVE Element(g, new[a], i - 1) = e[i - 1]
    OBVIOUS
  <2>1. i - 1 \in 0 .. n - 1
    BY <1>2
  <2>2. g.body[p[1]][p[2] + (i - 1)] = e[i - 1]
    BY <1>9, <2>1
  <2> QED BY <1>7, <2>2 DEF Element
<1>12. Items(g, new, st \ {a}) = But(Items(g, arr, st), a, Sequence(n, e))
  <2> DEFINE N == Items(g, new, st \ {a})
             O == Items(g, arr, st)
  <2>1. N[a] = Sequence(n, e)
    BY <1>5, <1>6, <1>7, <1>11 DEF Items, Sequence
  <2>2. ASSUME NEW b \in Arrays, b # a PROVE N[b] = O[b]
    <3>1. new[b] = arr[b] /\ (b \in Has(new, st \ {a}) <=> b \in Has(arr, st))
      BY <1>5, <1>7, <2>2
    <3> DEFINE Of(x) == [i \in 1 .. x.count |-> Element(g, x, i - 1)]
    <3>2. /\ N[b] = IF b \in Has(new, st \ {a}) THEN Of(new[b]) ELSE << >>
          /\ O[b] = IF b \in Has(arr, st) THEN Of(arr[b]) ELSE << >>
      BY <2>2 DEF Items
    <3> HIDE DEF Of
    <3> QED BY <3>1, <3>2
  <2>3. N = [b \in Arrays |-> N[b]] /\ O = [b \in Arrays |-> O[b]]
    BY DEF Items
  <2> HIDE DEF N, O
  <2> QED BY <1>6, <2>1, <2>2, <2>3 DEF N, O, But
<1> QED BY <1>5, <1>9, <1>10, <1>12 DEF Good

\* The elements are read from the blocks.
LEMMA SameItems ==
  ASSUME NEW f, NEW g, g.body = f.body, NEW arr, NEW st
  PROVE  Items(g, arr, st) = Items(f, arr, st) /\ \A x, i : Element(g, x, i) = Element(f, x, i)
<1>1. \A x, i : Element(g, x, i) = Element(f, x, i)
  BY DEF Element
<1> QED BY <1>1 DEF Items

\* What allocating a chunk of n elements and writing e in it makes of f and arr.
Gets(f, arr, a, n, s, e, g, new) ==
  LET c == Allocated(f, Lift(LevelOf(n)), s)
  IN  g = Written(c.f, c.p, n, e) /\ new = Holding(arr, a, c.p, n)

\* An array that has no memory gets a new chunk.
LEMMA Got ==
  ASSUME NEW f, NEW arr, NEW st, Good(f, arr, st), NEW a \in st, NEW n \in 0 .. MaxCount,
         NEW s \in Supply(f, Lift(LevelOf(n))),
         NEW e \in Filling(n), NEW g, NEW new, Gets(f, arr, a, n, s, e, g, new)
  PROVE  /\ Good(g, new, st \ {a})
         /\ Items(g, new, st \ {a}) = But(Items(f, arr, st), a, Sequence(n, e))
<1> DEFINE l == Lift(LevelOf(n))
           c == Allocated(f, l, s)
           H == Out(arr, st)
           p == c.p
           h == c.f
<1>1. /\ f \in Factories(ArrayWords) /\ Sound(f) /\ Typed(arr, st) /\ Shared(f, H)
      /\ DOMAIN H = Levels
  BY DEF Good, Out
<1>2. l \in Levels /\ MinLevel <= l
  BY LevelFacts, LiftFacts
<1>3. s \in Supply(f, l)
  OBVIOUS
<1>4. g = Written(h, p, n, e) /\ new = Holding(arr, a, p, n)
  BY DEF Gets
<1> HIDE DEF H, l, p, h
<1>5. /\ h \in Factories(ArrayWords) /\ Sound(h) /\ Shared(h, With(H, l, p))
      /\ p \in Pointers /\ \A k \in Levels : p \notin H[k]
  BY <1>1, <1>2, <1>3, AllocatedFacts DEF h, p
<1>6. h.body = f.body
  BY <1>2, <1>3, AllocatedFields DEF h
<1>7. Items(h, arr, st) = Items(f, arr, st)
  BY <1>6, SameItems
<1>8. /\ Good(g, new, st \ {a})
      /\ Items(g, new, st \ {a}) = But(Items(h, arr, st), a, Sequence(n, e))
  <2>1. Shared(h, With(Out(arr, st), Lift(LevelOf(n)), p))
    BY <1>5 DEF H, l
  <2>2. \A k \in Levels : p \notin Out(arr, st)[k]
    BY <1>5 DEF H
  <2> QED BY <1>1, <1>4, <1>5, <2>1, <2>2, Bound
<1> QED BY <1>7, <1>8

\* An array keeps its chunk, and gets other elements.
LEMMA Rewritten ==
  ASSUME NEW f, NEW arr, NEW st, Good(f, arr, st), NEW a \in Has(arr, st),
         NEW n \in 0 .. MaxCount, n <= SlicesOf[arr[a].level],
         NEW e \in Filling(n),
         NEW g, g = Written(f, arr[a].front, n, e),
         NEW new, new = Recounted(arr, a, n)
  PROVE  /\ Good(g, new, st)
         /\ Items(g, new, st) = But(Items(f, arr, st), a, Sequence(n, e))
<1> DEFINE H == Out(arr, st)
           p == arr[a].front
           l == Lift(arr[a].level)
<1>1. /\ f \in Factories(ArrayWords) /\ Sound(f) /\ BlocksIn(f) /\ Typed(arr, st) /\ Shared(f, H)
      /\ arr \in [Arrays -> Records]
  BY DEF Good, Sound, Typed
<1>2. /\ a \in Arrays /\ a \notin st /\ l \in Regular /\ l \in Levels /\ p \in H[l]
      /\ arr[a].level \in Levels /\ SlicesOf[arr[a].level] <= SlicesOf[l]
  BY <1>1, ChunkFacts
<1>3. n \in Nat /\ n <= SlicesOf[l]
  <2>1. SlicesOf[arr[a].level] \in Nat /\ SlicesOf[l] \in Nat
    BY <1>2, SlicesFacts
  <2> HIDE DEF l
  <2> QED BY <1>2, <2>1, SliceArrayAssumption
<1>4. /\ new \in [Arrays -> Records] /\ \A b \in Arrays : b # a => new[b] = arr[b]
      /\ new[a].count = n /\ new[a].front = p /\ new[a].level = arr[a].level
  BY <1>1, <1>2 DEF Records, Recounted
<1>5. \A b \in Arrays : new[b].front = arr[b].front /\ new[b].level = arr[b].level
  BY <1>4
<1>6. Has(new, st) = Has(arr, st)
  BY <1>5 DEF Has
<1>7. Out(new, st) = H
  <2> DEFINE At(r, k) == { r[b].front : b \in { d \in Has(arr, st) : Lift(r[d].level) = k } }
  <2>1. \A b \in Has(arr, st) : b \in Arrays
    BY DEF Has
  <2>2. ASSUME NEW k \in Levels PROVE At(new, k) = At(arr, k)
    BY <1>5, <2>1
  <2>3. Out(new, st) = [k \in Levels |-> At(new, k)] /\ H = [k \in Levels |-> At(arr, k)]
    BY <1>6 DEF Out
  <2> HIDE DEF At, H
  <2> QED BY <2>2, <2>3
<1>8. Typed(new, st)
  <2>1. \A b \in Has(arr, st) : b \in Arrays /\ arr[b].level # Empty
    BY DEF Has
  <2>2. \A b \in Has(arr, st) : new[b].front \in Pointers /\ new[b].count <= SlicesOf[new[b].level]
    BY <1>1, <1>4, <2>1 DEF Typed
  <2>3. \A b \in Arrays : new[b].level = Empty => new[b].count = 0
    BY <1>1, <1>4, <2>1 DEF Typed
  <2>4. \A b, d \in Has(arr, st) : b # d => new[b].front # new[d].front
    BY <1>1, <1>5, <2>1 DEF Typed
  <2> QED BY <1>1, <1>4, <1>6, <2>2, <2>3, <2>4 DEF Typed
<1> HIDE DEF H, l
<1>9. /\ g \in Factories(ArrayWords) /\ Sound(g) /\ Shared(g, H)
      /\ Elsewhere(f, g, p, l)
      /\ \A i \in 0 .. n - 1 : g.body[p[1]][p[2] + i] = e[i]
  BY <1>1, <1>2, <1>3, WrittenFacts
<1>10. Items(g, arr, st \cup {a}) = Items(f, arr, st \cup {a})
  <2>1. /\ Has(arr, st \cup {a}) = Has(arr, st) \ {a}
        /\ Out(arr, st \cup {a}) = Without(H, l, p)
        /\ Typed(arr, st \cup {a})
    BY <1>1, OutLess DEF H, l
  <2>2. \A b \in Has(arr, st \cup {a}) : arr[b].front # p
    BY <1>1, <2>1 DEF Typed
  <2>3. \A k \in Levels : Out(arr, st \cup {a})[k] \subseteq H[k]
    BY <2>1 DEF Without, H, Out
  <2> DEFINE st1 == st \cup {a}
  <2> HIDE DEF p, st1
  <2>4. f \in Factories(ArrayWords) /\ BlocksIn(f) /\ Shared(f, H) /\ p \in H[l] /\ l \in Levels
        /\ Elsewhere(f, g, p, l)
    BY <1>1, <1>2, <1>9
  <2>5. /\ Typed(arr, st1) /\ \A b \in Has(arr, st1) : arr[b].front # p
        /\ \A k \in Levels : Out(arr, st1)[k] \subseteq H[k]
    BY <2>1, <2>2, <2>3 DEF st1
  <2>6. Items(g, arr, st1) = Items(f, arr, st1)
    BY <2>4, <2>5, OtherItems
  <2> QED BY <2>6 DEF st1
<1>11. \A i \in 1 .. n : Element(g, new[a], i - 1) = e[i - 1]
  <2> SUFFICES ASSUME NEW i \in 1 .. n PROVE Element(g, new[a], i - 1) = e[i - 1]
    OBVIOUS
  <2>1. i - 1 \in 0 .. n - 1
    BY <1>3
  <2>2. g.body[p[1]][p[2] + (i - 1)] = e[i - 1]
    BY <1>9, <2>1
  <2> QED BY <1>4, <2>2 DEF Element
<1>12. Items(g, new, st) = But(Items(f, arr, st), a, Sequence(n, e))
  <2> DEFINE N == Items(g, new, st)
             O == Items(f, arr, st)
             G == Items(g, arr, st \cup {a})
             F == Items(f, arr, st \cup {a})
  <2>1. N[a] = Sequence(n, e)
    BY <1>2, <1>4, <1>6, <1>11 DEF Items, Sequence
  <2>2. ASSUME NEW b \in Arrays, b # a PROVE N[b] = O[b]
    <3> DEFINE Of(h, x) == [i \in 1 .. x.count |-> Element(h, x, i - 1)]
    <3>1. b \in Has(arr, st \cup {a}) <=> b \in Has(arr, st)
      BY <2>2 DEF Has
    <3>2. /\ N[b] = IF b \in Has(new, st) THEN Of(g, new[b]) ELSE << >>
          /\ O[b] = IF b \in Has(arr, st) THEN Of(f, arr[b]) ELSE << >>
          /\ G[b] = IF b \in Has(arr, st \cup {a}) THEN Of(g, arr[b]) ELSE << >>
          /\ F[b] = IF b \in Has(arr, st \cup {a}) THEN Of(f, arr[b]) ELSE << >>
      BY <2>2 DEF Items
    <3>3. new[b] = arr[b]
      BY <1>4, <2>2
    <3> HIDE DEF Of, N, O, G, F
    <3>4. G[b] = F[b]
      BY <1>10 DEF G, F
    <3> QED BY <1>6, <3>1, <3>2, <3>3, <3>4
  <2>3. N = [b \in Arrays |-> N[b]] /\ O = [b \in Arrays |-> O[b]]
    BY DEF Items
  <2> HIDE DEF N, O
  <2> QED BY <1>2, <2>1, <2>2, <2>3 DEF N, O, But
<1> QED BY <1>1, <1>7, <1>8, <1>9, <1>12 DEF Good

\* The same, where what a had is given back in between.
Changes(f, arr, a, n, s, e, g, new) ==
  LET c == Allocated(f, Lift(LevelOf(n)), s)
  IN  g = Written(WithoutChunk(c.f, arr[a]), c.p, n, e) /\ new = Holding(arr, a, c.p, n)

\* An array gets a new chunk before the old one goes back.
LEMMA Moved ==
  ASSUME NEW f, NEW arr, NEW st, Good(f, arr, st), NEW a \in Arrays, a \notin st,
         NEW n \in 0 .. MaxCount,
         NEW s \in Supply(f, Lift(LevelOf(n))),
         NEW e \in Filling(n), NEW g, NEW new, Changes(f, arr, a, n, s, e, g, new)
  PROVE  /\ Good(g, new, st)
         /\ Items(g, new, st) = But(Items(f, arr, st), a, Sequence(n, e))
<1> DEFINE l == Lift(LevelOf(n))
           c == Allocated(f, l, s)
           H == Out(arr, st)
           p == c.p
           h == c.f
           st1 == st \cup {a}
           w == Sequence(n, e)
<1>1. /\ f \in Factories(ArrayWords) /\ Sound(f) /\ Typed(arr, st) /\ Shared(f, H)
      /\ DOMAIN H = Levels
  BY DEF Good, Out
<1>2. a \in st1 /\ st1 \ {a} = st
  OBVIOUS
<1>3. But(But(Items(f, arr, st), a, << >>), a, w) = But(Items(f, arr, st), a, w)
  BY DEF But
<1>4. Items(f, arr, st1) = But(Items(f, arr, st), a, << >>)
  BY ItemsLess
<1>5. CASE a \notin Has(arr, st)
  <2>1. WithoutChunk(h, arr[a]) = h
    BY <1>5 DEF WithoutChunk, Has
  <2>2. Good(f, arr, st1)
    BY <1>1, <1>5, OutWithout DEF Good
  <2>3. g = Written(c.f, c.p, n, e) /\ new = Holding(arr, a, c.p, n)
    BY <2>1 DEF Changes
  <2> HIDE DEF st1, w
  <2>4. /\ Good(g, new, st1 \ {a})
        /\ Items(g, new, st1 \ {a}) = But(Items(f, arr, st1), a, Sequence(n, e))
    <3>1. a \in st1 /\ Good(f, arr, st1)
      BY <1>2, <2>2
    <3>2. Gets(f, arr, a, n, s, e, g, new)
      BY <2>3 DEF Gets
    <3> HIDE DEF H, p, h, l
    <3> QED BY <3>1, <3>2, Got
  <2> QED BY <1>2, <1>3, <1>4, <2>4 DEF w
<1>6. CASE a \in Has(arr, st)
  <2> DEFINE q == arr[a].front
             k == Lift(arr[a].level)
             g0 == WithoutChunk(h, arr[a])
             H1 == With(H, l, p)
  <2>1. l \in Levels /\ MinLevel <= l /\ s \in Supply(f, l)
    BY LevelFacts, LiftFacts
  <2>2. g = Written(g0, p, n, e)
        /\ new = Holding(arr, a, p, n)
    BY DEF Changes
  <2>3. k \in Levels /\ q \in H[k]
    BY <1>1, <1>6, ChunkFacts
  <2>4. /\ Has(arr, st1) = Has(arr, st) \ {a}
        /\ Out(arr, st1) = Without(H, k, q)
        /\ Typed(arr, st1)
    BY <1>1, <1>6, OutLess
  <2>5. \A b \in Has(arr, st1) : arr[b].front # q
    BY <1>1, <1>6, <2>4 DEF Typed
  <2> HIDE DEF H, l, p, h, st1, w
  <2>6. /\ h \in Factories(ArrayWords) /\ Sound(h) /\ Shared(h, H1)
        /\ p \in Pointers /\ \A j \in Levels : p \notin H[j]
    BY <1>1, <2>1, AllocatedFacts DEF h, p
  <2>7. h.body = f.body
    BY <2>1, AllocatedFields DEF h
  <2>8. DOMAIN H1 = Levels /\ q \in H1[k] /\ \A j \in Levels : H[j] \subseteq H1[j]
    BY <1>1, <2>3 DEF With
  <2>9. /\ g0 \in Factories(ArrayWords) /\ Sound(g0)
        /\ Shared(g0, Without(H1, k, q))
        /\ Elsewhere(h, g0, q, k)
    <3> HIDE DEF H1
    <3> QED BY <1>1, <1>6, <2>6, <2>8, DroppedFacts
  <2>10. Without(H1, k, q) = With(Out(arr, st1), l, p)
    <3>1. p # q
      BY <2>3, <2>6
    <3>2. H = [j \in Levels |-> H[j]]
      BY DEF H, Out
    <3> HIDE DEF q, k
    <3>3. H1 = [j \in Levels |-> IF j = l THEN H[j] \cup {p} ELSE H[j]]
      BY <3>2 DEF With
    <3>4. Out(arr, st1) = [j \in Levels |-> IF j = k THEN H[j] \ {q} ELSE H[j]]
      BY <2>4, <3>2 DEF Without
    <3> HIDE DEF H1
    <3>5. Without(H1, k, q)
            = [j \in Levels |-> IF j = k THEN (IF j = l THEN H[j] \cup {p} ELSE H[j]) \ {q}
                                ELSE IF j = l THEN H[j] \cup {p} ELSE H[j]]
      BY <3>3 DEF Without
    <3>6. With(Out(arr, st1), l, p)
            = [j \in Levels |-> IF j = l THEN (IF j = k THEN H[j] \ {q} ELSE H[j]) \cup {p}
                                ELSE IF j = k THEN H[j] \ {q} ELSE H[j]]
      BY <3>4 DEF With
    <3> QED BY <3>1, <3>5, <3>6
  <2>11. \A j \in Levels : Out(arr, st1)[j] \subseteq H1[j] /\ p \notin Out(arr, st1)[j]
    BY <1>1, <2>4, <2>6, <2>8 DEF Without
  <2>12. Items(g0, arr, st1) = Items(h, arr, st1)
    <3>1. BlocksIn(h)
      BY <2>6 DEF Sound
    <3> HIDE DEF H1, g0, q, k
    <3> QED BY <2>3, <2>4, <2>5, <2>6, <2>8, <2>9, <2>11, <3>1, OtherItems
  <2>13. Items(h, arr, st1) = Items(f, arr, st1)
    BY <2>7, SameItems
  <2>14. Shared(g0, With(Out(arr, st1), Lift(LevelOf(n)), p))
    BY <2>9, <2>10 DEF l
  <2> HIDE DEF g0, H1
  <2>15. /\ Good(g, new, st1 \ {a})
         /\ Items(g, new, st1 \ {a}) = But(Items(g0, arr, st1), a, Sequence(n, e))
    <3>1. a \in st1 /\ Typed(arr, st1) /\ g0 \in Factories(ArrayWords) /\ Sound(g0) /\ p \in Pointers
          /\ (\A j \in Levels : p \notin Out(arr, st1)[j])
          /\ g = Written(g0, p, n, e) /\ new = Holding(arr, a, p, n)
      BY <1>2, <2>2, <2>4, <2>6, <2>9, <2>11
    <3> QED BY <2>14, <3>1, Bound
  <2> QED BY <1>2, <1>3, <1>4, <2>12, <2>13, <2>15 DEF w
<1> QED BY <1>5, <1>6

\* The elements of an array are words.
LEMMA ElementFacts ==
  ASSUME NEW f, NEW arr, NEW st, Good(f, arr, st), NEW a \in Has(arr, st),
         NEW i \in Nat, i < arr[a].count
  PROVE  Element(f, arr[a], i) \in ArrayWords
<1> DEFINE q == arr[a].front
           l == Lift(arr[a].level)
           H == Out(arr, st)
<1>1. /\ f \in Factories(ArrayWords) /\ BlocksIn(f) /\ Shared(f, H) /\ Typed(arr, st)
  BY DEF Good, Sound
<1>2. /\ l \in Levels /\ l \in Regular /\ q \in H[l]
      /\ arr[a].count \in Nat /\ arr[a].count <= SlicesOf[l]
  BY <1>1, ChunkFacts
<1>3. l <= MaxLevel
  BY <1>2, Constants
<1> HIDE DEF H, q, l
<1>4. q \in Pointers /\ q[2] \in Nat /\ q[2] + SlicesOf[l] <= SlabUnits
  BY <1>1, <1>2, <1>3, HeldFits
<1>5. SlicesOf[l] \in Nat /\ SlabUnits \in Nat
  BY <1>2, SlicesFacts
<1>6. q[2] + i \in Nat /\ q[2] + i < SlabUnits
  BY <1>2, <1>4, <1>5
<1>7. q[2] + i \in Units /\ q[1] \in Slabs
  BY <1>4, <1>6, UnitsFacts DEF Pointers
<1>8. f.body[q[1]][q[2] + i] \in ArrayWords
  BY <1>1, <1>7 DEF Factories
<1> QED BY <1>8 DEF Element, q

\* What resize() keeps of x's elements, and fills up with v.
Kept(f, x, n, v) == [i \in 0 .. n - 1 |-> IF i < x.count THEN Element(f, x, i) ELSE v]

\* A sequence cut off, or filled up with v.
Fitted(s, n, v) == [i \in 1 .. n |-> IF i <= Len(s) THEN s[i] ELSE v]

LEMMA KeptFacts ==
  ASSUME NEW f, NEW arr, NEW st, Good(f, arr, st), NEW a \in Arrays, a \notin st,
         NEW n \in 0 .. MaxCount, NEW v \in Values
  PROVE  /\ Kept(f, arr[a], n, v) \in Filling(n)
         /\ Sequence(n, Kept(f, arr[a], n, v)) = Fitted(Items(f, arr, st)[a], n, v)
<1> DEFINE m == arr[a].count
           e == Kept(f, arr[a], n, v)
           w == Items(f, arr, st)[a]
<1>1. Typed(arr, st) /\ n \in Nat
  BY SliceArrayAssumption DEF Good
<1>2. m \in Nat
  <2>1. arr[a] \in Records
    BY <1>1 DEF Typed
  <2> QED BY <2>1 DEF Records
<1>3. a \in Has(arr, st) \/ m = 0
  BY <1>1 DEF Has, Typed
<1>4. \A i \in Nat : i < m => Element(f, arr[a], i) \in ArrayWords
  <2>1. ASSUME NEW i \in Nat, i < m, a \in Has(arr, st) PROVE Element(f, arr[a], i) \in ArrayWords
    BY <2>1, ElementFacts
  <2> QED BY <1>2, <1>3, <2>1
<1>5. v \in ArrayWords
  BY DEF ArrayWords
<1>6. e \in Filling(n)
  <2>1. 0 .. n - 1 \subseteq Nat
    OBVIOUS
  <2> QED BY <1>4, <1>5, <2>1 DEF Kept, Filling
<1>7. /\ w = IF a \in Has(arr, st) THEN [i \in 1 .. m |-> Element(f, arr[a], i - 1)] ELSE << >>
  BY DEF Items
<1>8. Len(w) = m /\ \A i \in 1 .. m : w[i] = Element(f, arr[a], i - 1)
  <2>1. CASE a \in Has(arr, st)
    <3>1. w = [i \in 1 .. m |-> Element(f, arr[a], i - 1)]
      BY <1>7, <2>1
    <3> HIDE DEF w, m
    <3> QED BY <1>2, <3>1
  <2>2. CASE a \notin Has(arr, st)
    BY <1>3, <1>7, <2>2
  <2> QED BY <2>1, <2>2
<1> HIDE DEF w, m
<1>9. \A i \in 1 .. n : e[i - 1] = IF i <= Len(w) THEN w[i] ELSE v
  <2> SUFFICES ASSUME NEW i \in 1 .. n
               PROVE  e[i - 1] = IF i <= Len(w) THEN w[i] ELSE v
    OBVIOUS
  <2>1. i - 1 \in 0 .. n - 1 /\ (i - 1 < m <=> i <= m) /\ (i <= m => i \in 1 .. m)
    BY <1>1, <1>2
  <2>2. e[i - 1] = IF i - 1 < m THEN Element(f, arr[a], i - 1) ELSE v
    BY <2>1 DEF Kept, m
  <2> HIDE DEF e
  <2> QED BY <1>8, <2>1, <2>2
<1> HIDE DEF e
<1>10. Sequence(n, e) = Fitted(w, n, v)
  BY <1>9 DEF Sequence, Fitted
<1> QED BY <1>6, <1>10 DEF e, w

-----------------------------------------------------------------------------
(* The invariant *)

\* ArrayInv is Good of the state.
LEMMA ArrayInvIs == ArrayInv <=> Good(factory, array, stale)
<1>1. Holders = Has(array, stale)
  BY DEF Holders, Has
<1>2. Out(array, stale) = [l \in Levels |->
        { array[a].front : a \in { b \in Holders : Lift(array[b].level) = l } }]
  BY <1>1 DEF Out
<1>3. ChunksOfArrays <=> /\ \A a, b \in Holders : a # b => array[a].front # array[b].front
                        /\ ChunksIn(factory, Out(array, stale))
  BY <1>2 DEF ChunksOfArrays
<1>4. factory \in Factories(ArrayWords) /\ Sound(factory)
        => (ChunksIn(factory, Out(array, stale)) <=> Shared(factory, Out(array, stale)))
  <2>1. ASSUME factory \in Factories(ArrayWords), Sound(factory), Shared(factory, Out(array, stale))
        PROVE  ChunksIn(factory, Out(array, stale))
    <3>1. FreeLists(factory)
      BY <2>1 DEF Sound
    <3> QED BY <2>1, <3>1, ChunksFrom
  <2>2. ChunksIn(factory, Out(array, stale)) => Shared(factory, Out(array, stale))
    BY DEF ChunksIn, Shared
  <2> QED BY <2>1, <2>2
<1>5. Typed(array, stale) <=>
        /\ array \in [Arrays -> Records]
        /\ stale \subseteq Arrays
        /\ \A a \in Arrays : array[a].level = Empty => array[a].count = 0
        /\ \A a \in Holders :
             array[a].front \in Pointers /\ array[a].count <= SlicesOf[array[a].level]
        /\ \A a, b \in Holders : a # b => array[a].front # array[b].front
  BY <1>1 DEF Typed
<1> QED BY <1>3, <1>4, <1>5 DEF ArrayInv, Good, Records

\* And of the next state.
LEMMA ArrayInvNext == ArrayInv' <=> Good(factory', array', stale')
<1> DEFINE Now == Good(factory, array, stale)
<1>1. ArrayInv <=> Now
  BY ArrayInvIs
<1> HIDE DEF Now
<1>2. ArrayInv' <=> Now'
  BY <1>1, PTL
<1> QED BY <1>2 DEF Now

\* The elements are those of the state.
LEMMA ElementsAre == Elements = Items(factory, array, stale)
  BY DEF Elements, Items, Holders, Has

-----------------------------------------------------------------------------
(* Each call *)

\* What a call makes of the elements, in the words of ArrayStore.
LEMMA StoreWords ==
  ASSUME NEW items, items = [a \in Arrays |-> items[a]], NEW a \in Arrays, NEW x
  PROVE  But(items, a, x) = [items EXCEPT ![a] = x]
  BY DEF But

\* What may be given is what may be written.
LEMMA ContentsFacts ==
  ASSUME NEW n \in 0 .. MaxCount, NEW e \in Contents(n)
  PROVE  /\ e \in Filling(n)
         /\ Sequence(n, e) \in [1 .. n -> Values]
<1>1. n \in Nat
  BY SliceArrayAssumption
<1>2. \A i \in 1 .. n : i - 1 \in 0 .. n - 1
  BY <1>1
<1> QED BY <1>2 DEF Contents, Filling, Sequence, ArrayWords

LEMMA AssignFacts ==
  ASSUME Good(factory, array, stale), NEW a \in Arrays, NEW n \in 0 .. MaxCount,
         NEW e \in Contents(n), Assign(a, n, e)
  PROVE  /\ Good(factory', array', stale')
         /\ Items(factory', array', stale')
              = But(Items(factory, array, stale), a, Sequence(n, e))
<1>1. e \in Filling(n)
  BY ContentsFacts
<1>2. a \notin stale /\ stale' = stale
  BY DEF Assign
<1>3. CASE AssignNew(a, n, e)
  <2> DEFINE f == WithoutChunk(factory, array[a])
             st1 == stale \cup {a}
             w == Items(factory, array, stale)
  <2>1. Good(f, array, st1) /\ Items(f, array, st1) = But(w, a, << >>)
    <3> SUFFICES ASSUME NEW g, g = f
                 PROVE  Good(g, array, st1) /\ Items(g, array, st1) = But(w, a, << >>)
      OBVIOUS
    <3>1. a \notin stale /\ g = WithoutChunk(factory, array[a])
      BY <1>2
    <3> HIDE DEF f
    <3> QED BY <3>1, GivenBack
  <2>2. PICK s \in Supply(f, Lift(LevelOf(n))) : Gets(f, array, a, n, s, e, factory', array')
    BY <1>3 DEF AssignNew, Gets, Holding
  <2>3. a \in st1 /\ st1 \ {a} = stale
    BY <1>2
  <2> HIDE DEF f, st1, w
  <2>4. /\ Good(factory', array', st1 \ {a})
        /\ Items(factory', array', st1 \ {a}) = But(Items(f, array, st1), a, Sequence(n, e))
    BY <1>1, <2>1, <2>2, <2>3, Got
  <2>5. But(But(w, a, << >>), a, Sequence(n, e)) = But(w, a, Sequence(n, e))
    BY DEF But
  <2> QED BY <1>2, <2>1, <2>3, <2>4, <2>5 DEF w
<1>4. CASE AssignKeep(a, n, e)
  <2>1. /\ Keeps(array[a], LevelOf(n))
        /\ factory' = Written(factory, array[a].front, n, e)
        /\ array' = Recounted(array, a, n)
    BY <1>4 DEF AssignKeep, Recounted
  <2>2. array[a].level # Empty /\ n <= SlicesOf[array[a].level]
    <3>1. Typed(array, stale)
      BY DEF Good
    <3> QED BY <2>1, <3>1, KeepsFacts
  <2>3. a \in Has(array, stale)
    BY <1>2, <2>2 DEF Has
  <2> QED BY <1>1, <1>2, <2>1, <2>2, <2>3, Rewritten
<1> QED BY <1>3, <1>4 DEF Assign

LEMMA AssignThrowsFacts ==
  ASSUME Good(factory, array, stale), NEW a \in Arrays, NEW n \in 0 .. MaxCount,
         AssignThrows(a, n)
  PROVE  /\ Good(factory', array', stale')
         /\ Items(factory', array', stale') = But(Items(factory, array, stale), a, << >>)
<1>1. /\ a \notin stale /\ array' = array
      /\ factory' = WithoutChunk(factory, array[a])
      /\ stale' = IF array[a].level = Empty THEN stale ELSE stale \cup {a}
  BY DEF AssignThrows
<1>2. CASE array[a].level # Empty
  <2>1. stale' = stale \cup {a}
    BY <1>1, <1>2
  <2> QED BY <1>1, <2>1, GivenBack
<1>3. CASE array[a].level = Empty
  <2>1. factory' = factory /\ stale' = stale
    BY <1>1, <1>3 DEF WithoutChunk
  <2>2. But(Items(factory, array, stale), a, << >>) = Items(factory, array, stale)
    BY <1>3 DEF But, Items, Has
  <2> QED BY <1>1, <2>1, <2>2
<1> QED BY <1>2, <1>3

LEMMA ResizeFacts ==
  ASSUME Good(factory, array, stale), NEW a \in Arrays, NEW n \in 0 .. MaxCount,
         NEW v \in Values, Resize(a, n, v)
  PROVE  /\ Good(factory', array', stale')
         /\ Items(factory', array', stale')
              = But(Items(factory, array, stale), a,
                    Fitted(Items(factory, array, stale)[a], n, v))
<1> DEFINE e == Kept(factory, array[a], n, v)
<1>1. a \notin stale /\ stale' = stale
  BY DEF Resize
<1>2. /\ e \in Filling(n)
      /\ Sequence(n, e) = Fitted(Items(factory, array, stale)[a], n, v)
  BY <1>1, KeptFacts
<1>3. CASE ResizeNew(a, n, v)
  <2>1. PICK s \in Supply(factory, Lift(LevelOf(n))) :
               LET c == Allocated(factory, Lift(LevelOf(n)), s)
               IN  /\ factory' = Written(WithoutChunk(c.f, array[a]), c.p, n,
                                         Kept(c.f, array[a], n, v))
                   /\ array' = Holding(array, a, c.p, n)
    BY <1>3 DEF ResizeNew, Holding, Kept
  <2> DEFINE c == Allocated(factory, Lift(LevelOf(n)), s)
  <2>2. c.f.body = factory.body
    <3>1. Lift(LevelOf(n)) \in Levels /\ MinLevel <= Lift(LevelOf(n))
      BY LevelFacts, LiftFacts
    <3> QED BY <3>1, AllocatedFields DEF Good
  <2>3. Kept(c.f, array[a], n, v) = e
    <3>1. \A x, i : Element(c.f, x, i) = Element(factory, x, i)
      BY <2>2 DEF Element
    <3> HIDE DEF c
    <3> QED BY <3>1 DEF Kept
  <2>4. Changes(factory, array, a, n, s, e, factory', array')
    <3>1. /\ factory' = Written(WithoutChunk(c.f, array[a]), c.p, n, Kept(c.f, array[a], n, v))
          /\ array' = Holding(array, a, c.p, n)
      BY <2>1
    <3>2. /\ factory' = Written(WithoutChunk(c.f, array[a]), c.p, n, e)
          /\ array' = Holding(array, a, c.p, n)
      BY <2>3, <3>1
    <3> QED BY <3>2 DEF Changes
  <2> HIDE DEF e
  <2> QED BY <1>1, <1>2, <2>4, Moved
<1>4. CASE ResizeKeep(a, n, v)
  <2>1. /\ Keeps(array[a], LevelOf(n))
        /\ factory' = Written(factory, array[a].front, n, e)
        /\ array' = Recounted(array, a, n)
    BY <1>4 DEF ResizeKeep, Recounted, Kept
  <2>2. array[a].level # Empty /\ n <= SlicesOf[array[a].level]
    <3>1. Typed(array, stale)
      BY DEF Good
    <3> QED BY <2>1, <3>1, KeepsFacts
  <2>3. a \in Has(array, stale)
    BY <1>1, <2>2 DEF Has
  <2> HIDE DEF e
  <2> QED BY <1>1, <1>2, <2>1, <2>2, <2>3, Rewritten
<1> QED BY <1>3, <1>4 DEF Resize

LEMMA AssignInitFacts ==
  ASSUME Good(factory, array, stale), NEW a \in Arrays, NEW n \in 0 .. MaxCount,
         NEW e \in Contents(n), AssignInit(a, n, e)
  PROVE  /\ Good(factory', array', stale')
         /\ Items(factory', array', stale')
              = But(Items(factory, array, stale), a, Sequence(n, e))
<1> DEFINE st1 == stale \cup {a}
           w == Items(factory, array, stale)
<1>1. e \in Filling(n)
  BY ContentsFacts
<1>2. a \notin Has(array, stale) /\ stale' = st1 \ {a} /\ a \in st1
  BY DEF AssignInit, Has
<1>3. Good(factory, array, st1) /\ Items(factory, array, st1) = But(w, a, << >>)
  <2>1. Typed(array, stale)
    BY DEF Good
  <2>2. Out(array, st1) = Out(array, stale) /\ Typed(array, st1)
    BY <1>2, <2>1, OutWithout
  <2> QED BY <2>2, ItemsLess DEF Good
<1>4. PICK s \in Supply(factory, Lift(LevelOf(n))) :
             Gets(factory, array, a, n, s, e, factory', array')
  BY DEF AssignInit, Gets, Holding
<1> HIDE DEF st1, w
<1>5. /\ Good(factory', array', st1 \ {a})
      /\ Items(factory', array', st1 \ {a}) = But(Items(factory, array, st1), a, Sequence(n, e))
  BY <1>1, <1>2, <1>3, <1>4, Got
<1>6. But(But(w, a, << >>), a, Sequence(n, e)) = But(w, a, Sequence(n, e))
  BY DEF But
<1> QED BY <1>2, <1>3, <1>5, <1>6 DEF w

LEMMA ClearInitFacts ==
  ASSUME Good(factory, array, stale), NEW a \in Arrays, ClearInit(a)
  PROVE  /\ Good(factory', array', stale')
         /\ Items(factory', array', stale') = Items(factory, array, stale)
<1>1. /\ a \in stale /\ array' = [array EXCEPT ![a] = NoArray]
      /\ stale' = stale \ {a} /\ factory' = factory
  BY DEF ClearInit
<1>2. Typed(array, stale) /\ array \in [Arrays -> Records] /\ stale \subseteq Arrays
  BY DEF Good, Typed
<1>3. /\ NoArray \in Records /\ NoArray.level = Empty /\ NoArray.count = 0
  <2>1. 0 \in 0 .. MaxCount
    BY SliceArrayAssumption, SlicesFacts, Constants
  <2> QED BY <2>1 DEF NoArray, Records
<1>4. /\ array' \in [Arrays -> Records] /\ array'[a] = NoArray
      /\ \A b \in Arrays : b # a => array'[b] = array[b]
  BY <1>1, <1>2, <1>3
<1>5. Has(array', stale') = Has(array, stale)
  BY <1>1, <1>3, <1>4 DEF Has
<1>6. \A b \in Has(array, stale) : b \in Arrays /\ array'[b] = array[b]
  BY <1>1, <1>4 DEF Has
<1>7. Out(array', stale') = Out(array, stale)
  <2> DEFINE At(r, k) == { r[b].front : b \in { d \in Has(array, stale) : Lift(r[d].level) = k } }
  <2>1. ASSUME NEW k \in Levels PROVE At(array', k) = At(array, k)
    BY <1>6
  <2>2. /\ Out(array', stale') = [k \in Levels |-> At(array', k)]
        /\ Out(array, stale) = [k \in Levels |-> At(array, k)]
    BY <1>5 DEF Out
  <2> HIDE DEF At
  <2> QED BY <2>1, <2>2
<1>8. Typed(array', stale')
  <2>1. stale' \subseteq Arrays
    BY <1>1, <1>2
  <2>2. \A b \in Arrays : array'[b].level = Empty => array'[b].count = 0
    BY <1>2, <1>3, <1>4 DEF Typed
  <2>3. /\ \A b \in Has(array, stale) :
              array'[b].front \in Pointers /\ array'[b].count <= SlicesOf[array'[b].level]
        /\ \A b, c \in Has(array, stale) : b # c => array'[b].front # array'[c].front
    BY <1>2, <1>6 DEF Typed
  <2> QED BY <1>4, <1>5, <2>1, <2>2, <2>3 DEF Typed
<1>9. Items(factory', array', stale') = Items(factory, array, stale)
  <2> DEFINE Of(x) == [i \in 1 .. x.count |-> Element(factory, x, i - 1)]
  <2>1. /\ Items(factory', array', stale')
             = [b \in Arrays |-> IF b \in Has(array, stale) THEN Of(array'[b]) ELSE << >>]
        /\ Items(factory, array, stale)
             = [b \in Arrays |-> IF b \in Has(array, stale) THEN Of(array[b]) ELSE << >>]
    BY <1>1, <1>5 DEF Items
  <2> HIDE DEF Of
  <2> QED BY <1>6, <2>1
<1> QED BY <1>1, <1>7, <1>8, <1>9 DEF Good

\* No array has memory.
LEMMA NoItems ==
  ASSUME NEW f, NEW arr, NEW st, Has(arr, st) = {}
  PROVE  Items(f, arr, st) = [a \in Arrays |-> << >>] /\ Out(arr, st) = [l \in Levels |-> {}]
  BY DEF Items, Out

LEMMA ResetMade ==
  ASSUME Good(factory, array, stale), ArrayReset
  PROVE  /\ Good(factory', array', stale')
         /\ Items(factory', array', stale') = [a \in Arrays |-> << >>]
<1>1. /\ factory' = ResetFactory(factory) /\ array' = array
      /\ stale' = { a \in Arrays : array[a].level # Empty }
  BY DEF ArrayReset
<1>2. Has(array', stale') = {}
  BY <1>1 DEF Has
<1>3. factory \in Factories(ArrayWords) /\ Sound(factory) /\ Shared(factory, Out(array, stale))
  BY DEF Good
<1>4. /\ factory' \in Factories(ArrayWords) /\ Sound(factory')
      /\ Shared(factory', [l \in Levels |-> {}])
  <2>1. Data \in ArrayWords
    BY DEF ArrayWords
  <2> HIDE DEF Out
  <2> QED BY <1>1, <1>3, <2>1, ResetFacts
<1>5. Typed(array', stale')
  BY <1>1, <1>2 DEF Good, Typed
<1> QED BY <1>2, <1>4, <1>5, NoItems DEF Good

LEMMA InitMade ==
  ASSUME ArrayInit
  PROVE  /\ Good(factory, array, stale)
         /\ Items(factory, array, stale) = [a \in Arrays |-> << >>]
<1>1. /\ factory = NewFactory /\ array = [a \in Arrays |-> NoArray] /\ stale = {}
  BY DEF ArrayInit
<1>2. NoArray \in Records /\ NoArray.level = Empty /\ NoArray.count = 0
  <2>1. 0 \in 0 .. MaxCount
    BY SliceArrayAssumption, SlicesFacts, Constants
  <2> QED BY <2>1 DEF NoArray, Records
<1>3. Has(array, stale) = {}
  BY <1>1, <1>2 DEF Has
<1>4. /\ factory \in Factories(ArrayWords) /\ Sound(factory)
      /\ Shared(factory, [l \in Levels |-> {}])
  BY <1>1, NewFacts DEF ArrayWords
<1>5. Typed(array, stale)
  BY <1>1, <1>2, <1>3 DEF Typed
<1> QED BY <1>3, <1>4, <1>5, NoItems DEF Good

\* The records of the calls are calls of ArrayStore.
LEMMA CallFacts ==
  ASSUME NEW a \in Arrays
  PROVE  /\ \A op \in {"clear", "forget", "lose", "fail"} :
              CallOn(op, a) \in Lists!Calls /\ CallOn(op, a).op = op /\ CallOn(op, a).at = a
         /\ [op |-> "reset"] \in Lists!Calls
  BY DEF CallOn, Lists!Calls

LEMMA CallAssignFacts ==
  ASSUME NEW a \in Arrays, NEW n \in 0 .. MaxCount, NEW e \in Contents(n)
  PROVE  /\ CallAssign(a, n, e) \in Lists!Calls
         /\ CallAssign(a, n, e).op = "assign"
         /\ CallAssign(a, n, e).at = a
         /\ CallAssign(a, n, e).list = Sequence(n, e)
<1>1. CallAssign(a, n, e) = [op |-> "assign", at |-> a, list |-> Sequence(n, e)]
  BY DEF CallAssign, Sequence
<1>2. Sequence(n, e) \in Lists!Contents
  <2>1. Sequence(n, e) \in [1 .. n -> Values]
    BY ContentsFacts
  <2> HIDE DEF Sequence
  <2> QED BY <2>1 DEF Lists!Contents
<1> HIDE DEF Sequence
<1> QED BY <1>1, <1>2 DEF Lists!Calls

LEMMA CallResizeFacts ==
  ASSUME NEW a \in Arrays, NEW n \in 0 .. MaxCount, NEW v \in Values
  PROVE  /\ CallResize(a, n, v) \in Lists!Calls
         /\ CallResize(a, n, v).op = "resize"
         /\ CallResize(a, n, v).at = a
         /\ CallResize(a, n, v).count = n
         /\ CallResize(a, n, v).value = v
  BY DEF CallResize, Lists!Calls

\* Every step, as what it makes of the state, and as what its call promises.
LEMMA StepFacts ==
  ASSUME Good(factory, array, stale), ArrayNext
  PROVE  Good(factory', array', stale') /\ Lists!Next
<1> DEFINE w == Items(factory, array, stale)
           u == Items(factory', array', stale')
<1>1. Elements = w /\ Elements' = u
  BY DEF Elements, Items, Holders, Has
<1>2. w = [a \in Arrays |-> w[a]]
  BY DEF Items
<1>3. CASE ArrayReset
  <2>1. call' = [op |-> "reset"] /\ call' \in Lists!Calls
    BY <1>3 DEF ArrayReset, Lists!Calls
  <2>2. Good(factory', array', stale') /\ Elements' = [a \in Arrays |-> << >>]
    BY <1>1, <1>3, ResetMade
  <2> QED BY <2>1, <2>2 DEF Lists!Next, Lists!Do, Lists!Reset
<1>4. ASSUME NEW a \in Arrays, Clear(a)
      PROVE  Good(factory', array', stale') /\ Lists!Next
  <2>1. call' = CallOn("clear", a) /\ UNCHANGED <<factory, array, stale>>
    BY <1>4 DEF Clear
  <2>2. UNCHANGED Elements
    BY <1>1, <2>1
  <2>3. call' \in Lists!Calls /\ call'.op = "clear"
    BY <2>1, CallFacts
  <2> QED BY <2>1, <2>2, <2>3 DEF Lists!Next, Lists!Do, Lists!Clear
<1>5. ASSUME NEW a \in Arrays, ClearInit(a)
      PROVE  Good(factory', array', stale') /\ Lists!Next
  <2>1. call' = CallOn("forget", a) /\ a \in stale
    BY <1>5 DEF ClearInit
  <2>2. Good(factory', array', stale') /\ u = w
    BY <1>5, ClearInitFacts
  <2>3. w[a] = << >>
    BY <2>1 DEF Items, Has
  <2> HIDE DEF w, u
  <2>4. Elements' = [Elements EXCEPT ![a] = << >>]
    BY <1>1, <1>2, <2>2, <2>3
  <2>5. call' \in Lists!Calls /\ call'.op = "forget" /\ call'.at = a
    BY <2>1, CallFacts
  <2> QED BY <2>2, <2>4, <2>5 DEF Lists!Next, Lists!Do, Lists!Lose
<1>6. ASSUME NEW a \in Arrays, NEW n \in 0 .. MaxCount, NEW e \in Contents(n),
             Assign(a, n, e) \/ AssignInit(a, n, e)
      PROVE  Good(factory', array', stale') /\ Lists!Next
  <2>1. Good(factory', array', stale') /\ u = But(w, a, Sequence(n, e))
    <3>1. CASE Assign(a, n, e)
      BY <3>1, AssignFacts
    <3>2. CASE AssignInit(a, n, e)
      BY <3>2, AssignInitFacts
    <3> QED BY <1>6, <3>1, <3>2
  <2> HIDE DEF w, u
  <2>2. Elements' = [Elements EXCEPT ![a] = Sequence(n, e)]
    BY <1>1, <1>2, <2>1, StoreWords
  <2>3. call' = CallAssign(a, n, e)
    BY <1>6 DEF Assign, AssignInit
  <2>4. /\ call' \in Lists!Calls /\ call'.op = "assign" /\ call'.at = a
        /\ call'.list = Sequence(n, e)
    BY <2>3, CallAssignFacts
  <2> HIDE DEF Sequence
  <2> QED BY <2>1, <2>2, <2>4 DEF Lists!Next, Lists!Do, Lists!Assign
<1>7. ASSUME NEW a \in Arrays, NEW n \in 0 .. MaxCount, NEW v \in Values, Resize(a, n, v)
      PROVE  Good(factory', array', stale') /\ Lists!Next
  <2>1. Good(factory', array', stale') /\ u = But(w, a, Fitted(w[a], n, v))
    BY <1>7, ResizeFacts
  <2> HIDE DEF w, u
  <2>2. Elements' = [Elements EXCEPT ![a] = Fitted(Elements[a], n, v)]
    BY <1>1, <1>2, <2>1, StoreWords
  <2>3. call' = CallResize(a, n, v)
    BY <1>7 DEF Resize
  <2>4. /\ call' \in Lists!Calls /\ call'.op = "resize" /\ call'.at = a
        /\ call'.count = n /\ call'.value = v
    BY <2>3, CallResizeFacts
  <2>5. Lists!Resize(call')
    BY <2>2, <2>4 DEF Lists!Resize, Fitted
  <2> QED BY <2>1, <2>4, <2>5 DEF Lists!Next, Lists!Do
<1>8. ASSUME NEW a \in Arrays, NEW n \in 0 .. MaxCount, AssignThrows(a, n)
      PROVE  Good(factory', array', stale') /\ Lists!Next
  <2>1. Good(factory', array', stale') /\ u = But(w, a, << >>)
    BY <1>8, AssignThrowsFacts
  <2> HIDE DEF w, u
  <2>2. Elements' = [Elements EXCEPT ![a] = << >>]
    BY <1>1, <1>2, <2>1, StoreWords
  <2>3. call' = CallOn("lose", a)
    BY <1>8 DEF AssignThrows
  <2>4. call' \in Lists!Calls /\ call'.op = "lose" /\ call'.at = a
    BY <2>3, CallFacts
  <2> QED BY <2>1, <2>2, <2>4 DEF Lists!Next, Lists!Do, Lists!Lose
<1>9. ASSUME NEW a \in Arrays, NEW n \in 0 .. MaxCount,
             ResizeThrows(a, n) \/ AssignInitThrows(a, n)
      PROVE  Good(factory', array', stale') /\ Lists!Next
  <2>1. call' = CallOn("fail", a) /\ UNCHANGED <<factory, array, stale>>
    BY <1>9 DEF ResizeThrows, AssignInitThrows
  <2>2. UNCHANGED Elements
    BY <1>1, <2>1
  <2>3. call' \in Lists!Calls /\ call'.op = "fail"
    BY <2>1, CallFacts
  <2> QED BY <2>1, <2>2, <2>3 DEF Lists!Next, Lists!Do, Lists!Fail
<1> QED BY <1>3, <1>4, <1>5, <1>6, <1>7, <1>8, <1>9 DEF ArrayNext

-----------------------------------------------------------------------------
(* The theorems *)

\* The invariant: chunks are of the right size, each is held by one array or
\* waits in the list of its level, and the factory's lists are what they have
\* to be (slice_array.hpp:95-250, slice_factory.hpp:99-267).
THEOREM ArraysInvariance == ArraySpec => []ArrayInv
<1>1. ArrayInit => ArrayInv
  BY InitMade, ArrayInvIs
<1>2. ArrayInv /\ [ArrayNext]_arrayVars => ArrayInv'
  <2> SUFFICES ASSUME ArrayInv, [ArrayNext]_arrayVars PROVE ArrayInv'
    OBVIOUS
  <2>1. Good(factory, array, stale)
    BY ArrayInvIs
  <2>2. CASE ArrayNext
    BY <2>1, <2>2, StepFacts, ArrayInvNext
  <2>3. CASE UNCHANGED arrayVars
    BY <2>1, <2>3, ArrayInvNext DEF arrayVars
  <2> QED BY <2>2, <2>3
<1> QED BY <1>1, <1>2, PTL DEF ArraySpec

\* No array loses a chunk, gives one back twice or shares one with another,
\* whatever sequence of calls, failed calls and resets there is.
THEOREM ArraysChunksCorrect == ArraySpec => []ChunksOfArrays
<1>1. ArrayInv => ChunksOfArrays
  BY DEF ArrayInv
<1> QED BY <1>1, ArraysInvariance, PTL

\* Every call leaves each array as it promises: assign with what it was given,
\* resize with the elements there were; and no call on one array, and nothing that
\* the factory writes in its chunks, changes another.
THEOREM ArraysImplementStore == ArraySpec => ImplementsArrays
<1>1. ArrayInit => Lists!Init
  BY InitMade, ElementsAre DEF Lists!Init, ArrayInit
<1>2. ArrayInv /\ [ArrayNext]_arrayVars => [Lists!Next]_<<Elements, call>>
  <2> SUFFICES ASSUME ArrayInv, [ArrayNext]_arrayVars
               PROVE  Lists!Next \/ UNCHANGED <<Elements, call>>
    OBVIOUS
  <2>1. Good(factory, array, stale)
    BY ArrayInvIs
  <2>2. CASE ArrayNext
    BY <2>1, <2>2, StepFacts
  <2>3. CASE UNCHANGED arrayVars
    BY <2>3 DEF arrayVars, Elements, Element, Holders
  <2> QED BY <2>2, <2>3
<1> QED BY <1>1, <1>2, ArraysInvariance, PTL DEF ArraySpec, ImplementsArrays, Lists!Spec, Lists!vars

=============================================================================
