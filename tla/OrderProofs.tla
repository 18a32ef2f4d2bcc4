---------------------------- MODULE OrderProofs ----------------------------
(***************************************************************************)
(* What certainly ran before what still does, in the middle of every edit  *)
(* of every pipeline: conflicting effects, guards, and what is read.       *)
(***************************************************************************)
EXTENDS PipelineProofs

-----------------------------------------------------------------------------
(* What comes before what.                                                 *)

\* An operation is listed at its position.
LEMMA ListedAt ==
  ASSUME NEW m, Arena(m), NEW o \in DOMAIN m.op, m.op[o].parent # 0
  PROVE  /\ m.op[o].parent \in DOMAIN m.block
         /\ Position(m, o) \in DOMAIN m.block[m.op[o].parent].ops
         /\ m.block[m.op[o].parent].ops[Position(m, o)] = o
         /\ Position(m, o) \in Nat
<1> DEFINE b == m.op[o].parent
<1>1. b \in DOMAIN m.block /\ o \in ToSet(m.block[b].ops)
  BY DEF Arena, ArenaAgrees, NamedWhereListed
<1>2. PICK i \in DOMAIN m.block[b].ops : m.block[b].ops[i] = o
  BY <1>1 DEF ToSet
<1>3. Position(m, o) = i
  BY <1>1, <1>2, AtItsPosition
<1>4. i \in Nat
  BY <1>1, <1>2, ListedOperations
<1> QED
  BY <1>1, <1>2, <1>3, <1>4

\* Sooner, by the positions of the two in their block.
LEMMA SoonerIs ==
  ASSUME NEW m, Arena(m), NEW x, NEW y
  PROVE  Sooner(m, x, y) <=>
           /\ x \in DOMAIN m.op /\ y \in DOMAIN m.op
           /\ m.op[x].parent # 0 /\ m.op[y].parent = m.op[x].parent
           /\ Position(m, x) < Position(m, y)
<1>1. ASSUME Sooner(m, x, y)
      PROVE  /\ x \in DOMAIN m.op /\ y \in DOMAIN m.op
             /\ m.op[x].parent # 0 /\ m.op[y].parent = m.op[x].parent
             /\ Position(m, x) < Position(m, y)
  <2>1. PICK b \in DOMAIN m.block : SoonerIn(m.block[b].ops, x, y)
    BY <1>1 DEF Sooner
  <2>2. PICK i, j \in DOMAIN m.block[b].ops : i < j /\ m.block[b].ops[i] = x /\ m.block[b].ops[j] = y
    BY <2>1 DEF SoonerIn
  <2>3. x \in ToSet(m.block[b].ops) /\ y \in ToSet(m.block[b].ops)
    BY <2>2 DEF ToSet
  <2>4. Position(m, x) = i /\ Position(m, y) = j
    BY <2>2, AtItsPosition
  <2> QED
    BY <2>2, <2>3, <2>4, ListedOperations
<1>2. ASSUME x \in DOMAIN m.op, y \in DOMAIN m.op,
             m.op[x].parent # 0, m.op[y].parent = m.op[x].parent,
             Position(m, x) < Position(m, y)
      PROVE  Sooner(m, x, y)
  <2> DEFINE b == m.op[x].parent
  <2>1. /\ b \in DOMAIN m.block
        /\ Position(m, x) \in DOMAIN m.block[b].ops /\ m.block[b].ops[Position(m, x)] = x
        /\ Position(m, y) \in DOMAIN m.block[b].ops /\ m.block[b].ops[Position(m, y)] = y
    BY <1>2, ListedAt
  <2> HIDE DEF b
  <2>2. SoonerIn(m.block[b].ops, x, y)
    BY <1>2, <2>1 DEF SoonerIn
  <2> QED
    BY <2>1, <2>2 DEF Sooner
<1> QED
  BY <1>1, <1>2

LEMMA SoonerIsAnOrder ==
  ASSUME NEW m, Arena(m)
  PROVE  /\ \A x : ~Sooner(m, x, x)
         /\ \A x, y, z : Sooner(m, x, y) /\ Sooner(m, y, z) => Sooner(m, x, z)
         /\ \A x, y, z : Sooner(m, x, y) /\ Sooner(m, x, z) => y = z \/ Sooner(m, y, z) \/ Sooner(m, z, y)
<1>1. \A x \in DOMAIN m.op : m.op[x].parent # 0 => Position(m, x) \in Nat
  BY ListedAt
<1>2. ASSUME NEW x PROVE ~Sooner(m, x, x)
  BY <1>1, SoonerIs
<1>3. ASSUME NEW x, NEW y, NEW z, Sooner(m, x, y), Sooner(m, y, z) PROVE Sooner(m, x, z)
  <2>1. /\ x \in DOMAIN m.op /\ y \in DOMAIN m.op /\ m.op[x].parent # 0 /\ m.op[y].parent = m.op[x].parent
        /\ Position(m, x) < Position(m, y)
    BY <1>3, SoonerIs
  <2>2. /\ z \in DOMAIN m.op /\ m.op[z].parent = m.op[y].parent /\ Position(m, y) < Position(m, z)
    BY <1>3, SoonerIs
  <2>3. Position(m, x) \in Nat /\ Position(m, y) \in Nat /\ Position(m, z) \in Nat
    BY <1>1, <2>1, <2>2
  <2>4. Position(m, x) < Position(m, z)
    BY <2>1, <2>2, <2>3
  <2> QED
    BY <2>1, <2>2, <2>4, SoonerIs
<1>4. ASSUME NEW x, NEW y, NEW z, Sooner(m, x, y), Sooner(m, x, z)
      PROVE  y = z \/ Sooner(m, y, z) \/ Sooner(m, z, y)
  <2>1. /\ x \in DOMAIN m.op /\ y \in DOMAIN m.op /\ m.op[x].parent # 0 /\ m.op[y].parent = m.op[x].parent
        /\ z \in DOMAIN m.op /\ m.op[z].parent = m.op[x].parent
    BY <1>4, SoonerIs
  <2>2. /\ Position(m, y) \in Nat /\ m.block[m.op[x].parent].ops[Position(m, y)] = y
        /\ Position(m, z) \in Nat /\ m.block[m.op[x].parent].ops[Position(m, z)] = z
    BY <2>1, ListedAt
  <2>3. Position(m, y) = Position(m, z) \/ Position(m, y) < Position(m, z) \/ Position(m, z) < Position(m, y)
    BY <2>2
  <2>4. Position(m, y) = Position(m, z) => y = z
    BY <2>2
  <2> QED
    BY <2>1, <2>3, <2>4, SoonerIs
<1> QED
  BY <1>2, <1>3, <1>4

\* o and what is above it.
Chain(m, o) == {o} \cup Above(m)[o]

\* p itself comes before o in a block around o that the code runs in order.
Leads(m, p, o) == \E y \in Chain(m, o) : Sooner(m, p, y) /\ InOrder(m, m.op[p].parent)

LEMMA AheadIs ==
  ASSUME NEW m, Forest(m), NEW p \in DOMAIN m.op, NEW o \in DOMAIN m.op
  PROVE  Ahead(m, p, o) <=>
           \E x \in Chain(m, p), y \in Chain(m, o) : Sooner(m, x, y) /\ InOrder(m, m.op[x].parent)
<1>1. ASSUME Ahead(m, p, o)
      PROVE  \E x \in Chain(m, p), y \in Chain(m, o) : Sooner(m, x, y) /\ InOrder(m, m.op[x].parent)
  <2>1. PICK f \in EnclosingChain(m, p), g \in EnclosingChain(m, o) :
          f.block = g.block /\ f.position < g.position /\ InOrder(m, f.block)
    BY <1>1 DEF Ahead
  <2>2. PICK x \in Chain(m, p) : m.op[x].parent # 0 /\ f = [block |-> m.op[x].parent, position |-> Position(m, x)]
    BY DEF EnclosingChain, Chain
  <2>3. PICK y \in Chain(m, o) : m.op[y].parent # 0 /\ g = [block |-> m.op[y].parent, position |-> Position(m, y)]
    BY DEF EnclosingChain, Chain
  <2>4. x \in DOMAIN m.op /\ y \in DOMAIN m.op
    BY AboveIs DEF Chain
  <2>5. Sooner(m, x, y)
    BY <2>1, <2>2, <2>3, <2>4, SoonerIs DEF Forest
  <2> QED
    BY <2>1, <2>2, <2>5
<1>2. ASSUME NEW x \in Chain(m, p), NEW y \in Chain(m, o), Sooner(m, x, y), InOrder(m, m.op[x].parent)
      PROVE  Ahead(m, p, o)
  <2> DEFINE f == [block |-> m.op[x].parent, position |-> Position(m, x)]
             g == [block |-> m.op[y].parent, position |-> Position(m, y)]
  <2>1. m.op[x].parent # 0 /\ m.op[y].parent = m.op[x].parent /\ Position(m, x) < Position(m, y)
    BY <1>2, SoonerIs DEF Forest
  <2>2. f \in EnclosingChain(m, p)
    BY <2>1 DEF EnclosingChain, Chain
  <2>3. g \in EnclosingChain(m, o)
    BY <2>1 DEF EnclosingChain, Chain
  <2> QED
    BY <1>2, <2>1, <2>2, <2>3 DEF Ahead
<1> QED
  BY <1>1, <1>2

LEMMA PrecedingIs ==
  ASSUME NEW m, Forest(m), NEW p, NEW o \in DOMAIN m.op
  PROVE  p \in Preceding(m, o) <=> \E y \in Chain(m, o) : Sooner(m, p, y)
<1>1. ASSUME p \in Preceding(m, o) PROVE \E y \in Chain(m, o) : Sooner(m, p, y)
  <2>1. PICK f \in EnclosingChain(m, o) : \E i \in 1..f.position - 1 : p = m.block[f.block].ops[i]
    BY <1>1 DEF Preceding
  <2>2. PICK y \in Chain(m, o) : m.op[y].parent # 0 /\ f = [block |-> m.op[y].parent, position |-> Position(m, y)]
    BY DEF EnclosingChain, Chain
  <2>3. y \in DOMAIN m.op
    BY AboveIs DEF Chain
  <2> DEFINE b == m.op[y].parent
             s == m.block[b].ops
             k == Position(m, y)
  <2>4. PICK i \in 1..k - 1 : p = s[i]
    BY <2>1, <2>2
  <2>5. b \in DOMAIN m.block /\ k \in DOMAIN s /\ s[k] = y /\ s \in Seq(Nat)
    BY <2>2, <2>3, ListedAt, ListedOperations DEF Forest
  <2> HIDE DEF k, s
  <2>6. i \in DOMAIN s /\ i < k
    BY <2>4, <2>5
  <2>7. SoonerIn(s, p, y)
    BY <2>4, <2>5, <2>6 DEF SoonerIn
  <2> QED
    BY <2>2, <2>5, <2>7 DEF Sooner, s
<1>2. ASSUME NEW y \in Chain(m, o), Sooner(m, p, y) PROVE p \in Preceding(m, o)
  <2>1. PICK b \in DOMAIN m.block : SoonerIn(m.block[b].ops, p, y)
    BY <1>2 DEF Sooner
  <2> DEFINE s == m.block[b].ops
             f == [block |-> b, position |-> Position(m, y)]
  <2>2. PICK i, j \in DOMAIN s : i < j /\ s[i] = p /\ s[j] = y
    BY <2>1 DEF SoonerIn
  <2>3. Position(m, y) = j /\ m.op[y].parent = b /\ b # 0 /\ s \in Seq(Nat)
    <3>1. y \in ToSet(s)
      BY <2>2 DEF ToSet
    <3> QED
      BY <2>2, <3>1, AtItsPosition, ListedOperations DEF Forest
  <2>4. f \in EnclosingChain(m, o)
    BY <2>3 DEF EnclosingChain, Chain
  <2>5. i \in 1..f.position - 1 /\ m.block[f.block].ops[i] = p
    BY <2>2, <2>3
  <2> HIDE DEF f
  <2> QED
    BY <2>4, <2>5 DEF Preceding
<1> QED
  BY <1>1, <1>2

\* o finds v: in a block around it, as its argument or as what has run there.
Finds(m, v, o) ==
  /\ v \in DOMAIN m.value
  /\ IF m.value[v].producer = 0
     THEN \E x \in Chain(m, o) : m.op[x].parent # 0 /\ m.op[x].parent = m.value[v].home
     ELSE Leads(m, m.value[v].producer, o)

LEMMA FindsIs ==
  ASSUME NEW m, Forest(m), NEW o \in DOMAIN m.op
  PROVE  FindsOperands(m, o) <=> \A v \in Operands(m, o) : Finds(m, v, o)
<1> SUFFICES ASSUME NEW v, v \in DOMAIN m.value
             PROVE  /\ Dominates(m, v, o)
                    /\ m.value[v].producer # 0 => InOrder(m, m.op[m.value[v].producer].parent)
                    <=> Finds(m, v, o)
  BY DEF FindsOperands, Finds
<1> DEFINE p == m.value[v].producer
<1>a. p # 0 => p \in DOMAIN m.op
  BY DEF Forest, OwnersAgree, ResultsProduced, HasProducer
<1>b. Chain(m, o) \subseteq DOMAIN m.op
  BY AboveIs DEF Chain
<1>1. ASSUME Dominates(m, v, o), p # 0 => InOrder(m, m.op[p].parent) PROVE Finds(m, v, o)
  <2>1. CASE p = 0
    BY <1>1, <2>1, DominatedReads DEF Finds, Chain
  <2>2. CASE p # 0
    <3>1. PICK x \in Chain(m, o) : m.op[x].parent = m.op[p].parent /\ Position(m, p) < Position(m, x)
      BY <1>1, <2>2, DominatedReads DEF Chain
    <3>2. m.op[p].parent # 0
      BY <1>1, <2>2, DominatedReads
    <3>3. Sooner(m, p, x)
      BY <1>a, <1>b, <2>2, <3>1, <3>2, SoonerIs DEF Forest
    <3> QED
      BY <1>1, <2>2, <3>3 DEF Finds, Leads
  <2> QED
    BY <2>1, <2>2
<1>2. ASSUME Finds(m, v, o) PROVE Dominates(m, v, o) /\ (p # 0 => InOrder(m, m.op[p].parent))
  <2>1. CASE p = 0
    <3>1. PICK x \in Chain(m, o) : m.op[x].parent # 0 /\ m.op[x].parent = m.value[v].home
      BY <1>2, <2>1 DEF Finds
    <3> DEFINE f == [block |-> m.op[x].parent, position |-> Position(m, x)]
    <3>2. f \in EnclosingChain(m, o) /\ f.block = m.value[v].home
      BY <3>1 DEF EnclosingChain, Chain
    <3> HIDE DEF f
    <3> QED
      BY <2>1, <3>2 DEF Dominates
  <2>2. CASE p # 0
    <3>1. PICK y \in Chain(m, o) : Sooner(m, p, y) /\ InOrder(m, m.op[p].parent)
      BY <1>2, <2>2 DEF Finds, Leads
    <3>2. m.op[p].parent # 0 /\ m.op[y].parent = m.op[p].parent /\ Position(m, p) < Position(m, y)
      BY <3>1, SoonerIs DEF Forest
    <3> DEFINE f == [block |-> m.op[y].parent, position |-> Position(m, y)]
    <3>3. f \in EnclosingChain(m, o) /\ f.block = m.op[p].parent /\ Position(m, p) < f.position
      BY <3>2 DEF EnclosingChain, Chain
    <3> HIDE DEF f
    <3>4. Dominates(m, v, o)
      BY <2>2, <3>2, <3>3 DEF Dominates
    <3> QED
      BY <3>1, <3>4
  <2> QED
    BY <2>1, <2>2
<1> QED
  BY <1>1, <1>2

\* Whether a block is run in order depends on whose it is.
SameHeads(m, n) == \A x \in DOMAIN m.op : x \in DOMAIN n.op /\ SameHead(m.op[x], n.op[x])

LEMMA InOrderStays ==
  ASSUME NEW m, NEW n, Forest(m), SameBlockOwners(m, n), SameHeads(m, n), NEW b \in DOMAIN m.block
  PROVE  InOrder(n, b) <=> InOrder(m, b)
<1>1. BlockOwner(m, b) # 0 => BlockOwner(m, b) \in DOMAIN m.op
  BY DEF Forest, OwnersAgree, BlocksPlaced, RegionsClaimed, BlockOwner
<1>2. BlockOwner(n, b) = BlockOwner(m, b)
  BY DEF SameBlockOwners
<1>3. BlockOwner(m, b) # 0 => NameOf(n, BlockOwner(m, b)) = NameOf(m, BlockOwner(m, b))
  BY <1>1 DEF SameHeads, SameHead, NameOf
<1> QED
  BY <1>2, <1>3 DEF InOrder, BlockOwner

\* The operations and values of m are where they were.
Stands(m, n) ==
  /\ SameBlockOwners(m, n) /\ SameHeads(m, n)
  /\ \A x \in DOMAIN m.op : n.op[x].erased = m.op[x].erased /\ n.op[x].parent = m.op[x].parent
  /\ \A x, y \in DOMAIN m.op : Sooner(n, x, y) <=> Sooner(m, x, y)
  /\ \A v \in DOMAIN m.value : /\ v \in DOMAIN n.value
                               /\ n.value[v].producer = m.value[v].producer
                               /\ n.value[v].home = m.value[v].home

LEMMA StandingAbove ==
  ASSUME NEW m, NEW n, Forest(m), Forest(n), Stands(m, n)
  PROVE  /\ \A x \in DOMAIN m.op : Above(n)[x] = Above(m)[x] /\ Chain(n, x) = Chain(m, x)
         /\ \A x \in DOMAIN m.op : x \in Live(n) <=> x \in Live(m)
         /\ \A b \in DOMAIN m.block : InOrder(n, b) <=> InOrder(m, b)
<1>a. SameBlockOwners(m, n) /\ SameHeads(m, n)
  BY DEF Stands
<1>b. \A x \in DOMAIN m.op : /\ x \in DOMAIN n.op /\ n.op[x].erased = m.op[x].erased
                             /\ n.op[x].parent = m.op[x].parent
  BY DEF Stands, SameHeads
<1>1. \A x \in DOMAIN m.op : Owner(n, x) = Owner(m, x)
  <2> SUFFICES ASSUME NEW x \in DOMAIN m.op PROVE Owner(n, x) = Owner(m, x)
    OBVIOUS
  <2>1. CASE m.op[x].parent = 0
    BY <1>b, <2>1 DEF Owner
  <2>2. CASE m.op[x].parent # 0
    <3>1. m.op[x].parent \in DOMAIN m.block /\ Owner(m, x) = BlockOwner(m, m.op[x].parent)
      BY <2>2, OwnerByBlock DEF Forest
    <3>2. Owner(n, x) = BlockOwner(n, m.op[x].parent)
      BY <1>b, <2>2, OwnerByBlock DEF Forest
    <3> QED
      BY <1>a, <3>1, <3>2 DEF SameBlockOwners
  <2> QED
    BY <2>1, <2>2
<1>2. \A x \in DOMAIN m.op : Above(n)[x] = Above(m)[x] /\ Above(m)[x] \subseteq DOMAIN m.op
  <2>1. \A x \in DOMAIN m.op : Above(n)[x] = Above(m)[x]
    BY <1>1, <1>b, SameAbove
  <2>2. \A x \in DOMAIN m.op : Above(m)[x] \subseteq DOMAIN m.op
    BY AboveIs
  <2> QED
    BY <2>1, <2>2
<1>3. \A x \in DOMAIN m.op : Chain(n, x) = Chain(m, x)
  BY <1>2 DEF Chain
<1>4. \A x \in DOMAIN m.op : x \in Live(n) <=> x \in Live(m)
  <2> SUFFICES ASSUME NEW x \in DOMAIN m.op PROVE x \in Live(n) <=> x \in Live(m)
    OBVIOUS
  <2>1. \A a \in {x} \cup Above(m)[x] : n.op[a].parent = m.op[a].parent
    BY <1>2, <1>b
  <2>2. Above(n)[x] = Above(m)[x] /\ x \in DOMAIN n.op /\ n.op[x].erased = m.op[x].erased
    BY <1>2, <1>b
  <2> QED
    BY <2>1, <2>2 DEF Live
<1>5. \A b \in DOMAIN m.block : InOrder(n, b) <=> InOrder(m, b)
  BY <1>a, InOrderStays
<1> QED
  BY <1>2, <1>3, <1>4, <1>5

\* What comes before stands in the arenas, with its block.
LEMMA SoonerIsListed ==
  ASSUME NEW m, Forest(m), NEW x, NEW y, Sooner(m, x, y)
  PROVE  /\ x \in DOMAIN m.op /\ y \in DOMAIN m.op
         /\ m.op[x].parent \in DOMAIN m.block /\ m.op[x].parent # 0 /\ m.op[y].parent = m.op[x].parent
<1>1. /\ x \in DOMAIN m.op /\ y \in DOMAIN m.op
      /\ m.op[x].parent # 0 /\ m.op[y].parent = m.op[x].parent
  BY SoonerIs DEF Forest
<1> QED
  BY <1>1, OwnerByBlock DEF Forest

LEMMA StandingKeeps ==
  ASSUME NEW m, NEW n, Forest(m), Forest(n), Stands(m, n), NEW o \in DOMAIN m.op
  PROVE  /\ \A p \in DOMAIN m.op : Ahead(m, p, o) => Ahead(n, p, o)
         /\ \A p : Leads(m, p, o) => Leads(n, p, o)
         /\ \A v : Finds(m, v, o) => Finds(n, v, o)
<1>a. /\ \A x \in DOMAIN m.op : Chain(n, x) = Chain(m, x) /\ x \in DOMAIN n.op
      /\ \A x \in DOMAIN m.op : n.op[x].parent = m.op[x].parent
      /\ \A b \in DOMAIN m.block : InOrder(n, b) <=> InOrder(m, b)
      /\ \A x, y \in DOMAIN m.op : Sooner(n, x, y) <=> Sooner(m, x, y)
  BY StandingAbove DEF Stands, SameHeads
<1>b. ASSUME NEW x, NEW y, Sooner(m, x, y), InOrder(m, m.op[x].parent)
      PROVE  Sooner(n, x, y) /\ InOrder(n, n.op[x].parent)
  BY <1>a, <1>b, SoonerIsListed
<1>1. ASSUME NEW p \in DOMAIN m.op, Ahead(m, p, o) PROVE Ahead(n, p, o)
  <2>1. PICK x \in Chain(m, p), y \in Chain(m, o) : Sooner(m, x, y) /\ InOrder(m, m.op[x].parent)
    BY <1>1, AheadIs
  <2>2. x \in Chain(n, p) /\ y \in Chain(n, o)
    BY <1>a
  <2> QED
    BY <1>a, <1>b, <2>1, <2>2, AheadIs
<1>2. ASSUME NEW p, Leads(m, p, o) PROVE Leads(n, p, o)
  <2>1. PICK y \in Chain(m, o) : Sooner(m, p, y) /\ InOrder(m, m.op[p].parent)
    BY <1>2 DEF Leads
  <2> QED
    BY <1>a, <1>b, <2>1 DEF Leads
<1>3. ASSUME NEW v, Finds(m, v, o) PROVE Finds(n, v, o)
  <2>1. /\ v \in DOMAIN n.value /\ n.value[v].producer = m.value[v].producer
        /\ n.value[v].home = m.value[v].home
    BY <1>3 DEF Finds, Stands
  <2>2. CASE m.value[v].producer = 0
    <3>1. PICK x \in Chain(m, o) : m.op[x].parent # 0 /\ m.op[x].parent = m.value[v].home
      BY <1>3, <2>2 DEF Finds
    <3>2. x \in DOMAIN m.op
      BY AboveIs DEF Chain
    <3> QED
      BY <1>a, <2>1, <2>2, <3>1, <3>2 DEF Finds
  <2>3. CASE m.value[v].producer # 0
    BY <1>2, <1>3, <2>1, <2>3 DEF Finds
  <2> QED
    BY <2>2, <2>3
<1> QED
  BY <1>1, <1>2, <1>3

-----------------------------------------------------------------------------
(* The order that is kept.                                                 *)

HeadsKept(b, m) == \A x \in DOMAIN b.op : x \in DOMAIN m.op /\ SameHead(b.op[x], m.op[x])

\* The operations of b that are in the program m.
Old(b, m) == Live(m) \cap DOMAIN b.op

EffectsInOrder(b, m) ==
  \A p, o \in Old(b, m) :
    Ahead(b, p, o) /\ ConflictsWith(b.op[p].effect, b.op[o].effect) => Ahead(m, p, o)

GuardsInOrder(b, m) ==
  \A p, o \in Old(b, m) : Ahead(b, p, o) /\ p \in Guards(b, o) => Leads(m, p, o)

\* o runs after all of the group, whether it is in the wrapper yet or not.
Passed(m, w, ops, o) ==
  \E y \in Chain(m, o) : Sooner(m, w, y) /\ y \notin ToSet(ops) /\ InOrder(m, m.op[w].parent)

\* An operation finds what it reads; what is to be given on by the wrapper, it
\* will find there.
OperandsFound(b, m, w, ops, esc) ==
  \A o \in Old(b, m) :
    FindsOperands(b, o) =>
      \A v \in Operands(m, o) :
        IF v \in ToSet(esc) THEN Passed(m, w, ops, o)
        ELSE /\ Finds(m, v, o)
             /\ m.value[v].producer # 0 => m.value[v].producer \notin ToSet(ops) \cup {w}

\* The wrapper stands right before what is yet to be moved into it.
Beside(m, w, ops) ==
  \A j \in DOMAIN ops :
    /\ Sooner(m, w, ops[j])
    /\ \A x : Sooner(m, x, ops[j]) => x = w \/ Sooner(m, x, w) \/ \E i \in 1..j - 1 : x = ops[i]

\* No conflict between one of the group and what is in the wrapper, or in an
\* earlier one.
Apart(b, m, w, ops) ==
  \A j \in DOMAIN ops : \A o, p \in Old(b, m) :
    ops[j] \in Chain(m, o) /\ (w \in Above(m)[p] \/ \E i \in 1..j - 1 : ops[i] \in Chain(m, p))
    => ~ConflictsWith(m.op[p].effect, m.op[o].effect)

Grouped(b, m, w, ops, esc) ==
  /\ w \in DOMAIN m.op /\ w \notin DOMAIN b.op
  /\ DOMAIN m.op[w].results = DOMAIN esc
  /\ \A j \in DOMAIN ops : ops[j] \in DOMAIN m.op /\ NameOf(m, ops[j]) # Verify
  /\ Beside(m, w, ops)
  /\ Apart(b, m, w, ops)

KeptOrder(b, m) == HeadsKept(b, m) /\ EffectsInOrder(b, m) /\ GuardsInOrder(b, m)

-----------------------------------------------------------------------------
(* Deduplication keeps it.                                                 *)

\* Between the edits of a pass nothing is in a wrapper that has yet to give it on.
AllFound(b, m) ==
  \A o \in Old(b, m) : FindsOperands(b, o) => \A v \in Operands(m, o) : Finds(m, v, o)

LEMMA FoundAtRest ==
  ASSUME NEW b, NEW m
  PROVE  OperandsFound(b, m, 0, <<>>, <<>>) <=> AllFound(b, m)
<1>1. ToSet(<<>>) = {}
  BY DEF ToSet
<1> QED
  BY <1>1 DEF OperandsFound, AllFound

LEMMA StandingKeepsOrder ==
  ASSUME NEW b, NEW m, NEW n, Forest(m), Forest(n), Stands(m, n), KeptOrder(b, m)
  PROVE  KeptOrder(b, n) /\ Old(b, n) = Old(b, m)
<1>1. \A x \in DOMAIN b.op : x \in DOMAIN m.op /\ x \in DOMAIN n.op
  BY DEF Stands, SameHeads, KeptOrder, HeadsKept
<1>2. HeadsKept(b, n)
  BY <1>1 DEF HeadsKept, KeptOrder, Stands, SameHeads, SameHead
<1>3. Old(b, n) = Old(b, m)
  <2>1. \A x \in DOMAIN b.op : x \in Live(n) <=> x \in Live(m)
    BY <1>1, StandingAbove
  <2> QED
    BY <2>1 DEF Old
<1>4. \A o \in Old(b, m) : o \in DOMAIN m.op
  BY <1>1 DEF Old
<1>5. EffectsInOrder(b, n)
  <2> SUFFICES ASSUME NEW p \in Old(b, m), NEW o \in Old(b, m), Ahead(b, p, o),
                      ConflictsWith(b.op[p].effect, b.op[o].effect)
               PROVE  Ahead(n, p, o)
    BY <1>3 DEF EffectsInOrder
  <2>1. Ahead(m, p, o)
    BY DEF KeptOrder, EffectsInOrder
  <2> QED
    BY <1>4, <2>1, StandingKeeps
<1>6. GuardsInOrder(b, n)
  <2> SUFFICES ASSUME NEW p \in Old(b, m), NEW o \in Old(b, m), Ahead(b, p, o), p \in Guards(b, o)
               PROVE  Leads(n, p, o)
    BY <1>3 DEF GuardsInOrder
  <2>1. Leads(m, p, o)
    BY DEF KeptOrder, GuardsInOrder
  <2> QED
    BY <1>4, <2>1, StandingKeeps
<1> QED
  BY <1>2, <1>3, <1>5, <1>6 DEF KeptOrder

LEMMA RedirectedOperands ==
  ASSUME NEW operands, NEW to, NEW v \in ToSet(Redirected(operands, to))
  PROVE  \E u \in ToSet(operands) : v = IF u \in DOMAIN to THEN to[u] ELSE u
BY DEF ToSet, Redirected

\* A result that is reused is the earlier call's, which has run wherever the
\* later one has.
LEMMA ReuseIs ==
  ASSUME NEW m, Forest(m), NEW earlier \in DOMAIN m.op, NEW o \in DOMAIN m.op,
         NEW u \in DOMAIN Reuse(m, earlier, o)
  PROVE  u \in Results(m, o) /\ Reuse(m, earlier, o)[u] \in Results(m, earlier)
<1> DEFINE mine == m.op[o].results
           theirs == m.op[earlier].results
           kept == Reusable(m, earlier, o)
           at == CHOOSE i \in DOMAIN mine : mine[i] = u
<1>1. PICK i \in kept : u = mine[i]
  BY DEF Reuse
<1>2. kept \subseteq DOMAIN mine /\ Len(mine) = Len(theirs)
  <2>1. kept # {}
    BY <1>1
  <2> QED
    BY <2>1 DEF Reusable
<1>3. mine \in Seq(Nat) /\ theirs \in Seq(Nat)
  BY DEF Forest, Arena, IsModule, IsOp
<1>4. Reuse(m, earlier, o)[u] = theirs[at]
  BY <1>1 DEF Reuse
<1> HIDE DEF kept, mine, theirs
<1>5. at \in DOMAIN mine /\ mine[at] = u
  BY <1>1, <1>2
<1> HIDE DEF at
<1>6. at \in DOMAIN theirs
  BY <1>2, <1>3, <1>5
<1> QED
  BY <1>4, <1>5, <1>6 DEF Results, ToSet, mine, theirs

LEMMA ReusingKeepsOrder ==
  ASSUME NEW b, NEW m, Forest(m), NEW earlier, NEW o, Sooner(m, earlier, o),
         Forest(UsesReplaced(m, Reuse(m, earlier, o))),
         KeptOrder(b, m), AllFound(b, m)
  PROVE  LET n == UsesReplaced(m, Reuse(m, earlier, o)) IN KeptOrder(b, n) /\ AllFound(b, n)
<1> DEFINE to == Reuse(m, earlier, o)
           n == UsesReplaced(m, to)
<1>1. /\ DOMAIN n.op = DOMAIN m.op /\ n.block = m.block /\ n.region = m.region /\ n.value = m.value
      /\ \A x \in DOMAIN m.op : /\ n.op[x].parent = m.op[x].parent
                                /\ n.op[x].erased = m.op[x].erased
                                /\ SameHead(m.op[x], n.op[x])
                                /\ ~m.op[x].erased => n.op[x].operands = Redirected(m.op[x].operands, to)
  BY RedirectingKeepsArena DEF Forest
<1>2. earlier \in DOMAIN m.op /\ o \in DOMAIN m.op /\ m.op[earlier].parent = m.op[o].parent
  BY SoonerIsListed
<1>3. \A u \in DOMAIN to : u \in Results(m, o) /\ to[u] \in Results(m, earlier)
  BY <1>2, ReuseIs
<1>4. Forest(n)
  OBVIOUS
<1> HIDE DEF to, n
<1>5. Stands(m, n)
  <2>1. SameBlockOwners(m, n)
    BY <1>1 DEF SameBlockOwners, BlockOwner
  <2>2. \A x, y : Sooner(n, x, y) <=> Sooner(m, x, y)
    BY <1>1 DEF Sooner
  <2> QED
    BY <1>1, <2>1, <2>2 DEF Stands, SameHeads
<1>6. KeptOrder(b, n) /\ Old(b, n) = Old(b, m)
  BY <1>4, <1>5, StandingKeepsOrder
<1>7. ASSUME NEW x \in Old(b, m), FindsOperands(b, x), NEW v \in Operands(n, x)
      PROVE  Finds(n, v, x)
  <2>1. x \in DOMAIN m.op /\ ~m.op[x].erased
    BY DEF Old, Live
  <2>2. PICK u \in Operands(m, x) : v = IF u \in DOMAIN to THEN to[u] ELSE u
    BY <1>1, <2>1, RedirectedOperands DEF Operands
  <2>3. Finds(m, u, x)
    BY <1>7 DEF AllFound
  <2>4. CASE u \notin DOMAIN to
    BY <1>4, <1>5, <2>1, <2>2, <2>3, <2>4, StandingKeeps
  <2>5. CASE u \in DOMAIN to
    <3>1. u \in Results(m, o) /\ v \in Results(m, earlier)
      BY <1>3, <2>2, <2>5
    <3>2. /\ u \in DOMAIN m.value /\ m.value[u].producer = o
          /\ v \in DOMAIN m.value /\ m.value[v].producer = earlier
      BY <1>2, <3>1 DEF Forest, OwnersAgree, ResultsProduced
    <3>3. o # 0 /\ earlier # 0
      BY <1>2, ArenaShape DEF Forest, Arena
    <3>4. PICK y \in Chain(m, x) : Sooner(m, o, y) /\ InOrder(m, m.op[o].parent)
      BY <2>3, <3>2, <3>3 DEF Finds, Leads
    <3>5. Sooner(m, earlier, y) /\ InOrder(m, m.op[earlier].parent)
      BY <1>2, <3>4, SoonerIsAnOrder DEF Forest
    <3>6. Finds(m, v, x)
      BY <3>2, <3>3, <3>5 DEF Finds, Leads
    <3> QED
      BY <1>4, <1>5, <2>1, <3>6, StandingKeeps
  <2> QED
    BY <2>4, <2>5
<1>8. AllFound(b, n)
  BY <1>6, <1>7 DEF AllFound
<1> QED
  BY <1>6, <1>8 DEF n, to

-----------------------------------------------------------------------------
(* Elimination keeps it.                                                   *)

\* What is left of the program after an erasure is where it was.
LEMMA LeftByErasing ==
  ASSUME NEW m, Forest(m), NEW d \in DOMAIN m.op, Forest(Erased(m, d)), NEW o \in Live(Erased(m, d))
  PROVE  /\ o \in Live(m) /\ o \in DOMAIN m.op
         /\ d \notin Chain(m, o) /\ Chain(Erased(m, d), o) = Chain(m, o)
<1> DEFINE n == Erased(m, d)
<1>1. /\ DOMAIN n.op = DOMAIN m.op /\ n.op[d].erased /\ n.op[d].parent = 0
      /\ DOMAIN n.block = DOMAIN m.block /\ n.region = m.region
      /\ \A x \in DOMAIN m.op : x # d => n.op[x].erased = m.op[x].erased
                                         /\ n.op[x].parent = m.op[x].parent
      /\ \A x \in DOMAIN m.block : n.block[x].region = m.block[x].region
  BY ErasingKeepsArena DEF Forest
<1>2. Forest(n) /\ o \in Live(n)
  OBVIOUS
<1> HIDE DEF n
<1>3. SameBlockOwners(m, n) /\ SamePlacesBut(d, m, n)
  BY <1>1 DEF SameBlockOwners, BlockOwner, SamePlacesBut
<1>4. o \in DOMAIN m.op /\ o # d /\ ~n.op[o].erased
  BY <1>1, <1>2 DEF Live
<1>5. /\ d \in Above(m)[o] => d \in Above(n)[o]
      /\ d \notin {o} \cup Above(m)[o] => Above(n)[o] = Above(m)[o]
  BY <1>1, <1>2, <1>3, <1>4, AboveAfterErasing
<1>6. d \notin Above(m)[o]
  <2>1. Above(n)[o] \subseteq Live(n)
    BY <1>2, LiveAbove
  <2>2. d \notin Live(n)
    BY <1>1 DEF Live
  <2> QED
    BY <1>5, <2>1, <2>2
<1>7. Above(n)[o] = Above(m)[o] /\ Above(m)[o] \subseteq DOMAIN m.op
  BY <1>4, <1>5, <1>6, AboveIs
<1>8. PICK a \in {o} \cup Above(n)[o] : n.op[a].parent = BodyBlock
  BY <1>2 DEF Live
<1>9. a \in {o} \cup Above(m)[o] /\ m.op[a].parent = BodyBlock
  BY <1>1, <1>4, <1>6, <1>7, <1>8
<1>10. ~m.op[o].erased
  BY <1>1, <1>4
<1>11. o \in Live(m)
  BY <1>4, <1>9, <1>10 DEF Live
<1> QED
  BY <1>4, <1>6, <1>7, <1>11 DEF Chain, n

LEMMA ErasingKeepsOrder ==
  ASSUME NEW b, NEW m, Forest(m), NEW d \in DOMAIN m.op, Forest(Erased(m, d)),
         KeptOrder(b, m), AllFound(b, m), Unread(m, d)
  PROVE  LET n == Erased(m, d) IN KeptOrder(b, n) /\ AllFound(b, n)
<1> DEFINE n == Erased(m, d)
<1>1. /\ DOMAIN n.op = DOMAIN m.op /\ n.value = m.value
      /\ DOMAIN n.block = DOMAIN m.block /\ n.region = m.region
      /\ \A x \in DOMAIN m.op : SameHead(m.op[x], n.op[x]) /\ n.op[x].operands = m.op[x].operands
      /\ \A x \in DOMAIN m.op : x # d => n.op[x].parent = m.op[x].parent
      /\ \A x \in DOMAIN m.block : n.block[x].region = m.block[x].region
      /\ SameOrderBut(d, m, n)
  BY ErasingKeepsArena DEF Forest
<1>2. \A x \in Live(n) : /\ x \in Live(m) /\ x \in DOMAIN m.op
                         /\ d \notin Chain(m, x) /\ Chain(n, x) = Chain(m, x)
  BY LeftByErasing
<1>3. Forest(n)
  OBVIOUS
<1> HIDE DEF n
<1>4. SameBlockOwners(m, n) /\ SameHeads(m, n)
  BY <1>1 DEF SameBlockOwners, BlockOwner, SameHeads
<1>5. Old(b, n) \subseteq Old(b, m) /\ \A o \in Old(b, n) : o \in Live(n) /\ o \in DOMAIN m.op
  BY <1>2 DEF Old
<1>6. ASSUME NEW x, NEW y, x # d, y # d, Sooner(m, x, y), InOrder(m, m.op[x].parent)
      PROVE  Sooner(n, x, y) /\ InOrder(n, n.op[x].parent)
  <2>1. Sooner(n, x, y)
    BY <1>1, <1>6 DEF SameOrderBut
  <2>2. x \in DOMAIN m.op /\ m.op[x].parent \in DOMAIN m.block
    BY <1>6, SoonerIsListed
  <2>3. n.op[x].parent = m.op[x].parent
    BY <1>1, <1>6, <2>2
  <2>4. InOrder(n, m.op[x].parent)
    BY <1>4, <1>6, <2>2, InOrderStays
  <2> QED
    BY <2>1, <2>3, <2>4
<1>7. ASSUME NEW p, p # d, NEW o \in Live(n), Leads(m, p, o) PROVE Leads(n, p, o)
  <2>1. PICK y \in Chain(m, o) : Sooner(m, p, y) /\ InOrder(m, m.op[p].parent)
    BY <1>7 DEF Leads
  <2>2. y # d /\ y \in Chain(n, o)
    BY <1>2
  <2> QED
    BY <1>6, <1>7, <2>1, <2>2 DEF Leads
<1>8. HeadsKept(b, n)
  BY <1>1, <1>4 DEF KeptOrder, HeadsKept, SameHead
<1>9. EffectsInOrder(b, n)
  <2> SUFFICES ASSUME NEW p \in Old(b, n), NEW o \in Old(b, n), Ahead(b, p, o),
                      ConflictsWith(b.op[p].effect, b.op[o].effect)
               PROVE  Ahead(n, p, o)
    BY DEF EffectsInOrder
  <2>1. Ahead(m, p, o)
    BY <1>5 DEF KeptOrder, EffectsInOrder
  <2>2. p \in DOMAIN m.op /\ o \in DOMAIN m.op
    BY <1>5
  <2>3. PICK x \in Chain(m, p), y \in Chain(m, o) : Sooner(m, x, y) /\ InOrder(m, m.op[x].parent)
    BY <2>1, <2>2, AheadIs
  <2>4. x # d /\ y # d /\ x \in Chain(n, p) /\ y \in Chain(n, o)
    BY <1>2, <1>5
  <2> QED
    BY <1>1, <1>3, <1>6, <2>2, <2>3, <2>4, AheadIs
<1>10. GuardsInOrder(b, n)
  <2> SUFFICES ASSUME NEW p \in Old(b, n), NEW o \in Old(b, n), Ahead(b, p, o), p \in Guards(b, o)
               PROVE  Leads(n, p, o)
    BY DEF GuardsInOrder
  <2>1. Leads(m, p, o)
    BY <1>5 DEF KeptOrder, GuardsInOrder
  <2>2. p # d
    BY <1>2, <1>5 DEF Chain
  <2> QED
    BY <1>5, <1>7, <2>1, <2>2
<1>11. AllFound(b, n)
  <2> SUFFICES ASSUME NEW o \in Old(b, n), FindsOperands(b, o), NEW v \in Operands(n, o)
               PROVE  Finds(n, v, o)
    BY DEF AllFound
  <2>1. o \in Old(b, m) /\ o \in Live(m) /\ o \in Live(n) /\ v \in Operands(m, o)
    BY <1>1, <1>2, <1>5 DEF Operands
  <2>2. Finds(m, v, o)
    BY <2>1 DEF AllFound
  <2>3. v \in DOMAIN m.value
    BY <2>2 DEF Finds
  <2>4. CASE m.value[v].producer = 0
    <3>1. PICK x \in Chain(m, o) : m.op[x].parent # 0 /\ m.op[x].parent = m.value[v].home
      BY <2>2, <2>4 DEF Finds
    <3>2. x \in DOMAIN m.op /\ x # d /\ x \in Chain(n, o)
      BY <1>2, <2>1, AboveIs DEF Chain
    <3> QED
      BY <1>1, <2>3, <2>4, <3>1, <3>2 DEF Finds
  <2>5. CASE m.value[v].producer # 0
    <3>1. v \in Results(m, m.value[v].producer)
      BY <2>3, <2>5 DEF Forest, OwnersAgree, ResultsProduced, HasProducer
    <3>2. m.value[v].producer # d
      BY <2>1, <3>1 DEF Unread, Readers
    <3>3. Leads(n, m.value[v].producer, o)
      BY <1>7, <2>1, <2>2, <2>5, <3>2 DEF Finds
    <3> QED
      BY <1>1, <2>3, <2>5, <3>3 DEF Finds
  <2> QED
    BY <2>4, <2>5
<1> QED
  BY <1>8, <1>9, <1>10, <1>11 DEF KeptOrder, n

\* Nobody comes to read what nobody reads.
LEMMA ErasingKeepsUnread ==
  ASSUME NEW m, Forest(m), NEW d \in DOMAIN m.op, Forest(Erased(m, d)),
         NEW e \in DOMAIN m.op, Unread(m, e)
  PROVE  Unread(Erased(m, d), e)
<1> DEFINE n == Erased(m, d)
<1>1. \A x \in DOMAIN m.op : SameHead(m.op[x], n.op[x]) /\ n.op[x].operands = m.op[x].operands
  BY ErasingKeepsArena DEF Forest
<1>2. \A x \in Live(n) : x \in Live(m) /\ x \in DOMAIN m.op
  BY LeftByErasing
<1> HIDE DEF n
<1>3. Results(n, e) = Results(m, e)
  BY <1>1 DEF Results, SameHead
<1>4. \A v : Readers(n, v) \subseteq Readers(m, v)
  BY <1>1, <1>2 DEF Readers, Operands
<1> QED
  BY <1>3, <1>4 DEF Unread, n

-----------------------------------------------------------------------------
(* Parallelization keeps it.                                               *)

\* A run's members stand side by side, and none depends on another.
LEMMA RunIs ==
  ASSUME NEW m, Arena(m), NEW b \in DOMAIN m.block, NEW r \in Runs(m, b)
  PROVE  LET ops == Group(m, b, r) IN
         /\ ops \in Seq(DOMAIN m.op) /\ 1 \in DOMAIN ops
         /\ \A j \in DOMAIN ops : /\ ops[j] \in ToSet(m.block[b].ops) /\ j \in Nat /\ j >= 1
                                  /\ Groupable(m, ops[j])
         /\ \A i, j \in DOMAIN ops : i < j => Sooner(m, ops[i], ops[j]) /\ ~Edge(m, ops[i], ops[j])
         /\ \A j \in DOMAIN ops : \A x :
              Sooner(m, x, ops[j]) => Sooner(m, x, ops[1]) \/ \E i \in 1..j - 1 : x = ops[i]
<1> DEFINE s == m.block[b].ops
           first == r[1]
           last == r[2]
           ops == Group(m, b, r)
<1>1. s \in Seq(Nat)
  BY ListedOperations
<1>2. first \in 1..Len(s) /\ last \in 1..Len(s) /\ last > first
  BY DEF Runs, OpsIn
<1>3. IsRun(m, s, first, last)
  BY DEF Runs, OpsIn
<1>4. ops = SubSeq(s, first, last)
  BY DEF Group, OpsIn
<1>5. \A k, l \in DOMAIN s : s[k] = s[l] => k = l
  BY DEF Arena, ArenaAgrees, ListedOnce
<1>6. \A k \in DOMAIN s : s[k] \in ToSet(s) /\ s[k] \in DOMAIN m.op /\ m.op[s[k]].parent = b
  BY ListedOperations DEF ToSet
<1>a. \A x, y : SoonerIn(s, x, y) => Sooner(m, x, y)
  BY DEF Sooner
<1>b. ASSUME NEW x, NEW k \in DOMAIN s, Sooner(m, x, s[k]) PROVE SoonerIn(s, x, s[k])
  <2>1. PICK c \in DOMAIN m.block : SoonerIn(m.block[c].ops, x, s[k])
    BY <1>b DEF Sooner
  <2>2. s[k] \in ToSet(m.block[c].ops)
    BY <2>1 DEF SoonerIn, ToSet
  <2>3. m.op[s[k]].parent = c
    BY <2>2, ListedOperations
  <2>4. c = b
    BY <1>6, <2>3
  <2> QED
    BY <2>1, <2>4
<1> HIDE DEF s, first, last, ops
<1>7. /\ ops \in Seq(Nat) /\ Len(ops) = last - first + 1 /\ DOMAIN s = 1..Len(s) /\ Len(s) \in Nat
      /\ \A k \in DOMAIN ops : /\ k \in Nat /\ k >= 1 /\ first + k - 1 \in first..last
                               /\ first + k - 1 \in DOMAIN s /\ ops[k] = s[first + k - 1]
  <2>1. first \in Int /\ last \in Int /\ first =< last /\ \A i \in first..last : s[i] \in Nat
    BY <1>1, <1>2
  <2>2. /\ ops \in Seq(Nat) /\ Len(ops) = last - first + 1
        /\ \A i \in 1..last - first + 1 : ops[i] = s[first + i - 1]
    BY <1>4, <2>1, SubSeqProperties
  <2>3. DOMAIN ops = 1..last - first + 1
    BY <2>2
  <2>4. DOMAIN s = 1..Len(s) /\ Len(s) \in Nat
    BY <1>1
  <2>5. ASSUME NEW k \in DOMAIN ops
        PROVE  /\ k \in Nat /\ k >= 1 /\ first + k - 1 \in first..last
               /\ first + k - 1 \in DOMAIN s
    BY <1>2, <2>3, <2>4
  <2> QED
    BY <2>2, <2>3, <2>4, <2>5
<1>8. 1 \in DOMAIN ops
  BY <1>2, <1>7
<1>9. ops \in Seq(DOMAIN m.op)
  <2>1. \A k \in DOMAIN ops : ops[k] \in DOMAIN m.op
    BY <1>6, <1>7
  <2> QED
    BY <1>7, <2>1
<1>10. ASSUME NEW j \in DOMAIN ops
       PROVE  ops[j] \in ToSet(s) /\ j \in Nat /\ j >= 1 /\ Groupable(m, ops[j])
  BY <1>3, <1>6, <1>7 DEF IsRun
<1>11. ASSUME NEW i \in DOMAIN ops, NEW j \in DOMAIN ops, i < j
       PROVE  Sooner(m, ops[i], ops[j]) /\ ~Edge(m, ops[i], ops[j])
  <2> DEFINE k == first + i - 1
             l == first + j - 1
  <2>1. /\ k \in first..last /\ l \in first..last /\ k < l
        /\ k \in DOMAIN s /\ l \in DOMAIN s /\ ops[i] = s[k] /\ ops[j] = s[l]
    BY <1>2, <1>7, <1>11
  <2> HIDE DEF k, l
  <2>2. SoonerIn(s, ops[i], ops[j])
    BY <2>1 DEF SoonerIn
  <2>3. ~Edge(m, s[k], s[l])
    BY <1>3, <2>1 DEF IsRun
  <2> QED
    BY <1>a, <2>1, <2>2, <2>3
<1>12. ASSUME NEW j \in DOMAIN ops, NEW x, Sooner(m, x, ops[j])
       PROVE  Sooner(m, x, ops[1]) \/ \E i \in 1..j - 1 : x = ops[i]
  <2> DEFINE l == first + j - 1
  <2>1. l \in DOMAIN s /\ ops[j] = s[l] /\ ops[1] = s[first] /\ first \in DOMAIN s
    <3>1. first + 1 - 1 = first
      BY <1>2
    <3> QED
      BY <1>7, <1>8, <3>1
  <2>2. PICK k, h \in DOMAIN s : k < h /\ s[k] = x /\ s[h] = s[l]
    BY <1>12, <1>b, <2>1 DEF SoonerIn
  <2>3. k < l
    BY <1>5, <2>1, <2>2
  <2>4. CASE k < first
    <3>1. SoonerIn(s, x, ops[1])
      BY <2>1, <2>2, <2>4 DEF SoonerIn
    <3> QED
      BY <1>a, <3>1
  <2>5. CASE ~(k < first)
    <3> DEFINE i == k - first + 1
    <3>1. i \in 1..j - 1 /\ i \in DOMAIN ops /\ first + i - 1 = k
      BY <1>2, <1>7, <2>2, <2>3, <2>5
    <3> HIDE DEF i
    <3>2. x = ops[i]
      BY <1>7, <2>2, <3>1
    <3> QED
      BY <3>1, <3>2
  <2> QED
    BY <2>4, <2>5
<1> QED
  BY <1>8, <1>9, <1>10, <1>11, <1>12 DEF ops, s

\* Neither does what is in one depend on what is in another.
LEMMA EdgeIs ==
  ASSUME NEW m, Forest(m), NEW e \in DOMAIN m.op, NEW l \in DOMAIN m.op, ~Edge(m, e, l),
         NEW o \in Live(m), l \in Chain(m, o)
  PROVE  /\ \A p \in Live(m) : e \in Chain(m, p) => ~ConflictsWith(m.op[p].effect, m.op[o].effect)
         /\ ~m.op[e].erased => Results(m, e) \cap Operands(m, o) = {}
<1>1. ASSUME NEW p \in Live(m), NEW x, x \in Chain(m, p) PROVE x \in Live(m) /\ p \in Inside(m, x)
  <2>1. x \in Live(m)
    BY <1>1, LiveAbove DEF Chain
  <2>2. p \in Inside(m, x)
    BY <1>1 DEF Live, Inside, Chain
  <2> QED
    BY <2>1, <2>2
<1>2. o \in Inside(m, l) /\ m.op[o].effect \in Summary(m, l)
  BY <1>1 DEF Summary
<1>3. ASSUME NEW p \in Live(m), e \in Chain(m, p)
      PROVE  ~ConflictsWith(m.op[p].effect, m.op[o].effect)
  <2>1. m.op[p].effect \in Summary(m, e)
    BY <1>1, <1>3 DEF Summary
  <2> QED
    BY <1>2, <2>1 DEF Edge, Conflict
<1>4. ASSUME ~m.op[e].erased PROVE Results(m, e) \cap Operands(m, o) = {}
  <2>1. Results(m, e) \subseteq Produced(m, e)
    BY <1>4 DEF Produced, Inside
  <2>2. Operands(m, o) \subseteq Reads(m, l)
    BY <1>2 DEF Reads
  <2> QED
    BY <2>1, <2>2 DEF Edge
<1> QED
  BY <1>3, <1>4

LEMMA WrappingStands ==
  ASSUME NEW m, NEW n, NEW w, OwnersAgree(m), Grows(m, n), SameOrderBut(w, m, n), w \notin DOMAIN m.op
  PROVE  Stands(m, n)
<1>1. SameBlockOwners(m, n)
  BY GrowingKeepsOwners
<1>2. \A x, y \in DOMAIN m.op : Sooner(n, x, y) <=> Sooner(m, x, y)
  BY DEF SameOrderBut
<1> QED
  BY <1>1, <1>2 DEF Stands, SameHeads, Grows

\* What finds the result of a member has run after the group.
LEMMA PassesTheGroup ==
  ASSUME NEW m, Forest(m), NEW b \in DOMAIN m.block, NEW r \in Runs(m, b),
         NEW o \in Live(m), NEW i \in DOMAIN Group(m, b, r),
         NEW v \in Operands(m, o), v \in Results(m, Group(m, b, r)[i]),
         NEW y \in Chain(m, o), Sooner(m, Group(m, b, r)[i], y)
  PROVE  /\ \A k \in DOMAIN Group(m, b, r) : Group(m, b, r)[k] \notin Chain(m, o)
         /\ v \in ToSet(Escaping(m, Group(m, b, r)))
<1> DEFINE ops == Group(m, b, r)
<1>1. /\ ops \in Seq(DOMAIN m.op)
      /\ \A j \in DOMAIN ops : ops[j] \in ToSet(m.block[b].ops) /\ j \in Nat
      /\ \A k, j \in DOMAIN ops : k < j => Sooner(m, ops[k], ops[j]) /\ ~Edge(m, ops[k], ops[j])
  BY RunIs DEF Forest
<1>2. /\ i \in DOMAIN ops /\ v \in Results(m, ops[i]) /\ Sooner(m, ops[i], y)
  OBVIOUS
<1> HIDE DEF ops
<1>3. \A j \in DOMAIN ops : ops[j] \in DOMAIN m.op /\ m.op[ops[j]].parent = b /\ ~m.op[ops[j]].erased
  BY <1>1, ListedOperations DEF Forest
<1>4. o \in DOMAIN m.op
  BY DEF Live
<1>5. ASSUME NEW k \in DOMAIN ops, ops[k] \in Chain(m, o) PROVE FALSE
  <2>1. m.op[y].parent = b /\ m.op[ops[k]].parent = b
    BY <1>2, <1>3, SoonerIsListed
  <2>2. y = ops[k]
    BY <1>4, <1>5, <2>1, OnePerBlock DEF Chain
  <2>3. i < k
    <3>1. ~(k < i) /\ k # i
      <4>1. ~Sooner(m, ops[k], ops[i]) /\ ops[i] # ops[k]
        BY <1>2, <2>2, SoonerIsAnOrder DEF Forest
      <4> QED
        BY <1>1, <1>2, <4>1
    <3> QED
      BY <1>1, <1>2, <3>1
  <2>4. ~Edge(m, ops[i], ops[k])
    BY <1>1, <1>2, <2>3
  <2>5. Results(m, ops[i]) \cap Operands(m, o) = {}
    BY <1>2, <1>3, <1>5, <2>4, EdgeIs
  <2> QED
    BY <1>2, <2>5
<1>6. ~InsideGroup(m, o, ops)
  BY <1>5 DEF InsideGroup, Chain, ToSet
<1>7. Escapes(m, ops, v)
  BY <1>6 DEF Escapes, Readers
<1>8. v \in ToSet(Escaping(m, ops))
  BY <1>1, <1>2, <1>7, EscapingValues DEF Forest
<1> QED
  BY <1>5, <1>8 DEF ops

LEMMA WrappingKeepsOrder ==
  ASSUME NEW b, NEW m, Forest(m), RegionsFilled(m), NEW c \in DOMAIN m.block, NEW r \in Runs(m, c),
         Forest(WithParallel(m, c, Group(m, c, r))), KeptOrder(b, m), AllFound(b, m)
  PROVE  LET ops == Group(m, c, r)
             n == WithParallel(m, c, ops)
         IN /\ KeptOrder(b, n)
            /\ OperandsFound(b, n, NewOp(m), ops, Escaping(m, ops))
            /\ Grouped(b, n, NewOp(m), ops, Escaping(m, ops))
<1> DEFINE ops == Group(m, c, r)
           n == WithParallel(m, c, ops)
           w == NewOp(m)
           esc == Escaping(m, ops)
<1>1. /\ ops \in Seq(DOMAIN m.op) /\ 1 \in DOMAIN ops
      /\ \A j \in DOMAIN ops : /\ ops[j] \in ToSet(m.block[c].ops) /\ j \in Nat /\ j >= 1
                               /\ Groupable(m, ops[j])
      /\ \A i, j \in DOMAIN ops : i < j => Sooner(m, ops[i], ops[j]) /\ ~Edge(m, ops[i], ops[j])
      /\ \A j \in DOMAIN ops : \A x :
           Sooner(m, x, ops[j]) => Sooner(m, x, ops[1]) \/ \E i \in 1..j - 1 : x = ops[i]
  BY RunIs DEF Forest
<1>a. \A o \in Live(m) : \A i \in DOMAIN ops : \A v \in Operands(m, o) : \A y \in Chain(m, o) :
        v \in Results(m, ops[i]) /\ Sooner(m, ops[i], y) =>
          /\ \A k \in DOMAIN ops : ops[k] \notin Chain(m, o)
          /\ v \in ToSet(esc)
  BY PassesTheGroup
<1>b. \A v \in ToSet(esc) : \E i \in DOMAIN ops : v \in Results(m, ops[i])
  BY <1>1, EscapingValues DEF Forest
<1>c. Forest(n)
  OBVIOUS
<1> HIDE DEF ops
<1>2. /\ Grows(m, n) /\ w \notin DOMAIN m.op /\ w \in DOMAIN n.op /\ n.op[w].parent = c
      /\ \A x \in DOMAIN m.op : n.op[x].operands = m.op[x].operands
      /\ SameOrderBut(w, m, n) /\ TakesPlace(m, n, w, ops[1])
      /\ DOMAIN n.op[w].results = DOMAIN esc
  BY <1>1, WrappingKeepsArena DEF Forest, IsWrapper
<1> HIDE DEF n, w, esc
<1>3. Stands(m, n)
  BY <1>2, WrappingStands DEF Forest
<1>4. KeptOrder(b, n) /\ Old(b, n) = Old(b, m)
  BY <1>3, <1>c, StandingKeepsOrder
<1>5. \A j \in DOMAIN ops : /\ ops[j] \in DOMAIN m.op /\ m.op[ops[j]].parent = c /\ ops[j] # w
                            /\ ~m.op[ops[j]].erased
  BY <1>1, <1>2, ListedOperations DEF Forest
<1>6. Beside(n, w, ops)
  <2>1. ASSUME NEW j \in DOMAIN ops PROVE Sooner(n, w, ops[j])
    <3>1. j = 1 \/ 1 < j
      BY <1>1
    <3>2. ops[j] = ops[1] \/ Sooner(m, ops[1], ops[j])
      BY <1>1, <3>1
    <3> QED
      BY <1>2, <3>2 DEF TakesPlace
  <2>2. ASSUME NEW j \in DOMAIN ops, NEW x, Sooner(n, x, ops[j]), x # w
        PROVE  Sooner(n, x, w) \/ \E i \in 1..j - 1 : x = ops[i]
    <3>1. Sooner(m, x, ops[j])
      BY <1>2, <1>5, <2>2 DEF SameOrderBut
    <3>2. Sooner(m, x, ops[1]) \/ \E i \in 1..j - 1 : x = ops[i]
      BY <1>1, <3>1
    <3> QED
      BY <1>2, <3>2 DEF TakesPlace
  <2> QED
    BY <2>1, <2>2 DEF Beside
<1>7. \A x \in DOMAIN m.op : /\ Above(n)[x] = Above(m)[x] /\ Chain(n, x) = Chain(m, x)
                             /\ Above(m)[x] \subseteq DOMAIN m.op
  <2>1. \A x \in DOMAIN m.op : Above(n)[x] = Above(m)[x] /\ Chain(n, x) = Chain(m, x)
    BY <1>3, <1>c, StandingAbove
  <2>2. \A x \in DOMAIN m.op : Above(m)[x] \subseteq DOMAIN m.op
    BY AboveIs
  <2> QED
    BY <2>1, <2>2
<1>8. \A x \in DOMAIN m.op : n.op[x].effect = m.op[x].effect /\ n.op[x].name = m.op[x].name
  BY <1>2 DEF Grows, SameHead
<1>9. Apart(b, n, w, ops)
  <2> SUFFICES ASSUME NEW j \in DOMAIN ops, NEW o \in Old(b, m), NEW p \in Old(b, m),
                      ops[j] \in Chain(n, o),
                      w \in Above(n)[p] \/ \E i \in 1..j - 1 : ops[i] \in Chain(n, p)
               PROVE  ~ConflictsWith(n.op[p].effect, n.op[o].effect)
    BY <1>4 DEF Apart
  <2>1. o \in Live(m) /\ p \in Live(m) /\ o \in DOMAIN m.op /\ p \in DOMAIN m.op
    BY DEF Old, Live
  <2>2. ops[j] \in Chain(m, o)
    BY <1>7, <2>1
  <2>3. PICK i \in 1..j - 1 : ops[i] \in Chain(m, p)
    BY <1>2, <1>7, <2>1
  <2>4. i \in DOMAIN ops /\ i < j
    BY <1>1
  <2>5. ~ConflictsWith(m.op[p].effect, m.op[o].effect)
    BY <1>1, <1>5, <2>1, <2>2, <2>3, <2>4, EdgeIs
  <2> QED
    BY <1>8, <2>1, <2>5
<1>10. Grouped(b, n, w, ops, esc)
  <2>1. w \notin DOMAIN b.op
    BY <1>2 DEF KeptOrder, HeadsKept
  <2>2. \A j \in DOMAIN ops : ops[j] \in DOMAIN n.op /\ NameOf(n, ops[j]) # Verify
    BY <1>1, <1>2, <1>5, <1>8 DEF Grows, Groupable, NameOf
  <2> QED
    BY <1>2, <1>6, <1>9, <2>1, <2>2 DEF Grouped
<1>11. OperandsFound(b, n, w, ops, esc)
  <2> SUFFICES ASSUME NEW o \in Old(b, m), FindsOperands(b, o), NEW v \in Operands(n, o)
               PROVE  IF v \in ToSet(esc) THEN Passed(n, w, ops, o)
                      ELSE /\ Finds(n, v, o)
                           /\ n.value[v].producer # 0 => n.value[v].producer \notin ToSet(ops) \cup {w}
    BY <1>4 DEF OperandsFound
  <2>1. o \in Live(m) /\ o \in DOMAIN m.op
    BY DEF Old, Live
  <2>2. v \in Operands(m, o)
    BY <1>2, <2>1 DEF Operands
  <2>3. Finds(m, v, o)
    BY <2>2 DEF AllFound
  <2>4. ASSUME v \in ToSet(esc) PROVE Passed(n, w, ops, o)
    <3>1. PICK i \in DOMAIN ops : v \in Results(m, ops[i])
      BY <1>b, <2>4
    <3>2. m.value[v].producer = ops[i] /\ ops[i] # 0
      BY <1>5, <3>1, ArenaShape DEF Forest, Arena, OwnersAgree, ResultsProduced
    <3>3. PICK y \in Chain(m, o) : Sooner(m, ops[i], y) /\ InOrder(m, m.op[ops[i]].parent)
      BY <2>3, <3>2 DEF Finds, Leads
    <3>4. y \notin ToSet(ops)
      BY <1>a, <2>1, <2>2, <3>1, <3>3 DEF ToSet
    <3>5. Sooner(n, w, y)
      <4>1. Sooner(n, w, ops[i])
        BY <1>6 DEF Beside
      <4>2. Sooner(n, ops[i], y)
        <5>1. y # w
          BY <1>2, <3>3, SoonerIsListed
        <5> QED
          BY <1>2, <1>5, <3>3, <5>1 DEF SameOrderBut
      <4> QED
        BY <1>c, <4>1, <4>2, SoonerIsAnOrder DEF Forest
    <3>6. InOrder(n, n.op[w].parent)
      BY <1>2, <1>3, <1>5, <1>c, <3>3, StandingAbove
    <3> QED
      BY <1>7, <2>1, <3>3, <3>4, <3>5, <3>6 DEF Passed
  <2>5. ASSUME v \notin ToSet(esc)
        PROVE  /\ Finds(n, v, o)
               /\ n.value[v].producer # 0 => n.value[v].producer \notin ToSet(ops) \cup {w}
    <3>1. Finds(n, v, o)
      BY <1>3, <1>c, <2>1, <2>3, StandingKeeps
    <3>2. v \in DOMAIN m.value /\ n.value[v].producer = m.value[v].producer
      BY <1>3, <2>3 DEF Finds, Stands
    <3> DEFINE q == m.value[v].producer
    <3>3. ASSUME q # 0 PROVE q \in DOMAIN m.op /\ v \in Results(m, q)
      BY <3>2, <3>3 DEF Forest, OwnersAgree, ResultsProduced, HasProducer
    <3>4. ASSUME q # 0, NEW i \in DOMAIN ops, q = ops[i] PROVE FALSE
      <4>1. PICK y \in Chain(m, o) : Sooner(m, ops[i], y)
        BY <2>3, <3>4 DEF Finds, Leads
      <4> QED
        BY <1>a, <2>1, <2>2, <2>5, <3>3, <3>4, <4>1
    <3> QED
      BY <1>2, <3>1, <3>2, <3>3, <3>4 DEF ToSet
  <2> QED
    BY <2>4, <2>5
<1> QED
  BY <1>4, <1>10, <1>11 DEF n, w, esc, ops

LEMMA ChainIs ==
  ASSUME NEW m, Forest(m), NEW o \in DOMAIN m.op
  PROVE  /\ Owner(m, o) = 0 => Chain(m, o) = {o}
         /\ Owner(m, o) # 0 => Owner(m, o) \in DOMAIN m.op /\ Chain(m, o) = {o} \cup Chain(m, Owner(m, o))
BY AboveOwner DEF Chain

LEMMA ChainAfterMoving ==
  ASSUME NEW m, NEW n, Forest(m), Forest(n), NEW g, NEW w, MovesInto(m, n, g, w)
  PROVE  \A x \in DOMAIN m.op :
           Chain(n, x) = Chain(m, x) \cup (IF g \in Chain(m, x) THEN {w} ELSE {})
<1> DEFINE Moved(x) == Chain(n, x) = Chain(m, x) \cup (IF g \in Chain(m, x) THEN {w} ELSE {})
           Good == {x \in DOMAIN n.op : Moved(x)}
<1>a. DOMAIN n.op = DOMAIN m.op /\ Owner(m, w) = Owner(m, g)
  BY DEF MovesInto, SameNesting, Owner
<1>b. g \in DOMAIN m.op /\ w \in DOMAIN m.op /\ w # g /\ w # 0 /\ Owner(n, g) = w
  BY DEF MovesInto
<1>1. ASSUME NEW x \in DOMAIN n.op, Owner(n, x) # 0 => Owner(n, x) \in Good
      PROVE  x \in Good
  <2>1. CASE x = g
    <3>1. Moved(w)
      BY <1>1, <1>b, <2>1
    <3>2. g \notin Chain(m, w) /\ Above(m)[w] = Above(m)[g]
      <4>1. Above(m)[w] = Above(m)[g]
        <5>1. CASE Owner(m, g) = 0
          BY <1>a, <1>b, <5>1, AboveOwner
        <5>2. CASE Owner(m, g) # 0
          <6>1. Above(m)[g] = {Owner(m, g)} \cup Above(m)[Owner(m, g)]
            BY <1>b, <5>2, AboveOwner
          <6>2. Above(m)[w] = {Owner(m, w)} \cup Above(m)[Owner(m, w)]
            BY <1>a, <1>b, <5>2, AboveOwner
          <6> QED
            BY <1>a, <6>1, <6>2, Zenon
        <5> QED
          BY <5>1, <5>2
      <4>2. g \notin Above(m)[g]
        BY <1>b, AboveIsAnOrder
      <4> QED
        BY <1>b, <4>1, <4>2 DEF Chain
    <3>3. Chain(n, w) = Chain(m, w)
      BY <3>1, <3>2
    <3>4. Chain(n, g) = {g} \cup Chain(n, w)
      BY <1>a, <1>b, ChainIs
    <3>5. Chain(m, g) \cup {w} = {g} \cup Chain(m, w) /\ g \in Chain(m, g)
      BY <3>2 DEF Chain
    <3>6. Moved(g)
      BY <3>3, <3>4, <3>5
    <3> QED
      BY <1>1, <2>1, <3>6
  <2>2. CASE x # g
    <3> DEFINE u == Owner(m, x)
    <3>1. Owner(n, x) = u
      <4>1. n.op[x].parent = m.op[x].parent
        BY <1>a, <2>2 DEF MovesInto, SamePlacesBut
      <4>2. CASE m.op[x].parent = 0
        BY <4>1, <4>2 DEF Owner
      <4>3. CASE m.op[x].parent # 0
        <5>1. m.op[x].parent \in DOMAIN m.block /\ Owner(m, x) = BlockOwner(m, m.op[x].parent)
          BY <1>a, <4>3, OwnerByBlock DEF Forest
        <5>2. Owner(n, x) = BlockOwner(n, m.op[x].parent)
          BY <4>1, <4>3, OwnerByBlock DEF Forest
        <5>3. SameBlockOwners(m, n)
          BY SameNestingOwners DEF MovesInto
        <5> QED
          BY <5>1, <5>2, <5>3 DEF SameBlockOwners
      <4> QED
        BY <4>2, <4>3
    <3>2. CASE u = 0
      <4>1. Chain(m, x) = {x} /\ Chain(n, x) = {x}
        BY <1>a, <3>1, <3>2, ChainIs
      <4>2. Moved(x)
        BY <2>2, <4>1
      <4> QED
        BY <4>2
    <3>3. CASE u # 0
      <4>1. Chain(m, x) = {x} \cup Chain(m, u)
        BY <1>a, <3>3, ChainIs
      <4>2. Chain(n, x) = {x} \cup Chain(n, u)
        BY <3>1, <3>3, ChainIs
      <4>3. Moved(u)
        BY <1>1, <3>1, <3>3
      <4> HIDE DEF u
      <4>4. Moved(x)
        BY <2>2, <4>1, <4>2, <4>3
      <4> QED
        BY <4>4
    <3> QED
      BY <3>2, <3>3
  <2> QED
    BY <2>1, <2>2
<1>2. DOMAIN n.op \subseteq Good
  <2> HIDE DEF Good
  <2> QED
    BY <1>1, OwnerInduction
<1> QED
  BY <1>2, <1>a

\* A move puts nothing into the program.
LEMMA LiveAfterMoving ==
  ASSUME NEW m, NEW n, Forest(m), Forest(n), NEW g, NEW w, MovesInto(m, n, g, w)
  PROVE  Live(n) \subseteq Live(m)
<1> SUFFICES ASSUME NEW o \in Live(n) PROVE o \in Live(m)
  OBVIOUS
<1>1. o \in DOMAIN m.op /\ ~m.op[o].erased
  BY DEF Live, MovesInto, SameNesting
<1>2. PICK a \in Chain(n, o) : n.op[a].parent = BodyBlock
  BY DEF Live, Chain
<1>3. a \in DOMAIN m.op
  <2>1. o \in DOMAIN n.op
    BY DEF Live
  <2>2. Chain(n, o) \subseteq DOMAIN n.op
    BY <2>1, AboveIs DEF Chain
  <2> QED
    BY <1>2, <2>2 DEF MovesInto, SameNesting
<1>4. a # g
  <2>1. ASSUME NEW x \in DOMAIN n.op, n.op[x].parent = BodyBlock PROVE Owner(n, x) = 0
    BY <2>1 DEF Forest, OwnersAgree, BodyIsFree, Owner, BodyBlock
  <2> QED
    BY <1>2, <1>3, <2>1 DEF MovesInto, SameNesting
<1>5. m.op[a].parent = BodyBlock
  BY <1>2, <1>3, <1>4 DEF MovesInto, SamePlacesBut
<1>6. a \in Chain(m, o) \/ (a = w /\ g \in Chain(m, o))
  BY <1>1, <1>2, ChainAfterMoving
<1>7. \E x \in Chain(m, o) : m.op[x].parent = BodyBlock
  BY <1>5, <1>6 DEF MovesInto
<1> QED
  BY <1>1, <1>7 DEF Live, Chain

LEMMA MovingKeepsOrder ==
  ASSUME NEW b, NEW m, NEW n, Forest(m), Forest(n), NEW w, NEW ops, ops \in Seq(Nat), ops # <<>>,
         MovesInto(m, n, ops[1], w), Together(m, w, ops), NEW esc,
         KeptOrder(b, m), OperandsFound(b, m, w, ops, esc), Grouped(b, m, w, ops, esc)
  PROVE  /\ KeptOrder(b, n)
         /\ OperandsFound(b, n, w, Tail(ops), esc)
         /\ Grouped(b, n, w, Tail(ops), esc)
<1> DEFINE g == ops[1]
           rest == Tail(ops)
<1>a. /\ SameNesting(m, n) /\ SamePlacesBut(g, m, n) /\ SameOrderBut(g, m, n)
      /\ g \in DOMAIN m.op /\ w \in DOMAIN m.op /\ w # g /\ w # 0
      /\ Owner(n, g) = w /\ m.op[w].parent = m.op[g].parent
  BY DEF MovesInto
<1>b. /\ 1 \in DOMAIN ops /\ g \in ToSet(ops)
      /\ \A j \in DOMAIN ops : j \in Nat /\ j >= 1
      /\ \A j \in DOMAIN rest : j \in Nat /\ j >= 1 /\ j + 1 \in DOMAIN ops /\ rest[j] = ops[j + 1]
      /\ DOMAIN rest = 1..Len(ops) - 1 /\ Len(ops) \in Nat
  BY DEF ToSet
<1>c. /\ \A j \in DOMAIN rest : rest[j] # g /\ rest[j] # w /\ rest[j] \in DOMAIN m.op
      /\ ToSet(rest) \subseteq ToSet(ops)
  <2>1. ASSUME NEW j \in DOMAIN rest PROVE rest[j] # g /\ rest[j] # w /\ rest[j] \in DOMAIN m.op
    <3>1. j + 1 # 1 /\ j + 1 \in DOMAIN ops /\ rest[j] = ops[j + 1]
      BY <1>b
    <3>2. ops[j + 1] # ops[1]
      BY <1>b, <3>1 DEF Together
    <3>3. Sooner(m, w, ops[j + 1]) /\ ops[j + 1] \in DOMAIN m.op
      BY <3>1 DEF Grouped, Beside
    <3> QED
      BY <3>1, <3>2, <3>3, SoonerIsAnOrder DEF Forest
  <2> QED
    BY <1>b, <2>1 DEF ToSet
<1>d. /\ \A x \in DOMAIN m.op : /\ Chain(m, x) \subseteq Chain(n, x)
                                /\ g \in Chain(m, x) => w \in Chain(n, x)
                                /\ \A y \in Chain(n, x) : y \in Chain(m, x) \/ (y = w /\ g \in Chain(m, x))
      /\ Live(n) \subseteq Live(m) /\ Old(b, n) \subseteq Old(b, m)
      /\ \A x \in Old(b, m) : x \in DOMAIN m.op /\ x \in DOMAIN b.op /\ x # w
  <2>1. \A x \in DOMAIN m.op : Chain(n, x) = Chain(m, x) \cup (IF g \in Chain(m, x) THEN {w} ELSE {})
    BY ChainAfterMoving
  <2>2. Live(n) \subseteq Live(m)
    BY LiveAfterMoving
  <2>3. w \notin DOMAIN b.op
    BY DEF Grouped
  <2> QED
    BY <2>1, <2>2, <2>3 DEF Old, Live
<1>e. /\ n.value = m.value /\ DOMAIN n.op = DOMAIN m.op
      /\ \A x \in DOMAIN m.op : SameHead(m.op[x], n.op[x]) /\ n.op[x].operands = m.op[x].operands
      /\ \A x \in DOMAIN m.op : x # g => n.op[x].parent = m.op[x].parent
      /\ SameBlockOwners(m, n) /\ SameHeads(m, n)
  BY <1>a, SameNestingOwners DEF SameNesting, SamePlacesBut, SameHeads
<1>f. ASSUME NEW x, NEW y, x # g, y # g, Sooner(m, x, y), InOrder(m, m.op[x].parent)
      PROVE  Sooner(n, x, y) /\ InOrder(n, n.op[x].parent)
  <2>1. Sooner(n, x, y)
    BY <1>a, <1>f DEF SameOrderBut
  <2>2. x \in DOMAIN m.op /\ m.op[x].parent \in DOMAIN m.block
    BY <1>f, SoonerIsListed
  <2>3. n.op[x].parent = m.op[x].parent
    BY <1>e, <1>f, <2>2
  <2>4. InOrder(n, m.op[x].parent)
    BY <1>e, <1>f, <2>2, InOrderStays
  <2> QED
    BY <2>1, <2>3, <2>4
<1>g. /\ Sooner(m, w, g)
      /\ \A x : Sooner(m, x, g) => x = w \/ Sooner(m, x, w)
  <2>1. Beside(m, w, ops) /\ 1..1 - 1 = {}
    BY DEF Grouped
  <2> QED
    BY <1>b, <2>1 DEF Beside
<1>h. /\ \A x : ~Sooner(m, x, x)
      /\ \A x, y, z : Sooner(m, x, y) /\ Sooner(m, y, z) => Sooner(m, x, z)
  BY SoonerIsAnOrder DEF Forest
<1> HIDE DEF g, rest
<1>1. ASSUME NEW p, p # g, p # w, NEW o \in DOMAIN m.op, Leads(m, p, o) PROVE Leads(n, p, o)
  <2>1. PICK y \in Chain(m, o) : Sooner(m, p, y) /\ InOrder(m, m.op[p].parent)
    BY <1>1 DEF Leads
  <2>2. CASE y # g
    BY <1>1, <1>d, <1>f, <2>1, <2>2 DEF Leads
  <2>3. CASE y = g
    <3>1. Sooner(m, p, w) /\ w \in Chain(n, o)
      BY <1>1, <1>d, <1>g, <2>1, <2>3
    <3> QED
      BY <1>1, <1>a, <1>f, <2>1, <3>1 DEF Leads
  <2> QED
    BY <2>2, <2>3
<1>2. HeadsKept(b, n)
  BY <1>e DEF KeptOrder, HeadsKept, SameHead
<1>3. EffectsInOrder(b, n)
  <2> SUFFICES ASSUME NEW p \in Old(b, n), NEW o \in Old(b, n), Ahead(b, p, o),
                      ConflictsWith(b.op[p].effect, b.op[o].effect)
               PROVE  Ahead(n, p, o)
    BY DEF EffectsInOrder
  <2>1. p \in Old(b, m) /\ o \in Old(b, m) /\ p \in DOMAIN m.op /\ o \in DOMAIN m.op /\ p # w
        /\ p \in DOMAIN b.op /\ o \in DOMAIN b.op
    BY <1>d
  <2>2. Ahead(m, p, o) /\ ConflictsWith(m.op[p].effect, m.op[o].effect)
    <3>1. Ahead(m, p, o)
      BY <2>1 DEF KeptOrder, EffectsInOrder
    <3>2. m.op[p].effect = b.op[p].effect /\ m.op[o].effect = b.op[o].effect
      BY <2>1 DEF KeptOrder, HeadsKept, SameHead
    <3> QED
      BY <3>1, <3>2
  <2>3. PICK x \in Chain(m, p), y \in Chain(m, o) : Sooner(m, x, y) /\ InOrder(m, m.op[x].parent)
    BY <2>1, <2>2, AheadIs
  <2> DEFINE Behind(u, v) == Sooner(n, u, v) /\ InOrder(n, n.op[u].parent)
  <2>4. \E u \in Chain(n, p), v \in Chain(n, o) : Behind(u, v)
    <3>1. CASE x # g /\ y # g
      <4>1. Behind(x, y)
        BY <1>f, <2>3, <3>1
      <4> QED
        BY <1>d, <2>1, <4>1
    <3>2. CASE x = g
      <4>1. y # g /\ Sooner(m, w, y) /\ InOrder(m, m.op[w].parent)
        BY <1>a, <1>g, <1>h, <2>3, <3>2
      <4>2. Behind(w, y)
        BY <1>a, <1>f, <4>1
      <4> QED
        BY <1>d, <2>1, <3>2, <4>2
    <3>3. CASE y = g /\ x # g
      <4>1. w \in Chain(n, o)
        BY <1>d, <2>1, <3>3
      <4>2. x # w
        <5> SUFFICES ASSUME x = w PROVE FALSE
          OBVIOUS
        <5>1. w \in Above(m)[p] /\ ops[1] \in Chain(m, o)
          BY <2>1, <3>3 DEF Chain, g
        <5>2. ~ConflictsWith(m.op[p].effect, m.op[o].effect)
          BY <1>b, <2>1, <5>1 DEF Grouped, Apart
        <5> QED
          BY <2>2, <5>2
      <4>3. Sooner(m, x, w)
        BY <1>g, <2>3, <3>3, <4>2
      <4>4. Behind(x, w)
        BY <1>a, <1>f, <2>3, <3>3, <4>3
      <4> QED
        BY <1>d, <2>1, <4>1, <4>4
    <3> QED
      BY <3>1, <3>2, <3>3
  <2> QED
    BY <1>e, <2>1, <2>4, AheadIs
<1>4. GuardsInOrder(b, n)
  <2> SUFFICES ASSUME NEW p \in Old(b, n), NEW o \in Old(b, n), Ahead(b, p, o), p \in Guards(b, o)
               PROVE  Leads(n, p, o)
    BY DEF GuardsInOrder
  <2>1. Leads(m, p, o)
    BY <1>d DEF KeptOrder, GuardsInOrder
  <2>2. p # g
    <3>1. NameOf(b, p) = Verify
      BY DEF Guards
    <3>2. NameOf(m, p) = Verify
      BY <1>d, <3>1 DEF KeptOrder, HeadsKept, SameHead, NameOf
    <3> QED
      BY <1>b, <3>2 DEF Grouped, g
  <2> QED
    BY <1>1, <1>d, <2>1, <2>2
<1>5. KeptOrder(b, n)
  BY <1>2, <1>3, <1>4 DEF KeptOrder
<1>6. OperandsFound(b, n, w, rest, esc)
  <2> SUFFICES ASSUME NEW o \in Old(b, n), FindsOperands(b, o), NEW v \in Operands(n, o)
               PROVE  IF v \in ToSet(esc) THEN Passed(n, w, rest, o)
                      ELSE /\ Finds(n, v, o)
                           /\ n.value[v].producer # 0 => n.value[v].producer \notin ToSet(rest) \cup {w}
    BY DEF OperandsFound
  <2>1. o \in Old(b, m) /\ o \in DOMAIN m.op /\ v \in Operands(m, o)
    BY <1>d, <1>e DEF Operands
  <2>2. IF v \in ToSet(esc) THEN Passed(m, w, ops, o)
        ELSE /\ Finds(m, v, o)
             /\ m.value[v].producer # 0 => m.value[v].producer \notin ToSet(ops) \cup {w}
    BY <2>1 DEF OperandsFound
  <2>3. ASSUME Passed(m, w, ops, o) PROVE Passed(n, w, rest, o)
    <3>1. PICK y \in Chain(m, o) : Sooner(m, w, y) /\ y \notin ToSet(ops) /\ InOrder(m, m.op[w].parent)
      BY <2>3 DEF Passed
    <3>2. y # g /\ y \notin ToSet(rest) /\ y \in Chain(n, o)
      BY <1>b, <1>c, <1>d, <2>1, <3>1
    <3>3. Sooner(n, w, y) /\ InOrder(n, n.op[w].parent)
      BY <1>a, <1>f, <3>1, <3>2
    <3> QED
      BY <3>2, <3>3 DEF Passed
  <2>4. ASSUME Finds(m, v, o), m.value[v].producer # 0 => m.value[v].producer \notin ToSet(ops) \cup {w}
        PROVE  /\ Finds(n, v, o)
               /\ n.value[v].producer # 0 => n.value[v].producer \notin ToSet(rest) \cup {w}
    <3>1. v \in DOMAIN m.value
      BY <2>4 DEF Finds
    <3>2. CASE m.value[v].producer = 0
      <4>1. PICK x \in Chain(m, o) : m.op[x].parent # 0 /\ m.op[x].parent = m.value[v].home
        BY <2>4, <3>2 DEF Finds
      <4>2. CASE x # g
        <5>1. x \in DOMAIN m.op /\ x \in Chain(n, o)
          BY <1>d, <2>1, AboveIs DEF Chain
        <5> QED
          BY <1>e, <3>1, <3>2, <4>1, <4>2, <5>1 DEF Finds
      <4>3. CASE x = g
        <5>1. w \in Chain(n, o) /\ n.op[w].parent = m.op[g].parent
          BY <1>a, <1>d, <1>e, <2>1, <4>3
        <5> QED
          BY <1>e, <3>1, <3>2, <4>1, <4>3, <5>1 DEF Finds
      <4> QED
        BY <4>2, <4>3
    <3>3. CASE m.value[v].producer # 0
      <4>1. Leads(m, m.value[v].producer, o)
        BY <2>4, <3>3 DEF Finds
      <4>2. Leads(n, m.value[v].producer, o)
        BY <1>1, <1>b, <2>1, <2>4, <3>3, <4>1
      <4> QED
        BY <1>c, <1>e, <2>4, <3>1, <3>3, <4>2 DEF Finds
    <3> QED
      BY <3>2, <3>3
  <2> QED
    BY <2>2, <2>3, <2>4
<1>7. Beside(n, w, rest)
  <2>1. ASSUME NEW j \in DOMAIN rest PROVE Sooner(n, w, rest[j])
    <3>1. Sooner(m, w, rest[j])
      BY <1>b DEF Grouped, Beside
    <3> QED
      BY <1>a, <1>c, <3>1 DEF SameOrderBut
  <2>2. ASSUME NEW j \in DOMAIN rest, NEW x, Sooner(n, x, rest[j]), x # w
        PROVE  Sooner(n, x, w) \/ \E i \in 1..j - 1 : x = rest[i]
    <3>1. x # g
      <4> SUFFICES ASSUME x = g PROVE FALSE
        OBVIOUS
      <4>1. n.op[g].parent = n.op[rest[j]].parent
        BY <2>2, SoonerIsListed
      <4>2. m.op[rest[j]].parent = m.op[w].parent
        BY <1>b DEF Together
      <4>3. n.op[rest[j]].parent = n.op[w].parent
        BY <1>a, <1>c, <1>e, <4>2
      <4>4. Owner(n, w) = w
        BY <1>a, <4>1, <4>3 DEF Owner
      <4>5. w \in Above(n)[w]
        BY <1>a, <1>e, <4>4, AboveOwner
      <4> QED
        BY <1>a, <1>e, <4>5, AboveIsAnOrder
    <3>2. Sooner(m, x, rest[j])
      BY <1>a, <1>c, <2>2, <3>1 DEF SameOrderBut
    <3>3. Sooner(m, x, w) \/ \E i \in 1..(j + 1) - 1 : x = ops[i]
      BY <1>b, <2>2, <3>2 DEF Grouped, Beside
    <3>4. CASE Sooner(m, x, w)
      BY <1>a, <3>1, <3>4 DEF SameOrderBut
    <3>5. CASE \E i \in 1..(j + 1) - 1 : x = ops[i]
      <4>1. PICK i \in 1..(j + 1) - 1 : x = ops[i]
        BY <3>5
      <4>2. i # 1
        BY <3>1, <4>1 DEF g
      <4> DEFINE k == i - 1
      <4>3. k \in 1..j - 1 /\ k + 1 = i /\ k \in DOMAIN rest
        <5>1. DOMAIN rest = 1..Len(ops) - 1 /\ Len(ops) \in Nat
          BY <1>b
        <5>2. j \in 1..Len(ops) - 1
          BY <5>1
        <5>3. k \in 1..j - 1 /\ k + 1 = i /\ k \in 1..Len(ops) - 1
          BY ONLY <4>1, <4>2, <5>1, <5>2
        <5> QED
          BY ONLY <5>1, <5>3
      <4> HIDE DEF k
      <4>4. x = rest[k]
        BY <1>b, <4>1, <4>3
      <4> QED
        BY <4>3, <4>4
    <3> QED
      BY <3>3, <3>4, <3>5
  <2> QED
    BY <2>1, <2>2 DEF Beside
<1>8. Apart(b, n, w, rest)
  <2> SUFFICES ASSUME NEW j \in DOMAIN rest, NEW o \in Old(b, n), NEW p \in Old(b, n),
                      rest[j] \in Chain(n, o),
                      w \in Above(n)[p] \/ \E i \in 1..j - 1 : rest[i] \in Chain(n, p)
               PROVE  ~ConflictsWith(n.op[p].effect, n.op[o].effect)
    BY DEF Apart
  <2>1. o \in Old(b, m) /\ p \in Old(b, m) /\ o \in DOMAIN m.op /\ p \in DOMAIN m.op /\ p # w
    BY <1>d
  <2>2. j + 1 \in DOMAIN ops /\ ops[j + 1] \in Chain(m, o)
    BY <1>b, <1>c, <1>d, <2>1
  <2>3. w \in Above(m)[p] \/ \E i \in 1..(j + 1) - 1 : ops[i] \in Chain(m, p)
    <3>1. CASE w \in Above(n)[p]
      <4>1. w \in Chain(m, p) \/ g \in Chain(m, p)
        BY <1>d, <2>1, <3>1 DEF Chain
      <4>2. 1 \in 1..(j + 1) - 1
        BY <1>b
      <4> QED
        BY <2>1, <4>1, <4>2 DEF Chain, g
    <3>2. CASE \E i \in 1..j - 1 : rest[i] \in Chain(n, p)
      <4>1. PICK i \in 1..j - 1 : rest[i] \in Chain(n, p)
        BY <3>2
      <4>2. i \in DOMAIN rest /\ i + 1 \in 1..(j + 1) - 1
        <5>1. DOMAIN rest = 1..Len(ops) - 1 /\ Len(ops) \in Nat
          BY <1>b
        <5>2. j \in 1..Len(ops) - 1
          BY <5>1
        <5>3. i \in 1..Len(ops) - 1 /\ i + 1 \in 1..(j + 1) - 1
          BY ONLY i \in 1..j - 1, <5>1, <5>2
        <5> QED
          BY ONLY <5>1, <5>3
      <4>3. ops[i + 1] \in Chain(m, p)
        BY <1>b, <1>c, <1>d, <2>1, <4>1, <4>2
      <4> QED
        BY <4>2, <4>3
    <3> QED
      BY <3>1, <3>2
  <2>4. ~ConflictsWith(m.op[p].effect, m.op[o].effect)
    BY <2>1, <2>2, <2>3 DEF Grouped, Apart
  <2> QED
    BY <1>e, <2>1, <2>4 DEF SameHead
<1>9. Grouped(b, n, w, rest, esc)
  <2>1. w \in DOMAIN n.op /\ w \notin DOMAIN b.op /\ DOMAIN n.op[w].results = DOMAIN esc
    BY <1>a, <1>e DEF Grouped, SameHead
  <2>2. ASSUME NEW j \in DOMAIN rest PROVE rest[j] \in DOMAIN n.op /\ NameOf(n, rest[j]) # Verify
    <3>1. NameOf(m, rest[j]) # Verify
      BY <1>b DEF Grouped
    <3> QED
      BY <1>c, <1>e, <3>1 DEF SameHead, NameOf
  <2> QED
    BY <1>7, <1>8, <2>1, <2>2 DEF Grouped
<1> QED
  BY <1>5, <1>6, <1>9 DEF rest

LEMMA RoutingKeepsOrder ==
  ASSUME NEW b, NEW m, Forest(m), RegionsFilled(m), NEW w, w # 0, IsWrapper(m, w), NEW esc, IsFunction(esc),
         Forest(Routed(m, w, esc)),
         KeptOrder(b, m), OperandsFound(b, m, w, <<>>, esc), Grouped(b, m, w, <<>>, esc)
  PROVE  LET n == Routed(m, w, esc) IN KeptOrder(b, n) /\ AllFound(b, n)
<1> DEFINE n == Routed(m, w, esc)
           to == Outputs(m, w, esc)
<1>1. /\ Grows(m, n)
      /\ \A x, y \in DOMAIN m.op : Sooner(n, x, y) <=> Sooner(m, x, y)
      /\ esc = <<>> => n = m
      /\ esc # <<>> => \A x \in DOMAIN m.op : ~m.op[x].erased =>
                         n.op[x].operands = Redirected(m.op[x].operands, to)
  BY RoutingKeepsArena DEF Forest
<1>2. Forest(n)
  OBVIOUS
<1>3. w \in DOMAIN m.op /\ DOMAIN m.op[w].results = DOMAIN esc
  BY DEF Grouped
<1>4. DOMAIN to = ToSet(esc) /\ \A u \in ToSet(esc) : to[u] \in Results(m, w)
  <2>1. DOMAIN to = ToSet(esc)
    BY DEF Outputs
  <2>2. ASSUME NEW u \in ToSet(esc) PROVE to[u] \in Results(m, w)
    <3> DEFINE i == CHOOSE i \in DOMAIN esc : esc[i] = u
    <3>1. i \in DOMAIN esc
      BY <2>2 DEF ToSet
    <3>2. to[u] = m.op[w].results[i]
      BY <2>2 DEF Outputs
    <3> HIDE DEF i
    <3> QED
      BY <1>3, <3>1, <3>2 DEF Results, ToSet
  <2> QED
    BY <2>1, <2>2
<1> HIDE DEF n, to
<1>5. Stands(m, n)
  <2>1. SameBlockOwners(m, n)
    BY <1>1, GrowingKeepsOwners DEF Forest
  <2> QED
    BY <1>1, <2>1 DEF Stands, SameHeads, Grows
<1>6. KeptOrder(b, n) /\ Old(b, n) = Old(b, m)
  BY <1>2, <1>5, StandingKeepsOrder
<1>7. ToSet(<<>>) = {}
  BY DEF ToSet
<1>8. ASSUME NEW o \in Old(b, m), FindsOperands(b, o), NEW v \in Operands(n, o)
      PROVE  Finds(n, v, o)
  <2>1. o \in DOMAIN m.op /\ ~m.op[o].erased
    BY DEF Old, Live
  <2>2. PICK u \in Operands(m, o) : v = IF u \in ToSet(esc) THEN to[u] ELSE u
    <3>1. CASE esc = <<>>
      BY <1>1, <1>7, <1>8, <3>1
    <3>2. CASE esc # <<>>
      BY <1>1, <1>4, <1>8, <2>1, <3>2, RedirectedOperands DEF Operands
    <3> QED
      BY <3>1, <3>2
  <2>3. IF u \in ToSet(esc) THEN Passed(m, w, <<>>, o) ELSE Finds(m, u, o)
    BY <1>8, <2>2 DEF OperandsFound
  <2>4. Finds(m, v, o)
    <3>1. CASE u \in ToSet(esc)
      <4>1. v \in Results(m, w)
        BY <1>4, <2>2, <3>1
      <4>2. v \in DOMAIN m.value /\ m.value[v].producer = w
        BY <1>3, <4>1 DEF Forest, OwnersAgree, ResultsProduced
      <4>3. Leads(m, w, o)
        BY <2>3, <3>1 DEF Passed, Leads
      <4> QED
        BY <4>2, <4>3 DEF Finds
    <3>2. CASE u \notin ToSet(esc)
      BY <2>2, <2>3, <3>2
    <3> QED
      BY <3>1, <3>2
  <2> QED
    BY <1>2, <1>5, <2>1, <2>4, StandingKeeps
<1>9. AllFound(b, n)
  BY <1>6, <1>8 DEF AllFound
<1> QED
  BY <1>6, <1>9 DEF n

\* Before the first pass nothing is out of order.
LEMMA StartsInOrder ==
  ASSUME NEW b, Forest(b)
  PROVE  KeptOrder(b, b) /\ AllFound(b, b)
<1>1. HeadsKept(b, b)
  BY DEF HeadsKept, SameHead
<1>2. ASSUME NEW p \in Old(b, b), NEW o \in Old(b, b), Ahead(b, p, o), p \in Guards(b, o)
      PROVE  Leads(b, p, o)
  <2>1. p \in DOMAIN b.op /\ o \in DOMAIN b.op
    BY DEF Old
  <2>2. PICK y \in Chain(b, o) : Sooner(b, p, y)
    BY <1>2, <2>1, PrecedingIs DEF Guards
  <2>3. PICK x \in Chain(b, p), z \in Chain(b, o) : Sooner(b, x, z) /\ InOrder(b, b.op[x].parent)
    BY <1>2, <2>1, AheadIs
  <2>4. x = p
    <3> SUFFICES ASSUME x # p PROVE FALSE
      OBVIOUS
    <3>1. b.op[p].parent = b.op[y].parent /\ b.op[p].parent # 0 /\ y \in DOMAIN b.op
      BY <2>2, SoonerIsListed
    <3>2. x \in Above(b)[p] /\ Owner(b, p) = Owner(b, y)
      BY <2>3, <3>1 DEF Chain, Owner
    <3>3. x \in Above(b)[y]
      BY <2>1, <3>1, <3>2, AboveOwner
    <3>4. x \in Chain(b, o)
      BY <2>1, <2>2, <3>3, AboveIsAnOrder DEF Chain
    <3>5. b.op[x].parent = b.op[z].parent
      BY <2>3, SoonerIsListed
    <3>6. x = z
      BY <2>1, <2>3, <3>4, <3>5, OnePerBlock DEF Chain
    <3> QED
      BY <2>3, <3>6, SoonerIsAnOrder DEF Forest
  <2>5. b.op[p].parent = b.op[x].parent
    BY <2>4
  <2> QED
    BY <2>2, <2>3, <2>5 DEF Leads
<1>3. EffectsInOrder(b, b) /\ GuardsInOrder(b, b)
  BY <1>2 DEF EffectsInOrder, GuardsInOrder
<1>4. AllFound(b, b)
  <2> SUFFICES ASSUME NEW o \in Old(b, b), FindsOperands(b, o), NEW v \in Operands(b, o)
               PROVE  Finds(b, v, o)
    BY DEF AllFound
  <2>1. o \in DOMAIN b.op
    BY DEF Old
  <2> QED
    BY <2>1, FindsIs
<1> QED
  BY <1>1, <1>3, <1>4 DEF KeptOrder

-----------------------------------------------------------------------------
(* Every pipeline keeps it.                                                *)

\* The order is kept within the edits of a pass too: w is the wrapper, ops what
\* is yet to be moved into it, esc what it is to give on, and d what is to be
\* erased.
OrderAt(b, m, w, ops, esc, d) ==
  /\ KeptOrder(b, m)
  /\ OperandsFound(b, m, w, ops, esc)
  /\ w # 0 => Grouped(b, m, w, ops, esc)
  /\ w = 0 => ops = <<>> /\ esc = <<>>
  /\ \A x \in d : Unread(m, x)

\* What deduplication remembers is in the block, before where it is.
Remembered(m, blocks, at, calls) ==
  /\ at # 0
  /\ blocks # <<>> =>
       \A k \in DOMAIN calls :
         \E i \in DOMAIN OpsIn(m, Head(blocks)) : i < at /\ OpsIn(m, Head(blocks))[i] = calls[k]

OrderInv ==
  /\ VanishInv
  /\ OrderAt(before, ir, wrapper, group, escaping, dead)
  /\ pass = "deduplication" => Remembered(ir, todo, position, cached)

LEMMA AtRest ==
  ASSUME NEW b, NEW m, NEW w, NEW ops, NEW esc, NEW d,
         OrderAt(b, m, w, ops, esc, d), w = 0
  PROVE  KeptOrder(b, m) /\ AllFound(b, m) /\ ops = <<>> /\ esc = <<>>
BY FoundAtRest DEF OrderAt

LEMMA RestingOrder ==
  ASSUME NEW b, NEW m, KeptOrder(b, m), AllFound(b, m), NEW d, \A x \in d : Unread(m, x)
  PROVE  OrderAt(b, m, 0, <<>>, <<>>, d)
BY FoundAtRest DEF OrderAt

LEMMA NothingRemembered ==
  ASSUME NEW m, NEW blocks, NEW at, at # 0, NEW calls, calls = <<>>
  PROVE  Remembered(m, blocks, at, calls)
<1>1. DOMAIN calls = {}
  OBVIOUS
<1> QED
  BY <1>1 DEF Remembered

LEMMA OrderInvStart ==
  ASSUME Untouched, wrapper = 0, escaping = <<>>, cached = <<>>, position = 1
  PROVE  OrderInv
<1>1. Forest(ir)
  BY NestedForest DEF Untouched
<1>2. OrderAt(ir, ir, 0, <<>>, <<>>, {})
  BY <1>1, StartsInOrder, RestingOrder
<1>3. OrderAt(before, ir, wrapper, group, escaping, dead)
  BY <1>2 DEF Untouched
<1> QED
  BY <1>3, VanishInvStart, NothingRemembered DEF OrderInv

LEMMA OrderInvStartAfter ==
  (Untouched /\ wrapper = 0 /\ escaping = <<>> /\ cached = <<>> /\ position = 1)' => OrderInv'
BY OrderInvStart, PTL

LEMMA NewIsPositive ==
  ASSUME NEW m, Arena(m)
  PROVE  NewOp(m) # 0
BY DEF Arena, IsModule, NewOp

LEMMA OrderInvStep == OrderInv /\ [PassesNext]_passesVars => OrderInv'
<1> SUFFICES ASSUME OrderInv, [PassesNext]_passesVars PROVE OrderInv'
  OBVIOUS
<1>a. VanishInv /\ VanishInv' /\ NestingInv /\ NestingInv' /\ ProgressInv /\ ArenaInv
  <2>1. VanishInv /\ VanishInv'
    BY VanishInvStep DEF OrderInv
  <2> QED
    BY <2>1 DEF VanishInv, NestingInv, ProgressInv
<1>b. Forest(ir) /\ Forest(ir') /\ Arena(ir) /\ OwnersAgree(ir) /\ RegionsFilled(ir)
  BY <1>a, NestedForest, NestedForestAfter DEF NestingInv, ProgressInv, ArenaInv
<1>c. before' = before
  BY DEF PassesNext, Deduplicate, Eliminate, Parallelize, LeaveBlock, Skip, Remember,
     ReuseEarlier, EndDeduplication, Scan, EraseOne, EndElimination, Wrap, Move, Route,
     Converge, HitCap, AnotherRound, passesVars
<1>o. OrderAt(before, ir, wrapper, group, escaping, dead)
  BY DEF OrderInv
<1>d. ASSUME OrderAt(before, ir', wrapper', group', escaping', dead'),
             pass' = "deduplication" => Remembered(ir', todo', position', cached')
      PROVE  OrderInv'
  <2>1. OrderAt(before, ir, wrapper, group, escaping, dead)'
    BY <1>c, <1>d
  <2>2. (pass = "deduplication" => Remembered(ir, todo, position, cached))'
    BY <1>d
  <2> QED
    BY <1>a, <2>1, <2>2 DEF OrderInv
<1>e. wrapper = 0 => KeptOrder(before, ir) /\ AllFound(before, ir) /\ group = <<>> /\ escaping = <<>>
  BY <1>o, AtRest
<1>f. pass # "parallelization" => wrapper = 0
  BY <1>a DEF ArenaInv
<1>1. CASE ir' = ir /\ dead' = {} /\ group' = <<>> /\ wrapper' = 0 /\ escaping' = <<>>
           /\ cached' = <<>> /\ position' = 1 /\ wrapper = 0
  <2>1. OrderAt(before, ir', wrapper', group', escaping', dead')
    BY <1>1, <1>e, RestingOrder
  <2> QED
    BY <1>1, <1>d, <2>1, NothingRemembered
<1>2. CASE UNCHANGED passesVars
  BY <1>2, <1>d, <1>o DEF passesVars, local, OrderInv
<1>3. ASSUME Examining
      PROVE  /\ pass = "deduplication" /\ todo # <<>> /\ Remembered(ir, todo, position, cached)
             /\ position \in DOMAIN Here /\ position \in Nat /\ wrapper = 0
             /\ Head(todo) \in DOMAIN ir.block /\ Here \in Seq(Nat)
             /\ \A i \in DOMAIN Here : i \in Nat
  <2>1. /\ pass = "deduplication" /\ todo # <<>> /\ Remembered(ir, todo, position, cached)
        /\ position =< Len(Here) /\ position \in Nat /\ position # 0 /\ wrapper = 0
    BY <1>3, <1>a, <1>f DEF Examining, Deduplicating, OrderInv, ProgressInv, Remembered
  <2>2. Head(todo) \in DOMAIN ir.block
    BY <1>a, <2>1 DEF ProgressInv
  <2>3. Here \in Seq(Nat)
    BY <1>b, <2>2, ListedOperations DEF Here, OpsIn
  <2>4. (\A i \in DOMAIN Here : i \in Nat) /\ position \in DOMAIN Here
    BY <2>1, <2>3
  <2> QED
    BY <2>1, <2>2, <2>3, <2>4
<1>4. CASE Skip
  <2>1. /\ Examining /\ ir' = ir /\ wrapper' = wrapper /\ group' = group /\ escaping' = escaping
        /\ dead' = dead /\ todo' = todo /\ cached' = cached /\ position' = position + 1
    BY <1>4 DEF Skip
  <2>2. Remembered(ir', todo', position', cached')
    <3> SUFFICES ASSUME NEW k \in DOMAIN cached
                 PROVE  \E i \in DOMAIN Here : i < position + 1 /\ Here[i] = cached[k]
      BY <1>3, <2>1 DEF Remembered, Here
    <3>1. PICK i \in DOMAIN Here : i < position /\ Here[i] = cached[k]
      BY <1>3, <2>1 DEF Remembered, Here
    <3>2. i \in Nat
      BY <1>3, <2>1
    <3> QED
      BY <1>3, <2>1, <3>1, <3>2
  <2> QED
    BY <1>d, <1>o, <2>1, <2>2
<1>5. CASE Remember
  <2>1. /\ Examining /\ ir' = ir /\ wrapper' = wrapper /\ group' = group /\ escaping' = escaping
        /\ dead' = dead /\ todo' = todo /\ position' = position + 1
    BY <1>5 DEF Remember
  <2>2. cached' = [k \in DOMAIN cached \cup {CacheKey(ir, Current)} |->
                     IF k = CacheKey(ir, Current) THEN Current ELSE cached[k]]
    BY <1>5 DEF Remember
  <2>4. \A k \in DOMAIN cached' : cached'[k] = Current \/ (k \in DOMAIN cached /\ cached'[k] = cached[k])
    BY <2>2
  <2>3. Remembered(ir', todo', position', cached')
    <3> SUFFICES ASSUME NEW k \in DOMAIN cached'
                 PROVE  \E i \in DOMAIN Here : i < position + 1 /\ Here[i] = cached'[k]
      BY <1>3, <2>1 DEF Remembered, Here
    <3>1. CASE cached'[k] = Current
      BY <1>3, <2>1, <3>1 DEF Current
    <3>2. CASE k \in DOMAIN cached /\ cached'[k] = cached[k]
      <4>1. PICK i \in DOMAIN Here : i < position /\ Here[i] = cached[k]
        BY <1>3, <2>1, <3>2 DEF Remembered, Here
      <4>2. i \in Nat
        BY <1>3, <2>1
      <4> QED
        BY <1>3, <2>1, <3>2, <4>1, <4>2
    <3> QED
      BY <2>4, <3>1, <3>2
  <2> QED
    BY <1>d, <1>o, <2>1, <2>3
<1>6. CASE ReuseEarlier
  <2> DEFINE key == CacheKey(ir, Current)
             earlier == cached[key]
  <2>1. /\ Examining /\ key \in DOMAIN cached /\ ir' = UsesReplaced(ir, Reuse(ir, earlier, Current))
        /\ wrapper' = wrapper /\ group' = group /\ escaping' = escaping
        /\ dead' = dead /\ todo' = todo /\ cached' = cached /\ position' = position + 1
    BY <1>6 DEF ReuseEarlier, Hit
  <2> HIDE DEF key
  <2>2. PICK i \in DOMAIN Here : i < position /\ Here[i] = earlier
    BY <1>3, <2>1 DEF Remembered, Here
  <2>3. Sooner(ir, earlier, Current)
    <3>1. SoonerIn(Here, earlier, Current)
      BY <1>3, <2>1, <2>2 DEF SoonerIn, Current
    <3> QED
      BY <1>3, <2>1, <3>1 DEF Sooner, Here, OpsIn
  <2> HIDE DEF earlier
  <2>4. Forest(UsesReplaced(ir, Reuse(ir, earlier, Current)))
    BY <1>b, <2>1
  <2>5. KeptOrder(before, ir') /\ AllFound(before, ir')
    BY <1>3, <1>b, <1>e, <2>1, <2>3, <2>4, ReusingKeepsOrder
  <2>6. dead' = {} /\ group = <<>> /\ escaping = <<>> /\ wrapper = 0
    BY <1>3, <1>a, <1>e, <2>1 DEF VanishInv
  <2>7. OrderAt(before, ir', wrapper', group', escaping', dead')
    BY <2>1, <2>5, <2>6, RestingOrder
  <2>8. ir'.block = ir.block
    BY <1>b, <2>1, RedirectingKeepsArena
  <2>9. Remembered(ir', todo', position', cached')
    <3> SUFFICES ASSUME NEW k \in DOMAIN cached
                 PROVE  \E j \in DOMAIN Here : j < position + 1 /\ Here[j] = cached[k]
      BY <1>3, <2>1, <2>8 DEF Remembered, Here, OpsIn
    <3>1. PICK j \in DOMAIN Here : j < position /\ Here[j] = cached[k]
      BY <1>3, <2>1 DEF Remembered, Here
    <3> QED
      BY <1>3, <2>1, <3>1
  <2> QED
    BY <1>d, <2>7, <2>9
<1>7. CASE Scan
  <2>1. /\ ir' = ir /\ dead' = Dead(ir) /\ group' = group /\ wrapper' = wrapper
        /\ escaping' = escaping /\ pass' = "elimination" /\ wrapper = 0
    BY <1>7, <1>f DEF Scan, passVars
  <2>2. \A x \in dead' : Unread(ir', x)
    BY <2>1 DEF Dead, IsDead
  <2>3. OrderAt(before, ir', wrapper', group', escaping', dead')
    BY <1>e, <2>1, <2>2, RestingOrder
  <2> QED
    BY <1>d, <2>1, <2>3
<1>8. CASE EraseOne
  <2>1. PICK o \in dead : ir' = Erased(ir, o) /\ dead' = dead \ {o}
    BY <1>8 DEF EraseOne
  <2>2. /\ pass' = "elimination" /\ group' = group /\ wrapper' = wrapper
        /\ escaping' = escaping /\ wrapper = 0
    BY <1>8, <1>f DEF EraseOne
  <2>3. dead \subseteq DOMAIN ir.op /\ \A x \in dead : Unread(ir, x)
    BY <1>a, <1>o DEF ArenaInv, OrderAt
  <2>4. Forest(Erased(ir, o))
    BY <1>b, <2>1
  <2>5. KeptOrder(before, ir') /\ AllFound(before, ir')
    BY <1>b, <1>e, <2>1, <2>2, <2>3, <2>4, ErasingKeepsOrder
  <2>6. \A x \in dead' : Unread(ir', x)
    BY <1>b, <2>1, <2>3, <2>4, ErasingKeepsUnread
  <2>7. OrderAt(before, ir', wrapper', group', escaping', dead')
    BY <1>e, <2>2, <2>5, <2>6, RestingOrder
  <2> QED
    BY <1>d, <2>2, <2>7
<1>9. CASE Wrap
  <2>a. /\ wrapper = 0 /\ wrapper' = NewOp(ir) /\ dead' = dead /\ pass' = "parallelization" /\ pass = pass'
        /\ \E c \in DOMAIN ir.block : \E r \in Runs(ir, c) :
             /\ ir' = WithParallel(ir, c, Group(ir, c, r))
             /\ group' = Group(ir, c, r) /\ escaping' = Escaping(ir, Group(ir, c, r))
    BY <1>9 DEF Wrap
  <2>b. PICK c \in DOMAIN ir.block : \E r \in Runs(ir, c) :
             /\ ir' = WithParallel(ir, c, Group(ir, c, r))
             /\ group' = Group(ir, c, r) /\ escaping' = Escaping(ir, Group(ir, c, r))
    BY <2>a
  <2>1. PICK r \in Runs(ir, c) :
             /\ ir' = WithParallel(ir, c, Group(ir, c, r))
             /\ group' = Group(ir, c, r) /\ escaping' = Escaping(ir, Group(ir, c, r))
    BY <2>b
  <2>2. Forest(WithParallel(ir, c, Group(ir, c, r)))
    BY <1>b, <2>1
  <2>3. KeptOrder(before, ir) /\ AllFound(before, ir)
    BY <1>e, <2>a
  <2>4. /\ KeptOrder(before, ir')
        /\ OperandsFound(before, ir', wrapper', group', escaping')
        /\ Grouped(before, ir', wrapper', group', escaping')
    BY <1>b, <2>a, <2>1, <2>2, <2>3, WrappingKeepsOrder
  <2>5. wrapper' # 0
    BY <1>b, <2>a, NewIsPositive
  <2>6. dead' = {}
    BY <1>a, <2>a DEF VanishInv
  <2>7. OrderAt(before, ir', wrapper', group', escaping', dead')
    BY <2>4, <2>5, <2>6 DEF OrderAt
  <2> QED
    BY <1>d, <2>a, <2>7
<1>10. CASE Move
  <2> DEFINE o == Head(group)
             c == InnerBlock(ir, wrapper)
  <2>1. /\ group # <<>> /\ ir' = MovedToEnd(ir, o, c) /\ group' = Tail(group)
        /\ wrapper' = wrapper /\ escaping' = escaping /\ dead' = dead /\ pass' = pass
    BY <1>10 DEF Move, passVars
  <2>2. /\ wrapper # 0 /\ IsWrapper(ir, wrapper) /\ group \in Seq(Nat)
        /\ pass = "parallelization"
    BY <1>a, <2>1 DEF ArenaInv
  <2>3. MovesInto(ir, ir', group[1], wrapper)
    BY <1>10, <1>a, MoveMovesInto
  <2>4. Together(ir, wrapper, group)
    BY <1>a DEF VanishInv
  <2>5. /\ KeptOrder(before, ir)
        /\ OperandsFound(before, ir, wrapper, group, escaping)
        /\ Grouped(before, ir, wrapper, group, escaping)
    BY <1>o, <2>2 DEF OrderAt
  <2> HIDE DEF o, c
  <2>6. /\ KeptOrder(before, ir')
        /\ OperandsFound(before, ir', wrapper, Tail(group), escaping)
        /\ Grouped(before, ir', wrapper, Tail(group), escaping)
    BY <1>b, <2>1, <2>2, <2>3, <2>4, <2>5, MovingKeepsOrder
  <2>7. dead' = {}
    BY <1>a, <2>1, <2>2 DEF VanishInv
  <2>8. OrderAt(before, ir', wrapper', group', escaping', dead')
    BY <2>1, <2>2, <2>6, <2>7 DEF OrderAt
  <2> QED
    BY <1>d, <2>1, <2>2, <2>8
<1>11. CASE Route
  <2>1. /\ group = <<>> /\ wrapper # 0 /\ ir' = Routed(ir, wrapper, escaping)
        /\ wrapper' = 0 /\ escaping' = <<>> /\ group' = group /\ dead' = dead /\ pass' = pass
    BY <1>11 DEF Route, passVars
  <2>2. IsWrapper(ir, wrapper) /\ pass = "parallelization" /\ IsFunction(escaping)
    BY <1>a, <2>1 DEF ArenaInv
  <2>3. Forest(Routed(ir, wrapper, escaping))
    BY <1>b, <2>1
  <2>4. /\ KeptOrder(before, ir)
        /\ OperandsFound(before, ir, wrapper, <<>>, escaping)
        /\ Grouped(before, ir, wrapper, <<>>, escaping)
    BY <1>o, <2>1 DEF OrderAt
  <2>5. KeptOrder(before, ir') /\ AllFound(before, ir')
    BY <1>b, <2>1, <2>2, <2>3, <2>4, RoutingKeepsOrder
  <2>6. dead' = {}
    BY <1>a, <2>1, <2>2 DEF VanishInv
  <2>7. OrderAt(before, ir', wrapper', group', escaping', dead')
    BY <2>1, <2>5, <2>6, RestingOrder
  <2> QED
    BY <1>d, <2>1, <2>2, <2>7
<1>12. LeaveBlock \/ EndDeduplication \/ EndElimination \/ Converge \/ HitCap \/ AnotherRound
       => /\ ir' = ir /\ dead' = {} /\ group' = <<>> /\ wrapper' = 0 /\ escaping' = <<>>
          /\ cached' = <<>> /\ position' = 1 /\ wrapper = 0
  <2>1. RoundEnds => wrapper = 0
    BY <1>a DEF RoundEnds, ProgressInv
  <2> QED
    BY <1>f, <2>1 DEF LeaveBlock, Deduplicating, EndDeduplication, EndElimination, Converge, HitCap,
       AnotherRound, Start
<1> QED
  BY <1>1, <1>2, <1>4, <1>5, <1>6, <1>7, <1>8, <1>9, <1>10, <1>11, <1>12
     DEF PassesNext, Deduplicate, Eliminate, Parallelize

\* At the end of the pipeline the wrappers are closed, and the order is kept.
LEMMA OrderInvHolds == OrderInv => OrderKept
<1> SUFFICES ASSUME OrderInv, pass = "done", NEW o \in Survivors
             PROVE  /\ \A p \in Survivors :
                         Ahead(before, p, o) =>
                           /\ ConflictsWith(before.op[p].effect, before.op[o].effect) => Ahead(ir, p, o)
                           /\ p \in Guards(before, o) => p \in Guards(ir, o) /\ Ahead(ir, p, o)
                    /\ FindsOperands(before, o) => FindsOperands(ir, o)
  BY DEF OrderKept
<1>1. Forest(ir) /\ wrapper = 0
  BY NestedForest DEF OrderInv, VanishInv, NestingInv, ProgressInv, ArenaInv
<1>2. KeptOrder(before, ir) /\ AllFound(before, ir)
  BY <1>1, AtRest DEF OrderInv
<1>3. o \in Old(before, ir) /\ o \in DOMAIN ir.op
  BY DEF Survivors, Old, Live
<1>4. ASSUME NEW p \in Survivors, Ahead(before, p, o)
      PROVE  /\ ConflictsWith(before.op[p].effect, before.op[o].effect) => Ahead(ir, p, o)
             /\ p \in Guards(before, o) => p \in Guards(ir, o) /\ Ahead(ir, p, o)
  <2>1. p \in Old(before, ir) /\ p \in DOMAIN ir.op /\ p \in DOMAIN before.op
    BY DEF Survivors, Old, Live
  <2>2. ConflictsWith(before.op[p].effect, before.op[o].effect) => Ahead(ir, p, o)
    BY <1>2, <1>3, <1>4, <2>1 DEF KeptOrder, EffectsInOrder
  <2>3. ASSUME p \in Guards(before, o) PROVE p \in Guards(ir, o) /\ Ahead(ir, p, o)
    <3>1. PICK y \in Chain(ir, o) : Sooner(ir, p, y) /\ InOrder(ir, ir.op[p].parent)
      BY <1>2, <1>3, <1>4, <2>1, <2>3 DEF KeptOrder, GuardsInOrder, Leads
    <3>2. p \in Preceding(ir, o)
      BY <1>1, <1>3, <3>1, PrecedingIs
    <3>3. NameOf(ir, p) = Verify
      BY <1>2, <2>1, <2>3 DEF Guards, NameOf, KeptOrder, HeadsKept, SameHead
    <3>4. Ahead(ir, p, o)
      BY <1>1, <1>3, <2>1, <3>1, AheadIs DEF Chain
    <3> QED
      BY <3>2, <3>3, <3>4 DEF Guards
  <2> QED
    BY <2>2, <2>3
<1>5. FindsOperands(before, o) => FindsOperands(ir, o)
  BY <1>1, <1>2, <1>3, FindsIs DEF AllFound
<1> QED
  BY <1>4, <1>5
=============================================================================
