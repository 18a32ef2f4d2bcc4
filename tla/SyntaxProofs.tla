---------------------------- MODULE SyntaxProofs ----------------------------
(***************************************************************************)
(* What the parser makes of a text, whatever the text: the arenas agree,   *)
(* what holds an operation comes before it, a region has a block, and the  *)
(* names an operation may use are those of values that dominate it.        *)
(***************************************************************************)
EXTENDS Syntax, OrderProofs

-----------------------------------------------------------------------------
(* Modules that only grow.                                                 *)

\* v is of a block around o, or the result of what comes before o there.
Sighted(m, v, o) ==
  /\ v \in DOMAIN m.value
  /\ IF m.value[v].producer = 0
     THEN \E x \in Chain(m, o) : m.op[x].parent # 0 /\ m.op[x].parent = m.value[v].home
     ELSE \E y \in Chain(m, o) : Sooner(m, m.value[v].producer, y)
AllSighted(m) == \A o \in DOMAIN m.op : \A v \in Operands(m, o) : Sighted(m, v, o)

LEMMA SightedDominates ==
  ASSUME NEW m, Forest(m), NEW o \in DOMAIN m.op, NEW v, Sighted(m, v, o)
  PROVE  Dominates(m, v, o)
<1> DEFINE p == m.value[v].producer
<1>1. CASE p = 0
  <2>1. PICK x \in Chain(m, o) : m.op[x].parent # 0 /\ m.op[x].parent = m.value[v].home
    BY <1>1 DEF Sighted
  <2> DEFINE f == [block |-> m.op[x].parent, position |-> Position(m, x)]
  <2>2. f \in EnclosingChain(m, o) /\ f.block = m.value[v].home
    BY <2>1 DEF EnclosingChain, Chain
  <2> HIDE DEF f
  <2> QED
    BY <1>1, <2>2 DEF Dominates
<1>2. CASE p # 0
  <2>1. PICK y \in Chain(m, o) : Sooner(m, p, y)
    BY <1>2 DEF Sighted
  <2>2. m.op[p].parent # 0 /\ m.op[y].parent = m.op[p].parent /\ Position(m, p) < Position(m, y)
    BY <2>1, SoonerIs DEF Forest
  <2> DEFINE f == [block |-> m.op[y].parent, position |-> Position(m, y)]
  <2>3. f \in EnclosingChain(m, o) /\ f.block = m.op[p].parent /\ Position(m, p) < f.position
    BY <2>1, <2>2 DEF EnclosingChain, Chain
  <2> HIDE DEF f
  <2> QED
    BY <1>2, <2>2, <2>3 DEF Dominates
<1> QED
  BY <1>1, <1>2

LEMMA FirstForest ==
  ASSUME NEW m, Arena(m), OwnersAgree(m), OuterFirst(m)
  PROVE  Forest(m)
BY OuterFirstIsNested DEF Forest, Nested

\* What is in m stays where it is.
Extends(m, n) ==
  /\ \A x \in DOMAIN m.op : /\ x \in DOMAIN n.op
                            /\ n.op[x].parent = m.op[x].parent
                            /\ n.op[x].operands = m.op[x].operands
                            /\ n.op[x].results = m.op[x].results
  /\ \A b \in DOMAIN m.block : b \in DOMAIN n.block /\ n.block[b].region = m.block[b].region
  /\ \A r \in DOMAIN m.region :
       /\ r \in DOMAIN n.region
       /\ n.region[r].owner = m.region[r].owner
       /\ Len(m.region[r].blocks) > 1 => Len(n.region[r].blocks) > 1
  /\ \A x, y \in DOMAIN m.op : Sooner(m, x, y) => Sooner(n, x, y)
  /\ \A v \in DOMAIN m.value : /\ v \in DOMAIN n.value
                               /\ n.value[v].producer = m.value[v].producer
                               /\ n.value[v].home = m.value[v].home

LEMMA ExtendsOn ==
  ASSUME NEW l, NEW m, NEW n, Extends(l, m), Extends(m, n)
  PROVE  Extends(l, n)
<1>1. \A x \in DOMAIN l.op : /\ x \in DOMAIN n.op
                             /\ n.op[x].parent = l.op[x].parent
                             /\ n.op[x].operands = l.op[x].operands
                             /\ n.op[x].results = l.op[x].results
  BY DEF Extends
<1>2. \A b \in DOMAIN l.block : b \in DOMAIN n.block /\ n.block[b].region = l.block[b].region
  BY DEF Extends
<1>3. \A r \in DOMAIN l.region :
        /\ r \in DOMAIN n.region
        /\ n.region[r].owner = l.region[r].owner
        /\ Len(l.region[r].blocks) > 1 => Len(n.region[r].blocks) > 1
  BY Zenon DEF Extends
<1>4. \A x, y \in DOMAIN l.op : Sooner(l, x, y) => Sooner(n, x, y)
  BY DEF Extends
<1>5. \A v \in DOMAIN l.value : /\ v \in DOMAIN n.value
                                /\ n.value[v].producer = l.value[v].producer
                                /\ n.value[v].home = l.value[v].home
  BY DEF Extends
<1> QED
  BY <1>1, <1>2, <1>3, <1>4, <1>5 DEF Extends

LEMMA OwnersStay ==
  ASSUME NEW m, NEW n, OwnersAgree(m), Arena(m), Extends(m, n)
  PROVE  /\ SameBlockOwners(m, n)
         /\ \A o \in DOMAIN m.op : Owner(n, o) = Owner(m, o)
<1>1. \A b \in DOMAIN m.block : m.block[b].region \in DOMAIN m.region
  BY DEF OwnersAgree, BlocksPlaced
<1>2. SameBlockOwners(m, n)
  BY <1>1 DEF SameBlockOwners, BlockOwner, Extends
<1>3. \A o \in DOMAIN m.op : m.op[o].parent # 0 => m.op[o].parent \in DOMAIN m.block
  BY DEF Arena, ArenaAgrees, NamedWhereListed
<1>4. \A o \in DOMAIN m.op : Owner(n, o) = Owner(m, o)
  BY <1>1, <1>3 DEF Owner, Extends
<1> QED
  BY <1>2, <1>4

LEMMA OuterStillFirst ==
  ASSUME NEW m, NEW n, OwnersAgree(m), Arena(m), OuterFirst(m), Extends(m, n),
         \A o \in DOMAIN n.op : o \in DOMAIN m.op \/ Owner(n, o) < o
  PROVE  OuterFirst(n)
BY OwnersStay DEF OuterFirst

\* What an operation can see it sees for good.
LEMMA StillSighted ==
  ASSUME NEW m, NEW n, Forest(m), Forest(n), Extends(m, n)
  PROVE  /\ \A o \in DOMAIN m.op : Chain(n, o) = Chain(m, o)
         /\ \A o \in DOMAIN m.op : \A v : Sighted(m, v, o) => Sighted(n, v, o)
<1>1. \A x \in DOMAIN m.op : x \in DOMAIN n.op /\ Owner(n, x) = Owner(m, x)
  BY OwnersStay DEF Forest, Extends
<1>2. \A o \in DOMAIN m.op : Chain(n, o) = Chain(m, o)
  BY <1>1, SameAbove DEF Chain
<1>3. ASSUME NEW o \in DOMAIN m.op, NEW v, Sighted(m, v, o) PROVE Sighted(n, v, o)
  <2>1. Chain(m, o) \subseteq DOMAIN m.op
    BY AboveIs DEF Chain
  <2>2. /\ v \in DOMAIN m.value /\ v \in DOMAIN n.value
        /\ n.value[v].producer = m.value[v].producer /\ n.value[v].home = m.value[v].home
    BY <1>3 DEF Sighted, Extends
  <2>3. CASE m.value[v].producer = 0
    BY <1>2, <1>3, <2>1, <2>2, <2>3 DEF Sighted, Extends
  <2>4. CASE m.value[v].producer # 0
    <3>1. PICK y \in Chain(m, o) : Sooner(m, m.value[v].producer, y)
      BY <1>3, <2>4 DEF Sighted
    <3>2. m.value[v].producer \in DOMAIN m.op /\ y \in DOMAIN m.op
      BY <3>1, SoonerIs DEF Forest
    <3>3. Sooner(n, m.value[v].producer, y)
      BY <3>1, <3>2 DEF Extends
    <3> QED
      BY <1>2, <2>2, <2>4, <3>1, <3>3 DEF Sighted
  <2> QED
    BY <2>3, <2>4
<1> QED
  BY <1>2, <1>3

-----------------------------------------------------------------------------
(* The edits of the parser.                                                *)

\* n is m with more.
Grown(m, n) == Arena(n) /\ OwnersAgree(n) /\ OuterFirst(n) /\ Extends(m, n)
Base(m) == Arena(m) /\ OwnersAgree(m) /\ OuterFirst(m)

LEMMA NewIndices ==
  ASSUME NEW m, Arena(m)
  PROVE  /\ NewOp(m) \in Nat /\ NewOp(m) # 0 /\ \A o \in DOMAIN m.op : o \in Nat /\ o # 0 /\ o < NewOp(m)
         /\ NewBlock(m) \in Nat /\ NewBlock(m) # 0 /\ \A b \in DOMAIN m.block : b \in Nat /\ b # 0
         /\ \A r \in DOMAIN m.region : r \in Nat /\ r # 0
BY ArenaShape DEF NewOp, NewBlock, Arena

\* A new operation at the end of a block.
MadeLast(m, n, b, o) ==
  /\ DOMAIN n.op = DOMAIN m.op \cup {o} /\ o \notin DOMAIN m.op
  /\ n.op[o].parent = b
  /\ n.region = m.region
  /\ \A x : ~Sooner(n, o, x)
  /\ \A x : Sooner(n, x, o) <=> x \in DOMAIN m.op /\ m.op[x].parent = b
  /\ \A x, y \in DOMAIN m.op : Sooner(n, x, y) <=> Sooner(m, x, y)

LEMMA AppendingIsLast ==
  ASSUME NEW m, Arena(m), NEW o \in DOMAIN m.op, m.op[o].parent = 0, ~m.op[o].erased,
         NEW b \in DOMAIN m.block
  PROVE  LET n == Appended(m, b, o) IN
         /\ \A x : ~Sooner(n, o, x)
         /\ \A x : Sooner(n, x, o) <=> x \in DOMAIN m.op /\ m.op[x].parent = b
<1> DEFINE n == Appended(m, b, o)
           s == m.block[b].ops
           t == n.block[b].ops
<1>1. /\ Arena(n) /\ SameNesting(m, n) /\ n.op[o].parent = b /\ SamePlacesBut(o, m, n)
  BY AppendingKeepsArena
<1>2. t = Append(s, o) /\ s \in Seq(Nat) /\ b # 0
  <2>1. s \in Seq(Nat) /\ b # 0
    BY ListedOperations
  <2>2. DOMAIN m.block[b] = {"args", "ops", "region"} /\ "block" \in DOMAIN m
    BY DEF Arena, IsModule, IsBlock
  <2>3. t = Append(s, o)
    BY <2>2 DEF Appended
  <2> QED
    BY <2>1, <2>3
<1>3. /\ DOMAIN t = 1..Len(s) + 1 /\ Len(s) \in Nat /\ DOMAIN s = 1..Len(s)
      /\ t[Len(s) + 1] = o /\ \A i \in DOMAIN s : t[i] = s[i]
  BY <1>2, Pushed
<1> HIDE DEF n, s, t
<1>4. o \notin ToSet(s) /\ o \in ToSet(t)
  <2>1. \A x \in ToSet(m.block[b].ops) : m.op[x].parent = b
    BY ListedOperations
  <2>2. Len(s) + 1 \in DOMAIN t
    BY <1>3
  <2> QED
    BY <1>2, <1>3, <2>1, <2>2 DEF s, ToSet
<1>5. Position(n, o) = Len(s) + 1
  <2>1. Len(s) + 1 \in DOMAIN n.block[b].ops /\ n.block[b].ops[Len(s) + 1] = o /\ b \in DOMAIN n.block
    BY <1>1, <1>3 DEF t, SameNesting
  <2> QED
    BY <1>1, <2>1, AtItsPosition
<1>6. ASSUME NEW x PROVE ~Sooner(n, o, x)
  <2> SUFFICES ASSUME Sooner(n, o, x) PROVE FALSE
    OBVIOUS
  <2>1. x \in DOMAIN n.op /\ n.op[x].parent = b /\ Len(s) + 1 < Position(n, x)
    BY <1>1, <1>5, SoonerIs
  <2>2. Position(n, x) \in DOMAIN t
    BY <1>1, <1>2, <2>1, ListedAt DEF t
  <2> QED
    BY <1>3, <2>1, <2>2
<1>7. ASSUME NEW x, Sooner(n, x, o) PROVE x \in DOMAIN m.op /\ m.op[x].parent = b
  <2>1. x \in DOMAIN n.op /\ n.op[x].parent = b /\ x # o
    BY <1>1, <1>7, SoonerIs, SoonerIsAnOrder
  <2> QED
    BY <1>1, <2>1 DEF SameNesting, SamePlacesBut
<1>8. ASSUME NEW x \in DOMAIN m.op, m.op[x].parent = b PROVE Sooner(n, x, o)
  <2>1. x # o
    BY <1>2, <1>8
  <2>2. x \in DOMAIN n.op /\ n.op[x].parent = b
    BY <1>1, <1>8, <2>1 DEF SameNesting, SamePlacesBut
  <2>3. Position(n, x) \in DOMAIN t /\ t[Position(n, x)] = x
    BY <1>1, <1>2, <2>2, ListedAt DEF t
  <2>4. Position(n, x) # Len(s) + 1
    BY <1>3, <2>1, <2>3
  <2>5. Position(n, x) < Position(n, o)
    BY <1>3, <1>5, <2>3, <2>4
  <2>6. o \in DOMAIN n.op
    BY <1>1 DEF SameNesting
  <2> QED
    BY <1>1, <1>2, <2>2, <2>5, <2>6, SoonerIs
<1> QED
  BY <1>6, <1>7, <1>8 DEF n

\* create_op and append_to_block.
LEMMA MakingGrows ==
  ASSUME NEW m, Base(m), NEW head, IsHead(head), NEW outs, Len(outs) \in Nat,
         NEW b \in DOMAIN m.block
  PROVE  LET n == Appended(WithOp(m, head, outs), b, NewOp(m)) IN
         /\ Grown(m, n)
         /\ MadeLast(m, n, b, NewOp(m))
         /\ n.op[NewOp(m)].operands = head.operands
         /\ DOMAIN n.op[NewOp(m)].results = 1..Len(outs)
<1> DEFINE o == NewOp(m)
           made == WithOp(m, head, outs)
           n == Appended(made, b, o)
<1> USE DEF Base
<1>1. /\ Arena(made) /\ o \in DOMAIN made.op /\ o \notin DOMAIN m.op
      /\ DOMAIN m.op \subseteq DOMAIN made.op
      /\ \A x \in DOMAIN m.op : made.op[x] = m.op[x]
      /\ \A x \in DOMAIN made.op : x \in DOMAIN m.op \/ x = o
      /\ made.op[o].parent = 0 /\ ~made.op[o].erased
      /\ made.op[o].operands = head.operands
      /\ made.block = m.block /\ made.region = m.region
      /\ DOMAIN m.value \subseteq DOMAIN made.value
      /\ \A v \in DOMAIN m.value : made.value[v] = m.value[v]
      /\ DOMAIN made.op[o].results = 1..Len(outs)
  BY CreatingKeepsArena
<1>2. OwnersAgree(made)
  BY CreatingKeepsOwners
<1>a. o # 0
  BY NewIndices
<1> HIDE DEF made, o
<1>3. /\ Arena(n) /\ SameNesting(made, n) /\ n.op[o].parent = b
      /\ SamePlacesBut(o, made, n) /\ SameOrderBut(o, made, n)
  BY <1>1, AppendingKeepsArena
<1>4. /\ \A x : ~Sooner(n, o, x)
      /\ \A x : Sooner(n, x, o) <=> x \in DOMAIN made.op /\ made.op[x].parent = b
  BY <1>1, AppendingIsLast
<1> HIDE DEF n
<1>5. OwnersAgree(n)
  <2>1. SameOwners(made, n)
    BY <1>3 DEF SameNesting, SameOwners, SameHead
  <2> QED
    BY <1>2, <2>1, KeepingOwners
<1>6. \A x, y : Sooner(made, x, y) <=> Sooner(m, x, y)
  BY <1>1 DEF Sooner
<1>7. \A x, y \in DOMAIN m.op : Sooner(n, x, y) <=> Sooner(m, x, y)
  <2>1. \A x \in DOMAIN m.op : x # o
    BY <1>1
  <2> QED
    BY <1>3, <1>6, <2>1 DEF SameOrderBut
<1>8. \A x \in DOMAIN m.op : /\ x \in DOMAIN n.op
                             /\ n.op[x].parent = m.op[x].parent
                             /\ n.op[x].operands = m.op[x].operands
                             /\ n.op[x].results = m.op[x].results
  <2> SUFFICES ASSUME NEW x \in DOMAIN m.op
               PROVE  /\ x \in DOMAIN n.op
                      /\ n.op[x].parent = m.op[x].parent
                      /\ n.op[x].operands = m.op[x].operands
                      /\ n.op[x].results = m.op[x].results
    OBVIOUS
  <2>1. x # o /\ x \in DOMAIN made.op /\ made.op[x] = m.op[x]
    BY <1>1
  <2> QED
    BY <1>3, <2>1 DEF SameNesting, SamePlacesBut, SameHead
<1>9. Extends(m, n)
  <2>1. \A x \in DOMAIN m.block : x \in DOMAIN n.block /\ n.block[x].region = m.block[x].region
    BY <1>1, <1>3 DEF SameNesting
  <2>2. n.region = m.region /\ n.value = made.value
    BY <1>1, <1>3 DEF SameNesting
  <2>3. \A v \in DOMAIN m.value : v \in DOMAIN n.value /\ n.value[v] = m.value[v]
    BY <1>1, <2>2
  <2> QED
    BY <1>7, <1>8, <2>1, <2>2, <2>3 DEF Extends
<1>10. MadeLast(m, n, b, o)
  <2>1. DOMAIN n.op = DOMAIN m.op \cup {o}
    BY <1>1, <1>3 DEF SameNesting
  <2>2. \A x : Sooner(n, x, o) <=> x \in DOMAIN m.op /\ m.op[x].parent = b
    <3>1. b # 0
      BY NewIndices
    <3> QED
      BY <1>1, <1>4, <3>1
  <2> QED
    BY <1>1, <1>3, <1>4, <1>7, <2>1, <2>2 DEF MadeLast, SameNesting
<1>11. OuterFirst(n)
  <2>1. Owner(n, o) < o
    <3>1. Owner(n, o) = n.region[n.block[b].region].owner
      BY <1>3, NewIndices DEF Owner
    <3>2. Owner(n, o) = m.region[m.block[b].region].owner
      BY <1>1, <1>3, <3>1 DEF SameNesting
    <3>3. m.block[b].region \in DOMAIN m.region
      BY DEF OwnersAgree, BlocksPlaced
    <3>4. m.region[m.block[b].region].owner # 0 => m.region[m.block[b].region].owner \in DOMAIN m.op
      BY <3>3 DEF OwnersAgree, RegionsClaimed
    <3>5. o \in Nat /\ o # 0 /\ \A x \in DOMAIN m.op : x < o
      BY NewIndices DEF o
    <3> QED
      BY <3>2, <3>4, <3>5
  <2>2. \A x \in DOMAIN n.op : x \in DOMAIN m.op \/ x = o
    BY <1>10 DEF MadeLast
  <2> QED
    BY <1>9, <2>1, <2>2, OuterStillFirst
<1>12. n.op[o].operands = head.operands /\ DOMAIN n.op[o].results = 1..Len(outs)
  BY <1>1, <1>3 DEF SameNesting, SameHead
<1> QED
  BY <1>3, <1>5, <1>9, <1>10, <1>11, <1>12 DEF n, made, o, Grown

\* create_op_region.
LEMMA OpeningGrows ==
  ASSUME NEW m, Base(m), NEW o \in DOMAIN m.op
  PROVE  LET n == WithRegion(m, o)
             r == Len(m.region) + 1 IN
         /\ Grown(m, n)
         /\ DOMAIN n.op = DOMAIN m.op
         /\ DOMAIN n.region = DOMAIN m.region \cup {r} /\ r \notin DOMAIN m.region
         /\ n.region[r].blocks = <<>> /\ n.region[r].owner = o
         /\ \A x \in DOMAIN m.region : n.region[x] = m.region[x]
         /\ \A x, y : Sooner(n, x, y) <=> Sooner(m, x, y)
<1> DEFINE n == WithRegion(m, o)
           r == Len(m.region) + 1
<1> USE DEF Base
<1>1. Len(n.region) = r
  <2>1. n.region = Append(m.region, [blocks |-> <<>>, owner |-> o])
    BY DEF WithRegion, Arena, IsModule
  <2>2. m.region \in Seq(ToSet(m.region))
    BY DEF Arena, IsModule
  <2> HIDE DEF n
  <2> QED
    BY <2>1, <2>2
<1>2. /\ Arena(n)
      /\ DOMAIN n.op = DOMAIN m.op
      /\ \A x \in DOMAIN m.op : /\ n.op[x].parent = m.op[x].parent
                                /\ n.op[x].operands = m.op[x].operands
                                /\ SameHead(m.op[x], n.op[x])
      /\ Len(n.region) \in DOMAIN n.region /\ Len(n.region) \notin DOMAIN m.region
      /\ \A x \in DOMAIN n.region : x \in DOMAIN m.region \/ x = Len(n.region)
      /\ DOMAIN m.region \subseteq DOMAIN n.region
      /\ \A x \in DOMAIN m.region : n.region[x] = m.region[x]
      /\ n.region[Len(n.region)].blocks = <<>> /\ n.region[Len(n.region)].owner = o
      /\ n.block = m.block /\ n.value = m.value
  BY AddingRegionKeepsArena
<1>3. OwnersAgree(n)
  BY AddingRegionKeepsOwners
<1> HIDE DEF n, r
<1>4. \A x, y : Sooner(n, x, y) <=> Sooner(m, x, y)
  BY <1>2 DEF Sooner
<1>5. Extends(m, n)
  BY <1>2, <1>4 DEF Extends, SameHead
<1>6. OuterFirst(n)
  BY <1>2, <1>5, OuterStillFirst
<1>7. DOMAIN n.region = DOMAIN m.region \cup {r}
  BY <1>1, <1>2
<1> QED
  BY <1>1, <1>2, <1>3, <1>4, <1>5, <1>6, <1>7 DEF Grown, n, r

\* create_block.
LEMMA BlockingGrows ==
  ASSUME NEW m, Base(m), NEW r \in DOMAIN m.region
  PROVE  LET n == WithBlock(m, r)
             b == NewBlock(m) IN
         /\ Grown(m, n)
         /\ n.op = m.op /\ n.value = m.value
         /\ DOMAIN n.region = DOMAIN m.region
         /\ n.region[r].blocks # <<>>
         /\ m.region[r].blocks # <<>> => Len(n.region[r].blocks) > 1
         /\ \A x \in DOMAIN m.region : x # r => n.region[x].blocks = m.region[x].blocks
         /\ b \in DOMAIN n.block /\ b # 0 /\ n.block[b].region = r /\ b \notin DOMAIN m.block
         /\ DOMAIN n.block = DOMAIN m.block \cup {b}
         /\ n.block[b].args = <<>>
         /\ \A x, y : Sooner(n, x, y) <=> Sooner(m, x, y)
<1> DEFINE n == WithBlock(m, r)
           b == NewBlock(m)
<1> USE DEF Base
<1>1. /\ Arena(n)
      /\ n.op = m.op /\ n.value = m.value
      /\ DOMAIN n.region = DOMAIN m.region
      /\ \A x \in DOMAIN m.region : /\ n.region[x].owner = m.region[x].owner
                                    /\ x # r => n.region[x].blocks = m.region[x].blocks
      /\ n.region[r].blocks = Append(m.region[r].blocks, b)
      /\ b \in DOMAIN n.block /\ b \notin DOMAIN m.block
      /\ DOMAIN m.block \subseteq DOMAIN n.block
      /\ \A x \in DOMAIN n.block : x \in DOMAIN m.block \/ x = b
      /\ \A x \in DOMAIN m.block : n.block[x] = m.block[x]
      /\ n.block[b].region = r /\ DOMAIN n.block[b].ops = {}
  BY AddingBlockKeepsArena
<1>2. OwnersAgree(n)
  BY AddingBlockKeepsOwners
<1>3. n.block[b].args = <<>>
  <2>1. n.block = Append(m.block, [args |-> <<>>, ops |-> <<>>, region |-> r])
    BY DEF WithBlock, Arena, IsModule
  <2>2. m.block \in Seq(ToSet(m.block))
    BY DEF Arena, IsModule
  <2>3. n.block[Len(m.block) + 1] = [args |-> <<>>, ops |-> <<>>, region |-> r]
    BY <2>1, <2>2, Pushed
  <2> QED
    BY <2>3 DEF NewBlock
<1>4. b # 0
  BY NewIndices
<1>a. b \in Nat
  BY NewIndices
<1> HIDE DEF n, b
<1>5. /\ n.region[r].blocks # <<>>
      /\ m.region[r].blocks # <<>> => Len(n.region[r].blocks) > 1
      /\ Len(m.region[r].blocks) > 1 => Len(n.region[r].blocks) > 1
  <2> DEFINE s == m.region[r].blocks
  <2>1. s \in Seq(Nat)
    BY DEF Arena, IsModule, IsRegion
  <2> HIDE DEF s
  <2>2. s # <<>> => Len(s) > 0
    BY <2>1
  <2>3. Append(s, b) # <<>> /\ Len(Append(s, b)) = Len(s) + 1 /\ Len(s) \in Nat
    <3>1. Append(s, b) \in Seq(Nat) /\ Len(Append(s, b)) = Len(s) + 1 /\ Len(s) \in Nat
      BY <1>a, <2>1, AppendProperties
    <3> QED
      BY <3>1
  <2> QED
    BY <1>1, <2>2, <2>3 DEF s
<1>6. \A x, y : Sooner(n, x, y) <=> Sooner(m, x, y)
  <2>1. \A x, y : ~SoonerIn(n.block[b].ops, x, y)
    BY <1>1 DEF SoonerIn
  <2> QED
    BY <1>1, <2>1 DEF Sooner
<1>7. Extends(m, n)
  <2>1. \A x \in DOMAIN m.region :
          /\ x \in DOMAIN n.region
          /\ n.region[x].owner = m.region[x].owner
          /\ Len(m.region[x].blocks) > 1 => Len(n.region[x].blocks) > 1
    BY <1>1, <1>5
  <2> QED
    BY <1>1, <1>6, <2>1 DEF Extends
<1>8. OuterFirst(n)
  BY <1>1, <1>7, OuterStillFirst
<1>9. DOMAIN n.block = DOMAIN m.block \cup {b}
  BY <1>1
<1> QED
  BY <1>1, <1>2, <1>3, <1>4, <1>5, <1>6, <1>7, <1>8, <1>9 DEF Grown, n, b

\* add_block_arg, for each argument of a label.
LEMMA ArguingGrows ==
  ASSUME NEW m, Base(m), NEW b \in DOMAIN m.block, m.block[b].args = <<>>,
         NEW args, args \in Seq(ToSet(args)), NEW provenance
  PROVE  LET n == WithArgs(m, b, args, provenance) IN
         /\ Grown(m, n)
         /\ n.op = m.op /\ n.region = m.region
         /\ DOMAIN n.block = DOMAIN m.block
         /\ \A x \in DOMAIN m.block : n.block[x].region = m.block[x].region
         /\ DOMAIN n.block[b].args = DOMAIN args
         /\ \A i \in DOMAIN args :
              LET v == n.block[b].args[i] IN
              v \in DOMAIN n.value /\ n.value[v].producer = 0 /\ n.value[v].home = b
         /\ \A x, y : Sooner(n, x, y) <=> Sooner(m, x, y)
<1> DEFINE n == WithArgs(m, b, args, provenance)
           K == Len(args)
           L == Len(m.value)
           new == [i \in 1..K |-> [ name |-> args[i].name, type |-> args[i].type,
                                    source |-> provenance.source, confidence |-> provenance.confidence,
                                    producer |-> 0, home |-> b ]]
           ids == [i \in 1..K |-> L + i]
<1> USE DEF Base
<1>1. K \in Nat /\ DOMAIN args = 1..K /\ L \in Nat /\ DOMAIN m.value = 1..L
  BY ArenaShape DEF Arena
<1>2. /\ DOMAIN n = DOMAIN m /\ n.op = m.op /\ n.region = m.region
      /\ n.value = m.value \o new
      /\ n.block = [m.block EXCEPT ![b] = [@ EXCEPT !.args = <<>> \o ids]]
  BY DEF WithArgs, Arena, IsModule
<1>3. new \in Seq(ToSet(new)) /\ Len(new) = K
  <2>1. new \in [1..K -> ToSet(new)]
    BY DEF ToSet
  <2> HIDE DEF new
  <2> QED
    BY <1>1, <2>1
<1>4. ids \in Seq(Nat) /\ Len(ids) = K
  <2>1. ids \in [1..K -> Nat]
    BY <1>1
  <2> HIDE DEF ids
  <2> QED
    BY <1>1, <2>1
<1>5. \A i \in 1..K : /\ IsValue(new[i]) /\ new[i].producer = 0 /\ new[i].home = b
                      /\ ids[i] = L + i
  BY NewIndices DEF IsValue
<1>a. IsFunction(n)
  BY DEF WithArgs, IsFunction
<1> HIDE DEF n, K, L, new, ids
<1>6. /\ n.value \in Seq(ToSet(n.value))
      /\ DOMAIN n.value = 1..L + K
      /\ \A v \in DOMAIN m.value : n.value[v] = m.value[v]
      /\ \A i \in L + 1..L + K : n.value[i] = new[i - L]
  <2>1. m.value \in Seq(ToSet(m.value))
    BY DEF Arena, IsModule
  <2>2. IsJoined(m.value \o new, m.value, new)
    BY <1>3, <2>1, PushedAll
  <2> QED
    BY <1>2, <1>3, <2>2 DEF IsJoined, L
<1>7. DOMAIN (<<>> \o ids) = 1..K /\ \A i \in 1..K : (<<>> \o ids)[i] = L + i
  <2> DEFINE none == <<>>
  <2>1. none \in Seq(Nat) /\ Len(none) = 0
    OBVIOUS
  <2> HIDE DEF none
  <2>2. IsJoined(none \o ids, none, ids)
    BY <1>4, <2>1, PushedAll
  <2>3. DOMAIN (none \o ids) = 1..K
    BY <1>1, <1>4, <2>1, <2>2 DEF IsJoined
  <2>4. \A i \in 1..K : (none \o ids)[i] = ids[i]
    BY <1>1, <1>4, <2>1, <2>2 DEF IsJoined
  <2> QED
    BY <1>5, <2>3, <2>4 DEF none
<1>8. /\ DOMAIN n.block = DOMAIN m.block
      /\ \A x \in DOMAIN m.block : /\ n.block[x].ops = m.block[x].ops
                                   /\ n.block[x].region = m.block[x].region
                                   /\ IsBlock(n.block[x])
      /\ n.block[b].args = <<>> \o ids
  <2>1. \A x \in DOMAIN m.block : IsBlock(m.block[x])
    BY DEF Arena, IsModule
  <2> QED
    BY <1>2, <2>1 DEF IsBlock
<1>9. \A i \in 1..K : LET v == n.block[b].args[i] IN
        v \in DOMAIN n.value /\ n.value[v].producer = 0 /\ n.value[v].home = b
  <2> SUFFICES ASSUME NEW i \in 1..K
               PROVE  L + i \in DOMAIN n.value /\ n.value[L + i].producer = 0 /\ n.value[L + i].home = b
    BY <1>7, <1>8
  <2>1. L + i \in L + 1..L + K /\ (L + i) - L = i /\ L + i \in 1..L + K
    BY <1>1
  <2> QED
    BY <1>5, <1>6, <2>1
<1>10. \A v \in DOMAIN n.value : v \in DOMAIN m.value \/ (n.value[v].producer = 0 /\ n.value[v].home = b /\ IsValue(n.value[v]))
  <2> SUFFICES ASSUME NEW v \in DOMAIN n.value, v \notin DOMAIN m.value
               PROVE  n.value[v].producer = 0 /\ n.value[v].home = b /\ IsValue(n.value[v])
    OBVIOUS
  <2>1. v \in L + 1..L + K /\ v - L \in 1..K
    BY <1>1, <1>6
  <2> QED
    BY <1>5, <1>6, <2>1
<1>11. IsModule(n)
  <2>1. /\ DOMAIN m = {"op", "value", "block", "region", "capabilities", "approved"}
        /\ m.op \in Seq(ToSet(m.op)) /\ \A o \in DOMAIN m.op : IsOp(m.op[o])
        /\ \A v \in DOMAIN m.value : IsValue(m.value[v])
        /\ m.region \in Seq(ToSet(m.region)) /\ \A r \in DOMAIN m.region : IsRegion(m.region[r])
        /\ DOMAIN m.block = 1..Len(m.block) /\ Len(m.block) \in Nat
    BY ArenaShape DEF Arena, IsModule
  <2>2. \A v \in DOMAIN n.value : IsValue(n.value[v])
    BY <1>6, <1>10, <2>1
  <2>3. n.block \in Seq(ToSet(n.block))
    <3>1. n.block \in [1..Len(m.block) -> ToSet(n.block)]
      BY <1>2, <1>8, <2>1 DEF ToSet
    <3>2. Len(m.block) \in Nat
      BY <2>1
    <3> QED
      BY ONLY <3>1, <3>2, ListedFunction
  <2>4. \A x \in DOMAIN n.block : IsBlock(n.block[x])
    BY <1>8
  <2> QED
    BY <1>a, <1>2, <1>6, <2>1, <2>2, <2>3, <2>4 DEF IsModule
<1>12. ArenaAgrees(n)
  <2>1. ListedWhereNamed(n)
    BY <1>2, <1>8 DEF Arena, ArenaAgrees, ListedWhereNamed
  <2>2. NamedWhereListed(n)
    BY <1>2, <1>8 DEF Arena, ArenaAgrees, NamedWhereListed
  <2>3. ListedOnce(n)
    BY <1>2, <1>8 DEF Arena, ArenaAgrees, ListedOnce
  <2>4. ErasedIsNowhere(n)
    BY <1>2, <1>8 DEF Arena, ArenaAgrees, ErasedIsNowhere
  <2>5. RegionsOwned(n)
    BY <1>2, <1>8 DEF Arena, ArenaAgrees, RegionsOwned
  <2> QED
    BY <2>1, <2>2, <2>3, <2>4, <2>5 DEF ArenaAgrees
<1>13. \A v \in DOMAIN m.value : v \in DOMAIN n.value
  BY <1>1, <1>6
<1>14. OwnersAgree(n)
  <2>1. BlocksPlaced(n)
    BY <1>2, <1>8 DEF OwnersAgree, BlocksPlaced
  <2>2. RegionsClaimed(n)
    BY <1>2 DEF OwnersAgree, RegionsClaimed
  <2>3. ASSUME NEW o \in DOMAIN n.op, NEW v \in Results(n, o)
        PROVE  v \in DOMAIN n.value /\ n.value[v].producer = o
    <3>1. v \in DOMAIN m.value /\ m.value[v].producer = o
      BY <1>2, <2>3 DEF OwnersAgree, ResultsProduced, Results
    <3> QED
      BY <1>6, <1>13, <3>1
  <2>4. ASSUME NEW v \in DOMAIN n.value PROVE HasProducer(n, v)
    <3>1. CASE v \in DOMAIN m.value
      <4>1. HasProducer(m, v) /\ n.value[v] = m.value[v]
        BY <1>6, <3>1 DEF OwnersAgree, ResultsProduced
      <4> QED
        BY <1>2, <1>8, <4>1 DEF HasProducer, Results
    <3>2. CASE v \notin DOMAIN m.value
      BY <1>8, <1>10, <3>2 DEF HasProducer
    <3> QED
      BY <3>1, <3>2
  <2>5. BodyIsFree(n)
    BY <1>2, <1>8 DEF OwnersAgree, BodyIsFree
  <2> QED
    BY <2>1, <2>2, <2>3, <2>4, <2>5 DEF OwnersAgree, ResultsProduced
<1>15. \A x, y : Sooner(n, x, y) <=> Sooner(m, x, y)
  BY <1>8 DEF Sooner
<1>16. Extends(m, n)
  BY <1>2, <1>6, <1>8, <1>13, <1>15 DEF Extends
<1>17. Arena(n)
  BY <1>11, <1>12 DEF Arena
<1>18. OuterFirst(n)
  BY <1>2, <1>16, OuterStillFirst
<1>19. DOMAIN n.block[b].args = DOMAIN args
  BY <1>1, <1>7, <1>8
<1> QED
  BY <1>1, <1>2, <1>8, <1>9, <1>14, <1>15, <1>16, <1>17, <1>18, <1>19 DEF Grown, n

\* The clauses that follow the regions of an operation.
LEMMA CompletingGrows ==
  ASSUME NEW m, Base(m), NEW o \in DOMAIN m.op, NEW item, IntsAreInts(item.attrs)
  PROVE  LET n == Completed(m, o, item) IN
         /\ Grown(m, n)
         /\ DOMAIN n.op = DOMAIN m.op
         /\ n.region = m.region /\ n.block = m.block
         /\ \A x, y : Sooner(n, x, y) <=> Sooner(m, x, y)
<1> DEFINE n == Completed(m, o, item)
<1> USE DEF Base
<1>1. /\ DOMAIN n = DOMAIN m /\ n.block = m.block /\ n.region = m.region
      /\ n.op = [m.op EXCEPT ![o] = [@ EXCEPT !.attrs = item.attrs, !.effect = item.effect]]
  BY DEF Completed, Arena, IsModule
<1>2. /\ DOMAIN n.value = DOMAIN m.value
      /\ \A v \in DOMAIN m.value : /\ DOMAIN n.value[v] = DOMAIN m.value[v]
                                   /\ n.value[v].producer = m.value[v].producer
                                   /\ n.value[v].home = m.value[v].home
  <2>1. \A v \in DOMAIN m.value : DOMAIN m.value[v] = {"name", "type", "source", "confidence", "producer", "home"}
    BY DEF Arena, IsModule, IsValue
  <2>2. "value" \in DOMAIN m
    BY DEF Arena, IsModule
  <2> QED
    BY <2>1, <2>2 DEF Completed, CompletedValue
<1>a. IsFunction(n)
  BY DEF Completed, IsFunction
<1> HIDE DEF n
<1>3. /\ DOMAIN n.op = DOMAIN m.op
      /\ \A x \in DOMAIN m.op : /\ IsOp(n.op[x])
                                /\ n.op[x].parent = m.op[x].parent
                                /\ n.op[x].erased = m.op[x].erased
                                /\ n.op[x].regions = m.op[x].regions
                                /\ n.op[x].operands = m.op[x].operands
                                /\ n.op[x].results = m.op[x].results
  <2>1. \A x \in DOMAIN m.op : IsOp(m.op[x])
    BY DEF Arena, IsModule
  <2> SUFFICES ASSUME NEW x \in DOMAIN m.op
               PROVE  /\ IsOp(n.op[x])
                      /\ n.op[x].parent = m.op[x].parent
                      /\ n.op[x].erased = m.op[x].erased
                      /\ n.op[x].regions = m.op[x].regions
                      /\ n.op[x].operands = m.op[x].operands
                      /\ n.op[x].results = m.op[x].results
    BY <1>1
  <2>2. n.op[x] = IF x = o THEN [m.op[x] EXCEPT !.attrs = item.attrs, !.effect = item.effect]
                  ELSE m.op[x]
    BY <1>1
  <2>3. IsFunction(n.op[x])
    <3>1. IsFunction([m.op[x] EXCEPT !.attrs = item.attrs, !.effect = item.effect])
      BY DEF IsFunction
    <3>2. IsFunction(m.op[x])
      BY <2>1 DEF IsOp
    <3> QED
      BY <2>2, <3>1, <3>2
  <2> QED
    BY <2>1, <2>2, <2>3 DEF IsOp
<1>4. IsModule(n)
  <2>1. /\ DOMAIN m = {"op", "value", "block", "region", "capabilities", "approved"}
        /\ \A v \in DOMAIN m.value : IsValue(m.value[v])
        /\ m.block \in Seq(ToSet(m.block)) /\ \A b \in DOMAIN m.block : IsBlock(m.block[b])
        /\ m.region \in Seq(ToSet(m.region)) /\ \A r \in DOMAIN m.region : IsRegion(m.region[r])
        /\ DOMAIN m.op = 1..Len(m.op) /\ Len(m.op) \in Nat
        /\ DOMAIN m.value = 1..Len(m.value) /\ Len(m.value) \in Nat
    BY ArenaShape DEF Arena, IsModule
  <2>2. \A v \in DOMAIN n.value : IsValue(n.value[v])
    BY <1>2, <2>1 DEF IsValue
  <2>3. n.op \in Seq(ToSet(n.op))
    <3>1. n.op \in [1..Len(m.op) -> ToSet(n.op)]
      BY <1>1, <1>3, <2>1 DEF ToSet
    <3>2. Len(m.op) \in Nat
      BY <2>1
    <3> QED
      BY ONLY <3>1, <3>2, ListedFunction
  <2>4. n.value \in Seq(ToSet(n.value))
    <3>a. n.value = [v \in DOMAIN n.value |-> n.value[v]]
      BY DEF n, Completed, Arena, IsModule
    <3>1. n.value \in [1..Len(m.value) -> ToSet(n.value)]
      BY <1>2, <2>1, <3>a DEF ToSet
    <3>2. Len(m.value) \in Nat
      BY <2>1
    <3> QED
      BY ONLY <3>1, <3>2, ListedFunction
  <2>5. \A x \in DOMAIN n.op : IsOp(n.op[x])
    BY <1>3
  <2> QED
    BY <1>a, <1>1, <2>1, <2>2, <2>3, <2>4, <2>5 DEF IsModule
<1>5. ArenaAgrees(n)
  BY <1>1, <1>3, SamePlaces DEF Arena
<1>6. OwnersAgree(n)
  <2>1. SameOwners(m, n)
    BY <1>1, <1>2, <1>3 DEF SameOwners
  <2> QED
    BY <2>1, KeepingOwners
<1>7. \A x, y : Sooner(n, x, y) <=> Sooner(m, x, y)
  BY <1>1 DEF Sooner
<1>8. Extends(m, n)
  BY <1>1, <1>2, <1>3, <1>7 DEF Extends
<1>9. Arena(n)
  BY <1>4, <1>5 DEF Arena
<1>10. OuterFirst(n)
  BY <1>3, <1>8, OuterStillFirst
<1> QED
  BY <1>1, <1>3, <1>6, <1>7, <1>8, <1>9, <1>10 DEF Grown, n

-----------------------------------------------------------------------------
(* The operations being read, and the names visible so far.                *)

\* A frame is of an operation of the module, and within a region of it.
IsFrame(m, f) ==
  /\ DOMAIN f = {"op", "names", "inside", "region", "block", "labelled"}
  /\ f.inside \in BOOLEAN
  /\ f.op # 0 => /\ f.op \in DOMAIN m.op
                 /\ f.names \in Seq(ToSet(f.names))
                 /\ DOMAIN f.names = DOMAIN m.op[f.op].results
  /\ f.inside => /\ f.region \in DOMAIN m.region /\ m.region[f.region].owner = f.op
                 /\ f.block = 0 => m.region[f.region].blocks = <<>>
                 /\ f.block # 0 => f.block \in DOMAIN m.block /\ m.block[f.block].region = f.region
  /\ ~f.inside => f.block = 0

\* The operation of frame g is the last so far of the block that frame f is in.
Holds(m, f, g) ==
  /\ f.inside /\ f.block # 0
  /\ g.op # 0 /\ g.op \in DOMAIN m.op /\ m.op[g.op].parent = f.block
  /\ \A x : ~Sooner(m, g.op, x)

Stacked(m, frames) ==
  /\ frames \in Seq(ToSet(frames)) /\ Len(frames) > 0
  /\ frames[1] = BodyFrame
  /\ \A i \in DOMAIN frames : IsFrame(m, frames[i])
  /\ \A i \in 1..Len(frames) - 1 : Holds(m, frames[i], frames[i + 1])

\* Only the region being read may have no block yet.
Filling(m, frames) ==
  LET last == frames[Len(frames)] IN
  \A r \in DOMAIN m.region :
    m.region[r].blocks = <<>> => last.inside /\ last.block = 0 /\ last.region = r

Scoped(frames, scopes) ==
  /\ scopes \in Seq(ToSet(scopes))
  /\ Len(scopes) = IF frames[Len(frames)].inside THEN Len(frames) ELSE Len(frames) - 1

\* v is an argument of the block that frame i is in, or the result of an
\* operation that has been read there.
InView(m, frames, i, v) ==
  /\ v \in DOMAIN m.value /\ frames[i].block # 0
  /\ IF m.value[v].producer = 0 THEN m.value[v].home = frames[i].block
     ELSE /\ m.value[v].producer \in DOMAIN m.op
          /\ m.op[m.value[v].producer].parent = frames[i].block
          /\ i < Len(frames) => m.value[v].producer # frames[i + 1].op

Visible(scope) == {scope[n] : n \in DOMAIN scope}
Seen(m, frames, scopes) ==
  \A i \in DOMAIN scopes : \A v \in Visible(scopes[i]) : InView(m, frames, i, v)

\* No region has had a second block.
Single(m) == \A r \in DOMAIN m.region : ~(Len(m.region[r].blocks) > 1)

ReadInv(m, frames, scopes) ==
  /\ Base(m)
  /\ Stacked(m, frames) /\ Filling(m, frames) /\ Scoped(frames, scopes)
  /\ Single(m) => AllSighted(m) /\ Seen(m, frames, scopes)

LEMMA SingleBefore ==
  ASSUME NEW m, NEW n, Extends(m, n), Single(n)
  PROVE  Single(m)
BY DEF Extends, Single

\* A sequence with another last entry, or without its last entry.
LEMMA Replaced ==
  ASSUME NEW s, s \in Seq(ToSet(s)), Len(s) > 0, NEW e
  PROVE  LET t == [s EXCEPT ![Len(s)] = e] IN
         /\ t \in Seq(ToSet(t)) /\ Len(t) = Len(s) /\ DOMAIN t = DOMAIN s
         /\ DOMAIN s = 1..Len(s) /\ Len(s) \in Nat
         /\ t[Len(s)] = e /\ \A i \in 1..Len(s) - 1 : t[i] = s[i]
         /\ Last(t) = e
<1> DEFINE t == [s EXCEPT ![Len(s)] = e]
           k == Len(s)
<1>1. DOMAIN s = 1..k /\ k \in Nat /\ k > 0
  OBVIOUS
<1>2. DOMAIN t = 1..k /\ t[k] = e /\ \A i \in 1..k - 1 : t[i] = s[i]
  BY <1>1
<1>3. t \in [1..k -> ToSet(t)]
  BY <1>2 DEF ToSet
<1> HIDE DEF t, k
<1>4. t \in Seq(ToSet(t))
  BY ONLY <1>1, <1>3, ListedFunction
<1>5. Len(t) = k
  BY <1>1, <1>2, <1>4
<1>6. Last(t) = e
  BY <1>2, <1>5 DEF Last
<1> QED
  BY <1>1, <1>2, <1>4, <1>5, <1>6 DEF t, k

LEMMA Cut ==
  ASSUME NEW s, s \in Seq(ToSet(s)), Len(s) > 0
  PROVE  LET t == Front(s) IN
         /\ t \in Seq(ToSet(t)) /\ Len(t) = Len(s) - 1 /\ DOMAIN t = 1..Len(s) - 1
         /\ DOMAIN s = 1..Len(s) /\ Len(s) \in Nat
         /\ \A i \in 1..Len(s) - 1 : t[i] = s[i]
<1> DEFINE k == Len(s)
           t == Front(s)
<1>1. DOMAIN s = 1..k /\ k \in Nat /\ k > 0
  OBVIOUS
<1>2. t = SubSeq(s, 1, k - 1)
  BY DEF Front
<1>3. t = [i \in 1..k - 1 |-> s[i]]
  <2>1. 1 \in 1..k + 1 /\ k - 1 \in 0..k
    BY <1>1
  <2> QED
    BY <1>1, <1>2
<1> HIDE DEF t, k
<1>4. t \in [1..k - 1 -> ToSet(t)]
  BY <1>3 DEF ToSet
<1>5. k - 1 \in Nat
  BY <1>1
<1>6. t \in Seq(ToSet(t))
  BY ONLY <1>4, <1>5, ListedFunction
<1>7. DOMAIN t = 1..k - 1 /\ Len(t) = k - 1
  BY <1>3, <1>5, <1>6
<1> QED
  BY <1>1, <1>3, <1>6, <1>7 DEF t, k

LEMMA Lengthened ==
  ASSUME NEW s, s \in Seq(ToSet(s)), NEW e
  PROVE  LET t == Append(s, e) IN
         /\ t \in Seq(ToSet(t)) /\ Len(t) = Len(s) + 1 /\ DOMAIN t = 1..Len(s) + 1
         /\ DOMAIN s = 1..Len(s) /\ Len(s) \in Nat
         /\ t[Len(s) + 1] = e /\ \A i \in 1..Len(s) : t[i] = s[i]
         /\ Last(t) = e
<1> DEFINE k == Len(s)
           t == Append(s, e)
<1>1. DOMAIN s = 1..k /\ k \in Nat
  OBVIOUS
<1>2. /\ t \in Seq(ToSet(t)) /\ DOMAIN t = 1..k + 1
      /\ t[k + 1] = e /\ \A i \in DOMAIN s : t[i] = s[i]
  BY Pushed
<1> HIDE DEF k, t
<1>3. Len(t) = k + 1
  BY <1>1, <1>2
<1>4. Last(t) = e
  BY <1>2, <1>3 DEF Last
<1> QED
  BY <1>1, <1>2, <1>3, <1>4 DEF k, t

\* What a frame is of was there before what the frames after it are of, and
\* holds it.
LEMMA StackOrder ==
  ASSUME NEW m, Base(m), NEW frames, Stacked(m, frames)
  PROVE  /\ \A i \in DOMAIN frames : frames[i].op \in Nat /\ (i # 1 => frames[i].op \in DOMAIN m.op)
         /\ \A i \in DOMAIN frames : \A j \in 1..i - 1 : frames[j].op < frames[i].op
         /\ \A i \in DOMAIN frames : \A j \in 2..i : frames[j].op \in Chain(m, frames[i].op)
<1> DEFINE L == Len(frames)
<1>1. L \in Nat /\ L > 0 /\ DOMAIN frames = 1..L
  BY DEF Stacked
<1>2. frames[1].op = 0
  BY DEF Stacked, BodyFrame, Frame
<1>3. ASSUME NEW i \in 2..L
      PROVE  /\ frames[i].op \in DOMAIN m.op /\ frames[i].op \in Nat
             /\ frames[i - 1].op = Owner(m, frames[i].op)
             /\ frames[i - 1].op < frames[i].op
  <2>1. i - 1 \in 1..L - 1 /\ (i - 1) + 1 = i
    BY <1>1
  <2>2. IsFrame(m, frames[i - 1]) /\ Holds(m, frames[i - 1], frames[i])
    BY <1>1, <2>1 DEF Stacked
  <2>3. /\ frames[i].op \in DOMAIN m.op /\ m.op[frames[i].op].parent = frames[i - 1].block
        /\ frames[i - 1].block # 0 /\ frames[i - 1].inside
    BY <2>2 DEF Holds
  <2>4. m.block[frames[i - 1].block].region = frames[i - 1].region /\ m.region[frames[i - 1].region].owner = frames[i - 1].op
    BY <2>2, <2>3 DEF IsFrame
  <2>5. Owner(m, frames[i].op) = frames[i - 1].op
    BY <2>3, <2>4 DEF Owner
  <2>6. frames[i].op \in Nat
    BY <2>3, NewIndices DEF Base
  <2> QED
    BY <2>3, <2>5, <2>6 DEF Base, OuterFirst
<1> HIDE DEF L
<1>4. \A i \in DOMAIN frames : frames[i].op \in Nat /\ (i # 1 => frames[i].op \in DOMAIN m.op)
  <2>1. \A i \in 1..L : i = 1 \/ i \in 2..L
    BY <1>1
  <2> QED
    BY <1>1, <1>2, <1>3, <2>1
<1> DEFINE Good == {i \in 0..L : i # 0 => /\ \A j \in 1..i - 1 : frames[j].op < frames[i].op
                                         /\ \A j \in 2..i : frames[j].op \in Chain(m, frames[i].op)}
<1>5. 0 \in Good
  BY <1>1
<1>6. ASSUME NEW n \in 1..L, n - 1 \in Good PROVE n \in Good
  <2>1. CASE n = 1
    BY <1>1, <2>1
  <2>2. CASE n # 1
    <3>1. n \in 2..L /\ n - 1 # 0
      BY <1>1, <2>2
    <3>2. /\ \A j \in 1..n - 2 : frames[j].op < frames[n - 1].op
          /\ \A j \in 2..n - 1 : frames[j].op \in Chain(m, frames[n - 1].op)
      <4>1. (n - 1) - 1 = n - 2
        BY <1>1
      <4> QED
        BY <1>6, <3>1, <4>1
    <3>3. /\ frames[n].op \in DOMAIN m.op /\ frames[n].op \in Nat
          /\ frames[n - 1].op = Owner(m, frames[n].op)
          /\ frames[n - 1].op < frames[n].op
      BY <1>3, <3>1
    <3>4. ASSUME NEW j \in 1..n - 1 PROVE frames[j].op < frames[n].op
      <4>1. CASE j = n - 1
        BY <3>3, <4>1
      <4>2. CASE j # n - 1
        <5>1. j \in 1..n - 2 /\ j \in DOMAIN frames /\ n - 1 \in DOMAIN frames
          BY <1>1, <3>1, <4>2
        <5>2. frames[j].op < frames[n - 1].op /\ frames[j].op \in Nat /\ frames[n - 1].op \in Nat
          BY <1>4, <3>2, <5>1
        <5> QED
          BY ONLY <3>3, <5>2
      <4> QED
        BY <4>1, <4>2
    <3>5. ASSUME NEW j \in 2..n PROVE frames[j].op \in Chain(m, frames[n].op)
      <4>1. CASE j = n
        BY <4>1 DEF Chain
      <4>2. CASE j # n
        <5>1. j \in 2..n - 1 /\ n - 1 # 1 /\ n - 1 \in DOMAIN frames
          BY <1>1, <3>1, <4>2
        <5>2. frames[n - 1].op \in DOMAIN m.op /\ frames[n - 1].op # 0
          BY <1>4, <5>1, NewIndices DEF Base
        <5>3. Forest(m)
          BY FirstForest DEF Base
        <5>4. Chain(m, frames[n].op) = {frames[n].op} \cup Chain(m, frames[n - 1].op)
          BY <3>3, <5>2, <5>3, ChainIs
        <5> QED
          BY <3>2, <5>1, <5>4
      <4> QED
        BY <4>1, <4>2
    <3>6. n \in 0..L
      BY <1>1
    <3> HIDE DEF L
    <3> QED
      BY <3>4, <3>5, <3>6
  <2> QED
    BY <2>1, <2>2
<1> HIDE DEF Good
<1>7. 0..L \subseteq Good
  BY <1>1, <1>5, <1>6, Upward
<1>8. \A i \in DOMAIN frames : /\ \A j \in 1..i - 1 : frames[j].op < frames[i].op
                               /\ \A j \in 2..i : frames[j].op \in Chain(m, frames[i].op)
  <2>1. \A i \in DOMAIN frames : i \in 0..L /\ i # 0
    BY <1>1
  <2> QED
    BY <1>7, <2>1 DEF Good
<1> QED
  BY <1>4, <1>8

\* The frames around the innermost are of other blocks than it.
LEMMA OuterFrames ==
  ASSUME NEW m, Base(m), NEW frames, Stacked(m, frames), NEW i \in 1..Len(frames) - 1,
         frames[Len(frames)].inside, frames[Len(frames)].block # 0
  PROVE  frames[i].block # frames[Len(frames)].block
<1> DEFINE k == Len(frames)
<1>1. DOMAIN frames = 1..k /\ k \in Nat /\ i \in DOMAIN frames /\ k \in DOMAIN frames
  BY DEF Stacked
<1> HIDE DEF k
<1>2. IsFrame(m, frames[i]) /\ IsFrame(m, frames[k])
  BY <1>1 DEF Stacked
<1>3. frames[i].inside /\ frames[i].block # 0
  BY DEF Stacked, Holds
<1>4. /\ m.region[m.block[frames[i].block].region].owner = frames[i].op
      /\ m.region[m.block[frames[k].block].region].owner = frames[k].op
  BY <1>2, <1>3 DEF IsFrame, k
<1>5. frames[i].op < frames[k].op /\ frames[i].op \in Nat /\ frames[k].op \in Nat
  BY <1>1, StackOrder DEF k
<1>6. frames[i].op # frames[k].op
  BY ONLY <1>5
<1> QED
  BY <1>4, <1>6 DEF k

LEMMA FrameStays ==
  ASSUME NEW m, NEW n, Extends(m, n), NEW f, IsFrame(m, f),
         f.inside /\ f.block = 0 => n.region[f.region].blocks = <<>>
  PROVE  IsFrame(n, f)
BY DEF IsFrame, Extends

LEMMA HoldsStays ==
  ASSUME NEW m, NEW n, Extends(m, n), NEW f, NEW g, Holds(m, f, g), \A x : ~Sooner(n, g.op, x)
  PROVE  Holds(n, f, g)
BY DEF Holds, Extends

\* What could be seen still can, where the frames are of the same blocks.
LEMMA SeenStays ==
  ASSUME NEW m, NEW n, Extends(m, n), NEW frames, NEW after, NEW scopes,
         Seen(m, frames, scopes),
         \A i \in DOMAIN scopes :
           /\ frames[i].block # 0 => after[i].block = frames[i].block
           /\ i < Len(after) => \/ i < Len(frames) /\ after[i + 1].op = frames[i + 1].op
                                \/ after[i + 1].op \notin DOMAIN m.op
  PROVE  Seen(n, after, scopes)
<1> SUFFICES ASSUME NEW i \in DOMAIN scopes, NEW v \in Visible(scopes[i])
             PROVE  InView(n, after, i, v)
  BY DEF Seen
<1>1. InView(m, frames, i, v)
  BY DEF Seen
<1>2. v \in DOMAIN m.value /\ frames[i].block # 0 /\ after[i].block = frames[i].block
  BY <1>1 DEF InView
<1>3. v \in DOMAIN n.value /\ n.value[v].producer = m.value[v].producer /\ n.value[v].home = m.value[v].home
  BY <1>2 DEF Extends
<1>4. CASE m.value[v].producer = 0
  BY <1>1, <1>2, <1>3, <1>4 DEF InView
<1>5. CASE m.value[v].producer # 0
  <2> DEFINE p == m.value[v].producer
  <2>1. /\ p \in DOMAIN m.op /\ m.op[p].parent = frames[i].block
        /\ i < Len(frames) => p # frames[i + 1].op
    BY <1>1, <1>5 DEF InView
  <2>2. p \in DOMAIN n.op /\ n.op[p].parent = m.op[p].parent
    BY <2>1 DEF Extends
  <2>3. i < Len(after) => p # after[i + 1].op
    BY <2>1
  <2> QED
    BY <1>2, <1>3, <1>5, <2>1, <2>2, <2>3 DEF InView
<1> QED
  BY <1>4, <1>5

\* A frame that changes is the last one, and not that of the body.
LEMMA Restacked ==
  ASSUME NEW m, Base(m), NEW frames, Stacked(m, frames), Len(frames) # 1,
         NEW n, Grown(m, n), \A x, y : Sooner(n, x, y) <=> Sooner(m, x, y),
         NEW g, IsFrame(n, g), g.op = frames[Len(frames)].op
  PROVE  Stacked(n, [frames EXCEPT ![Len(frames)] = g])
<1> DEFINE k == Len(frames)
           after == [frames EXCEPT ![k] = g]
<1>1. /\ after \in Seq(ToSet(after)) /\ Len(after) = k /\ DOMAIN after = 1..k
      /\ DOMAIN frames = 1..k /\ k \in Nat /\ k > 1
      /\ after[k] = g /\ \A i \in 1..k - 1 : after[i] = frames[i]
  <2>1. k \in Nat /\ k > 0 /\ frames \in Seq(ToSet(frames))
    BY DEF Stacked
  <2>2. \A i \in Nat : i > 0 /\ i # 1 => i > 1
    OBVIOUS
  <2> HIDE DEF k
  <2>3. k > 1
    BY <2>1, <2>2 DEF k
  <2> QED
    BY <2>1, <2>3, Replaced DEF after, k
<1> HIDE DEF k, after
<1>2. Extends(m, n)
  BY DEF Grown
<1>3. \A i \in DOMAIN frames : IsFrame(m, frames[i])
  BY DEF Stacked
<1>4. \A i \in 1..k - 1 : Holds(m, frames[i], frames[i + 1])
  BY DEF Stacked, k
<1>5. ASSUME NEW i \in 1..k PROVE IsFrame(n, after[i])
  <2>1. CASE i = k
    BY <1>1, <2>1
  <2>2. CASE i # k
    <3>1. i \in 1..k - 1
      BY <1>1, <2>2
    <3>2. after[i] = frames[i] /\ IsFrame(m, frames[i]) /\ frames[i].block # 0
      BY <1>1, <1>3, <1>4, <3>1 DEF Holds
    <3> QED
      BY <1>2, <3>2, FrameStays
  <2> QED
    BY <2>1, <2>2
<1>6. ASSUME NEW i \in 1..k - 1 PROVE Holds(n, after[i], after[i + 1])
  <2>1. after[i] = frames[i] /\ after[i + 1].op = frames[i + 1].op
    <3>1. i + 1 = k \/ i + 1 \in 1..k - 1
      BY <1>1
    <3> QED
      BY <1>1, <3>1 DEF k
  <2>2. Holds(m, frames[i], frames[i + 1])
    BY <1>4
  <2>3. \A x : ~Sooner(n, frames[i + 1].op, x)
    BY <2>2 DEF Holds
  <2>4. Holds(n, frames[i], frames[i + 1])
    BY <1>2, <2>2, <2>3, HoldsStays
  <2> QED
    BY <2>1, <2>4 DEF Holds
<1>7. after[1] = BodyFrame
  <2>1. 1 \in 1..k - 1
    BY <1>1
  <2> QED
    BY <1>1, <2>1 DEF Stacked
<1> QED
  BY <1>1, <1>5, <1>6, <1>7 DEF Stacked, after, k

\* What the parser knows while it reads.
IsReading(p) ==
  /\ DOMAIN p = {"m", "scopes", "frames", "ok"}
  /\ p.ok => ReadInv(p.m, p.frames, p.scopes)

LEMMA InnermostFrame ==
  ASSUME NEW m, NEW frames, Stacked(m, frames)
  PROVE  /\ Last(frames) = frames[Len(frames)] /\ IsFrame(m, Last(frames))
         /\ Len(frames) \in Nat /\ Len(frames) > 0 /\ DOMAIN frames = 1..Len(frames)
         /\ Len(frames) = 1 => Last(frames) = BodyFrame
         /\ BodyFrame.op = 0 /\ BodyFrame.inside /\ BodyFrame.block # 0
<1>1. DOMAIN frames = 1..Len(frames) /\ Len(frames) \in Nat /\ Len(frames) > 0
  BY DEF Stacked
<1>2. Len(frames) \in DOMAIN frames
  BY <1>1
<1>3. Last(frames) = frames[Len(frames)]
  BY DEF Last
<1>4. BodyFrame.op = 0 /\ BodyFrame.inside /\ BodyFrame.block # 0
  BY DEF BodyFrame, Frame, BodyBlock
<1> QED
  BY <1>1, <1>2, <1>3, <1>4 DEF Stacked

\* A module that has more operations sees what it saw.
LEMMA AllStillSighted ==
  ASSUME NEW m, Base(m), AllSighted(m), NEW n, Grown(m, n)
  PROVE  \A o \in DOMAIN m.op : \A v \in Operands(n, o) : Sighted(n, v, o)
<1>1. Forest(m) /\ Forest(n) /\ Extends(m, n)
  BY FirstForest DEF Base, Grown
<1>2. \A o \in DOMAIN m.op : Operands(n, o) = Operands(m, o)
  BY <1>1 DEF Extends, Operands
<1> QED
  BY <1>1, <1>2, StillSighted DEF AllSighted

\* The block of the region being read, made if there is none.
LEMMA PlacingKeeps ==
  ASSUME NEW p, IsReading(p), p.ok, Last(p.frames).inside
  PROVE  LET q == Placed(p) IN
         /\ IsReading(q) /\ q.ok /\ q.scopes = p.scopes
         /\ Last(q.frames).inside /\ Last(q.frames).block # 0
         /\ Last(q.frames).block \in DOMAIN q.m.block
<1> DEFINE m == p.m
           frames == p.frames
           k == Len(p.frames)
           f == Last(p.frames)
<1>0. ReadInv(m, frames, p.scopes)
  BY DEF IsReading
<1>1. /\ f = frames[k] /\ IsFrame(m, f) /\ k \in Nat /\ k > 0 /\ DOMAIN frames = 1..k
      /\ k = 1 => f.block # 0
  BY <1>0, InnermostFrame DEF ReadInv
<1>2. CASE f.block # 0
  BY <1>1, <1>2 DEF Placed, IsFrame
<1>3. CASE f.block = 0
  <2> DEFINE n == WithBlock(m, f.region)
             b == NewBlock(m)
             g == [f EXCEPT !.block = b]
             after == [frames EXCEPT ![k] = g]
             q == Placed(p)
  <2>1. /\ DOMAIN q = DOMAIN p /\ q.m = n /\ q.frames = after /\ q.scopes = p.scopes /\ q.ok = p.ok
    <3>1. DOMAIN p = {"m", "scopes", "frames", "ok"}
      BY DEF IsReading
    <3>2. q = [p EXCEPT !.m = n, !.frames = after]
      BY <1>1, <1>3, <3>1 DEF Placed
    <3> HIDE DEF q, n, after
    <3> QED
      BY <3>1, <3>2
  <2>2. f.region \in DOMAIN m.region /\ m.region[f.region].blocks = <<>> /\ m.region[f.region].owner = f.op
    BY <1>1, <1>3 DEF IsFrame
  <2>3. /\ Grown(m, n)
        /\ n.op = m.op /\ n.value = m.value
        /\ DOMAIN n.region = DOMAIN m.region
        /\ n.region[f.region].blocks # <<>>
        /\ \A x \in DOMAIN m.region : x # f.region => n.region[x].blocks = m.region[x].blocks
        /\ b \in DOMAIN n.block /\ b # 0 /\ n.block[b].region = f.region
        /\ \A x, y : Sooner(n, x, y) <=> Sooner(m, x, y)
    BY <1>0, <2>2, BlockingGrows DEF ReadInv
  <2> HIDE DEF n, b
  <2>4. Extends(m, n)
    BY <2>3 DEF Grown
  <2>5. IsFrame(n, g)
    BY <1>1, <2>2, <2>3, <2>4 DEF IsFrame, Extends
  <2>6. g.op = f.op /\ g.block = b /\ g.inside = f.inside
    BY <1>1 DEF IsFrame
  <2> HIDE DEF g
  <2>7. Stacked(n, after)
    BY <1>0, <1>1, <1>3, <2>3, <2>5, <2>6, Restacked DEF ReadInv
  <2>8. /\ Len(after) = k /\ after[k] = g /\ Last(after) = g
        /\ \A i \in 1..k - 1 : after[i] = frames[i]
    <3>1. frames \in Seq(ToSet(frames)) /\ Len(frames) > 0
      BY <1>0 DEF ReadInv, Stacked
    <3> QED
      BY <3>1, Replaced
  <2> HIDE DEF after
  <2>9. Filling(n, after)
    BY <1>0, <1>1, <1>3, <2>3 DEF ReadInv, Filling
  <2>10. Scoped(after, p.scopes)
    BY <1>0, <1>1, <2>6, <2>8 DEF ReadInv, Scoped
  <2>11. ASSUME Single(n) PROVE AllSighted(n) /\ Seen(n, after, p.scopes)
    <3>1. AllSighted(m) /\ Seen(m, frames, p.scopes)
      BY <1>0, <2>4, <2>11, SingleBefore DEF ReadInv
    <3>2. AllSighted(n)
      BY <1>0, <2>3, <3>1, AllStillSighted DEF ReadInv, AllSighted
    <3>3. DOMAIN p.scopes = 1..k
      BY <1>0, <1>1 DEF ReadInv, Scoped
    <3>4. ASSUME NEW i \in DOMAIN p.scopes
          PROVE  /\ frames[i].block # 0 => after[i].block = frames[i].block
                 /\ i < Len(after) => i < Len(frames) /\ after[i + 1].op = frames[i + 1].op
      <4>1. i = k \/ i \in 1..k - 1
        BY <1>1, <3>3
      <4>2. i + 1 = k \/ i + 1 \in 1..k - 1 \/ i = k
        BY <1>1, <3>3
      <4>3. i < Len(after) => i < Len(frames) /\ i # k
        BY <1>1, <2>8
      <4> QED
        BY <1>1, <1>3, <2>6, <2>8, <4>1, <4>2, <4>3
    <3> QED
      BY <2>4, <3>1, <3>2, <3>4, SeenStays
  <2>12. ReadInv(n, after, p.scopes)
    BY <2>3, <2>7, <2>9, <2>10, <2>11 DEF ReadInv, Grown, Base
  <2> HIDE DEF q
  <2> QED
    BY <2>1, <2>3, <2>6, <2>8, <2>12 DEF IsReading, q
<1> QED
  BY <1>2, <1>3

\* Of two operations of a block one comes first.
LEMMA SameBlock ==
  ASSUME NEW m, Arena(m), NEW x \in DOMAIN m.op, NEW y \in DOMAIN m.op, x # y,
         m.op[x].parent # 0, m.op[y].parent = m.op[x].parent
  PROVE  Sooner(m, x, y) \/ Sooner(m, y, x)
<1> DEFINE i == Position(m, x)
           j == Position(m, y)
<1>1. /\ i \in Nat /\ j \in Nat
      /\ m.block[m.op[x].parent].ops[i] = x /\ m.block[m.op[x].parent].ops[j] = y
  BY ListedAt
<1>2. i < j => Sooner(m, x, y)
  BY SoonerIs
<1>3. j < i => Sooner(m, y, x)
  BY SoonerIs
<1> HIDE DEF i, j
<1>4. i # j
  BY <1>1
<1>5. i < j \/ j < i
  BY ONLY <1>1, <1>4
<1> QED
  BY <1>2, <1>3, <1>5

\* The name looked up is that of a value that is visible.
LEMMA LookupIs ==
  ASSUME NEW p, p.scopes \in Seq(ToSet(p.scopes)), NEW name, Bound(p, name)
  PROVE  \E i \in DOMAIN p.scopes : Lookup(p, name) \in Visible(p.scopes[i])
<1> DEFINE S == Binding(p.scopes, name)
<1>1. S \subseteq 1..Len(p.scopes) /\ Len(p.scopes) \in Nat /\ S # {}
  BY DEF Bound, Binding
<1> HIDE DEF S
<1>2. PICK x \in S : \A y \in S : y =< x
  <2>1. \A y \in S : y \in Nat /\ y =< Len(p.scopes)
    BY <1>1
  <2> QED
    BY <1>1, <2>1, GreatestElement
<1>3. Max(S) \in S
  <2>1. \A y \in S : x >= y
    BY <1>1, <1>2
  <2> QED
    BY <2>1 DEF Max
<1>4. Max(S) \in DOMAIN p.scopes /\ name \in DOMAIN p.scopes[Max(S)]
  BY <1>3 DEF S, Binding
<1>5. Lookup(p, name) = p.scopes[Max(S)][name]
  BY DEF Lookup, S
<1> QED
  BY <1>4, <1>5 DEF Visible

\* What is visible dominates the operation made next.
LEMMA VisibleIsSighted ==
  ASSUME NEW m, Base(m), NEW frames, Stacked(m, frames), NEW scopes, Seen(m, frames, scopes),
         Scoped(frames, scopes), frames[Len(frames)].inside, frames[Len(frames)].block # 0,
         NEW n, Grown(m, n), NEW o, MadeLast(m, n, frames[Len(frames)].block, o),
         NEW i \in DOMAIN scopes, NEW v \in Visible(scopes[i])
  PROVE  Sighted(n, v, o)
<1> DEFINE k == Len(frames)
           b == frames[k].block
           w == frames[k].op
<1>1. k \in Nat /\ k > 0 /\ DOMAIN frames = 1..k /\ k \in DOMAIN frames
  BY DEF Stacked
<1>2. i \in 1..k
  BY <1>1 DEF Scoped
<1> HIDE DEF k
<1>3. Forest(m) /\ Forest(n) /\ Extends(m, n)
  BY FirstForest DEF Base, Grown
<1>4. /\ DOMAIN n.op = DOMAIN m.op \cup {o} /\ n.op[o].parent = b /\ n.region = m.region
      /\ \A x : Sooner(n, x, o) <=> x \in DOMAIN m.op /\ m.op[x].parent = b
      /\ \A x, y \in DOMAIN m.op : Sooner(n, x, y) <=> Sooner(m, x, y)
  BY DEF MadeLast, k
<1>5. /\ b \in DOMAIN m.block /\ m.block[b].region = frames[k].region
      /\ frames[k].region \in DOMAIN m.region /\ m.region[frames[k].region].owner = w
  <2>1. IsFrame(m, frames[k])
    BY <1>1 DEF Stacked
  <2> QED
    BY <2>1 DEF IsFrame, k
<1>6. Owner(n, o) = w
  BY <1>3, <1>4, <1>5 DEF Owner, Extends, k
<1>7. ASSUME NEW j \in 2..k PROVE frames[j].op \in Chain(n, o)
  <2>1. frames[j].op \in Chain(m, w) /\ w \in DOMAIN m.op
    <3>1. k # 1 /\ j \in 2..k
      BY <1>1
    <3> QED
      BY <1>1, <3>1, StackOrder DEF k
  <2>2. w # 0
    BY <2>1, NewIndices DEF Base
  <2>3. Chain(n, w) = Chain(m, w)
    BY <1>3, <2>1, StillSighted
  <2>4. Chain(n, o) = {o} \cup Chain(n, w)
    BY <1>3, <1>4, <1>6, <2>2, ChainIs
  <2> QED
    BY <2>1, <2>3, <2>4
<1>8. InView(m, frames, i, v)
  BY DEF Seen
<1>9. PICK x \in Chain(n, o) :
        /\ n.op[x].parent = frames[i].block
        /\ m.value[v].producer # 0 => Sooner(n, m.value[v].producer, x)
  <2>1. CASE i = k
    <3>1. o \in Chain(n, o)
      BY DEF Chain
    <3>2. m.value[v].producer # 0 => m.value[v].producer \in DOMAIN m.op /\ m.op[m.value[v].producer].parent = b
      BY <1>8, <2>1 DEF InView
    <3> QED
      BY <1>4, <2>1, <3>1, <3>2
  <2>2. CASE i # k
    <3>1. i + 1 \in 2..k /\ i \in 1..k - 1
      BY <1>1, <1>2, <2>2
    <3> DEFINE x == frames[i + 1].op
    <3>2. Holds(m, frames[i], frames[i + 1])
      BY <3>1 DEF Stacked, k
    <3>3. x \in DOMAIN m.op /\ m.op[x].parent = frames[i].block /\ frames[i].block # 0 /\ \A y : ~Sooner(m, x, y)
      BY <3>2 DEF Holds
    <3>4. n.op[x].parent = frames[i].block
      BY <1>3, <3>3 DEF Extends
    <3>5. ASSUME m.value[v].producer # 0 PROVE Sooner(n, m.value[v].producer, x)
      <4> DEFINE q == m.value[v].producer
      <4>1. q \in DOMAIN m.op /\ m.op[q].parent = frames[i].block /\ q # x
        BY <1>1, <1>8, <3>1, <3>5 DEF InView, k
      <4>2. Sooner(m, q, x) \/ Sooner(m, x, q)
        BY <1>3, <3>3, <4>1, SameBlock DEF Forest
      <4> QED
        BY <1>4, <3>3, <4>1, <4>2
    <3>6. x \in Chain(n, o)
      BY <1>7, <3>1
    <3> QED
      BY <3>4, <3>5, <3>6
  <2> QED
    BY <2>1, <2>2
<1>10. /\ v \in DOMAIN n.value /\ n.value[v].producer = m.value[v].producer /\ n.value[v].home = m.value[v].home
       /\ frames[i].block # 0
       /\ m.value[v].producer = 0 => m.value[v].home = frames[i].block
  BY <1>3, <1>8 DEF InView, Extends
<1> QED
  BY <1>9, <1>10 DEF Sighted

\* A text's operation is made with its operands and as many results as it names.
LEMMA HeadKeeps ==
  ASSUME NEW p, IsReading(p), p.ok, NEW item, IsItem(item), item.item = "head", Expected(p, item)
  PROVE  IsReading(ReadHead(p, item))
<1> DEFINE q == Placed(p)
           frames == q.frames
           k == Len(frames)
           b == Last(frames).block
           head == [ name |-> item.name, literal |-> item.literal,
                     operands |-> [i \in DOMAIN item.operands |-> Lookup(p, item.operands[i])],
                     attrs |-> <<>>, effect |-> [class |-> "pure", scope |-> AnyScope] ]
           outs == [i \in DOMAIN item.results |-> Untyped(item.results[i])]
           o == NewOp(q.m)
           n == Appended(WithOp(q.m, head, outs), b, o)
           f == Frame(o, item.results)
           after == Append(frames, f)
<1>a. DOMAIN p = {"m", "scopes", "frames", "ok"}
  BY DEF IsReading
<1>b. CASE \E i \in DOMAIN item.operands : ~Bound(p, item.operands[i])
  BY <1>a, <1>b DEF ReadHead, Failed, IsReading
<1>c. CASE \A i \in DOMAIN item.operands : Bound(p, item.operands[i])
  <2>1. Last(p.frames).inside
    BY DEF Expected
  <2>2. /\ IsReading(q) /\ q.ok /\ q.scopes = p.scopes
        /\ Last(frames).inside /\ b # 0 /\ b \in DOMAIN q.m.block
    BY <2>1, PlacingKeeps
  <2>d. DOMAIN q = {"m", "scopes", "frames", "ok"}
    BY <2>2 DEF IsReading
  <2>3. ReadHead(p, item) = [q EXCEPT !.m = n, !.frames = after]
    BY <1>c, <2>d DEF ReadHead
  <2> HIDE DEF q
  <2>4. ReadInv(q.m, frames, q.scopes)
    BY <2>2 DEF IsReading
  <2>5. IsHead(head)
    <3>1. IsName(item.name)
      BY DEF IsItem
    <3>2. IsFunction([i \in DOMAIN item.operands |-> Lookup(p, item.operands[i])])
      BY DEF IsFunction
    <3> QED
      BY <3>1, <3>2 DEF IsHead, IntsAreInts
  <2>6. Len(outs) \in Nat /\ DOMAIN item.results = 1..Len(outs)
    <3>1. item.results \in Seq(ToSet(item.results))
      BY DEF IsItem
    <3>2. DOMAIN item.results = 1..Len(item.results) /\ Len(item.results) \in Nat
      BY <3>1
    <3>3. outs \in [1..Len(item.results) -> ToSet(outs)]
      BY <3>2 DEF ToSet
    <3>4. outs \in Seq(ToSet(outs))
      BY ONLY <3>2, <3>3, ListedFunction
    <3>5. DOMAIN outs = DOMAIN item.results
      OBVIOUS
    <3> HIDE DEF outs
    <3> QED
      BY <3>4, <3>5
  <2>7. head.operands = [i \in DOMAIN item.operands |-> Lookup(p, item.operands[i])]
    OBVIOUS
  <2> HIDE DEF head, outs
  <2>8. /\ Grown(q.m, n) /\ MadeLast(q.m, n, b, o)
        /\ n.op[o].operands = head.operands /\ DOMAIN n.op[o].results = 1..Len(outs)
    BY <2>2, <2>4, <2>5, <2>6, MakingGrows DEF ReadInv
  <2>9. o # 0 /\ o \in DOMAIN n.op /\ o \notin DOMAIN q.m.op
    BY <2>4, <2>8, NewIndices DEF ReadInv, Base, MadeLast
  <2>10. /\ f.op = o /\ f.names = item.results /\ ~f.inside /\ f.inside \in BOOLEAN /\ f.block = 0
         /\ DOMAIN f = {"op", "names", "inside", "region", "block", "labelled"}
    BY DEF Frame
  <2> HIDE DEF n, o, f, b
  <2>11. /\ Last(frames) = frames[k] /\ IsFrame(q.m, frames[k]) /\ k \in Nat /\ k > 0 /\ DOMAIN frames = 1..k
    BY <2>4, InnermostFrame DEF ReadInv
  <2>12. Extends(q.m, n) /\ n.region = q.m.region
    BY <2>8 DEF Grown, MadeLast
  <2>13. /\ after \in Seq(ToSet(after)) /\ Len(after) = k + 1 /\ DOMAIN after = 1..k + 1
         /\ after[k + 1] = f /\ \A i \in 1..k : after[i] = frames[i]
    BY <2>4, Lengthened DEF ReadInv, Stacked
  <2> HIDE DEF after
  <2>14. IsFrame(n, f)
    <3>1. item.results \in Seq(ToSet(item.results))
      BY DEF IsItem
    <3> QED
      BY <2>6, <2>8, <2>9, <2>10, <3>1 DEF IsFrame
  <2>15. \A i \in 1..k : IsFrame(n, frames[i])
    <3> SUFFICES ASSUME NEW i \in 1..k PROVE IsFrame(n, frames[i])
      OBVIOUS
    <3>1. IsFrame(q.m, frames[i])
      BY <2>4, <2>11 DEF ReadInv, Stacked
    <3>2. frames[i].inside /\ frames[i].block = 0 => n.region[frames[i].region].blocks = <<>>
      BY <2>12, <3>1 DEF IsFrame
    <3> QED
      BY <2>12, <3>1, <3>2, FrameStays
  <2>16. \A i \in 1..k - 1 : Holds(n, frames[i], frames[i + 1])
    <3> SUFFICES ASSUME NEW i \in 1..k - 1 PROVE Holds(n, frames[i], frames[i + 1])
      OBVIOUS
    <3>1. Holds(q.m, frames[i], frames[i + 1])
      BY <2>4 DEF ReadInv, Stacked
    <3>2. frames[i].block # frames[k].block
      BY <2>2, <2>4, <2>11, OuterFrames DEF ReadInv, b
    <3> DEFINE x == frames[i + 1].op
    <3>3. x \in DOMAIN q.m.op /\ q.m.op[x].parent = frames[i].block /\ \A y : ~Sooner(q.m, x, y)
      BY <3>1 DEF Holds
    <3>4. ASSUME NEW y, Sooner(n, x, y) PROVE FALSE
      <4>1. y \in DOMAIN n.op
        BY <2>8, <3>4, SoonerIs DEF Grown
      <4>2. y = o \/ y \in DOMAIN q.m.op
        BY <2>8, <4>1 DEF MadeLast
      <4>3. ~Sooner(n, x, o)
        BY <2>8, <2>11, <3>2, <3>3 DEF MadeLast, b
      <4>4. y \in DOMAIN q.m.op => ~Sooner(n, x, y)
        BY <2>8, <3>3 DEF MadeLast
      <4> QED
        BY <3>4, <4>2, <4>3, <4>4
    <3> HIDE DEF x
    <3> QED
      BY <2>12, <3>1, <3>4, HoldsStays DEF x
  <2>17. Holds(n, frames[k], f)
    BY <2>2, <2>8, <2>9, <2>10, <2>11 DEF Holds, MadeLast, b
  <2>18. Stacked(n, after)
    <3>1. \A i \in 1..k + 1 : IsFrame(n, after[i])
      <4>1. \A i \in 1..k + 1 : i = k + 1 \/ i \in 1..k
        BY <2>11
      <4> QED
        BY <2>13, <2>14, <2>15, <4>1
    <3>2. \A i \in 1..k : Holds(n, after[i], after[i + 1])
      <4> SUFFICES ASSUME NEW i \in 1..k PROVE Holds(n, after[i], after[i + 1])
        OBVIOUS
      <4>1. i = k \/ (i \in 1..k - 1 /\ i + 1 \in 1..k)
        BY <2>11
      <4> QED
        BY <2>13, <2>16, <2>17, <4>1
    <3>3. after[1] = BodyFrame
      <4>1. 1 \in 1..k
        BY <2>11
      <4> QED
        BY <2>4, <2>13, <4>1 DEF ReadInv, Stacked
    <3>4. Len(after) - 1 = k /\ Len(after) > 0
      BY <2>11, <2>13
    <3> QED
      BY <2>13, <3>1, <3>2, <3>3, <3>4 DEF Stacked
  <2>19. Filling(n, after)
    <3>1. \A r \in DOMAIN n.region : n.region[r].blocks # <<>>
      BY <2>2, <2>4, <2>11, <2>12 DEF ReadInv, Filling, b
    <3> QED
      BY <3>1 DEF Filling
  <2>20. q.scopes \in Seq(ToSet(q.scopes)) /\ Len(q.scopes) = k /\ DOMAIN q.scopes = 1..k
    <3>1. q.scopes \in Seq(ToSet(q.scopes)) /\ Len(q.scopes) = k
      BY <2>2, <2>4, <2>11 DEF ReadInv, Scoped
    <3> QED
      BY <3>1
  <2>21. Scoped(after, q.scopes)
    BY <2>10, <2>11, <2>13, <2>20 DEF Scoped
  <2>22. ASSUME Single(n) PROVE AllSighted(n) /\ Seen(n, after, q.scopes)
    <3>1. AllSighted(q.m) /\ Seen(q.m, frames, q.scopes)
      BY <2>4, <2>12, <2>22, SingleBefore DEF ReadInv
    <3>2. \A v \in Operands(n, o) : Sighted(n, v, o)
      <4> SUFFICES ASSUME NEW v \in Operands(n, o) PROVE Sighted(n, v, o)
        OBVIOUS
      <4>1. PICK j \in DOMAIN item.operands : v = Lookup(p, item.operands[j])
        BY <2>7, <2>8 DEF Operands, ToSet
      <4>2. p.scopes \in Seq(ToSet(p.scopes)) /\ Bound(p, item.operands[j])
        BY <1>c, <2>2, <2>20
      <4>3. PICK i \in DOMAIN q.scopes : v \in Visible(q.scopes[i])
        BY <2>2, <4>1, <4>2, LookupIs
      <4> QED
        BY <2>2, <2>4, <2>8, <2>11, <3>1, <4>3, VisibleIsSighted DEF ReadInv, b
    <3>3. AllSighted(n)
      <4>1. \A x \in DOMAIN q.m.op : \A v \in Operands(n, x) : Sighted(n, v, x)
        BY <2>4, <2>8, <3>1, AllStillSighted DEF ReadInv
      <4>2. \A x \in DOMAIN n.op : x = o \/ x \in DOMAIN q.m.op
        BY <2>8 DEF MadeLast
      <4> QED
        BY <3>2, <4>1, <4>2 DEF AllSighted
    <3>4. ASSUME NEW i \in DOMAIN q.scopes
          PROVE  /\ frames[i].block # 0 => after[i].block = frames[i].block
                 /\ i < Len(after) => \/ i < Len(frames) /\ after[i + 1].op = frames[i + 1].op
                                      \/ after[i + 1].op \notin DOMAIN q.m.op
      <4>1. i \in 1..k
        BY <2>20
      <4>2. i = k \/ (i < k /\ i + 1 \in 1..k)
        BY <2>11, <4>1
      <4> QED
        BY <2>9, <2>10, <2>13, <4>1, <4>2
    <3> QED
      BY <2>12, <3>1, <3>3, <3>4, SeenStays
  <2>23. ReadInv(n, after, q.scopes)
    BY <2>8, <2>18, <2>19, <2>21, <2>22 DEF ReadInv, Grown, Base
  <2>24. /\ DOMAIN ReadHead(p, item) = {"m", "scopes", "frames", "ok"}
         /\ ReadHead(p, item).m = n /\ ReadHead(p, item).frames = after /\ ReadHead(p, item).scopes = q.scopes
    BY <2>3, <2>d
  <2> QED
    BY <2>23, <2>24 DEF IsReading
<1> QED
  BY <1>b, <1>c

\* The names visible with some more in the innermost scope.
LEMMA DefiningKeeps ==
  ASSUME NEW m, NEW frames, NEW scopes, ReadInv(m, frames, scopes), Len(scopes) > 0,
         NEW names, names \in Seq(ToSet(names)), NEW values,
         \A i \in DOMAIN names : InView(m, frames, Len(scopes), values[i])
  PROVE  ReadInv(m, frames, [scopes EXCEPT ![Len(scopes)] = Binds(scopes[Len(scopes)], names, values)])
<1> DEFINE k == Len(scopes)
           new == Binds(scopes[k], names, values)
           after == [scopes EXCEPT ![k] = new]
<1>1. scopes \in Seq(ToSet(scopes))
  BY DEF ReadInv, Scoped
<1>2. \A v \in Visible(new) : v \in Visible(scopes[k]) \/ \E i \in DOMAIN names : v = values[i]
  <2> SUFFICES ASSUME NEW x \in DOMAIN scopes[k] \cup ToSet(names)
               PROVE  \/ new[x] \in Visible(scopes[k])
                      \/ \E i \in DOMAIN names : new[x] = values[i]
    BY DEF Visible, Binds
  <2>1. CASE x \notin ToSet(names)
    BY <2>1 DEF Visible, Binds
  <2>2. CASE x \in ToSet(names)
    <3> DEFINE S == {i \in DOMAIN names : names[i] = x}
    <3>1. S \subseteq 1..Len(names) /\ Len(names) \in Nat
      OBVIOUS
    <3>2. S # {}
      BY <2>2 DEF ToSet
    <3>3. new[x] = values[Max(S)]
      BY <2>2 DEF Binds
    <3>4. S \subseteq DOMAIN names
      OBVIOUS
    <3> HIDE DEF S
    <3>5. PICK y \in S : \A z \in S : z =< y
      BY <3>1, <3>2, GreatestElement
    <3>6. Max(S) \in S
      <4>1. \A z \in S : y >= z
        BY <3>1, <3>5
      <4> QED
        BY <4>1 DEF Max
    <3> QED
      BY <3>3, <3>4, <3>6
  <2> QED
    BY <2>1, <2>2
<1> HIDE DEF new
<1>3. /\ after \in Seq(ToSet(after)) /\ Len(after) = k /\ DOMAIN after = DOMAIN scopes
      /\ DOMAIN scopes = 1..k /\ k \in Nat
      /\ after[k] = new /\ \A i \in 1..k - 1 : after[i] = scopes[i]
  BY <1>1, Replaced
<1>4. k \in DOMAIN scopes
  BY <1>3
<1> HIDE DEF after, k
<1>5. ASSUME Seen(m, frames, scopes) PROVE Seen(m, frames, after)
  <2> SUFFICES ASSUME NEW i \in DOMAIN after, NEW v \in Visible(after[i]) PROVE InView(m, frames, i, v)
    BY DEF Seen
  <2>1. i = k \/ i \in 1..k - 1
    BY <1>3
  <2>2. CASE i = k
    BY <1>2, <1>3, <1>4, <1>5, <2>2 DEF Seen, k
  <2>3. CASE i \in 1..k - 1
    BY <1>3, <1>5, <2>3 DEF Seen
  <2> QED
    BY <2>1, <2>2, <2>3
<1>6. Scoped(frames, after)
  BY <1>3 DEF ReadInv, Scoped, k
<1> QED
  BY <1>5, <1>6 DEF ReadInv, after, k, new

LEMMA ExtendsItself ==
  ASSUME NEW m, Base(m)
  PROVE  Grown(m, m)
BY DEF Grown, Base, Extends

\* The operation of a frame that is not the body's.
LEMMA InnermostOperation ==
  ASSUME NEW m, Base(m), NEW frames, Stacked(m, frames), ~Last(frames).inside \/ Last(frames).op # 0
  PROVE  /\ Len(frames) # 1 /\ Last(frames).op \in DOMAIN m.op /\ Last(frames).op # 0
<1>1. Len(frames) # 1
  BY InnermostFrame
<1>2. Len(frames) \in DOMAIN frames /\ Last(frames) = frames[Len(frames)]
  BY InnermostFrame
<1>3. Last(frames).op \in DOMAIN m.op
  BY <1>1, <1>2, StackOrder
<1> QED
  BY <1>1, <1>3, NewIndices DEF Base

LEMMA CloseKeeps ==
  ASSUME NEW p, IsReading(p), p.ok, NEW item, item.item = "close", Expected(p, item)
  PROVE  IsReading(ReadClose(p))
<1> DEFINE m == p.m
           frames == p.frames
           k == Len(p.frames)
           f == Last(p.frames)
           g == Closed(f)
           after == [frames EXCEPT ![k] = g]
           scopes == Front(p.scopes)
<1>0. ReadInv(m, frames, p.scopes)
  BY DEF IsReading
<1>1. f.inside /\ f.op # 0 /\ f.block # 0
  BY DEF Expected
<1>2. /\ f = frames[k] /\ IsFrame(m, f) /\ k \in Nat /\ k > 0 /\ DOMAIN frames = 1..k
  BY <1>0, InnermostFrame DEF ReadInv
<1>3. k # 1 /\ f.op \in DOMAIN m.op
  BY <1>0, <1>1, InnermostOperation DEF ReadInv
<1>4. DOMAIN p = {"m", "scopes", "frames", "ok"}
  BY DEF IsReading
<1>5. ReadClose(p) = [p EXCEPT !.frames = after, !.scopes = scopes]
  BY <1>2, <1>4 DEF ReadClose
<1>6. /\ g.op = f.op /\ ~g.inside /\ IsFrame(m, g)
  BY <1>1, <1>2 DEF Closed, Frame, IsFrame
<1>7. Grown(m, m)
  BY <1>0, ExtendsItself DEF ReadInv
<1> HIDE DEF g
<1>8. Stacked(m, after)
  BY <1>0, <1>2, <1>3, <1>6, <1>7, Restacked DEF ReadInv
<1>9. /\ Len(after) = k /\ after[k] = g /\ \A i \in 1..k - 1 : after[i] = frames[i]
  <2>1. frames \in Seq(ToSet(frames)) /\ Len(frames) > 0
    BY <1>0 DEF ReadInv, Stacked
  <2> QED
    BY <2>1, Replaced
<1>10. /\ scopes \in Seq(ToSet(scopes)) /\ Len(scopes) = k - 1 /\ DOMAIN scopes = 1..k - 1
       /\ \A i \in 1..k - 1 : scopes[i] = p.scopes[i]
       /\ DOMAIN p.scopes = 1..k
  <2>1. p.scopes \in Seq(ToSet(p.scopes)) /\ Len(p.scopes) = k
    BY <1>0, <1>1, <1>2 DEF ReadInv, Scoped
  <2>2. Len(p.scopes) > 0
    BY <1>2, <2>1
  <2> QED
    BY <2>1, <2>2, Cut
<1> HIDE DEF after, scopes
<1>11. Filling(m, after)
  BY <1>0, <1>1, <1>2 DEF ReadInv, Filling
<1>12. Scoped(after, scopes)
  BY <1>6, <1>9, <1>10 DEF Scoped
<1>13. ASSUME Single(m) PROVE AllSighted(m) /\ Seen(m, after, scopes)
  <2>1. AllSighted(m) /\ Seen(m, frames, p.scopes)
    BY <1>0, <1>13 DEF ReadInv
  <2>2. Seen(m, frames, scopes)
    <3>1. \A i \in DOMAIN scopes : i \in DOMAIN p.scopes /\ scopes[i] = p.scopes[i]
      BY <1>2, <1>10
    <3> QED
      BY <2>1, <3>1 DEF Seen
  <2>3. ASSUME NEW i \in DOMAIN scopes
        PROVE  /\ frames[i].block # 0 => after[i].block = frames[i].block
               /\ i < Len(after) => i < Len(frames) /\ after[i + 1].op = frames[i + 1].op
    <3>1. i \in 1..k - 1 /\ i < k /\ (i + 1 = k \/ i + 1 \in 1..k - 1)
      BY <1>2, <1>10
    <3> QED
      BY <1>2, <1>6, <1>9, <3>1
  <2>4. Extends(m, m)
    BY <1>7 DEF Grown
  <2> QED
    BY <2>1, <2>2, <2>3, <2>4, SeenStays
<1>14. ReadInv(m, after, scopes)
  BY <1>0, <1>8, <1>11, <1>12, <1>13 DEF ReadInv
<1>15. /\ DOMAIN ReadClose(p) = {"m", "scopes", "frames", "ok"}
       /\ ReadClose(p).m = m /\ ReadClose(p).frames = after /\ ReadClose(p).scopes = scopes
  BY <1>4, <1>5
<1> QED
  BY <1>14, <1>15 DEF IsReading

LEMMA OpenKeeps ==
  ASSUME NEW p, IsReading(p), p.ok, NEW item, item.item = "open", Expected(p, item)
  PROVE  IsReading(ReadOpen(p))
<1> DEFINE m == p.m
           frames == p.frames
           k == Len(p.frames)
           f == Last(p.frames)
           n == WithRegion(m, f.op)
           r == Len(m.region) + 1
           g == [f EXCEPT !.inside = TRUE, !.region = r]
           after == [frames EXCEPT ![k] = g]
           none == <<>>
           scopes == Append(p.scopes, none)
<1>0. ReadInv(m, frames, p.scopes)
  BY DEF IsReading
<1>1. ~f.inside
  BY DEF Expected
<1>2. /\ f = frames[k] /\ IsFrame(m, f) /\ k \in Nat /\ k > 0 /\ DOMAIN frames = 1..k
  BY <1>0, InnermostFrame DEF ReadInv
<1>3. k # 1 /\ f.op \in DOMAIN m.op /\ f.op # 0
  BY <1>0, <1>1, InnermostOperation DEF ReadInv
<1>4. DOMAIN p = {"m", "scopes", "frames", "ok"}
  BY DEF IsReading
<1>5. ReadOpen(p) = [p EXCEPT !.m = n, !.frames = after, !.scopes = scopes]
  BY <1>2, <1>4 DEF ReadOpen
<1>6. /\ Grown(m, n)
      /\ DOMAIN n.op = DOMAIN m.op
      /\ DOMAIN n.region = DOMAIN m.region \cup {r} /\ r \notin DOMAIN m.region
      /\ n.region[r].blocks = <<>> /\ n.region[r].owner = f.op
      /\ \A x \in DOMAIN m.region : n.region[x] = m.region[x]
      /\ \A x, y : Sooner(n, x, y) <=> Sooner(m, x, y)
  BY <1>0, <1>3, OpeningGrows DEF ReadInv
<1> HIDE DEF n, r
<1>7. Extends(m, n)
  BY <1>6 DEF Grown
<1>8. g.op = f.op /\ g.inside /\ g.block = 0 /\ g.region = r
  BY <1>1, <1>2 DEF IsFrame
<1>9. IsFrame(n, g)
  BY <1>1, <1>2, <1>3, <1>6, <1>7 DEF IsFrame, Extends
<1> HIDE DEF g
<1>10. Stacked(n, after)
  BY <1>0, <1>2, <1>3, <1>6, <1>8, <1>9, Restacked DEF ReadInv
<1>11. /\ Len(after) = k /\ after[k] = g /\ \A i \in 1..k - 1 : after[i] = frames[i]
  <2>1. frames \in Seq(ToSet(frames)) /\ Len(frames) > 0
    BY <1>0 DEF ReadInv, Stacked
  <2> QED
    BY <2>1, Replaced
<1>12. Visible(none) = {}
  BY DEF Visible
<1> HIDE DEF none
<1>13. /\ scopes \in Seq(ToSet(scopes)) /\ Len(scopes) = k /\ DOMAIN scopes = 1..k
       /\ \A i \in 1..k - 1 : scopes[i] = p.scopes[i]
       /\ scopes[k] = none
       /\ DOMAIN p.scopes = 1..k - 1
  <2>1. p.scopes \in Seq(ToSet(p.scopes)) /\ Len(p.scopes) = k - 1
    BY <1>0, <1>1, <1>2 DEF ReadInv, Scoped
  <2>2. /\ scopes \in Seq(ToSet(scopes)) /\ Len(scopes) = Len(p.scopes) + 1 /\ DOMAIN scopes = 1..Len(p.scopes) + 1
        /\ DOMAIN p.scopes = 1..Len(p.scopes)
        /\ scopes[Len(p.scopes) + 1] = none /\ \A i \in 1..Len(p.scopes) : scopes[i] = p.scopes[i]
    BY <2>1, Lengthened
  <2>3. (k - 1) + 1 = k
    BY <1>2
  <2> QED
    BY <2>1, <2>2, <2>3
<1> HIDE DEF after, scopes
<1>14. Filling(n, after)
  <2>1. \A x \in DOMAIN m.region : m.region[x].blocks # <<>>
    BY <1>0, <1>1, <1>2 DEF ReadInv, Filling
  <2> QED
    BY <1>6, <1>8, <1>11, <2>1 DEF Filling
<1>15. Scoped(after, scopes)
  BY <1>8, <1>11, <1>13 DEF Scoped
<1>16. ASSUME Single(n) PROVE AllSighted(n) /\ Seen(n, after, scopes)
  <2>1. AllSighted(m) /\ Seen(m, frames, p.scopes)
    BY <1>0, <1>7, <1>16, SingleBefore DEF ReadInv
  <2>2. AllSighted(n)
    BY <1>0, <1>6, <2>1, AllStillSighted DEF ReadInv, AllSighted
  <2>3. ASSUME NEW i \in DOMAIN p.scopes
        PROVE  /\ frames[i].block # 0 => after[i].block = frames[i].block
               /\ i < Len(after) => i < Len(frames) /\ after[i + 1].op = frames[i + 1].op
    <3>1. i \in 1..k - 1 /\ i < k /\ (i + 1 = k \/ i + 1 \in 1..k - 1)
      BY <1>2, <1>13
    <3> QED
      BY <1>2, <1>8, <1>11, <3>1
  <2>4. Seen(n, after, p.scopes)
    BY <1>7, <2>1, <2>3, SeenStays
  <2>5. Seen(n, after, scopes)
    <3> SUFFICES ASSUME NEW i \in DOMAIN scopes, NEW v \in Visible(scopes[i]) PROVE InView(n, after, i, v)
      BY DEF Seen
    <3>1. i = k \/ i \in 1..k - 1
      BY <1>2, <1>13
    <3> QED
      BY <1>12, <1>13, <2>4, <3>1 DEF Seen
  <2> QED
    BY <2>2, <2>5
<1>17. ReadInv(n, after, scopes)
  BY <1>6, <1>10, <1>14, <1>15, <1>16 DEF ReadInv, Grown, Base
<1>18. /\ DOMAIN ReadOpen(p) = {"m", "scopes", "frames", "ok"}
       /\ ReadOpen(p).m = n /\ ReadOpen(p).frames = after /\ ReadOpen(p).scopes = scopes
  BY <1>4, <1>5
<1> QED
  BY <1>17, <1>18 DEF IsReading

LEMMA LabelKeeps ==
  ASSUME NEW p, IsReading(p), p.ok, NEW item, IsItem(item), item.item = "label", Expected(p, item)
  PROVE  IsReading(ReadLabel(p, item))
<1> DEFINE m == p.m
           frames == p.frames
           k == Len(p.frames)
           f == Last(p.frames)
           b == NewBlock(m)
           h == WithBlock(m, f.region)
           n == WithArgs(h, b, item.args, FromTool)
           g == [f EXCEPT !.block = b, !.labelled = TRUE]
           after == [frames EXCEPT ![k] = g]
           names == [i \in DOMAIN item.args |-> item.args[i].name]
           values == n.block[b].args
           scopes == [p.scopes EXCEPT ![Len(p.scopes)] = Binds(p.scopes[Len(p.scopes)], names, values)]
<1>0. ReadInv(m, frames, p.scopes)
  BY DEF IsReading
<1>1. f.inside /\ f.op # 0
  BY DEF Expected
<1>2. /\ f = frames[k] /\ IsFrame(m, f) /\ k \in Nat /\ k > 0 /\ DOMAIN frames = 1..k
  BY <1>0, InnermostFrame DEF ReadInv
<1>3. k # 1 /\ f.op \in DOMAIN m.op
  BY <1>0, <1>1, InnermostOperation DEF ReadInv
<1>4. DOMAIN p = {"m", "scopes", "frames", "ok"}
  BY DEF IsReading
<1>5. ReadLabel(p, item) = [p EXCEPT !.m = n, !.frames = after, !.scopes = scopes]
  BY <1>2, <1>4 DEF ReadLabel, Defined
<1>6. f.region \in DOMAIN m.region /\ m.region[f.region].owner = f.op /\ f.region \in Nat
  <2>1. f.region \in DOMAIN m.region /\ m.region[f.region].owner = f.op
    BY <1>1, <1>2 DEF IsFrame
  <2> QED
    BY <1>0, <2>1, NewIndices DEF ReadInv, Base
<1>7. /\ Grown(m, h)
      /\ h.op = m.op /\ h.value = m.value
      /\ DOMAIN h.region = DOMAIN m.region
      /\ h.region[f.region].blocks # <<>>
      /\ m.region[f.region].blocks # <<>> => Len(h.region[f.region].blocks) > 1
      /\ \A x \in DOMAIN m.region : x # f.region => h.region[x].blocks = m.region[x].blocks
      /\ b \in DOMAIN h.block /\ b # 0 /\ h.block[b].region = f.region
      /\ h.block[b].args = <<>>
      /\ \A x, y : Sooner(h, x, y) <=> Sooner(m, x, y)
  BY <1>0, <1>6, BlockingGrows DEF ReadInv
<1>8. item.args \in Seq(ToSet(item.args))
  BY DEF IsItem
<1> HIDE DEF h, b
<1>9. /\ Grown(h, n)
      /\ n.op = h.op /\ n.region = h.region
      /\ DOMAIN n.block = DOMAIN h.block
      /\ \A x \in DOMAIN h.block : n.block[x].region = h.block[x].region
      /\ DOMAIN n.block[b].args = DOMAIN item.args
      /\ \A i \in DOMAIN item.args :
           LET v == n.block[b].args[i] IN
           v \in DOMAIN n.value /\ n.value[v].producer = 0 /\ n.value[v].home = b
      /\ \A x, y : Sooner(n, x, y) <=> Sooner(h, x, y)
  BY <1>7, <1>8, ArguingGrows DEF Grown, Base
<1> HIDE DEF n
<1>10. Grown(m, n) /\ Extends(m, n) /\ \A x, y : Sooner(n, x, y) <=> Sooner(m, x, y)
  <2>1. Extends(m, n)
    BY <1>7, <1>9, ExtendsOn DEF Grown
  <2> QED
    BY <1>7, <1>9, <2>1 DEF Grown
<1>11. g.op = f.op /\ g.inside /\ g.block = b /\ g.region = f.region
  BY <1>1, <1>2 DEF IsFrame
<1>12. IsFrame(n, g)
  <2>1. /\ f.op \in DOMAIN n.op /\ n.op[f.op].results = m.op[f.op].results
        /\ f.region \in DOMAIN n.region /\ n.region[f.region].owner = f.op
    BY <1>3, <1>6, <1>10 DEF Extends
  <2>2. b \in DOMAIN n.block /\ n.block[b].region = f.region /\ b # 0
    BY <1>7, <1>9
  <2> QED
    BY <1>1, <1>2, <1>11, <2>1, <2>2 DEF IsFrame
<1> HIDE DEF g
<1>13. Stacked(n, after)
  BY <1>0, <1>2, <1>3, <1>10, <1>11, <1>12, Restacked DEF ReadInv
<1>14. /\ Len(after) = k /\ after[k] = g /\ \A i \in 1..k - 1 : after[i] = frames[i]
  <2>1. frames \in Seq(ToSet(frames)) /\ Len(frames) > 0
    BY <1>0 DEF ReadInv, Stacked
  <2> QED
    BY <2>1, Replaced
<1> HIDE DEF after
<1>15. p.scopes \in Seq(ToSet(p.scopes)) /\ Len(p.scopes) = k /\ DOMAIN p.scopes = 1..k
  <2>1. p.scopes \in Seq(ToSet(p.scopes)) /\ Len(p.scopes) = k
    BY <1>0, <1>1, <1>2 DEF ReadInv, Scoped
  <2> QED
    BY <2>1
<1>16. Filling(n, after)
  <2>1. \A x \in DOMAIN m.region : m.region[x].blocks = <<>> => x = f.region
    BY <1>0, <1>2 DEF ReadInv, Filling
  <2>2. \A x \in DOMAIN n.region : n.region[x].blocks # <<>>
    BY <1>7, <1>9, <2>1
  <2> QED
    BY <2>2 DEF Filling
<1>17. Scoped(after, p.scopes)
  BY <1>11, <1>14, <1>15 DEF Scoped
<1>18. ASSUME Single(n) PROVE AllSighted(n) /\ Seen(n, after, p.scopes)
  <2>1. AllSighted(m) /\ Seen(m, frames, p.scopes)
    BY <1>0, <1>10, <1>18, SingleBefore DEF ReadInv
  <2>2. AllSighted(n)
    <3>1. DOMAIN n.op = DOMAIN m.op
      BY <1>7, <1>9
    <3> QED
      BY <1>0, <1>10, <2>1, <3>1, AllStillSighted DEF ReadInv, AllSighted
  <2>3. f.block = 0
    <3>1. ~(Len(n.region[f.region].blocks) > 1)
      BY <1>6, <1>7, <1>9, <1>18 DEF Single
    <3>2. m.region[f.region].blocks = <<>>
      BY <1>7, <1>9, <3>1
    <3>3. f.block # 0 => f.block \in ToSet(m.region[f.region].blocks)
      BY <1>0, <1>1, <1>2 DEF IsFrame, ReadInv, Base, OwnersAgree, BlocksPlaced
    <3> QED
      BY <3>2, <3>3 DEF ToSet
  <2>4. ASSUME NEW i \in DOMAIN p.scopes
        PROVE  /\ frames[i].block # 0 => after[i].block = frames[i].block
               /\ i < Len(after) => i < Len(frames) /\ after[i + 1].op = frames[i + 1].op
    <3>1. i = k \/ (i \in 1..k - 1 /\ i < k /\ (i + 1 = k \/ i + 1 \in 1..k - 1))
      BY <1>2, <1>15
    <3>2. ~(k < k)
      BY <1>2
    <3>3. CASE i = k
      BY <1>2, <1>14, <2>3, <3>2, <3>3
    <3>4. CASE i # k
      BY <1>2, <1>11, <1>14, <3>1, <3>4
    <3> QED
      BY <3>3, <3>4
  <2> QED
    BY <1>10, <2>1, <2>2, <2>4, SeenStays
<1>19. ReadInv(n, after, p.scopes)
  BY <1>10, <1>13, <1>16, <1>17, <1>18 DEF ReadInv, Grown, Base
<1>20. names \in Seq(ToSet(names)) /\ DOMAIN names = DOMAIN item.args
  <2>1. DOMAIN item.args = 1..Len(item.args) /\ Len(item.args) \in Nat
    BY <1>8
  <2>2. names \in [1..Len(item.args) -> ToSet(names)]
    BY <2>1 DEF ToSet
  <2>3. DOMAIN names = DOMAIN item.args
    OBVIOUS
  <2> HIDE DEF names
  <2>4. names \in Seq(ToSet(names))
    BY ONLY <2>1, <2>2, ListedFunction
  <2> QED
    BY <2>3, <2>4
<1> HIDE DEF names
<1>21. \A i \in DOMAIN names : InView(n, after, k, values[i])
  BY <1>7, <1>9, <1>11, <1>14, <1>20 DEF InView
<1> HIDE DEF values
<1>22. ReadInv(n, after, scopes)
  <2>1. Len(p.scopes) > 0
    BY <1>2, <1>15
  <2> QED
    BY <1>15, <1>19, <1>20, <1>21, <2>1, DefiningKeeps
<1> HIDE DEF scopes
<1>23. /\ DOMAIN ReadLabel(p, item) = {"m", "scopes", "frames", "ok"}
       /\ ReadLabel(p, item).m = n /\ ReadLabel(p, item).frames = after /\ ReadLabel(p, item).scopes = scopes
  BY <1>4, <1>5
<1> QED
  BY <1>22, <1>23 DEF IsReading

LEMMA TailKeeps ==
  ASSUME NEW p, IsReading(p), p.ok, NEW item, IsItem(item), item.item = "tail", Expected(p, item)
  PROVE  IsReading(ReadTail(p, item))
<1> DEFINE m == p.m
           frames == p.frames
           k == Len(p.frames)
           f == Last(p.frames)
           n == Completed(m, f.op, item)
           after == Front(frames)
           values == m.op[f.op].results
           scopes == [p.scopes EXCEPT ![Len(p.scopes)] = Binds(p.scopes[Len(p.scopes)], f.names, values)]
<1>0. ReadInv(m, frames, p.scopes)
  BY DEF IsReading
<1>1. ~f.inside
  BY DEF Expected
<1>2. /\ f = frames[k] /\ IsFrame(m, f) /\ k \in Nat /\ k > 0 /\ DOMAIN frames = 1..k
  BY <1>0, InnermostFrame DEF ReadInv
<1>3. k # 1 /\ f.op \in DOMAIN m.op /\ f.op # 0
  BY <1>0, <1>1, InnermostOperation DEF ReadInv
<1>4. DOMAIN p = {"m", "scopes", "frames", "ok"}
  BY DEF IsReading
<1>5. CASE ReadTail(p, item) = Failed(p)
  BY <1>4, <1>5 DEF Failed, IsReading
<1>6. CASE ReadTail(p, item) # Failed(p)
  <2>1. ReadTail(p, item) = [p EXCEPT !.m = n, !.frames = after, !.scopes = scopes]
    BY <1>4, <1>6 DEF ReadTail, Defined
  <2>2. IntsAreInts(item.attrs)
    BY DEF IsItem
  <2>3. /\ Grown(m, n)
        /\ DOMAIN n.op = DOMAIN m.op
        /\ n.region = m.region /\ n.block = m.block
        /\ \A x, y : Sooner(n, x, y) <=> Sooner(m, x, y)
    BY <1>0, <1>3, <2>2, CompletingGrows DEF ReadInv
  <2> HIDE DEF n
  <2>4. Extends(m, n)
    BY <2>3 DEF Grown
  <2>5. /\ after \in Seq(ToSet(after)) /\ Len(after) = k - 1 /\ DOMAIN after = 1..k - 1
        /\ \A i \in 1..k - 1 : after[i] = frames[i]
    <3>1. frames \in Seq(ToSet(frames)) /\ Len(frames) > 0
      BY <1>0 DEF ReadInv, Stacked
    <3> QED
      BY <3>1, Cut
  <2>6. k - 1 \in Nat /\ k - 1 > 0 /\ k - 1 \in 1..k - 1 /\ (k - 1) + 1 = k /\ 1 \in 1..k - 1
    <3> HIDE DEF k
    <3> QED
      BY ONLY <1>2, <1>3
  <2>7. Holds(m, frames[k - 1], f)
    <3>1. Holds(m, frames[k - 1], frames[(k - 1) + 1])
      BY <1>0, <2>6 DEF ReadInv, Stacked
    <3> QED
      BY <1>2, <2>6, <3>1
  <2> HIDE DEF after
  <2>8. \A i \in 1..k - 1 : Holds(m, frames[i], frames[i + 1])
    BY <1>0 DEF ReadInv, Stacked
  <2>9. Stacked(n, after)
    <3>1. \A i \in 1..k - 1 : IsFrame(n, after[i])
      <4> SUFFICES ASSUME NEW i \in 1..k - 1 PROVE IsFrame(n, after[i])
        OBVIOUS
      <4>1. IsFrame(m, frames[i])
        BY <1>0, <1>2 DEF ReadInv, Stacked
      <4>2. frames[i].block # 0
        BY <2>8 DEF Holds
      <4> QED
        BY <2>4, <2>5, <4>1, <4>2, FrameStays
    <3>2. \A i \in 1..(k - 1) - 1 : Holds(n, after[i], after[i + 1])
      <4> SUFFICES ASSUME NEW i \in 1..(k - 1) - 1 PROVE Holds(n, after[i], after[i + 1])
        OBVIOUS
      <4>1. i \in 1..k - 1 /\ i + 1 \in 1..k - 1
        BY <1>2
      <4>2. Holds(m, frames[i], frames[i + 1])
        BY <2>8, <4>1
      <4>3. \A x : ~Sooner(n, frames[i + 1].op, x)
        BY <2>3, <4>2 DEF Holds
      <4> QED
        BY <2>4, <2>5, <4>1, <4>2, <4>3, HoldsStays
    <3>3. after[1] = BodyFrame
      BY <1>0, <2>5, <2>6 DEF ReadInv, Stacked
    <3> QED
      BY <2>5, <2>6, <3>1, <3>2, <3>3 DEF Stacked
  <2>10. /\ after[k - 1] = frames[k - 1] /\ frames[k - 1].inside /\ frames[k - 1].block # 0
         /\ m.op[f.op].parent = frames[k - 1].block
    BY <2>5, <2>6, <2>7 DEF Holds
  <2>11. p.scopes \in Seq(ToSet(p.scopes)) /\ Len(p.scopes) = k - 1 /\ DOMAIN p.scopes = 1..k - 1
    <3>1. p.scopes \in Seq(ToSet(p.scopes)) /\ Len(p.scopes) = k - 1
      BY <1>0, <1>1, <1>2 DEF ReadInv, Scoped
    <3> QED
      BY <3>1
  <2>12. Filling(n, after)
    <3>1. \A x \in DOMAIN m.region : m.region[x].blocks # <<>>
      BY <1>0, <1>1, <1>2 DEF ReadInv, Filling
    <3> QED
      BY <2>3, <3>1 DEF Filling
  <2>13. Scoped(after, p.scopes)
    BY <2>5, <2>10, <2>11 DEF Scoped
  <2>14. ASSUME Single(n) PROVE AllSighted(n) /\ Seen(n, after, p.scopes)
    <3>1. AllSighted(m) /\ Seen(m, frames, p.scopes)
      BY <1>0, <2>4, <2>14, SingleBefore DEF ReadInv
    <3>2. AllSighted(n)
      BY <1>0, <2>3, <3>1, AllStillSighted DEF ReadInv, AllSighted
    <3>3. ASSUME NEW i \in DOMAIN p.scopes
          PROVE  /\ frames[i].block # 0 => after[i].block = frames[i].block
                 /\ i < Len(after) => i < Len(frames) /\ after[i + 1].op = frames[i + 1].op
      <4>1. i \in 1..k - 1
        BY <2>11
      <4>2. i < k - 1 => i < k /\ i + 1 \in 1..k - 1
        BY <1>2, <4>1
      <4> QED
        BY <2>5, <4>1, <4>2
    <3> QED
      BY <2>4, <3>1, <3>2, <3>3, SeenStays
  <2>15. ReadInv(n, after, p.scopes)
    BY <2>3, <2>9, <2>12, <2>13, <2>14 DEF ReadInv, Grown, Base
  <2>16. f.names \in Seq(ToSet(f.names)) /\ DOMAIN f.names = DOMAIN values
    BY <1>2, <1>3 DEF IsFrame
  <2>17. \A i \in DOMAIN f.names : InView(n, after, k - 1, values[i])
    <3> SUFFICES ASSUME NEW i \in DOMAIN f.names PROVE InView(n, after, k - 1, values[i])
      OBVIOUS
    <3> DEFINE v == values[i]
    <3>1. v \in Results(m, f.op)
      BY <2>16 DEF Results, ToSet
    <3>2. v \in DOMAIN m.value /\ m.value[v].producer = f.op
      BY <1>0, <1>3, <3>1 DEF ReadInv, Base, OwnersAgree, ResultsProduced
    <3>3. v \in DOMAIN n.value /\ n.value[v].producer = f.op /\ n.op[f.op].parent = m.op[f.op].parent
      BY <1>3, <2>4, <3>2 DEF Extends
    <3>4. ~(k - 1 < Len(after))
      BY <2>5, <2>6
    <3> HIDE DEF v
    <3> QED
      BY <1>3, <2>3, <2>10, <3>3, <3>4 DEF InView, v
  <2> HIDE DEF values
  <2>18. ReadInv(n, after, scopes)
    <3>1. Len(p.scopes) > 0
      BY <2>6, <2>11
    <3> QED
      BY <2>11, <2>15, <2>16, <2>17, <3>1, DefiningKeeps
  <2> HIDE DEF scopes
  <2>19. /\ DOMAIN ReadTail(p, item) = {"m", "scopes", "frames", "ok"}
         /\ ReadTail(p, item).m = n /\ ReadTail(p, item).frames = after /\ ReadTail(p, item).scopes = scopes
    BY <1>4, <2>1
  <2> QED
    BY <2>18, <2>19 DEF IsReading
<1> QED
  BY <1>5, <1>6

-----------------------------------------------------------------------------
(* A whole text.                                                           *)

\* Module::new.
LEMMA NewModuleArena ==
  ASSUME NEW capabilities, NEW approved
  PROVE  LET m == NewModule(capabilities, approved) IN
         Arena(m) /\ OwnersAgree(m) /\ RegionsFilled(m) /\ OuterFirst(m)
<1> DEFINE m == NewModule(capabilities, approved)
           b == [args |-> <<>>, ops |-> <<>>, region |-> 1]
           r == [blocks |-> <<BodyBlock>>, owner |-> 0]
<1>1. /\ DOMAIN m = {"op", "value", "block", "region", "capabilities", "approved"}
      /\ m.op = <<>> /\ m.value = <<>> /\ m.block = <<b>> /\ m.region = <<r>>
  BY DEF NewModule
<1>2. IsBlock(b) /\ b.ops = <<>> /\ b.region = 1
  BY DEF IsBlock
<1>3. IsRegion(r) /\ r.blocks = <<1>> /\ r.owner = 0
  BY DEF IsRegion, BodyBlock
<1>a. IsFunction(m)
  BY DEF NewModule, IsFunction
<1> HIDE DEF m, b, r
<1>4. /\ m.op \in Seq(ToSet(m.op)) /\ DOMAIN m.op = {}
      /\ m.value \in Seq(ToSet(m.value)) /\ DOMAIN m.value = {}
      /\ m.block \in Seq(ToSet(m.block)) /\ DOMAIN m.block = {1} /\ m.block[1] = b
      /\ m.region \in Seq(ToSet(m.region)) /\ DOMAIN m.region = {1} /\ m.region[1] = r
  BY <1>1 DEF ToSet
<1>5. IsModule(m)
  BY <1>a, <1>1, <1>2, <1>3, <1>4 DEF IsModule
<1>6. ArenaAgrees(m)
  BY <1>2, <1>4 DEF ArenaAgrees, ListedWhereNamed, NamedWhereListed, ListedOnce,
     ErasedIsNowhere, RegionsOwned
<1>7. OwnersAgree(m)
  <2>1. BlocksPlaced(m)
    <3>1. ToSet(r.blocks) = {1}
      BY <1>3 DEF ToSet
    <3> QED
      BY <1>2, <1>4, <3>1 DEF BlocksPlaced
  <2>2. RegionsClaimed(m)
    BY <1>3, <1>4 DEF RegionsClaimed
  <2>3. ResultsProduced(m)
    BY <1>4 DEF ResultsProduced
  <2>4. BodyIsFree(m)
    BY <1>2, <1>3, <1>4 DEF BodyIsFree, BodyBlock
  <2> QED
    BY <2>1, <2>2, <2>3, <2>4 DEF OwnersAgree
<1>8. RegionsFilled(m)
  BY <1>3, <1>4 DEF RegionsFilled
<1>9. OuterFirst(m)
  BY <1>4 DEF OuterFirst
<1> QED
  BY <1>5, <1>6, <1>7, <1>8, <1>9 DEF m, Arena

LEMMA ReadingStarts ==
  ASSUME NEW capabilities, NEW approved
  PROVE  IsReading(Reading(capabilities, approved))
<1> DEFINE m == NewModule(capabilities, approved)
           frames == <<BodyFrame>>
           none == <<>>
           scopes == <<none>>
<1>1. Arena(m) /\ OwnersAgree(m) /\ RegionsFilled(m) /\ OuterFirst(m)
  BY NewModuleArena
<1>2. /\ DOMAIN m.op = {} /\ DOMAIN m.region = {1} /\ DOMAIN m.block = {1}
      /\ m.region[1].owner = 0 /\ m.region[1].blocks = <<BodyBlock>> /\ m.block[1].region = 1
  BY DEF NewModule
<1> HIDE DEF m
<1>3. /\ DOMAIN BodyFrame = {"op", "names", "inside", "region", "block", "labelled"}
      /\ BodyFrame.op = 0 /\ BodyFrame.inside /\ BodyFrame.inside \in BOOLEAN
      /\ BodyFrame.region = 1 /\ BodyFrame.block = 1
  BY DEF BodyFrame, Frame, BodyBlock
<1>4. IsFrame(m, BodyFrame)
  <2>1. /\ BodyFrame.op = 0 /\ BodyFrame.block # 0 /\ BodyFrame.inside \in BOOLEAN /\ BodyFrame.inside
        /\ BodyFrame.region \in DOMAIN m.region /\ m.region[BodyFrame.region].owner = BodyFrame.op
        /\ BodyFrame.block \in DOMAIN m.block /\ m.block[BodyFrame.block].region = BodyFrame.region
    <3> DEFINE f == BodyFrame
    <3>1. f.op = 0 /\ f.inside /\ f.inside \in BOOLEAN /\ f.region = 1 /\ f.block = 1
      BY <1>3
    <3> HIDE DEF f
    <3>2. f.region \in DOMAIN m.region /\ f.block \in DOMAIN m.block
      BY <1>2, <3>1
    <3>3. m.region[f.region].owner = f.op
      BY <1>2, <3>1
    <3>4. m.block[f.block].region = f.region
      BY <1>2, <3>1
    <3>5. f.block # 0 /\ f.inside \in BOOLEAN /\ f.inside
      BY <3>1
    <3> QED
      BY <3>1, <3>2, <3>3, <3>4, <3>5 DEF f
  <2> QED
    BY <1>3, <2>1, Zenon DEF IsFrame
<1>5. frames \in Seq(ToSet(frames)) /\ Len(frames) = 1 /\ DOMAIN frames = {1} /\ frames[1] = BodyFrame
  BY DEF ToSet
<1>6. /\ scopes \in Seq(ToSet(scopes)) /\ Len(scopes) = 1
      /\ DOMAIN scopes = {1} /\ scopes[1] = none
  BY DEF ToSet
<1>7. Visible(none) = {}
  BY DEF Visible
<1> HIDE DEF frames, scopes, none
<1>8. Stacked(m, frames)
  <2>1. 1..Len(frames) - 1 = {}
    BY <1>5
  <2> QED
    BY <1>4, <1>5, <2>1 DEF Stacked
<1>9. Filling(m, frames)
  BY <1>1 DEF Filling, RegionsFilled
<1>10. Scoped(frames, scopes)
  BY <1>3, <1>5, <1>6 DEF Scoped
<1>11. AllSighted(m) /\ Seen(m, frames, scopes)
  BY <1>2, <1>6, <1>7 DEF AllSighted, Seen
<1>12. ReadInv(m, frames, scopes)
  BY <1>1, <1>8, <1>9, <1>10, <1>11 DEF ReadInv, Base
<1>13. /\ DOMAIN Reading(capabilities, approved) = {"m", "scopes", "frames", "ok"}
       /\ Reading(capabilities, approved).m = m
       /\ Reading(capabilities, approved).frames = frames
       /\ Reading(capabilities, approved).scopes = scopes
  BY DEF Reading, m, frames, scopes, none
<1> QED
  BY <1>12, <1>13 DEF IsReading

\* Every item leaves what the parser knows true.
LEMMA ReadKeeps ==
  ASSUME NEW p, IsReading(p), NEW item, IsItem(item)
  PROVE  IsReading(Read(p, item))
<1>1. CASE ~p.ok \/ ~Expected(p, item)
  <2>1. Read(p, item) = Failed(p)
    BY <1>1 DEF Read
  <2> QED
    BY <2>1 DEF Failed, IsReading
<1>2. CASE p.ok /\ Expected(p, item)
  <2>1. CASE item.item = "head"
    BY <1>2, <2>1, HeadKeeps DEF Read
  <2>2. CASE item.item = "open"
    BY <1>2, <2>2, OpenKeeps DEF Read
  <2>3. CASE item.item = "label"
    BY <1>2, <2>3, LabelKeeps DEF Read
  <2>4. CASE item.item = "close"
    BY <1>2, <2>4, CloseKeeps DEF Read
  <2>5. CASE item.item = "tail"
    BY <1>2, <2>5, TailKeeps DEF Read
  <2> QED
    BY <2>1, <2>2, <2>3, <2>4, <2>5 DEF IsItem
<1> QED
  BY <1>1, <1>2

\* f is what the parser has made of the first n items.
ReadsTo(f, n, start, text) ==
  f[0] = start /\ \A i \in 1..n : f[i] = Read(f[i - 1], text[i])

LEMMA EveryTextIsRead ==
  ASSUME NEW start, NEW L \in Nat, NEW text
  PROVE  \E f : ReadsTo(f, L, start, text)
<1> DEFINE Good == {n \in 0..L : \E f : ReadsTo(f, n, start, text)}
<1>1. 0 \in Good
  <2> DEFINE f == [i \in {0} |-> start]
  <2>1. f[0] = start /\ 1..0 = {} /\ 0 \in 0..L
    OBVIOUS
  <2> HIDE DEF f
  <2>2. ReadsTo(f, 0, start, text)
    BY <2>1 DEF ReadsTo
  <2> QED
    BY <2>1, <2>2
<1>2. ASSUME NEW n \in 1..L, n - 1 \in Good PROVE n \in Good
  <2>1. PICK f : ReadsTo(f, n - 1, start, text)
    BY <1>2
  <2> DEFINE last == Read(f[n - 1], text[n])
             g == [i \in 0..n |-> IF i = n THEN last ELSE f[i]]
  <2>2. g[n] = last /\ g[0] = f[0] /\ \A i \in 0..n - 1 : g[i] = f[i]
    <3> HIDE DEF last
    <3> QED
      OBVIOUS
  <2> HIDE DEF g
  <2>3. ASSUME NEW i \in 1..n PROVE g[i] = Read(g[i - 1], text[i])
    <3>1. i - 1 \in 0..n - 1 /\ (i = n \/ i \in 1..n - 1)
      OBVIOUS
    <3>2. g[i - 1] = f[i - 1]
      BY <2>2, <3>1
    <3>3. CASE i = n
      BY <2>2, <3>2, <3>3
    <3>4. CASE i \in 1..n - 1
      <4>1. g[i] = f[i]
        BY <2>2, <3>4
      <4>2. f[i] = Read(f[i - 1], text[i])
        BY <2>1, <3>4 DEF ReadsTo
      <4> QED
        BY <3>2, <4>1, <4>2
    <3> QED
      BY <3>1, <3>3, <3>4
  <2>4. ReadsTo(g, n, start, text)
    BY <2>1, <2>2, <2>3 DEF ReadsTo
  <2>5. n \in 0..L
    OBVIOUS
  <2> QED
    BY <2>4, <2>5
<1> HIDE DEF Good
<1>3. 0..L \subseteq Good
  BY <1>1, <1>2, Upward
<1>4. L \in Good
  BY <1>3
<1> QED
  BY <1>4 DEF Good

\* Whatever it reads, the parser is in a state that its invariant describes at
\* the end, and has made a module only if no operation is left open.
LEMMA ParsedIs ==
  ASSUME NEW capabilities, NEW approved, NEW text, IsText(text)
  PROVE  LET p == Parsed(capabilities, approved, text) IN
         IsReading(p) /\ (p.ok => Len(p.frames) = 1)
<1> DEFINE L == Len(text)
           start == Reading(capabilities, approved)
           read == CHOOSE f : f = [n \in 0..Len(text) |->
                     IF n = 0 THEN Reading(capabilities, approved) ELSE Read(f[n - 1], text[n])]
           p == Parsed(capabilities, approved, text)
<1>1. text \in Seq(ToSet(text)) /\ L \in Nat /\ DOMAIN text = 1..L /\ \A i \in 1..L : IsItem(text[i])
  <2>1. text \in Seq(ToSet(text))
    BY DEF IsText
  <2> QED
    BY <2>1 DEF IsText
<1>2. PICK f : ReadsTo(f, L, start, text)
  <2> HIDE DEF L, start
  <2> QED
    BY <1>1, EveryTextIsRead
<1> DEFINE g == [n \in 0..L |-> f[n]]
<1>3. g = [n \in 0..L |-> IF n = 0 THEN start ELSE Read(g[n - 1], text[n])]
  <2> HIDE DEF L, start
  <2> SUFFICES ASSUME NEW n \in 0..L
               PROVE  g[n] = IF n = 0 THEN start ELSE Read(g[n - 1], text[n])
    OBVIOUS
  <2>1. CASE n = 0
    BY <1>2, <2>1 DEF ReadsTo
  <2>2. CASE n # 0
    <3>1. n \in 1..L /\ n - 1 \in 0..L
      BY <1>1, <2>2
    <3>2. f[n] = Read(f[n - 1], text[n])
      BY <1>2, <3>1 DEF ReadsTo
    <3> QED
      BY <2>2, <3>1, <3>2
  <2> QED
    BY <2>1, <2>2
<1>4. read = [n \in 0..L |-> IF n = 0 THEN start ELSE Read(read[n - 1], text[n])]
  <2> HIDE DEF g
  <2> QED
    BY <1>3
<1>5. p = IF Len(read[L].frames) = 1 THEN read[L] ELSE Failed(read[L])
  BY DEF Parsed
<1> HIDE DEF read, start, p, L
<1>6. \A n \in 0..L : read[n] = IF n = 0 THEN start ELSE Read(read[n - 1], text[n])
  BY <1>4
<1> DEFINE Good == {n \in 0..L : IsReading(read[n])}
<1>7. 0 \in Good
  <2>1. 0 \in 0..L
    BY <1>1
  <2> QED
    BY <1>6, <2>1, ReadingStarts DEF start
<1>8. ASSUME NEW n \in 1..L, n - 1 \in Good PROVE n \in Good
  <2>1. n \in 0..L /\ n # 0
    BY <1>1
  <2>2. read[n] = Read(read[n - 1], text[n])
    BY <1>6, <2>1
  <2>3. IsReading(read[n - 1]) /\ IsItem(text[n])
    BY <1>1, <1>8
  <2> QED
    BY <2>1, <2>2, <2>3, ReadKeeps
<1> HIDE DEF Good
<1>9. 0..L \subseteq Good
  BY <1>1, <1>7, <1>8, Upward
<1>10. L \in 0..L
  BY <1>1
<1>11. IsReading(read[L])
  BY <1>9, <1>10 DEF Good
<1>12. IsReading(p) /\ (p.ok => Len(p.frames) = 1)
  <2>1. CASE Len(read[L].frames) = 1
    BY <1>5, <1>11, <2>1
  <2>2. CASE Len(read[L].frames) # 1
    BY <1>5, <1>11, <2>2 DEF Failed, IsReading
  <2> QED
    BY <2>1, <2>2
<1> QED
  BY <1>12 DEF p

\* Of any text the parser makes a module whose arenas agree, where what holds an
\* operation comes before it and every region has a block; and where no region has
\* two, an operation uses only values that dominate it (parser.rs, use_value).
THEOREM WhatIsReadIsSound ==
  ASSUME NEW capabilities, NEW approved, NEW text, IsText(text),
         Parsed(capabilities, approved, text).ok
  PROVE  LET m == Parsed(capabilities, approved, text).m IN
         Sound(m) /\ (Single(m) => Undominated(m) = {})
<1> DEFINE p == Parsed(capabilities, approved, text)
<1>1. IsReading(p) /\ Len(p.frames) = 1
  BY ParsedIs
<1> HIDE DEF p
<1>2. ReadInv(p.m, p.frames, p.scopes)
  BY <1>1 DEF IsReading, p
<1>3. Base(p.m) /\ Stacked(p.m, p.frames)
  BY <1>2 DEF ReadInv
<1>4. RegionsFilled(p.m)
  <2>1. p.frames[1].block # 0
    BY <1>3 DEF Stacked, BodyFrame, Frame, BodyBlock
  <2> QED
    BY <1>1, <1>2, <2>1 DEF ReadInv, Filling, RegionsFilled
<1>5. Sound(p.m)
  BY <1>3, <1>4 DEF Base, Arena, Sound
<1>6. ASSUME Single(p.m) PROVE Undominated(p.m) = {}
  <2>1. AllSighted(p.m) /\ Forest(p.m)
    BY <1>2, <1>3, <1>6, FirstForest DEF ReadInv, Base
  <2> SUFFICES ASSUME NEW o \in Live(p.m), NEW v \in Operands(p.m, o) PROVE Dominates(p.m, v, o)
    BY DEF Undominated
  <2>2. o \in DOMAIN p.m.op
    BY DEF Live
  <2> QED
    BY <2>1, <2>2, SightedDominates DEF AllSighted
<1> QED
  BY <1>5, <1>6 DEF p
=============================================================================
