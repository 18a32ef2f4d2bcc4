----------------------------- MODULE ArenaProofs -----------------------------
(***************************************************************************)
(* Every edit the passes make keeps the arenas in agreement, and so does   *)
(* every state of a pipeline, whatever modules it is given.                *)
(***************************************************************************)
EXTENDS Passes, NaturalSets, SequenceTheorems, TLAPS

-----------------------------------------------------------------------------
(* Sequences.                                                              *)

\* A sequence is one over what it holds.
LEMMA OverItsElements ==
  ASSUME NEW S, NEW s \in Seq(S)
  PROVE  s \in Seq(ToSet(s)) /\ ToSet(s) \subseteq S
  BY DEF ToSet

\* InsertAt makes room at a position (Block::insert, Vec::insert).
LEMMA InsertAtProperties ==
  ASSUME NEW S, NEW s \in Seq(S), NEW e \in S, NEW i \in 1..Len(s) + 1
  PROVE  /\ InsertAt(s, i, e) \in Seq(S)
         /\ Len(InsertAt(s, i, e)) = Len(s) + 1
         /\ \A j \in 1..Len(s) + 1 :
              InsertAt(s, i, e)[j] = IF j < i THEN s[j] ELSE IF j = i THEN e ELSE s[j - 1]
<1> DEFINE front == SubSeq(s, 1, i - 1)
           back == SubSeq(s, i, Len(s))
<1>1. /\ front \in Seq(S) /\ Len(front) = i - 1
      /\ \A j \in 1..i - 1 : front[j] = s[j]
  BY SubSeqProperties
<1>2. /\ back \in Seq(S) /\ Len(back) = Len(s) - i + 1
      /\ \A j \in 1..Len(s) - i + 1 : back[j] = s[j + i - 1]
  BY SubSeqProperties
<1> HIDE DEF front, back
<1>3. /\ front \o <<e>> \in Seq(S) /\ Len(front \o <<e>>) = i
      /\ \A j \in 1..i : (front \o <<e>>)[j] = IF j < i THEN s[j] ELSE e
  BY <1>1
<1>4. InsertAt(s, i, e) = (front \o <<e>>) \o back
  BY DEF InsertAt, front, back
<1> HIDE DEF front, back
<1>5. /\ InsertAt(s, i, e) \in Seq(S)
      /\ Len(InsertAt(s, i, e)) = Len(s) + 1
  <2>1. /\ (front \o <<e>>) \o back \in Seq(S)
        /\ Len((front \o <<e>>) \o back) = i + (Len(s) - i + 1)
    BY <1>2, <1>3, ConcatProperties
  <2>2. i + (Len(s) - i + 1) = Len(s) + 1
    OBVIOUS
  <2> QED
    BY <2>1, <2>2, <1>4
<1>6. ASSUME NEW j \in 1..Len(s) + 1
      PROVE  InsertAt(s, i, e)[j] = IF j < i THEN s[j] ELSE IF j = i THEN e ELSE s[j - 1]
  <2>1. CASE j =< i
    BY <1>2, <1>3, <1>4, <2>1
  <2>2. CASE j > i
    <3> DEFINE head == front \o <<e>>
    <3>0. head \in Seq(S) /\ Len(head) = i
      BY <1>3
    <3> HIDE DEF head
    <3>b. j \in 1..Len(head) + Len(back)
      BY <1>2, <3>0
    <3>a. (head \o back)[j] = IF j <= Len(head) THEN head[j] ELSE back[j - Len(head)]
      BY <1>2, <3>0, <3>b, ConcatProperties
    <3>1. InsertAt(s, i, e)[j] = back[j - i]
      <4>1. InsertAt(s, i, e) = head \o back
        BY <1>4 DEF head
      <4>2. ~ (j <= Len(head))
        BY <2>2, <3>0
      <4> QED
        BY <3>0, <3>a, <4>1, <4>2, Zenon
    <3>2. j - i \in 1..Len(s) - i + 1 /\ (j - i) + i - 1 = j - 1
      BY <2>2
    <3> QED
      BY <1>2, <2>2, <3>1, <3>2
  <2> QED
    BY <2>1, <2>2
<1> QED
  BY <1>5, <1>6

\* ops is s with e inserted at position i.
IsInsertion(ops, s, i, e) ==
  /\ ops \in Seq(Nat)
  /\ DOMAIN ops = 1..Len(s) + 1
  /\ \A j \in 1..Len(s) + 1 :
       ops[j] = IF j < i THEN s[j] ELSE IF j = i THEN e ELSE s[j - 1]

LEMMA InsertAtNat ==
  ASSUME NEW s \in Seq(Nat), NEW e \in Nat, NEW i \in 1..Len(s) + 1
  PROVE  IsInsertion(InsertAt(s, i, e), s, i, e)
<1> DEFINE S == Nat
<1>1. s \in Seq(S) /\ e \in S
  OBVIOUS
<1>2. S = Nat
  OBVIOUS
<1> HIDE DEF S
<1>3. InsertAt(s, i, e) \in Seq(S) /\ Len(InsertAt(s, i, e)) = Len(s) + 1
  BY <1>1, InsertAtProperties
<1>4. \A j \in 1..Len(s) + 1 :
        InsertAt(s, i, e)[j] = IF j < i THEN s[j] ELSE IF j = i THEN e ELSE s[j - 1]
  BY <1>1, InsertAtProperties
<1> QED
  BY <1>2, <1>3, <1>4 DEF IsInsertion

\* RemoveAt closes the gap (Module::detach, Vec::remove).
LEMMA RemoveAtProperties ==
  ASSUME NEW S, NEW s \in Seq(S), NEW i \in 1..Len(s)
  PROVE  /\ RemoveAt(s, i) \in Seq(S)
         /\ Len(RemoveAt(s, i)) = Len(s) - 1
         /\ \A j \in 1..Len(s) - 1 :
              RemoveAt(s, i)[j] = IF j < i THEN s[j] ELSE s[j + 1]
<1> DEFINE front == SubSeq(s, 1, i - 1)
           back == SubSeq(s, i + 1, Len(s))
<1>1. /\ front \in Seq(S) /\ Len(front) = i - 1
      /\ \A j \in 1..i - 1 : front[j] = s[j]
  BY SubSeqProperties
<1>2. /\ back \in Seq(S) /\ Len(back) = Len(s) - i
      /\ \A j \in 1..Len(s) - i : back[j] = s[j + i]
  BY SubSeqProperties
<1>3. RemoveAt(s, i) = front \o back
  BY DEF RemoveAt
<1> HIDE DEF front, back
<1>4. RemoveAt(s, i) \in Seq(S) /\ Len(RemoveAt(s, i)) = Len(s) - 1
  BY <1>1, <1>2, <1>3
<1>5. ASSUME NEW j \in 1..Len(s) - 1
      PROVE  RemoveAt(s, i)[j] = IF j < i THEN s[j] ELSE s[j + 1]
  <2>1. CASE j < i
    BY <1>1, <1>2, <1>3, <2>1
  <2>2. CASE j >= i
    <3>1. RemoveAt(s, i)[j] = back[j - i + 1]
      BY <1>1, <1>2, <1>3, <2>2
    <3>2. j - i + 1 \in 1..Len(s) - i /\ (j - i + 1) + i = j + 1
      BY <2>2
    <3> QED
      BY <1>2, <2>2, <3>1, <3>2
  <2> QED
    BY <2>1, <2>2
<1> QED
  BY <1>4, <1>5

\* ops is s without its position i.
IsRemoval(ops, s, i) ==
  /\ ops \in Seq(Nat)
  /\ DOMAIN ops = 1..Len(s) - 1
  /\ \A j \in 1..Len(s) - 1 : ops[j] = IF j < i THEN s[j] ELSE s[j + 1]

LEMMA RemoveAtNat ==
  ASSUME NEW s \in Seq(Nat), NEW i \in 1..Len(s)
  PROVE  IsRemoval(RemoveAt(s, i), s, i)
<1> DEFINE S == Nat
<1>1. s \in Seq(S)
  OBVIOUS
<1>2. S = Nat
  OBVIOUS
<1> HIDE DEF S
<1>3. RemoveAt(s, i) \in Seq(S) /\ Len(RemoveAt(s, i)) = Len(s) - 1
  BY <1>1, RemoveAtProperties
<1>4. \A j \in 1..Len(s) - 1 : RemoveAt(s, i)[j] = IF j < i THEN s[j] ELSE s[j + 1]
  BY <1>1, RemoveAtProperties
<1> QED
  BY <1>2, <1>3, <1>4 DEF IsRemoval

LEMMA Concatenation ==
  ASSUME NEW S, NEW s \in Seq(S), NEW t \in Seq(S), NEW e
  PROVE  e \in ToSet(s \o t) <=> e \in ToSet(s) \/ e \in ToSet(t)
<1> DEFINE both == s \o t
<1>1. /\ Len(s) \in Nat /\ DOMAIN s = 1..Len(s) /\ Len(t) \in Nat /\ DOMAIN t = 1..Len(t)
      /\ DOMAIN both = 1..Len(s) + Len(t)
      /\ \A i \in 1..Len(s) + Len(t) : both[i] = IF i =< Len(s) THEN s[i] ELSE t[i - Len(s)]
  OBVIOUS
<1> HIDE DEF both
<1>2. ASSUME NEW i \in DOMAIN both PROVE both[i] \in ToSet(s) \/ both[i] \in ToSet(t)
  <2>1. i =< Len(s) => i \in DOMAIN s /\ both[i] = s[i]
    BY <1>1
  <2>2. ~(i =< Len(s)) => i - Len(s) \in DOMAIN t /\ both[i] = t[i - Len(s)]
    BY <1>1
  <2> QED
    BY <2>1, <2>2 DEF ToSet
<1>3. ASSUME NEW i \in DOMAIN s PROVE s[i] \in ToSet(both)
  <2>1. i \in DOMAIN both /\ both[i] = s[i]
    BY <1>1
  <2> QED
    BY <2>1 DEF ToSet
<1>4. ASSUME NEW i \in DOMAIN t PROVE t[i] \in ToSet(both)
  <2>1. i + Len(s) \in DOMAIN both /\ both[i + Len(s)] = t[i]
    BY <1>1
  <2> QED
    BY <2>1 DEF ToSet
<1>5. e \in ToSet(both) => e \in ToSet(s) \/ e \in ToSet(t)
  BY <1>2 DEF ToSet
<1>6. e \in ToSet(s) => e \in ToSet(both)
  BY <1>3 DEF ToSet
<1>7. e \in ToSet(t) => e \in ToSet(both)
  BY <1>4 DEF ToSet
<1> QED
  BY <1>5, <1>6, <1>7 DEF both

\* The parts of a sequence of sequences, put together, hold what the parts hold.
LEMMA Flattening ==
  ASSUME NEW S, NEW s \in Seq(Seq(S))
  PROVE  /\ FlattenSeq(s) \in Seq(S)
         /\ \A e : e \in ToSet(FlattenSeq(s)) <=> \E i \in DOMAIN s : e \in ToSet(s[i])
<1>1. CASE Len(s) = 0
  <2>1. s = <<>>
    BY <1>1
  <2>2. FlattenSeq(s) = <<>>
    BY <2>1, <1>1 DEF FlattenSeq
  <2>3. DOMAIN <<>> = {} /\ <<>> \in Seq(S)
    OBVIOUS
  <2>4. ToSet(<<>>) = {}
    BY <2>3 DEF ToSet
  <2>5. \A e : ~\E i \in DOMAIN s : e \in ToSet(s[i])
    BY <2>1, <2>3
  <2> QED
    BY <2>2, <2>3, <2>4, <2>5
<1>2. CASE Len(s) # 0
  <2> DEFINE D == 1..Len(s)
             X == Seq(S)
             step == [p \in D \X [D -> X] |->
                        IF p[1] = 1 THEN s[p[1]] ELSE p[2][p[1] - 1] \o s[p[1]]]
             rank == [i \in D |-> i]
             whole == CHOOSE f : f = [i \in D |-> IF i = 1 THEN s[i] ELSE f[i - 1] \o s[i]]
  <2>1. Len(s) \in Nat /\ Len(s) >= 1 /\ DOMAIN s = D
    BY <1>2
  <2>2. X # {}
    <3>1. <<>> \in X
      OBVIOUS
    <3> QED
      BY <3>1
  <2>3. rank \in [D -> 0..Len(s)]
    BY <2>1
  <2>4. step \in [D \X [D -> X] -> X]
    <3> SUFFICES ASSUME NEW i \in D, NEW f \in [D -> X]
                 PROVE  (IF i = 1 THEN s[i] ELSE f[i - 1] \o s[i]) \in X
      OBVIOUS
    <3>1. s[i] \in X
      OBVIOUS
    <3>2. i # 1 => i - 1 \in D
      BY <2>1
    <3>3. i # 1 => f[i - 1] \in X
      <4> HIDE DEF D, X
      <4> QED
        BY <3>2
    <3> QED
      BY <3>1, <3>3
  <2>5. Recursive(D, X, Len(s), rank, step)
    <3>1. ASSUME NEW i \in D, NEW f \in [D -> X], NEW g \in [D -> X],
                 \A j \in D : rank[j] < rank[i] => f[j] = g[j]
          PROVE  step[<<i, f>>] = step[<<i, g>>]
      <4>1. i # 1 => i - 1 \in D /\ f[i - 1] = g[i - 1]
        BY <2>1, <3>1
      <4> QED
        BY <4>1
    <3> HIDE DEF D, X, step
    <3> QED
      BY <2>1, <2>2, <2>3, <2>4, <3>1 DEF Recursive
  <2>6. PICK f \in [D -> X] : \A i \in D : f[i] = step[<<i, f>>]
    <3> HIDE DEF step, D, X, rank
    <3> QED
      BY <2>5, Recursion
  <2>7. f = [i \in D |-> IF i = 1 THEN s[i] ELSE f[i - 1] \o s[i]]
    BY <2>6
  <2>8. whole = [i \in D |-> IF i = 1 THEN s[i] ELSE whole[i - 1] \o s[i]]
    BY <2>7
  <2>9. FlattenSeq(s) = whole[Len(s)]
    BY <1>2 DEF FlattenSeq
  <2> HIDE DEF whole
  <2> DEFINE Joined(i) == /\ whole[i] \in X
                          /\ \A e : e \in ToSet(whole[i]) <=> \E j \in D : j =< i /\ e \in ToSet(s[j])
  <2>10. ASSUME NEW i \in D, i # 1 => Joined(i - 1)
         PROVE  Joined(i)
    <3>1. i # 1 => i - 1 \in D /\ whole[i - 1] \in X
      BY <2>1, <2>10
    <3>2. s[i] \in X
      OBVIOUS
    <3>3. whole[i] = IF i = 1 THEN s[i] ELSE whole[i - 1] \o s[i]
      <4> HIDE DEF D
      <4> QED
        BY <2>8
    <3>4. whole[i] \in X
      BY <3>1, <3>2, <3>3
    <3>5. ASSUME NEW e PROVE e \in ToSet(whole[i]) <=> (i # 1 /\ e \in ToSet(whole[i - 1])) \/ e \in ToSet(s[i])
      <4>1. CASE i = 1
        BY <3>3, <4>1
      <4>2. CASE i # 1
        <5>1. e \in ToSet(whole[i - 1] \o s[i]) <=> e \in ToSet(whole[i - 1]) \/ e \in ToSet(s[i])
          BY <3>1, <3>2, <4>2, Concatenation
        <5> QED
          BY <3>3, <4>2, <5>1
      <4> QED
        BY <4>1, <4>2
    <3>6. \A j \in D : j =< i <=> j = i \/ (i # 1 /\ j =< i - 1)
      BY <2>1
    <3>7. ASSUME NEW e PROVE e \in ToSet(whole[i]) <=> \E j \in D : j =< i /\ e \in ToSet(s[j])
      <4>1. i # 1 => (e \in ToSet(whole[i - 1]) <=> \E j \in D : j =< i - 1 /\ e \in ToSet(s[j]))
        BY <2>10
      <4> HIDE DEF D, X
      <4> QED
        BY <3>5, <3>6, <4>1
    <3> QED
      BY <3>4, <3>7
  <2>11. ASSUME NEW i \in D PROVE Joined(i)
    <3> DEFINE Good == {k \in D : Joined(k)}
    <3>1. ASSUME NEW k \in D, \A j \in D : rank[j] < rank[k] => j \in Good
          PROVE  k \in Good
      <4>1. k # 1 => k - 1 \in D /\ rank[k - 1] < rank[k]
        BY <2>1
      <4> HIDE DEF D, rank, Joined
      <4>2. k # 1 => Joined(k - 1)
        BY <3>1, <4>1
      <4> QED
        BY <2>10, <4>2
    <3>2. rank \in [D -> Nat]
      BY <2>1
    <3> HIDE DEF D, X, rank, Good
    <3>3. D \subseteq Good
      BY <3>1, <3>2, RankInduction
    <3> QED
      BY <3>3 DEF Good
  <2>12. Len(s) \in D /\ \A j \in D : j =< Len(s)
    BY <2>1
  <2>13. Joined(Len(s))
    BY <2>11, <2>12
  <2> HIDE DEF X, D
  <2> QED
    BY <2>1, <2>9, <2>12, <2>13 DEF X
<1> QED
  BY <1>1, <1>2

-----------------------------------------------------------------------------
(* Edits of the arenas.                                                    *)

Arena(m) == IsModule(m) /\ ArenaAgrees(m)

\* What no edit of a list, a name or an operand changes in an operation.
SameHead(o, p) ==
  /\ p.name = o.name /\ p.literal = o.literal
  /\ p.attrs = o.attrs /\ p.effect = o.effect
  /\ p.results = o.results

LEMMA SequencesAreLists ==
  /\ \A S : \A s \in Seq(S) : IsFunction(s)
  /\ IsFunction(<<>>)
  /\ \A operands, to : IsFunction(Redirected(operands, to))
BY DEF IsFunction, Redirected

LEMMA ListedFunction ==
  ASSUME NEW n \in Nat, NEW S, NEW f \in [1..n -> S]
  PROVE  f \in Seq(S)
OBVIOUS

\* What an arena holds is a sequence of entries of their shape.
LEMMA ArenaShape ==
  ASSUME NEW m, IsModule(m)
  PROVE  /\ DOMAIN m.op = 1..Len(m.op) /\ Len(m.op) \in Nat
         /\ DOMAIN m.block = 1..Len(m.block) /\ Len(m.block) \in Nat
         /\ DOMAIN m.region = 1..Len(m.region) /\ Len(m.region) \in Nat
         /\ DOMAIN m.value = 1..Len(m.value) /\ Len(m.value) \in Nat
  BY DEF IsModule

\* Agreement is about where an operation is, not about what it reads.
LEMMA SamePlaces ==
  ASSUME NEW m, NEW n, ArenaAgrees(m),
         DOMAIN n.op = DOMAIN m.op,
         \A o \in DOMAIN m.op : /\ n.op[o].parent = m.op[o].parent
                                /\ n.op[o].erased = m.op[o].erased
                                /\ n.op[o].regions = m.op[o].regions,
         n.block = m.block, n.region = m.region
  PROVE  ArenaAgrees(n)
<1>1. ListedWhereNamed(n)
  BY DEF ArenaAgrees, ListedWhereNamed
<1>2. NamedWhereListed(n)
  BY DEF ArenaAgrees, NamedWhereListed
<1>3. ListedOnce(n)
  BY DEF ArenaAgrees, ListedOnce
<1>4. ErasedIsNowhere(n)
  BY DEF ArenaAgrees, ErasedIsNowhere
<1>5. RegionsOwned(n)
  BY DEF ArenaAgrees, RegionsOwned
<1> QED
  BY <1>1, <1>2, <1>3, <1>4, <1>5 DEF ArenaAgrees

\* replace_all_uses changes operands only.
LEMMA RedirectingKeepsArena ==
  ASSUME NEW m, NEW to, Arena(m)
  PROVE  /\ Arena(UsesReplaced(m, to))
         /\ DOMAIN UsesReplaced(m, to).op = DOMAIN m.op
         /\ \A o \in DOMAIN m.op :
              /\ UsesReplaced(m, to).op[o].parent = m.op[o].parent
              /\ UsesReplaced(m, to).op[o].erased = m.op[o].erased
              /\ UsesReplaced(m, to).op[o].regions = m.op[o].regions
              /\ SameHead(m.op[o], UsesReplaced(m, to).op[o])
              /\ ~m.op[o].erased =>
                   UsesReplaced(m, to).op[o].operands = Redirected(m.op[o].operands, to)
         /\ UsesReplaced(m, to).block = m.block /\ UsesReplaced(m, to).region = m.region
         /\ UsesReplaced(m, to).value = m.value
<1> DEFINE n == UsesReplaced(m, to)
<1>1. /\ DOMAIN n = DOMAIN m
      /\ n.block = m.block /\ n.region = m.region /\ n.value = m.value
      /\ n.op = [o \in DOMAIN m.op |-> IF m.op[o].erased THEN m.op[o]
                   ELSE [m.op[o] EXCEPT !.operands = Redirected(@, to)]]
  BY DEF UsesReplaced, Arena, IsModule
<1>a. IsFunction(n)
  BY DEF UsesReplaced, IsFunction
<1> HIDE DEF n
<1>2. DOMAIN n.op = DOMAIN m.op
  BY <1>1
<1>3. ASSUME NEW o \in DOMAIN m.op
      PROVE  /\ IsOp(n.op[o])
             /\ n.op[o].parent = m.op[o].parent
             /\ n.op[o].erased = m.op[o].erased
             /\ n.op[o].regions = m.op[o].regions
             /\ SameHead(m.op[o], n.op[o])
             /\ ~m.op[o].erased => n.op[o].operands = Redirected(m.op[o].operands, to)
  <2>1. IsOp(m.op[o])
    BY DEF Arena, IsModule
  <2>2. n.op[o] = IF m.op[o].erased THEN m.op[o]
                  ELSE [m.op[o] EXCEPT !.operands = Redirected(m.op[o].operands, to)]
    BY <1>1
  <2>3. IsFunction(n.op[o])
    <3>1. IsFunction([m.op[o] EXCEPT !.operands = Redirected(m.op[o].operands, to)])
      BY DEF IsFunction
    <3>2. IsFunction(m.op[o])
      BY <2>1 DEF IsOp
    <3> QED
      BY <2>2, <3>1, <3>2
  <2> QED
    BY <2>1, <2>2, <2>3, SequencesAreLists DEF IsOp, SameHead
<1>4. n.op \in Seq(ToSet(n.op))
  <2>1. DOMAIN n.op = 1..Len(m.op) /\ Len(m.op) \in Nat
    BY <1>2, ArenaShape DEF Arena
  <2>2. n.op \in [1..Len(m.op) -> ToSet(n.op)]
    BY <1>1, <2>1 DEF ToSet
  <2> QED
    BY <2>1, <2>2
<1>5. IsModule(n)
  BY <1>a, <1>1, <1>2, <1>3, <1>4 DEF IsModule, Arena
<1>6. ArenaAgrees(n)
  BY <1>1, <1>2, <1>3, SamePlaces DEF Arena
<1> QED
  BY <1>1, <1>2, <1>3, <1>5, <1>6 DEF n, Arena

\* The program after an operation has changed its block, and a block its list.
Relisted(m, o, parent, b, ops) ==
  [m EXCEPT !.op[o].parent = parent, !.block[b].ops = ops]

LEMMA RelistedShape ==
  ASSUME NEW m, NEW o \in DOMAIN m.op, NEW parent \in Nat, NEW b \in DOMAIN m.block,
         NEW ops \in Seq(Nat), IsModule(m)
  PROVE  LET n == Relisted(m, o, parent, b, ops) IN
         /\ IsModule(n)
         /\ DOMAIN n.op = DOMAIN m.op /\ DOMAIN n.block = DOMAIN m.block
         /\ n.region = m.region /\ n.value = m.value
         /\ n.op[o].parent = parent
         /\ \A x \in DOMAIN m.op : /\ n.op[x].erased = m.op[x].erased
                                   /\ n.op[x].operands = m.op[x].operands
                                   /\ n.op[x].regions = m.op[x].regions
                                   /\ SameHead(m.op[x], n.op[x])
                                   /\ x # o => n.op[x].parent = m.op[x].parent
         /\ n.block[b].ops = ops
         /\ \A x \in DOMAIN m.block : /\ n.block[x].region = m.block[x].region
                                      /\ x # b => n.block[x].ops = m.block[x].ops
<1> DEFINE n == Relisted(m, o, parent, b, ops)
<1>1. /\ DOMAIN n = DOMAIN m
      /\ n.region = m.region /\ n.value = m.value
      /\ n.op = [m.op EXCEPT ![o] = [@ EXCEPT !.parent = parent]]
      /\ n.block = [m.block EXCEPT ![b] = [@ EXCEPT !.ops = ops]]
  BY DEF Relisted, IsModule
<1>a. IsFunction(n)
  BY DEF Relisted, IsFunction
<1> HIDE DEF n
<1>2. DOMAIN n.op = DOMAIN m.op /\ DOMAIN n.block = DOMAIN m.block
  BY <1>1
<1>3. ASSUME NEW x \in DOMAIN m.op
      PROVE  /\ IsOp(n.op[x])
             /\ n.op[x].parent = IF x = o THEN parent ELSE m.op[x].parent
             /\ n.op[x].erased = m.op[x].erased
             /\ n.op[x].operands = m.op[x].operands
             /\ n.op[x].regions = m.op[x].regions
             /\ SameHead(m.op[x], n.op[x])
  <2>1. IsOp(m.op[x])
    BY DEF IsModule
  <2>2. n.op[x] = IF x = o THEN [m.op[x] EXCEPT !.parent = parent] ELSE m.op[x]
    BY <1>1
  <2>3. IsFunction(n.op[x])
    <3>1. IsFunction([m.op[x] EXCEPT !.parent = parent])
      BY DEF IsFunction
    <3>2. IsFunction(m.op[x])
      BY <2>1 DEF IsOp
    <3> QED
      BY <2>2, <3>1, <3>2
  <2> QED
    BY <2>1, <2>2, <2>3 DEF IsOp, SameHead
<1>4. ASSUME NEW x \in DOMAIN m.block
      PROVE  /\ IsBlock(n.block[x])
             /\ n.block[x].region = m.block[x].region
             /\ n.block[x].ops = IF x = b THEN ops ELSE m.block[x].ops
  BY <1>1 DEF IsModule, IsBlock
<1>5. n.op \in Seq(ToSet(n.op))
  <2>1. DOMAIN n.op = 1..Len(m.op) /\ Len(m.op) \in Nat
    BY <1>2, ArenaShape
  <2>2. n.op \in [1..Len(m.op) -> ToSet(n.op)]
    BY <1>1, <2>1 DEF ToSet
  <2> QED
    BY <2>1, <2>2, ListedFunction
<1>6. n.block \in Seq(ToSet(n.block))
  <2>1. DOMAIN n.block = 1..Len(m.block) /\ Len(m.block) \in Nat
    BY <1>2, ArenaShape
  <2>2. n.block \in [1..Len(m.block) -> ToSet(n.block)]
    BY <1>1, <2>1 DEF ToSet
  <2> QED
    BY <2>1, <2>2, ListedFunction
<1>7. IsModule(n)
  BY <1>a, <1>1, <1>2, <1>3, <1>4, <1>5, <1>6 DEF IsModule
<1> QED
  BY <1>1, <1>2, <1>3, <1>4, <1>7 DEF n

\* An operation that was nowhere, put once in a block.
LEMMA Placing ==
  ASSUME NEW m, NEW o \in DOMAIN m.op, NEW b \in DOMAIN m.block, NEW ops \in Seq(Nat),
         Arena(m), m.op[o].parent = 0, ~m.op[o].erased,
         ToSet(ops) = ToSet(m.block[b].ops) \cup {o},
         \A i, j \in DOMAIN ops : ops[i] = ops[j] => i = j
  PROVE  Arena(Relisted(m, o, b, b, ops))
<1> DEFINE n == Relisted(m, o, b, b, ops)
<1>1. b \in Nat /\ b # 0
  BY ArenaShape DEF Arena
<1>2. /\ IsModule(n)
      /\ DOMAIN n.op = DOMAIN m.op /\ DOMAIN n.block = DOMAIN m.block
      /\ n.region = m.region
      /\ n.op[o].parent = b
      /\ \A x \in DOMAIN m.op : /\ n.op[x].erased = m.op[x].erased
                                /\ n.op[x].regions = m.op[x].regions
                                /\ x # o => n.op[x].parent = m.op[x].parent
      /\ n.block[b].ops = ops
      /\ \A x \in DOMAIN m.block : x # b => n.block[x].ops = m.block[x].ops
  BY <1>1, RelistedShape DEF Arena
<1> HIDE DEF n
<1>3. ListedWhereNamed(n)
  <2> SUFFICES ASSUME NEW x \in DOMAIN m.block, NEW i \in DOMAIN n.block[x].ops
               PROVE  /\ n.block[x].ops[i] \in DOMAIN n.op
                      /\ n.op[n.block[x].ops[i]].parent = x
    BY <1>2 DEF ListedWhereNamed
  <2>1. CASE x = b
    <3>1. n.block[x].ops[i] \in ToSet(m.block[b].ops) \cup {o}
      BY <1>2, <2>1 DEF ToSet
    <3>2. \A y \in ToSet(m.block[b].ops) : y \in DOMAIN m.op /\ m.op[y].parent = b
      BY DEF ToSet, Arena, ArenaAgrees, ListedWhereNamed
    <3> DEFINE y == n.block[x].ops[i]
    <3>3. n.op[y].parent = b /\ y \in DOMAIN n.op
      <4>1. CASE y = o
        BY <1>2, <4>1
      <4>2. CASE y # o
        <5>1. y \in DOMAIN m.op /\ m.op[y].parent = b
          BY <3>1, <3>2, <4>2
        <5> HIDE DEF y
        <5> QED
          BY <1>2, <4>2, <5>1
      <4> QED
        BY <4>1, <4>2
    <3> QED
      BY <2>1, <3>3
  <2>2. CASE x # b
    <3>1. /\ n.block[x].ops[i] \in DOMAIN m.op
          /\ m.op[n.block[x].ops[i]].parent = x
      BY <1>2, <2>2 DEF Arena, ArenaAgrees, ListedWhereNamed
    <3>2. x # 0
      BY ArenaShape DEF Arena
    <3> QED
      BY <1>2, <3>1, <3>2
  <2> QED
    BY <2>1, <2>2
<1>4. NamedWhereListed(n)
  <2> SUFFICES ASSUME NEW x \in DOMAIN m.op, n.op[x].parent # 0
               PROVE  /\ n.op[x].parent \in DOMAIN n.block
                      /\ x \in ToSet(n.block[n.op[x].parent].ops)
    BY <1>2 DEF NamedWhereListed
  <2>1. CASE x = o
    BY <1>2, <2>1
  <2>2. CASE x # o
    <3>1. /\ m.op[x].parent \in DOMAIN m.block
          /\ x \in ToSet(m.block[m.op[x].parent].ops)
          /\ n.op[x].parent = m.op[x].parent
      BY <1>2, <2>2 DEF Arena, ArenaAgrees, NamedWhereListed
    <3> QED
      BY <1>2, <3>1
  <2> QED
    BY <2>1, <2>2
<1>5. ListedOnce(n)
  BY <1>2 DEF Arena, ArenaAgrees, ListedOnce
<1>6. ErasedIsNowhere(n)
  BY <1>2 DEF Arena, ArenaAgrees, ErasedIsNowhere
<1>7. RegionsOwned(n)
  BY <1>2 DEF Arena, ArenaAgrees, RegionsOwned
<1> QED
  BY <1>2, <1>3, <1>4, <1>5, <1>6, <1>7 DEF n, Arena, ArenaAgrees

\* An operation taken out of the block that lists it.
LEMMA Removing ==
  ASSUME NEW m, NEW o \in DOMAIN m.op, NEW ops \in Seq(Nat),
         Arena(m), m.op[o].parent # 0,
         ToSet(ops) = ToSet(m.block[m.op[o].parent].ops) \ {o},
         \A i, j \in DOMAIN ops : ops[i] = ops[j] => i = j
  PROVE  Arena(Relisted(m, o, 0, m.op[o].parent, ops))
<1> DEFINE b == m.op[o].parent
           n == Relisted(m, o, 0, b, ops)
<1>1. b \in DOMAIN m.block
  BY DEF Arena, ArenaAgrees, NamedWhereListed
<1>2. /\ IsModule(n)
      /\ DOMAIN n.op = DOMAIN m.op /\ DOMAIN n.block = DOMAIN m.block
      /\ n.region = m.region
      /\ n.op[o].parent = 0
      /\ \A x \in DOMAIN m.op : /\ n.op[x].erased = m.op[x].erased
                                /\ n.op[x].regions = m.op[x].regions
                                /\ x # o => n.op[x].parent = m.op[x].parent
      /\ n.block[b].ops = ops
      /\ \A x \in DOMAIN m.block : x # b => n.block[x].ops = m.block[x].ops
  BY <1>1, RelistedShape DEF Arena
<1>3. ToSet(ops) = ToSet(m.block[b].ops) \ {o}
  OBVIOUS
<1>4. m.op[o].parent = b
  OBVIOUS
<1> HIDE DEF n, b
<1>5. ListedWhereNamed(n)
  <2> SUFFICES ASSUME NEW x \in DOMAIN m.block, NEW i \in DOMAIN n.block[x].ops
               PROVE  /\ n.block[x].ops[i] \in DOMAIN n.op
                      /\ n.op[n.block[x].ops[i]].parent = x
    BY <1>2 DEF ListedWhereNamed
  <2>1. CASE x = b
    <3>1. n.block[x].ops[i] \in ToSet(m.block[b].ops) \ {o}
      BY <1>2, <1>3, <2>1 DEF ToSet
    <3>2. \A y \in ToSet(m.block[b].ops) : y \in DOMAIN m.op /\ m.op[y].parent = b
      BY <1>1 DEF ToSet, Arena, ArenaAgrees, ListedWhereNamed
    <3> QED
      BY <1>2, <2>1, <3>1, <3>2
  <2>2. CASE x # b
    <3>1. /\ n.block[x].ops[i] \in DOMAIN m.op
          /\ m.op[n.block[x].ops[i]].parent = x
      BY <1>2, <2>2 DEF Arena, ArenaAgrees, ListedWhereNamed
    <3> QED
      BY <1>2, <1>4, <2>2, <3>1
  <2> QED
    BY <2>1, <2>2
<1>6. NamedWhereListed(n)
  <2> SUFFICES ASSUME NEW x \in DOMAIN m.op, n.op[x].parent # 0
               PROVE  /\ n.op[x].parent \in DOMAIN n.block
                      /\ x \in ToSet(n.block[n.op[x].parent].ops)
    BY <1>2 DEF NamedWhereListed
  <2>1. x # o
    BY <1>2
  <2>2. /\ m.op[x].parent \in DOMAIN m.block
        /\ x \in ToSet(m.block[m.op[x].parent].ops)
        /\ n.op[x].parent = m.op[x].parent
    BY <1>2, <2>1 DEF Arena, ArenaAgrees, NamedWhereListed
  <2> QED
    BY <1>2, <1>3, <2>1, <2>2
<1>7. ListedOnce(n)
  BY <1>2 DEF Arena, ArenaAgrees, ListedOnce
<1>8. ErasedIsNowhere(n)
  BY <1>2 DEF Arena, ArenaAgrees, ErasedIsNowhere
<1>9. RegionsOwned(n)
  BY <1>2 DEF Arena, ArenaAgrees, RegionsOwned
<1> QED
  BY <1>2, <1>5, <1>6, <1>7, <1>8, <1>9 DEF n, b, Arena, ArenaAgrees

\* What an edit of the lists leaves alone.
SameNesting(m, n) ==
  /\ DOMAIN n.op = DOMAIN m.op /\ DOMAIN n.block = DOMAIN m.block
  /\ n.region = m.region /\ n.value = m.value
  /\ \A x \in DOMAIN m.op : /\ n.op[x].erased = m.op[x].erased
                            /\ n.op[x].regions = m.op[x].regions
                            /\ n.op[x].operands = m.op[x].operands
                            /\ SameHead(m.op[x], n.op[x])
  /\ \A x \in DOMAIN m.block : n.block[x].region = m.block[x].region

\* Every operation but o is where it was.
SamePlacesBut(o, m, n) == \A x \in DOMAIN m.op : x # o => n.op[x].parent = m.op[x].parent

LEMMA RelistingKeeps ==
  ASSUME NEW m, NEW o \in DOMAIN m.op, NEW parent \in Nat, NEW b \in DOMAIN m.block,
         NEW ops \in Seq(Nat), IsModule(m)
  PROVE  /\ SameNesting(m, Relisted(m, o, parent, b, ops))
         /\ Relisted(m, o, parent, b, ops).op[o].parent = parent
         /\ SamePlacesBut(o, m, Relisted(m, o, parent, b, ops))
         /\ Relisted(m, o, parent, b, ops).block[b].ops = ops
<1> DEFINE n == Relisted(m, o, parent, b, ops)
<1>1. /\ DOMAIN n.op = DOMAIN m.op /\ DOMAIN n.block = DOMAIN m.block
      /\ n.region = m.region /\ n.value = m.value
      /\ n.op[o].parent = parent
      /\ \A x \in DOMAIN m.op : /\ n.op[x].erased = m.op[x].erased
                                /\ n.op[x].operands = m.op[x].operands
                                /\ n.op[x].regions = m.op[x].regions
                                /\ SameHead(m.op[x], n.op[x])
                                /\ x # o => n.op[x].parent = m.op[x].parent
      /\ n.block[b].ops = ops
      /\ \A x \in DOMAIN m.block : n.block[x].region = m.block[x].region
  BY RelistedShape
<1> HIDE DEF n
<1>2. SameNesting(m, n)
  BY <1>1 DEF SameNesting
<1>3. SamePlacesBut(o, m, n)
  BY <1>1 DEF SamePlacesBut
<1> QED
  BY <1>1, <1>2, <1>3 DEF n

\* x stands before y in a list, and in a block.
SoonerIn(s, x, y) == \E i, j \in DOMAIN s : i < j /\ s[i] = x /\ s[j] = y
Sooner(m, x, y) == \E b \in DOMAIN m.block : SoonerIn(m.block[b].ops, x, y)

\* The operations other than o stand as they did.
SameListBut(o, s, ops) == \A x, y : x # o /\ y # o => (SoonerIn(ops, x, y) <=> SoonerIn(s, x, y))
SameOrderBut(o, m, n) == \A x, y : x # o /\ y # o => (Sooner(n, x, y) <=> Sooner(m, x, y))

LEMMA InsertionKeepsOrder ==
  ASSUME NEW s \in Seq(Nat), NEW e, NEW i \in 1..Len(s) + 1, NEW ops, IsInsertion(ops, s, i, e)
  PROVE  SameListBut(e, s, ops)
<1> DEFINE from(j) == IF j < i THEN j ELSE j - 1
           to(j) == IF j < i THEN j ELSE j + 1
<1>1. DOMAIN s = 1..Len(s) /\ Len(s) \in Nat
  OBVIOUS
<1>2. ASSUME NEW j \in DOMAIN ops, ops[j] # e
      PROVE  j # i /\ j \in Nat /\ from(j) \in DOMAIN s /\ ops[j] = s[from(j)]
  BY <1>1, <1>2 DEF IsInsertion
<1>3. ASSUME NEW j \in DOMAIN s
      PROVE  to(j) \in DOMAIN ops /\ j \in Nat /\ ops[to(j)] = s[j]
  <2>1. to(j) \in 1..Len(s) + 1 /\ (j < i => to(j) < i) /\ (~(j < i) => to(j) > i /\ to(j) - 1 = j)
    BY <1>1
  <2>2. to(j) \in DOMAIN ops
    BY <2>1 DEF IsInsertion
  <2> HIDE DEF to
  <2>3. CASE j < i
    BY <2>1, <2>3 DEF IsInsertion, to
  <2>4. CASE ~(j < i)
    BY <1>1, <2>1, <2>4 DEF IsInsertion
  <2> QED
    BY <1>1, <2>2, <2>3, <2>4
<1>4. ASSUME NEW x, NEW y, x # e, y # e, SoonerIn(ops, x, y) PROVE SoonerIn(s, x, y)
  <2>1. PICK j, k \in DOMAIN ops : j < k /\ ops[j] = x /\ ops[k] = y
    BY <1>4 DEF SoonerIn
  <2>2. from(j) \in DOMAIN s /\ from(k) \in DOMAIN s /\ s[from(j)] = x /\ s[from(k)] = y
    BY <1>2, <1>4, <2>1
  <2>3. from(j) < from(k)
    BY <1>2, <1>4, <2>1
  <2> HIDE DEF from
  <2> QED
    BY <2>2, <2>3 DEF SoonerIn
<1>5. ASSUME NEW x, NEW y, SoonerIn(s, x, y) PROVE SoonerIn(ops, x, y)
  <2>1. PICK j, k \in DOMAIN s : j < k /\ s[j] = x /\ s[k] = y
    BY <1>5 DEF SoonerIn
  <2>2. to(j) \in DOMAIN ops /\ to(k) \in DOMAIN ops /\ ops[to(j)] = x /\ ops[to(k)] = y
    BY <1>3, <2>1
  <2>3. to(j) < to(k)
    BY <1>1, <2>1
  <2> HIDE DEF to
  <2> QED
    BY <2>2, <2>3 DEF SoonerIn
<1> QED
  BY <1>4, <1>5 DEF SameListBut

LEMMA RemovalKeepsOrder ==
  ASSUME NEW s \in Seq(Nat), NEW i \in DOMAIN s, NEW ops, IsRemoval(ops, s, i)
  PROVE  SameListBut(s[i], s, ops)
<1> DEFINE to(j) == IF j < i THEN j ELSE j - 1
           from(j) == IF j < i THEN j ELSE j + 1
<1>1. DOMAIN s = 1..Len(s) /\ Len(s) \in Nat /\ DOMAIN ops = 1..Len(s) - 1
  BY DEF IsRemoval
<1>2. ASSUME NEW j \in DOMAIN ops
      PROVE  j \in Nat /\ from(j) \in DOMAIN s /\ ops[j] = s[from(j)]
  <2>1. j \in Nat /\ from(j) \in DOMAIN s
    BY <1>1
  <2>2. ops[j] = IF j < i THEN s[j] ELSE s[j + 1]
    BY <1>1 DEF IsRemoval
  <2> QED
    BY <2>1, <2>2
<1>3. ASSUME NEW j \in DOMAIN s, s[j] # s[i]
      PROVE  j # i /\ j \in Nat /\ to(j) \in DOMAIN ops /\ ops[to(j)] = s[j]
  <2>1. j # i /\ j \in Nat
    BY <1>1, <1>3
  <2>2. to(j) \in DOMAIN ops
    BY <1>1, <2>1
  <2>3. ops[to(j)] = IF to(j) < i THEN s[to(j)] ELSE s[to(j) + 1]
    BY <1>1, <2>2 DEF IsRemoval
  <2>4. IF to(j) < i THEN to(j) = j ELSE to(j) + 1 = j
    BY <1>1, <2>1
  <2> HIDE DEF to
  <2> QED
    BY <2>1, <2>2, <2>3, <2>4
<1>4. ASSUME NEW x, NEW y, SoonerIn(ops, x, y) PROVE SoonerIn(s, x, y)
  <2>1. PICK j, k \in DOMAIN ops : j < k /\ ops[j] = x /\ ops[k] = y
    BY <1>4 DEF SoonerIn
  <2>2. from(j) \in DOMAIN s /\ from(k) \in DOMAIN s /\ s[from(j)] = x /\ s[from(k)] = y
    BY <1>2, <2>1
  <2>3. from(j) < from(k)
    BY <1>1, <1>2, <2>1
  <2> HIDE DEF from
  <2> QED
    BY <2>2, <2>3 DEF SoonerIn
<1>5. ASSUME NEW x, NEW y, x # s[i], y # s[i], SoonerIn(s, x, y) PROVE SoonerIn(ops, x, y)
  <2>1. PICK j, k \in DOMAIN s : j < k /\ s[j] = x /\ s[k] = y
    BY <1>5 DEF SoonerIn
  <2>2. /\ to(j) \in DOMAIN ops /\ to(k) \in DOMAIN ops /\ ops[to(j)] = x /\ ops[to(k)] = y
        /\ j # i /\ k # i
    BY <1>3, <1>5, <2>1
  <2>3. to(j) < to(k)
    BY <1>1, <2>1, <2>2
  <2> HIDE DEF to
  <2> QED
    BY <2>2, <2>3 DEF SoonerIn
<1> QED
  BY <1>4, <1>5 DEF SameListBut

\* What is inserted at a position comes before what was there.
LEMMA InsertionStandsBefore ==
  ASSUME NEW s \in Seq(Nat), NEW e, NEW i \in DOMAIN s, NEW ops, IsInsertion(ops, s, i, e),
         \A j \in DOMAIN s : s[j] = s[i] => j = i, NEW x
  PROVE  /\ x = s[i] \/ SoonerIn(s, s[i], x) => SoonerIn(ops, e, x)
         /\ SoonerIn(s, x, s[i]) => SoonerIn(ops, x, e)
<1>1. DOMAIN s = 1..Len(s) /\ Len(s) \in Nat /\ DOMAIN ops = 1..Len(s) + 1
  BY DEF IsInsertion
<1>2. i \in DOMAIN ops /\ ops[i] = e
  BY <1>1 DEF IsInsertion
<1>3. ASSUME NEW k \in DOMAIN s, k >= i, s[k] = x PROVE SoonerIn(ops, e, x)
  <2>1. k + 1 \in DOMAIN ops /\ i < k + 1 /\ k + 1 \in 1..Len(s) + 1 /\ (k + 1) - 1 = k
    BY <1>1, <1>3
  <2>2. ops[k + 1] = s[(k + 1) - 1]
    BY <1>1, <2>1 DEF IsInsertion
  <2> QED
    BY <1>2, <1>3, <2>1, <2>2 DEF SoonerIn
<1>4. ASSUME SoonerIn(s, s[i], x) PROVE SoonerIn(ops, e, x)
  <2>1. PICK j, k \in DOMAIN s : j < k /\ s[j] = s[i] /\ s[k] = x
    BY <1>4 DEF SoonerIn
  <2>2. k >= i
    BY <1>1, <2>1
  <2> QED
    BY <1>3, <2>1, <2>2
<1>5. ASSUME SoonerIn(s, x, s[i]) PROVE SoonerIn(ops, x, e)
  <2>1. PICK j, k \in DOMAIN s : j < k /\ s[j] = x /\ s[k] = s[i]
    BY <1>5 DEF SoonerIn
  <2>2. j < i /\ j \in DOMAIN ops
    BY <1>1, <2>1
  <2>3. ops[j] = x
    BY <1>1, <2>1, <2>2 DEF IsInsertion
  <2> QED
    BY <1>2, <2>2, <2>3 DEF SoonerIn
<1>6. i >= i /\ i \in Nat
  BY <1>1
<1> QED
  BY <1>3, <1>4, <1>5, <1>6

\* In n, new stands right before what was first in m.
TakesPlace(m, n, new, first) ==
  \A x : /\ x = first \/ Sooner(m, first, x) => Sooner(n, new, x)
         /\ Sooner(m, x, first) => Sooner(n, x, new)

\* One list changes.
LEMMA OneListKeepsOrder ==
  ASSUME NEW m, NEW n, NEW o, NEW b \in DOMAIN m.block, DOMAIN n.block = DOMAIN m.block,
         SameListBut(o, m.block[b].ops, n.block[b].ops),
         \A x \in DOMAIN m.block : x # b => n.block[x].ops = m.block[x].ops
  PROVE  SameOrderBut(o, m, n)
<1>1. ASSUME NEW x, NEW y, x # o, y # o, NEW c \in DOMAIN m.block
      PROVE  SoonerIn(n.block[c].ops, x, y) <=> SoonerIn(m.block[c].ops, x, y)
  <2>1. CASE c = b
    BY <1>1, <2>1 DEF SameListBut
  <2>2. CASE c # b
    BY <2>2
  <2> QED
    BY <2>1, <2>2
<1> QED
  BY <1>1 DEF SameOrderBut, Sooner

\* What a block lists are the operations that name it, none of them erased.
LEMMA ListedOperations ==
  ASSUME NEW m, Arena(m), NEW b \in DOMAIN m.block
  PROVE  /\ m.block[b].ops \in Seq(Nat) /\ b \in Nat /\ b # 0
         /\ \A o \in ToSet(m.block[b].ops) :
              o \in DOMAIN m.op /\ m.op[o].parent = b /\ ~m.op[o].erased
<1>1. b \in Nat /\ b # 0
  BY ArenaShape DEF Arena
<1>2. m.block[b].ops \in Seq(Nat)
  BY DEF Arena, IsModule, IsBlock
<1>3. \A o \in ToSet(m.block[b].ops) : o \in DOMAIN m.op /\ m.op[o].parent = b
  BY DEF Arena, ArenaAgrees, ListedWhereNamed, ToSet
<1> QED
  BY <1>1, <1>2, <1>3 DEF Arena, ArenaAgrees, ErasedIsNowhere

\* insert_op, of an operation that is in no block.
LEMMA InsertingKeepsArena ==
  ASSUME NEW m, Arena(m), NEW o \in DOMAIN m.op, m.op[o].parent = 0, ~m.op[o].erased,
         NEW b \in DOMAIN m.block, NEW i \in 1..Len(m.block[b].ops) + 1
  PROVE  /\ Arena(Inserted(m, b, i, o)) /\ SameNesting(m, Inserted(m, b, i, o))
         /\ Inserted(m, b, i, o).op[o].parent = b /\ SamePlacesBut(o, m, Inserted(m, b, i, o))
         /\ SameOrderBut(o, m, Inserted(m, b, i, o))
         /\ IsInsertion(Inserted(m, b, i, o).block[b].ops, m.block[b].ops, i, o)
<1> DEFINE s == m.block[b].ops
           ops == InsertAt(s, i, o)
<1>1. s \in Seq(Nat) /\ b \in Nat /\ o \notin ToSet(s)
  BY ListedOperations
<1>2. o \in Nat
  BY ArenaShape DEF Arena
<1>3. /\ ops \in Seq(Nat)
      /\ DOMAIN ops = 1..Len(s) + 1
      /\ \A j \in 1..Len(s) + 1 :
           ops[j] = IF j < i THEN s[j] ELSE IF j = i THEN o ELSE s[j - 1]
      /\ IsInsertion(ops, s, i, o)
  <2>1. i \in 1..Len(s) + 1
    OBVIOUS
  <2> HIDE DEF s
  <2>2. IsInsertion(ops, s, i, o)
    BY <1>1, <1>2, <2>1, InsertAtNat, Zenon
  <2> HIDE DEF ops
  <2> QED
    BY <2>2 DEF IsInsertion
<1>4. Inserted(m, b, i, o) = Relisted(m, o, b, b, ops)
  BY DEF Inserted, Relisted, Arena, IsModule
<1>5. \A j, k \in DOMAIN s : s[j] = s[k] => j = k
  BY DEF Arena, ArenaAgrees, ListedOnce
<1>6. i \in 1..Len(s) + 1
  OBVIOUS
<1> HIDE DEF s, ops
<1>7. DOMAIN s = 1..Len(s) /\ Len(s) \in Nat
  BY <1>1
<1>8. ToSet(ops) = ToSet(s) \cup {o}
  <2>1. ASSUME NEW j \in DOMAIN ops PROVE ops[j] \in ToSet(s) \cup {o}
    <3>1. CASE j < i
      BY <1>3, <1>6, <1>7, <3>1 DEF ToSet
    <3>2. CASE j = i
      BY <1>3, <1>6, <1>7, <3>2
    <3>3. CASE j > i
      <4>1. ops[j] = s[j - 1] /\ j - 1 \in DOMAIN s
        BY <1>3, <1>6, <1>7, <3>3
      <4> QED
        BY <4>1 DEF ToSet
    <3> QED
      BY <1>3, <1>6, <1>7, <3>1, <3>2, <3>3
  <2>2. ASSUME NEW j \in DOMAIN s PROVE s[j] \in ToSet(ops)
    <3>1. CASE j < i
      <4>1. ops[j] = s[j] /\ j \in DOMAIN ops
        BY <1>3, <1>6, <1>7, <3>1
      <4> QED
        BY <4>1 DEF ToSet
    <3>2. CASE j >= i
      <4>1. ops[j + 1] = s[j] /\ j + 1 \in DOMAIN ops
        BY <1>3, <1>6, <1>7, <3>2
      <4> QED
        BY <4>1 DEF ToSet
    <3> QED
      BY <1>6, <1>7, <3>1, <3>2
  <2>3. o \in ToSet(ops)
    <3>1. ops[i] = o /\ i \in DOMAIN ops
      BY <1>3, <1>6, <1>7
    <3> QED
      BY <3>1 DEF ToSet
  <2> QED
    BY <2>1, <2>2, <2>3 DEF ToSet
<1>9. ASSUME NEW j \in DOMAIN ops, NEW k \in DOMAIN ops, ops[j] = ops[k]
      PROVE  j = k
  <2> DEFINE from(x) == IF x < i THEN x ELSE x - 1
  <2>1. ASSUME NEW x \in DOMAIN ops, x # i
        PROVE  from(x) \in DOMAIN s /\ ops[x] = s[from(x)]
    BY <1>3, <1>6, <1>7, <2>1
  <2>2. \A x \in DOMAIN s : s[x] # o
    BY <1>1 DEF ToSet
  <2>3. ops[i] = o
    BY <1>3, <1>6, <1>7
  <2>4. CASE j = i \/ k = i
    BY <1>9, <2>1, <2>2, <2>3, <2>4
  <2>5. CASE j # i /\ k # i
    <3>1. from(j) = from(k)
      BY <1>5, <1>9, <2>1, <2>5
    <3>2. j \in 1..Len(s) + 1 /\ k \in 1..Len(s) + 1 /\ i \in 1..Len(s) + 1
      BY <1>3, <1>6
    <3> QED
      BY <1>7, <2>5, <3>1, <3>2
  <2> QED
    BY <2>4, <2>5
<1>10. ToSet(ops) = ToSet(m.block[b].ops) \cup {o}
  BY <1>8 DEF s
<1>11. Arena(Relisted(m, o, b, b, ops))
  BY <1>3, <1>9, <1>10, Placing
<1>12. /\ SameNesting(m, Relisted(m, o, b, b, ops))
       /\ Relisted(m, o, b, b, ops).op[o].parent = b
       /\ SamePlacesBut(o, m, Relisted(m, o, b, b, ops))
       /\ Relisted(m, o, b, b, ops).block[b].ops = ops
  BY <1>1, <1>3, RelistingKeeps DEF Arena
<1>13. SameOrderBut(o, m, Relisted(m, o, b, b, ops))
  <2>1. SameListBut(o, m.block[b].ops, ops)
    BY <1>1, <1>3, <1>6, InsertionKeepsOrder DEF s
  <2> DEFINE n == Relisted(m, o, b, b, ops)
  <2>2. /\ DOMAIN n.block = DOMAIN m.block /\ n.block[b].ops = ops
        /\ \A x \in DOMAIN m.block : x # b => n.block[x].ops = m.block[x].ops
    BY <1>1, <1>3, RelistedShape DEF Arena
  <2> HIDE DEF n
  <2>3. SameOrderBut(o, m, n)
    BY <2>1, <2>2, OneListKeepsOrder
  <2> QED
    BY <2>3 DEF n
<1> QED
  BY <1>3, <1>4, <1>11, <1>12, <1>13 DEF s

LEMMA InsertingTakesPlace ==
  ASSUME NEW m, Arena(m), NEW o \in DOMAIN m.op, m.op[o].parent = 0, ~m.op[o].erased,
         NEW b \in DOMAIN m.block, NEW i \in DOMAIN m.block[b].ops
  PROVE  TakesPlace(m, Inserted(m, b, i, o), o, m.block[b].ops[i])
<1> DEFINE s == m.block[b].ops
           n == Inserted(m, b, i, o)
<1>1. s \in Seq(Nat)
  BY ListedOperations
<1>2. i \in 1..Len(s) + 1 /\ i \in DOMAIN s
  BY <1>1
<1>3. IsInsertion(n.block[b].ops, s, i, o) /\ DOMAIN n.block = DOMAIN m.block
  BY <1>2, InsertingKeepsArena DEF SameNesting
<1>4. \A j \in DOMAIN s : s[j] = s[i] => j = i
  BY <1>2 DEF Arena, ArenaAgrees, ListedOnce
<1>5. m.op[s[i]].parent = b
  BY <1>2 DEF Arena, ArenaAgrees, ListedWhereNamed
<1>6. ASSUME NEW x
      PROVE  /\ Sooner(m, s[i], x) => SoonerIn(s, s[i], x)
             /\ Sooner(m, x, s[i]) => SoonerIn(s, x, s[i])
  <2>1. ASSUME NEW c \in DOMAIN m.block, s[i] \in ToSet(m.block[c].ops) PROVE c = b
    BY <1>5, <2>1, ListedOperations
  <2>2. ASSUME NEW c \in DOMAIN m.block, NEW y, SoonerIn(m.block[c].ops, s[i], y) \/ SoonerIn(m.block[c].ops, y, s[i])
        PROVE  s[i] \in ToSet(m.block[c].ops)
    BY <2>2 DEF SoonerIn, ToSet
  <2> QED
    BY <2>1, <2>2 DEF Sooner
<1> DEFINE ops == n.block[b].ops
<1> HIDE DEF s, n
<1>7. ASSUME NEW x
      PROVE  /\ x = s[i] \/ SoonerIn(s, s[i], x) => SoonerIn(ops, o, x)
             /\ SoonerIn(s, x, s[i]) => SoonerIn(ops, x, o)
  <2>1. IsInsertion(ops, s, i, o) /\ i \in DOMAIN s
    BY <1>2, <1>3
  <2> HIDE DEF ops
  <2> QED
    BY <1>1, <1>4, <2>1, InsertionStandsBefore
<1>8. ASSUME NEW x, NEW y, SoonerIn(ops, x, y) PROVE Sooner(n, x, y)
  BY <1>3, <1>8, Zenon DEF Sooner, ops
<1> HIDE DEF ops
<1>9. TakesPlace(m, n, o, s[i])
  BY <1>6, <1>7, <1>8 DEF TakesPlace
<1> QED
  BY <1>9 DEF s, n

\* append_op, of an operation that is in no block.
LEMMA AppendingKeepsArena ==
  ASSUME NEW m, Arena(m), NEW o \in DOMAIN m.op, m.op[o].parent = 0, ~m.op[o].erased,
         NEW b \in DOMAIN m.block
  PROVE  /\ Arena(Appended(m, b, o)) /\ SameNesting(m, Appended(m, b, o))
         /\ Appended(m, b, o).op[o].parent = b /\ SamePlacesBut(o, m, Appended(m, b, o))
         /\ SameOrderBut(o, m, Appended(m, b, o))
<1> DEFINE s == m.block[b].ops
           ops == Append(s, o)
<1>1. s \in Seq(Nat) /\ b \in Nat /\ o \notin ToSet(s)
  BY ListedOperations
<1>2. o \in Nat
  BY ArenaShape DEF Arena
<1>3. /\ ops \in Seq(Nat)
      /\ DOMAIN ops = 1..Len(s) + 1
      /\ \A j \in 1..Len(s) : ops[j] = s[j]
      /\ ops[Len(s) + 1] = o
      /\ DOMAIN s = 1..Len(s) /\ Len(s) \in Nat
  BY <1>1, <1>2, AppendProperties
<1>4. Appended(m, b, o) = Relisted(m, o, b, b, ops)
  BY DEF Appended, Relisted, Arena, IsModule
<1>5. \A j, k \in DOMAIN s : s[j] = s[k] => j = k
  BY DEF Arena, ArenaAgrees, ListedOnce
<1> HIDE DEF s, ops
<1>6. ToSet(ops) = ToSet(s) \cup {o}
  BY <1>3 DEF ToSet
<1>7. \A x \in DOMAIN s : s[x] # o
  BY <1>1 DEF ToSet
<1>8. \A j, k \in DOMAIN ops : ops[j] = ops[k] => j = k
  BY <1>3, <1>5, <1>7
<1>9. ToSet(ops) = ToSet(m.block[b].ops) \cup {o}
  BY <1>6 DEF s
<1>10. Arena(Relisted(m, o, b, b, ops))
  BY <1>3, <1>8, <1>9, Placing
<1>11. /\ SameNesting(m, Relisted(m, o, b, b, ops))
       /\ Relisted(m, o, b, b, ops).op[o].parent = b
       /\ SamePlacesBut(o, m, Relisted(m, o, b, b, ops))
  BY <1>1, <1>3, RelistingKeeps DEF Arena
<1>12. SameOrderBut(o, m, Relisted(m, o, b, b, ops))
  <2>1. IsInsertion(ops, s, Len(s) + 1, o) /\ Len(s) + 1 \in 1..Len(s) + 1
    BY <1>3 DEF IsInsertion
  <2>2. SameListBut(o, m.block[b].ops, ops)
    BY <1>1, <2>1, InsertionKeepsOrder DEF s
  <2> DEFINE n == Relisted(m, o, b, b, ops)
  <2>3. /\ DOMAIN n.block = DOMAIN m.block /\ n.block[b].ops = ops
        /\ \A x \in DOMAIN m.block : x # b => n.block[x].ops = m.block[x].ops
    BY <1>1, <1>3, RelistedShape DEF Arena
  <2> HIDE DEF n
  <2>4. SameOrderBut(o, m, n)
    BY <2>2, <2>3, OneListKeepsOrder
  <2> QED
    BY <2>4 DEF n
<1> QED
  BY <1>4, <1>10, <1>11, <1>12

\* detach: the operation is in no block afterwards.
LEMMA DetachingKeepsArena ==
  ASSUME NEW m, Arena(m), NEW o \in DOMAIN m.op
  PROVE  /\ Arena(Detached(m, o)) /\ SameNesting(m, Detached(m, o))
         /\ Detached(m, o).op[o].parent = 0 /\ SamePlacesBut(o, m, Detached(m, o))
         /\ SameOrderBut(o, m, Detached(m, o))
<1>1. CASE m.op[o].parent = 0
  BY <1>1 DEF Detached, SameNesting, SameHead, SamePlacesBut, SameOrderBut
<1>2. CASE m.op[o].parent # 0
  <2> DEFINE b == m.op[o].parent
             s == m.block[b].ops
             i == Position(m, o)
             ops == RemoveAt(s, i)
  <2>1. b \in DOMAIN m.block /\ o \in ToSet(s)
    BY <1>2 DEF Arena, ArenaAgrees, NamedWhereListed
  <2>2. i \in DOMAIN s /\ s[i] = o
    BY <2>1 DEF Position, ToSet
  <2>3. s \in Seq(Nat)
    BY <2>1, ListedOperations
  <2>4. \A j, k \in DOMAIN s : s[j] = s[k] => j = k
    BY <2>1 DEF Arena, ArenaAgrees, ListedOnce
  <2>5. Detached(m, o) = Relisted(m, o, 0, b, ops)
    BY <1>2 DEF Detached, Relisted, Arena, IsModule
  <2>6. o \in Nat
    BY ArenaShape DEF Arena
  <2> HIDE DEF s, i
  <2>7. DOMAIN s = 1..Len(s) /\ Len(s) \in Nat
    BY <2>3
  <2>8. IsRemoval(ops, s, i)
    <3>1. i \in 1..Len(s)
      BY <2>2, <2>7
    <3> QED
      BY <2>3, <3>1, RemoveAtNat, Zenon
  <2> HIDE DEF ops
  <2> DEFINE from(j) == IF j < i THEN j ELSE j + 1
  <2>9. ASSUME NEW j \in DOMAIN ops
        PROVE  from(j) \in DOMAIN s /\ from(j) # i /\ ops[j] = s[from(j)]
    BY <2>2, <2>7, <2>8 DEF IsRemoval
  <2>10. ToSet(ops) = ToSet(s) \ {o}
    <3>1. ASSUME NEW j \in DOMAIN ops PROVE ops[j] \in ToSet(s) \ {o}
      <4>1. ops[j] \in ToSet(s)
        BY <2>9 DEF ToSet
      <4> QED
        BY <2>2, <2>4, <2>9, <4>1
    <3>2. ASSUME NEW k \in DOMAIN s, s[k] # o PROVE s[k] \in ToSet(ops)
      <4>1. CASE k < i
        <5>1. k \in DOMAIN ops /\ ops[k] = s[k]
          BY <2>2, <2>7, <2>8, <4>1 DEF IsRemoval
        <5> QED
          BY <5>1 DEF ToSet
      <4>2. CASE k > i
        <5>1. k - 1 \in DOMAIN ops /\ ops[k - 1] = s[k]
          BY <2>2, <2>7, <2>8, <4>2 DEF IsRemoval
        <5> QED
          BY <5>1 DEF ToSet
      <4>3. k # i
        BY <2>2, <3>2
      <4> QED
        BY <2>2, <2>7, <4>1, <4>2, <4>3
    <3> QED
      BY <3>1, <3>2 DEF ToSet
  <2>11. ASSUME NEW j \in DOMAIN ops, NEW k \in DOMAIN ops, ops[j] = ops[k]
         PROVE  j = k
    <3>1. from(j) = from(k)
      BY <2>4, <2>9, <2>11
    <3>2. j \in 1..Len(s) - 1 /\ k \in 1..Len(s) - 1 /\ i \in 1..Len(s)
      BY <2>2, <2>7, <2>8 DEF IsRemoval
    <3> QED
      BY <2>7, <3>1, <3>2
  <2>12. ops \in Seq(Nat)
    BY <2>8 DEF IsRemoval
  <2>13. ToSet(ops) = ToSet(m.block[m.op[o].parent].ops) \ {o}
    BY <2>10 DEF s
  <2>14. Arena(Relisted(m, o, 0, b, ops))
    BY <1>2, <2>11, <2>12, <2>13, Removing
  <2>15. /\ SameNesting(m, Relisted(m, o, 0, b, ops))
         /\ Relisted(m, o, 0, b, ops).op[o].parent = 0
         /\ SamePlacesBut(o, m, Relisted(m, o, 0, b, ops))
    <3> HIDE DEF b
    <3> QED
      BY <2>1, <2>12, RelistingKeeps DEF Arena
  <2>16. SameOrderBut(o, m, Relisted(m, o, 0, b, ops))
    <3>1. SameListBut(o, m.block[b].ops, ops)
      BY <2>2, <2>3, <2>8, RemovalKeepsOrder DEF s
    <3> DEFINE n == Relisted(m, o, 0, b, ops)
    <3> HIDE DEF b
    <3>2. /\ DOMAIN n.block = DOMAIN m.block /\ n.block[b].ops = ops
          /\ \A x \in DOMAIN m.block : x # b => n.block[x].ops = m.block[x].ops
      BY <2>1, <2>12, RelistedShape DEF Arena
    <3> HIDE DEF n
    <3>3. SameOrderBut(o, m, n)
      BY <2>1, <3>1, <3>2, OneListKeepsOrder
    <3> QED
      BY <3>3 DEF n
  <2> QED
    BY <2>5, <2>14, <2>15, <2>16
<1> QED
  BY <1>1, <1>2

\* erase: its slot stays, in no block.
LEMMA ErasingKeepsArena ==
  ASSUME NEW m, Arena(m), NEW o \in DOMAIN m.op
  PROVE  /\ Arena(Erased(m, o))
         /\ DOMAIN Erased(m, o).op = DOMAIN m.op
         /\ DOMAIN Erased(m, o).block = DOMAIN m.block
         /\ Erased(m, o).region = m.region /\ Erased(m, o).value = m.value
         /\ Erased(m, o).op[o].erased /\ Erased(m, o).op[o].parent = 0
         /\ \A x \in DOMAIN m.op : /\ Erased(m, o).op[x].regions = m.op[x].regions
                                   /\ SameHead(m.op[x], Erased(m, o).op[x])
                                   /\ x # o => /\ Erased(m, o).op[x].erased = m.op[x].erased
                                               /\ Erased(m, o).op[x].parent = m.op[x].parent
                                   /\ Erased(m, o).op[x].operands = m.op[x].operands
         /\ \A x \in DOMAIN m.block : Erased(m, o).block[x].region = m.block[x].region
         /\ SameOrderBut(o, m, Erased(m, o))
<1> DEFINE d == Detached(m, o)
           n == Erased(m, o)
<1>1. /\ Arena(d) /\ SameNesting(m, d) /\ d.op[o].parent = 0 /\ SamePlacesBut(o, m, d)
      /\ SameOrderBut(o, m, d)
  BY DetachingKeepsArena
<1>2. n = [d EXCEPT !.op[o].erased = TRUE]
  BY DEF Erased
<1>a. IsFunction(n)
  BY <1>2, <1>1 DEF IsFunction
<1> HIDE DEF d, n
<1>3. /\ DOMAIN n = DOMAIN d /\ n.block = d.block /\ n.region = d.region /\ n.value = d.value
      /\ n.op = [d.op EXCEPT ![o] = [@ EXCEPT !.erased = TRUE]]
  BY <1>1, <1>2 DEF Arena, IsModule
<1>4. DOMAIN n.op = DOMAIN d.op /\ DOMAIN d.op = DOMAIN m.op
  BY <1>1, <1>3 DEF SameNesting
<1>5. ASSUME NEW x \in DOMAIN d.op
      PROVE  /\ IsOp(n.op[x])
             /\ n.op[x].parent = d.op[x].parent
             /\ n.op[x].regions = d.op[x].regions
             /\ n.op[x].operands = d.op[x].operands
             /\ SameHead(d.op[x], n.op[x])
             /\ n.op[x].erased = IF x = o THEN TRUE ELSE d.op[x].erased
  <2>1. IsOp(d.op[x])
    BY <1>1 DEF Arena, IsModule
  <2>2. n.op[x] = IF x = o THEN [d.op[x] EXCEPT !.erased = TRUE] ELSE d.op[x]
    BY <1>3
  <2>3. IsFunction(n.op[x])
    <3>1. IsFunction([d.op[x] EXCEPT !.erased = TRUE])
      BY DEF IsFunction
    <3>2. IsFunction(d.op[x])
      BY <2>1 DEF IsOp
    <3> QED
      BY <2>2, <3>1, <3>2
  <2> QED
    BY <2>1, <2>2, <2>3 DEF IsOp, SameHead
<1>6. n.op \in Seq(ToSet(n.op))
  <2>1. DOMAIN n.op = 1..Len(d.op) /\ Len(d.op) \in Nat
    BY <1>1, <1>4, ArenaShape DEF Arena
  <2>2. n.op \in [1..Len(d.op) -> ToSet(n.op)]
    BY <1>3, <2>1 DEF ToSet
  <2> QED
    BY <2>1, <2>2
<1>7. IsModule(n)
  BY <1>a, <1>1, <1>3, <1>4, <1>5, <1>6 DEF IsModule, Arena
<1>8. ListedWhereNamed(n)
  BY <1>1, <1>3, <1>4, <1>5 DEF Arena, ArenaAgrees, ListedWhereNamed
<1>9. NamedWhereListed(n)
  <2> SUFFICES ASSUME NEW x \in DOMAIN d.op, n.op[x].parent # 0
               PROVE  /\ n.op[x].parent \in DOMAIN n.block
                      /\ x \in ToSet(n.block[n.op[x].parent].ops)
    BY <1>4 DEF NamedWhereListed
  <2>1. /\ d.op[x].parent \in DOMAIN d.block
        /\ x \in ToSet(d.block[d.op[x].parent].ops)
    BY <1>1, <1>5 DEF Arena, ArenaAgrees, NamedWhereListed
  <2> QED
    BY <1>3, <1>5, <2>1
<1>10. ListedOnce(n)
  BY <1>1, <1>3 DEF Arena, ArenaAgrees, ListedOnce
<1>11. ErasedIsNowhere(n)
  BY <1>1, <1>4, <1>5 DEF Arena, ArenaAgrees, ErasedIsNowhere
<1>12. RegionsOwned(n)
  BY <1>1, <1>3, <1>4, <1>5 DEF Arena, ArenaAgrees, RegionsOwned
<1>13. ASSUME NEW x \in DOMAIN m.op
       PROVE  /\ n.op[x].regions = m.op[x].regions
              /\ n.op[x].operands = m.op[x].operands
              /\ SameHead(m.op[x], n.op[x])
              /\ x # o => n.op[x].erased = m.op[x].erased /\ n.op[x].parent = m.op[x].parent
  <2>1. x \in DOMAIN d.op
    BY <1>4
  <2>2. /\ SameHead(m.op[x], d.op[x]) /\ d.op[x].regions = m.op[x].regions
        /\ d.op[x].operands = m.op[x].operands /\ d.op[x].erased = m.op[x].erased
    BY <1>1 DEF SameNesting
  <2>3. x # o => d.op[x].parent = m.op[x].parent
    BY <1>1 DEF SamePlacesBut
  <2>4. SameHead(d.op[x], n.op[x])
    BY <1>5, <2>1
  <2>5. SameHead(m.op[x], n.op[x])
    BY <2>2, <2>4 DEF SameHead
  <2> QED
    BY <1>5, <2>1, <2>2, <2>3, <2>5
<1>14. /\ DOMAIN n.block = DOMAIN m.block /\ n.region = m.region /\ n.value = m.value
       /\ \A x \in DOMAIN m.block : n.block[x].region = m.block[x].region
  BY <1>1, <1>3 DEF SameNesting
<1>15. n.op[o].erased /\ n.op[o].parent = 0
  BY <1>1, <1>4, <1>5
<1>16. Arena(n)
  BY <1>7, <1>8, <1>9, <1>10, <1>11, <1>12 DEF Arena, ArenaAgrees
<1>17. SameOrderBut(o, m, n)
  BY <1>1, <1>3 DEF SameOrderBut, Sooner
<1> QED
  BY <1>4, <1>13, <1>14, <1>15, <1>16, <1>17 DEF n

\* move_to_end: out of one block and into another.
LEMMA MovingKeepsArena ==
  ASSUME NEW m, Arena(m), NEW o \in DOMAIN m.op, ~m.op[o].erased, NEW b \in DOMAIN m.block
  PROVE  /\ Arena(MovedToEnd(m, o, b)) /\ SameNesting(m, MovedToEnd(m, o, b))
         /\ MovedToEnd(m, o, b).op[o].parent = b /\ SamePlacesBut(o, m, MovedToEnd(m, o, b))
         /\ SameOrderBut(o, m, MovedToEnd(m, o, b))
<1> DEFINE d == Detached(m, o)
<1>1. /\ Arena(d) /\ SameNesting(m, d) /\ d.op[o].parent = 0 /\ SamePlacesBut(o, m, d)
      /\ SameOrderBut(o, m, d)
  BY DetachingKeepsArena
<1>2. MovedToEnd(m, o, b) = Appended(d, b, o)
  BY DEF MovedToEnd
<1> HIDE DEF d
<1>3. o \in DOMAIN d.op /\ ~d.op[o].erased /\ b \in DOMAIN d.block
  BY <1>1 DEF SameNesting
<1>4. /\ Arena(Appended(d, b, o)) /\ SameNesting(d, Appended(d, b, o))
      /\ Appended(d, b, o).op[o].parent = b /\ SamePlacesBut(o, d, Appended(d, b, o))
      /\ SameOrderBut(o, d, Appended(d, b, o))
  BY <1>1, <1>3, AppendingKeepsArena
<1> DEFINE n == Appended(d, b, o)
<1>5. SamePlacesBut(o, m, n)
  BY <1>1, <1>4 DEF SamePlacesBut, SameNesting
<1> HIDE DEF n
<1>8. SameOrderBut(o, m, n)
  BY <1>1, <1>4 DEF SameOrderBut, n
<1>6. SameNesting(m, d) /\ SameNesting(d, n)
  BY <1>1, <1>4 DEF n
<1>7. SameNesting(m, n)
  BY <1>6 DEF SameNesting, SameHead
<1> QED
  BY <1>2, <1>4, <1>5, <1>7, <1>8 DEF n

-----------------------------------------------------------------------------
(* Creation.                                                               *)

\* An arena that a new entry is pushed to.
LEMMA Pushed ==
  ASSUME NEW S, NEW s \in Seq(S), NEW e
  PROVE  /\ Append(s, e) \in Seq(ToSet(Append(s, e)))
         /\ DOMAIN Append(s, e) = 1..Len(s) + 1
         /\ DOMAIN s = 1..Len(s) /\ Len(s) \in Nat
         /\ \A i \in DOMAIN s : Append(s, e)[i] = s[i]
         /\ Append(s, e)[Len(s) + 1] = e
<1> DEFINE T == S \cup {e}
<1>1. s \in Seq(T) /\ e \in T
  OBVIOUS
<1> HIDE DEF T
<1>2. /\ Append(s, e) \in Seq(T) /\ Len(Append(s, e)) = Len(s) + 1
      /\ \A i \in 1..Len(s) : Append(s, e)[i] = s[i]
      /\ Append(s, e)[Len(s) + 1] = e
  BY <1>1, AppendProperties
<1>3. Append(s, e) \in Seq(ToSet(Append(s, e)))
  BY <1>2, OverItsElements
<1> QED
  BY <1>1, <1>2, <1>3

\* The values of the results of a new operation, after those there are.
IsJoined(whole, s, new) ==
  /\ whole \in Seq(ToSet(whole))
  /\ DOMAIN whole = 1..Len(s) + Len(new)
  /\ \A i \in DOMAIN s : whole[i] = s[i]
  /\ \A i \in Len(s) + 1..Len(s) + Len(new) : whole[i] = new[i - Len(s)]

LEMMA PushedAll ==
  ASSUME NEW S, NEW s \in Seq(S), NEW V, NEW new \in Seq(V)
  PROVE  IsJoined(s \o new, s, new)
<1> DEFINE T == S \cup V
           k == Len(new)
<1>1. s \in Seq(T) /\ new \in Seq(T) /\ k \in Nat
  OBVIOUS
<1> HIDE DEF T
<1>2. /\ s \o new \in Seq(T) /\ Len(s \o new) = Len(s) + k
      /\ \A i \in 1..Len(s) + k : (s \o new)[i] = IF i <= Len(s) THEN s[i] ELSE new[i - Len(s)]
  BY <1>1, ConcatProperties
<1>3. s \o new \in Seq(ToSet(s \o new))
  BY <1>2, OverItsElements
<1>4. DOMAIN s = 1..Len(s) /\ Len(s) \in Nat
  BY <1>1
<1>5. \A i \in DOMAIN s : (s \o new)[i] = s[i]
  BY <1>2, <1>4
<1>6. \A i \in Len(s) + 1..Len(s) + k : (s \o new)[i] = new[i - Len(s)]
  BY <1>2, <1>4
<1>7. DOMAIN (s \o new) = 1..Len(s) + k
  BY <1>2
<1> QED
  BY <1>3, <1>4, <1>5, <1>6, <1>7 DEF IsJoined

\* A name, and attributes whose integers are integers.
IsHead(head) == IsName(head.name) /\ IsFunction(head.operands) /\ IntsAreInts(head.attrs)

\* create_op: the operation is in no block yet and has no region.
LEMMA CreatingKeepsArena ==
  ASSUME NEW m, Arena(m), NEW head, IsHead(head), NEW outs, Len(outs) \in Nat
  PROVE  LET n == WithOp(m, head, outs) IN
         /\ Arena(n)
         /\ NewOp(m) \in DOMAIN n.op /\ NewOp(m) \notin DOMAIN m.op
         /\ DOMAIN m.op \subseteq DOMAIN n.op
         /\ \A x \in DOMAIN m.op : n.op[x] = m.op[x]
         /\ \A x \in DOMAIN n.op : x \in DOMAIN m.op \/ x = NewOp(m)
         /\ n.op[NewOp(m)].parent = 0 /\ ~n.op[NewOp(m)].erased
         /\ n.op[NewOp(m)].name = head.name /\ n.op[NewOp(m)].operands = head.operands
         /\ n.op[NewOp(m)].regions = <<>>
         /\ n.block = m.block /\ n.region = m.region
         /\ DOMAIN m.value \subseteq DOMAIN n.value
         /\ \A v \in DOMAIN m.value : n.value[v] = m.value[v]
         /\ \A v \in DOMAIN n.value \ DOMAIN m.value :
              n.value[v].producer = NewOp(m) /\ n.value[v].home = 0
         /\ ToSet(n.op[NewOp(m)].results) = DOMAIN n.value \ DOMAIN m.value
         /\ DOMAIN n.op[NewOp(m)].results = 1..Len(outs)
<1> DEFINE n == WithOp(m, head, outs)
           new == NewOp(m)
           results == [i \in 1..Len(outs) |-> Len(m.value) + i]
           values == [i \in 1..Len(outs) |->
                       [ name |-> outs[i].name, type |-> outs[i].type,
                         source |-> outs[i].source, confidence |-> outs[i].confidence,
                         producer |-> NewOp(m), home |-> 0 ]]
<1>0. Len(m.value) \in Nat /\ Len(m.op) \in Nat /\ DOMAIN m.value = 1..Len(m.value)
  BY ArenaShape DEF Arena
<1>a. results \in Seq(Nat) /\ DOMAIN results = 1..Len(outs)
  <2>1. results \in [1..Len(outs) -> Nat]
    BY <1>0
  <2> QED
    BY <2>1, ListedFunction
<1>1. PICK e : /\ n.op = Append(m.op, e)
               /\ IsOp(e) /\ e.parent = 0 /\ ~e.erased /\ e.regions = <<>>
               /\ e.name = head.name /\ e.results = results /\ e.operands = head.operands
  <2> DEFINE e == [ name |-> head.name, literal |-> head.literal,
                    operands |-> head.operands, attrs |-> head.attrs,
                    effect |-> head.effect, results |-> results,
                    regions |-> <<>>, parent |-> 0, erased |-> FALSE ]
  <2>1. n.op = Append(m.op, e)
    BY DEF WithOp, Arena, IsModule
  <2>2. e.parent = 0 /\ e.erased = FALSE /\ e.regions = <<>> /\ e.name = head.name
        /\ e.results = results /\ e.attrs = head.attrs /\ e.operands = head.operands
        /\ DOMAIN e = { "name", "literal", "operands", "attrs", "effect", "results",
                        "regions", "parent", "erased" }
    OBVIOUS
  <2>a. IsFunction(e)
    BY DEF IsFunction
  <2> HIDE DEF e, n, results
  <2>3. IsOp(e)
    <3>1. IsName(e.name) /\ IsFunction(e.operands) /\ IntsAreInts(e.attrs)
      BY <2>2 DEF IsHead
    <3>2. e.regions \in Seq(Nat) /\ e.results \in Seq(Nat)
      BY <1>a, <2>2
    <3>3. e.parent \in Nat
      BY <2>2
    <3>4. e.erased \in BOOLEAN
      BY <2>2, Zenon
    <3> QED
      BY <2>a, <2>2, <3>1, <3>2, <3>3, <3>4, Zenon DEF IsOp, IntsAreInts
  <2> QED
    BY <2>1, <2>2, <2>3
<1>2. DOMAIN n = DOMAIN m /\ n.block = m.block /\ n.region = m.region /\ n.value = m.value \o values
  BY DEF WithOp, Arena, IsModule
<1>j. IsFunction(n)
  BY DEF WithOp, IsFunction
<1>3. m.op \in Seq(ToSet(m.op)) /\ m.value \in Seq(ToSet(m.value))
  BY DEF Arena, IsModule
<1>4. /\ n.op \in Seq(ToSet(n.op))
      /\ DOMAIN n.op = 1..Len(m.op) + 1
      /\ DOMAIN m.op = 1..Len(m.op) /\ Len(m.op) \in Nat
      /\ \A x \in DOMAIN m.op : n.op[x] = m.op[x]
      /\ n.op[Len(m.op) + 1] = e
  BY <1>1, <1>3, Pushed
<1>5. new = Len(m.op) + 1
  BY DEF NewOp
<1>b. Len(values) = Len(outs) /\ values \in Seq(ToSet(values))
  <2>1. values \in [1..Len(outs) -> ToSet(values)]
    BY DEF ToSet
  <2> HIDE DEF values
  <2>2. values \in Seq(ToSet(values))
    BY <2>1, ListedFunction
  <2> QED
    BY <2>1, <2>2
<1>c. \A i \in 1..Len(outs) : IsValue(values[i]) /\ values[i].producer = new /\ values[i].home = 0
  BY <1>0, <1>5 DEF IsValue
<1> HIDE DEF n, new, values
<1>d. /\ n.value \in Seq(ToSet(n.value))
      /\ DOMAIN n.value = 1..Len(m.value) + Len(outs)
      /\ \A v \in DOMAIN m.value : n.value[v] = m.value[v]
      /\ \A v \in Len(m.value) + 1..Len(m.value) + Len(outs) : n.value[v] = values[v - Len(m.value)]
  <2> DEFINE old == m.value
  <2>1. old \in Seq(ToSet(old)) /\ n.value = old \o values
    BY <1>2, <1>3
  <2> HIDE DEF old
  <2>2. IsJoined(n.value, old, values)
    BY <1>b, <2>1, PushedAll
  <2> QED
    BY <1>b, <2>2 DEF old, IsJoined
<1>e. ASSUME NEW v \in DOMAIN n.value \ DOMAIN m.value
      PROVE  IsValue(n.value[v]) /\ n.value[v].producer = new /\ n.value[v].home = 0
  <2>1. v \in Len(m.value) + 1..Len(m.value) + Len(outs) /\ v - Len(m.value) \in 1..Len(outs)
    BY <1>0, <1>d
  <2> QED
    BY <1>c, <1>d, <2>1
<1>f. DOMAIN m.value \subseteq DOMAIN n.value
  BY <1>0, <1>d
<1>g. \A v \in DOMAIN n.value : IsValue(n.value[v])
  <2>1. \A v \in DOMAIN m.value : IsValue(m.value[v])
    BY DEF Arena, IsModule
  <2> QED
    BY <1>d, <1>e, <2>1
<1>6. /\ new \in DOMAIN n.op /\ new \notin DOMAIN m.op
      /\ DOMAIN m.op \subseteq DOMAIN n.op
      /\ \A x \in DOMAIN n.op : x \in DOMAIN m.op \/ x = new
      /\ n.op[new] = e
  BY <1>4, <1>5
<1>h. ToSet(e.results) = DOMAIN n.value \ DOMAIN m.value
  <2>1. ToSet(e.results) \subseteq DOMAIN n.value \ DOMAIN m.value
    <3>1. \A i \in 1..Len(outs) : /\ results[i] = Len(m.value) + i
                                  /\ Len(m.value) + i \in 1..Len(m.value) + Len(outs)
                                  /\ Len(m.value) + i \notin 1..Len(m.value)
      BY <1>0
    <3> HIDE DEF results
    <3> QED
      BY <1>0, <1>1, <1>a, <1>d, <3>1 DEF ToSet
  <2>2. ASSUME NEW v \in DOMAIN n.value \ DOMAIN m.value PROVE v \in ToSet(e.results)
    <3>1. v \in Len(m.value) + 1..Len(m.value) + Len(outs)
      BY <1>0, <1>d
    <3>2. v - Len(m.value) \in 1..Len(outs) /\ results[v - Len(m.value)] = v
      BY <1>0, <3>1
    <3> QED
      BY <1>1, <1>a, <3>2 DEF ToSet
  <2> QED
    BY <2>1, <2>2
<1>i. DOMAIN e.results = 1..Len(outs)
  BY <1>1, <1>a
<1> HIDE DEF results
<1>7. IsModule(n)
  BY <1>j, <1>1, <1>2, <1>4, <1>6, <1>d, <1>g DEF Arena, IsModule
<1>8. ListedWhereNamed(n)
  <2> SUFFICES ASSUME NEW b \in DOMAIN m.block, NEW i \in DOMAIN m.block[b].ops
               PROVE  /\ m.block[b].ops[i] \in DOMAIN n.op
                      /\ n.op[m.block[b].ops[i]].parent = b
    BY <1>2 DEF ListedWhereNamed
  <2>1. /\ m.block[b].ops[i] \in DOMAIN m.op
        /\ m.op[m.block[b].ops[i]].parent = b
    BY DEF Arena, ArenaAgrees, ListedWhereNamed
  <2> QED
    BY <1>4, <1>6, <2>1
<1>9. NamedWhereListed(n)
  <2> SUFFICES ASSUME NEW x \in DOMAIN n.op, n.op[x].parent # 0
               PROVE  /\ n.op[x].parent \in DOMAIN m.block
                      /\ x \in ToSet(m.block[n.op[x].parent].ops)
    BY <1>2 DEF NamedWhereListed
  <2>1. x \in DOMAIN m.op /\ n.op[x] = m.op[x]
    BY <1>1, <1>4, <1>6
  <2> QED
    BY <2>1 DEF Arena, ArenaAgrees, NamedWhereListed
<1>10. ListedOnce(n)
  BY <1>2 DEF Arena, ArenaAgrees, ListedOnce
<1>11. ErasedIsNowhere(n)
  BY <1>1, <1>4, <1>6 DEF Arena, ArenaAgrees, ErasedIsNowhere
<1>12. RegionsOwned(n)
  <2> SUFFICES ASSUME NEW x \in DOMAIN n.op, NEW i \in DOMAIN n.op[x].regions
               PROVE  /\ n.op[x].regions[i] \in DOMAIN m.region
                      /\ m.region[n.op[x].regions[i]].owner = x
    BY <1>2 DEF RegionsOwned
  <2>1. x \in DOMAIN m.op /\ n.op[x] = m.op[x]
    BY <1>1, <1>4, <1>6
  <2> QED
    BY <2>1 DEF Arena, ArenaAgrees, RegionsOwned
<1>13. Arena(n)
  BY <1>7, <1>8, <1>9, <1>10, <1>11, <1>12 DEF Arena, ArenaAgrees
<1> QED
  BY <1>1, <1>2, <1>4, <1>6, <1>13, <1>d, <1>e, <1>f, <1>h, <1>i DEF n, new

\* create_op_region: the new region knows whose it is.
LEMMA AddingRegionKeepsArena ==
  ASSUME NEW m, Arena(m), NEW o \in DOMAIN m.op
  PROVE  LET n == WithRegion(m, o) IN
         /\ Arena(n)
         /\ DOMAIN n.op = DOMAIN m.op
         /\ \A x \in DOMAIN m.op : /\ n.op[x].erased = m.op[x].erased
                                   /\ n.op[x].parent = m.op[x].parent
                                   /\ n.op[x].operands = m.op[x].operands
                                   /\ SameHead(m.op[x], n.op[x])
                                   /\ x # o => n.op[x].regions = m.op[x].regions
         /\ n.op[o].regions = Append(m.op[o].regions, Len(n.region))
         /\ Len(n.region) \in DOMAIN n.region /\ Len(n.region) \notin DOMAIN m.region
         /\ \A r \in DOMAIN n.region : r \in DOMAIN m.region \/ r = Len(n.region)
         /\ DOMAIN m.region \subseteq DOMAIN n.region
         /\ \A r \in DOMAIN m.region : n.region[r] = m.region[r]
         /\ n.region[Len(n.region)].blocks = <<>> /\ n.region[Len(n.region)].owner = o
         /\ n.block = m.block /\ n.value = m.value
<1> DEFINE n == WithRegion(m, o)
           r == Len(m.region) + 1
           e == [blocks |-> <<>>, owner |-> o]
<1>1. /\ DOMAIN n = DOMAIN m /\ n.block = m.block /\ n.value = m.value
      /\ n.region = Append(m.region, e)
      /\ n.op = [m.op EXCEPT ![o] = [@ EXCEPT !.regions = Append(m.op[o].regions, r)]]
  BY DEF WithRegion, Arena, IsModule
<1>c. IsFunction(n)
  BY DEF WithRegion, IsFunction
<1>2. m.region \in Seq(ToSet(m.region))
  BY DEF Arena, IsModule
<1>3. /\ n.region \in Seq(ToSet(n.region))
      /\ DOMAIN n.region = 1..r
      /\ DOMAIN m.region = 1..r - 1 /\ r \in Nat /\ r > 0
      /\ \A x \in DOMAIN m.region : n.region[x] = m.region[x]
      /\ n.region[r] = e
  <2>1. Len(m.region) \in Nat
    BY <1>2
  <2> QED
    BY <1>1, <1>2, <2>1, Pushed
<1>4. IsRegion(e) /\ e.owner = o /\ e.blocks = <<>>
  BY DEF IsRegion
<1> DEFINE rs == Append(m.op[o].regions, r)
<1>a. /\ m.op[o].regions \in Seq(Nat) /\ rs \in Seq(Nat)
      /\ \A i \in DOMAIN rs :
           \/ i \in DOMAIN m.op[o].regions /\ rs[i] = m.op[o].regions[i]
           \/ rs[i] = r
  <2>1. m.op[o].regions \in Seq(Nat)
    BY DEF Arena, IsModule, IsOp
  <2>2. r \in Nat
    BY <1>3
  <2> HIDE DEF r
  <2> QED
    BY <2>1, <2>2
<1>b. n.op = [m.op EXCEPT ![o] = [@ EXCEPT !.regions = rs]]
  BY <1>1
<1> HIDE DEF n, e, r, rs
<1>5. Len(n.region) = r
  BY <1>3
<1>6. ASSUME NEW x \in DOMAIN m.op
      PROVE  /\ IsOp(n.op[x])
             /\ n.op[x].parent = m.op[x].parent
             /\ n.op[x].erased = m.op[x].erased
             /\ n.op[x].operands = m.op[x].operands
             /\ n.op[x].regions = IF x = o THEN rs ELSE m.op[x].regions
             /\ SameHead(m.op[x], n.op[x])
  <2>1. IsOp(m.op[x])
    BY DEF Arena, IsModule
  <2>2. n.op[x] = IF x = o THEN [m.op[x] EXCEPT !.regions = rs] ELSE m.op[x]
    BY <1>b
  <2>3. rs \in Seq(Nat)
    BY <1>a
  <2>4. IsFunction(n.op[x])
    <3>1. IsFunction([m.op[x] EXCEPT !.regions = rs])
      BY DEF IsFunction
    <3>2. IsFunction(m.op[x])
      BY <2>1 DEF IsOp
    <3> QED
      BY <2>2, <3>1, <3>2
  <2> QED
    BY <2>1, <2>2, <2>3, <2>4 DEF IsOp, SameHead
<1>7. DOMAIN n.op = DOMAIN m.op
  BY <1>1
<1>8. n.op \in Seq(ToSet(n.op))
  <2>1. DOMAIN n.op = 1..Len(m.op) /\ Len(m.op) \in Nat
    BY <1>7, ArenaShape DEF Arena
  <2>2. n.op \in [1..Len(m.op) -> ToSet(n.op)]
    BY <1>1, <2>1 DEF ToSet
  <2> QED
    BY <2>1, <2>2
<1>9. \A x \in DOMAIN n.region : IsRegion(n.region[x])
  <2>1. \A x \in DOMAIN n.region : x \in DOMAIN m.region \/ x = r
    BY <1>3
  <2>2. \A x \in DOMAIN m.region : IsRegion(m.region[x])
    BY DEF Arena, IsModule
  <2> QED
    BY <1>3, <1>4, <2>1, <2>2
<1>10. IsModule(n)
  BY <1>c, <1>1, <1>3, <1>6, <1>7, <1>8, <1>9 DEF Arena, IsModule
<1>11. ListedWhereNamed(n)
  BY <1>1, <1>6, <1>7 DEF Arena, ArenaAgrees, ListedWhereNamed
<1>12. NamedWhereListed(n)
  BY <1>1, <1>6, <1>7 DEF Arena, ArenaAgrees, NamedWhereListed
<1>13. ListedOnce(n)
  BY <1>1 DEF Arena, ArenaAgrees, ListedOnce
<1>14. ErasedIsNowhere(n)
  BY <1>6, <1>7 DEF Arena, ArenaAgrees, ErasedIsNowhere
<1>15. RegionsOwned(n)
  <2> SUFFICES ASSUME NEW x \in DOMAIN m.op, NEW i \in DOMAIN n.op[x].regions
               PROVE  /\ n.op[x].regions[i] \in DOMAIN n.region
                      /\ n.region[n.op[x].regions[i]].owner = x
    BY <1>7 DEF RegionsOwned
  <2>1. CASE x = o
    <3>1. \/ n.op[x].regions[i] = r
          \/ i \in DOMAIN m.op[x].regions /\ n.op[x].regions[i] = m.op[x].regions[i]
      BY <1>a, <1>6, <2>1
    <3>2. i \in DOMAIN m.op[x].regions =>
            /\ m.op[x].regions[i] \in DOMAIN m.region
            /\ m.region[m.op[x].regions[i]].owner = x
      BY DEF Arena, ArenaAgrees, RegionsOwned
    <3> QED
      BY <1>3, <1>4, <2>1, <3>1, <3>2
  <2>2. CASE x # o
    <3>1. /\ n.op[x].regions[i] \in DOMAIN m.region
          /\ m.region[n.op[x].regions[i]].owner = x
      BY <1>6, <2>2 DEF Arena, ArenaAgrees, RegionsOwned
    <3> QED
      BY <1>3, <3>1
  <2> QED
    BY <2>1, <2>2
<1>16. Arena(n)
  BY <1>10, <1>11, <1>12, <1>13, <1>14, <1>15 DEF Arena, ArenaAgrees
<1>17. n.op[o].regions = Append(m.op[o].regions, r)
  BY <1>6 DEF rs
<1>18. /\ r \in DOMAIN n.region /\ r \notin DOMAIN m.region
       /\ n.region[r].blocks = <<>> /\ n.region[r].owner = o
       /\ DOMAIN m.region \subseteq DOMAIN n.region
       /\ \A x \in DOMAIN n.region : x \in DOMAIN m.region \/ x = r
       /\ \A x \in DOMAIN m.region : n.region[x] = m.region[x]
  BY <1>3, <1>4
<1> QED
  BY <1>1, <1>5, <1>6, <1>7, <1>16, <1>17, <1>18 DEF n

\* create_block: the new block is the last of its region, and empty.
LEMMA AddingBlockKeepsArena ==
  ASSUME NEW m, Arena(m), NEW r \in DOMAIN m.region
  PROVE  LET n == WithBlock(m, r) IN
         /\ Arena(n)
         /\ n.op = m.op
         /\ n.value = m.value
         /\ DOMAIN n.region = DOMAIN m.region
         /\ \A x \in DOMAIN m.region : /\ n.region[x].owner = m.region[x].owner
                                       /\ x # r => n.region[x].blocks = m.region[x].blocks
         /\ n.region[r].blocks = Append(m.region[r].blocks, NewBlock(m))
         /\ NewBlock(m) \in DOMAIN n.block /\ NewBlock(m) \notin DOMAIN m.block
         /\ DOMAIN m.block \subseteq DOMAIN n.block
         /\ \A x \in DOMAIN n.block : x \in DOMAIN m.block \/ x = NewBlock(m)
         /\ \A x \in DOMAIN m.block : n.block[x] = m.block[x]
         /\ n.block[NewBlock(m)].region = r /\ DOMAIN n.block[NewBlock(m)].ops = {}
<1> DEFINE n == WithBlock(m, r)
           b == Len(m.block) + 1
           e == [args |-> <<>>, ops |-> <<>>, region |-> r]
<1>1. /\ DOMAIN n = DOMAIN m /\ n.op = m.op /\ n.value = m.value
      /\ n.block = Append(m.block, e)
      /\ n.region = [m.region EXCEPT ![r] = [@ EXCEPT !.blocks = Append(m.region[r].blocks, b)]]
  BY DEF WithBlock, NewBlock, Arena, IsModule
<1>c. IsFunction(n)
  BY DEF WithBlock, IsFunction
<1>2. m.block \in Seq(ToSet(m.block))
  BY DEF Arena, IsModule
<1>3. /\ n.block \in Seq(ToSet(n.block))
      /\ DOMAIN n.block = 1..b
      /\ DOMAIN m.block = 1..b - 1 /\ b \in Nat /\ b > 0
      /\ \A x \in DOMAIN m.block : n.block[x] = m.block[x]
      /\ n.block[b] = e
  <2>1. Len(m.block) \in Nat
    BY <1>2
  <2> QED
    BY <1>1, <1>2, <2>1, Pushed
<1>4. IsBlock(e) /\ DOMAIN e.ops = {} /\ e.region = r
  BY DEF IsBlock
<1>5. NewBlock(m) = b
  BY DEF NewBlock
<1> DEFINE bs == Append(m.region[r].blocks, b)
<1>a. bs \in Seq(Nat)
  <2>1. m.region[r].blocks \in Seq(Nat)
    BY DEF Arena, IsModule, IsRegion
  <2>2. b \in Nat
    BY <1>3
  <2> HIDE DEF b
  <2> QED
    BY <2>1, <2>2
<1>b. n.region = [m.region EXCEPT ![r] = [@ EXCEPT !.blocks = bs]]
  BY <1>1
<1> HIDE DEF n, e, b, bs
<1>6. ASSUME NEW x \in DOMAIN m.region
      PROVE  /\ IsRegion(n.region[x])
             /\ n.region[x].owner = m.region[x].owner
             /\ n.region[x].blocks = IF x = r THEN bs ELSE m.region[x].blocks
  <2>1. IsRegion(m.region[x])
    BY DEF Arena, IsModule
  <2>2. n.region[x] = IF x = r THEN [m.region[x] EXCEPT !.blocks = bs] ELSE m.region[x]
    BY <1>b
  <2>3. bs \in Seq(Nat)
    BY <1>a
  <2> QED
    BY <2>1, <2>2, <2>3 DEF IsRegion
<1>7. DOMAIN n.region = DOMAIN m.region
  BY <1>1
<1>8. n.region \in Seq(ToSet(n.region))
  <2>1. DOMAIN n.region = 1..Len(m.region) /\ Len(m.region) \in Nat
    BY <1>7, ArenaShape DEF Arena
  <2>2. n.region \in [1..Len(m.region) -> ToSet(n.region)]
    BY <1>1, <2>1 DEF ToSet
  <2> QED
    BY <2>1, <2>2
<1>9. \A x \in DOMAIN n.block : x \in DOMAIN m.block \/ x = b
  BY <1>3
<1>10. \A x \in DOMAIN n.block : IsBlock(n.block[x])
  <2>1. \A x \in DOMAIN m.block : IsBlock(m.block[x])
    BY DEF Arena, IsModule
  <2> QED
    BY <1>3, <1>4, <1>9, <2>1
<1>11. IsModule(n)
  BY <1>c, <1>1, <1>3, <1>6, <1>7, <1>8, <1>10 DEF Arena, IsModule
<1>12. ListedWhereNamed(n)
  <2> SUFFICES ASSUME NEW x \in DOMAIN n.block, NEW i \in DOMAIN n.block[x].ops
               PROVE  /\ n.block[x].ops[i] \in DOMAIN m.op
                      /\ m.op[n.block[x].ops[i]].parent = x
    BY <1>1 DEF ListedWhereNamed
  <2>1. x \in DOMAIN m.block /\ n.block[x] = m.block[x]
    BY <1>3, <1>4, <1>9
  <2> QED
    BY <2>1 DEF Arena, ArenaAgrees, ListedWhereNamed
<1>13. NamedWhereListed(n)
  <2> SUFFICES ASSUME NEW x \in DOMAIN m.op, m.op[x].parent # 0
               PROVE  /\ m.op[x].parent \in DOMAIN n.block
                      /\ x \in ToSet(n.block[m.op[x].parent].ops)
    BY <1>1 DEF NamedWhereListed
  <2>1. /\ m.op[x].parent \in DOMAIN m.block
        /\ x \in ToSet(m.block[m.op[x].parent].ops)
    BY DEF Arena, ArenaAgrees, NamedWhereListed
  <2>2. DOMAIN m.block \subseteq DOMAIN n.block
    BY <1>3
  <2> QED
    BY <1>3, <2>1, <2>2
<1>14. ListedOnce(n)
  <2> SUFFICES ASSUME NEW x \in DOMAIN n.block, NEW i \in DOMAIN n.block[x].ops,
                      NEW j \in DOMAIN n.block[x].ops, n.block[x].ops[i] = n.block[x].ops[j]
               PROVE  i = j
    BY DEF ListedOnce
  <2>1. x \in DOMAIN m.block /\ n.block[x] = m.block[x]
    BY <1>3, <1>4, <1>9
  <2> QED
    BY <2>1 DEF Arena, ArenaAgrees, ListedOnce
<1>15. ErasedIsNowhere(n)
  BY <1>1 DEF Arena, ArenaAgrees, ErasedIsNowhere
<1>16. RegionsOwned(n)
  BY <1>1, <1>6, <1>7 DEF Arena, ArenaAgrees, RegionsOwned
<1>17. Arena(n)
  BY <1>11, <1>12, <1>13, <1>14, <1>15, <1>16 DEF Arena, ArenaAgrees
<1>18. /\ b \in DOMAIN n.block /\ b \notin DOMAIN m.block /\ n.block[b].region = r
       /\ DOMAIN n.block[b].ops = {}
       /\ DOMAIN m.block \subseteq DOMAIN n.block
       /\ \A x \in DOMAIN m.block : n.block[x] = m.block[x]
  BY <1>3, <1>4
<1> QED
  BY <1>1, <1>5, <1>6, <1>7, <1>9, <1>17, <1>18 DEF n, bs

-----------------------------------------------------------------------------
(* Whose everything is.                                                    *)

\* No block, region or result changes hands.
SameOwners(m, n) ==
  /\ DOMAIN n.op = DOMAIN m.op /\ DOMAIN n.block = DOMAIN m.block
  /\ n.region = m.region
  /\ DOMAIN n.value = DOMAIN m.value
  /\ \A o \in DOMAIN m.op : /\ n.op[o].regions = m.op[o].regions
                            /\ n.op[o].results = m.op[o].results
  /\ \A b \in DOMAIN m.block : n.block[b].region = m.block[b].region
  /\ \A v \in DOMAIN m.value : /\ n.value[v].producer = m.value[v].producer
                               /\ n.value[v].home = m.value[v].home

LEMMA KeepingOwners ==
  ASSUME NEW m, NEW n, SameOwners(m, n), OwnersAgree(m)
  PROVE  OwnersAgree(n)
<1> USE DEF SameOwners
<1>1. BlocksPlaced(n)
  BY DEF OwnersAgree, BlocksPlaced
<1>2. RegionsClaimed(n)
  BY DEF OwnersAgree, RegionsClaimed
<1>3. ResultsProduced(n)
  <2>1. \A o \in DOMAIN m.op : Results(n, o) = Results(m, o)
    BY DEF Results
  <2> QED
    BY <2>1 DEF OwnersAgree, ResultsProduced, HasProducer
<1>4. BodyIsFree(n)
  BY DEF OwnersAgree, BodyIsFree
<1> QED
  BY <1>1, <1>2, <1>3, <1>4 DEF OwnersAgree

LEMMA CreatingKeepsOwners ==
  ASSUME NEW m, Arena(m), OwnersAgree(m),
         NEW head, IsHead(head), NEW outs, Len(outs) \in Nat
  PROVE  OwnersAgree(WithOp(m, head, outs))
<1> DEFINE n == WithOp(m, head, outs)
           new == NewOp(m)
<1>1. /\ \A x \in DOMAIN m.op : x \in DOMAIN n.op /\ n.op[x] = m.op[x]
      /\ \A x \in DOMAIN n.op : x \in DOMAIN m.op \/ x = new
      /\ n.block = m.block /\ n.region = m.region
  BY CreatingKeepsArena
<1>2. /\ \A v \in DOMAIN m.value : v \in DOMAIN n.value /\ n.value[v] = m.value[v]
      /\ \A v \in DOMAIN n.value \ DOMAIN m.value : n.value[v].producer = new /\ n.value[v].home = 0
      /\ ToSet(n.op[new].results) = DOMAIN n.value \ DOMAIN m.value
      /\ new \in DOMAIN n.op
  BY CreatingKeepsArena
<1>a. new # 0
  BY ArenaShape DEF NewOp, Arena
<1> HIDE DEF n, new
<1>3. BlocksPlaced(n)
  BY <1>1 DEF OwnersAgree, BlocksPlaced
<1>4. RegionsClaimed(n)
  <2>1. \A r \in DOMAIN m.region : m.region[r].owner # 0 =>
          m.region[r].owner \in DOMAIN m.op /\ r \in ToSet(m.op[m.region[r].owner].regions)
    BY DEF OwnersAgree, RegionsClaimed
  <2> QED
    BY <1>1, <2>1 DEF RegionsClaimed
<1>5. ResultsProduced(n)
  <2>1. ASSUME NEW o \in DOMAIN n.op, NEW v \in Results(n, o)
        PROVE  v \in DOMAIN n.value /\ n.value[v].producer = o
    <3>1. CASE o \in DOMAIN m.op
      <4>1. v \in Results(m, o)
        BY <1>1, <2>1, <3>1 DEF Results
      <4>2. v \in DOMAIN m.value /\ m.value[v].producer = o
        BY <3>1, <4>1 DEF OwnersAgree, ResultsProduced
      <4> QED
        BY <1>2, <4>2
    <3>2. CASE o = new
      BY <1>2, <2>1, <3>2 DEF Results
    <3> QED
      BY <1>1, <3>1, <3>2
  <2>2. ASSUME NEW v \in DOMAIN n.value PROVE HasProducer(n, v)
    <3>1. CASE v \in DOMAIN m.value
      <4>1. HasProducer(m, v) /\ n.value[v] = m.value[v]
        BY <1>2, <3>1 DEF OwnersAgree, ResultsProduced
      <4> QED
        BY <1>1, <4>1 DEF HasProducer, Results
    <3>2. CASE v \notin DOMAIN m.value
      <4>1. /\ n.value[v].producer = new /\ n.value[v].home = 0
            /\ v \in ToSet(n.op[new].results) /\ new \in DOMAIN n.op
        BY <1>2, <3>2
      <4> QED
        BY <1>a, <4>1 DEF HasProducer, Results
    <3> QED
      BY <3>1, <3>2
  <2> QED
    BY <2>1, <2>2 DEF ResultsProduced
<1>6. BodyIsFree(n)
  BY <1>1 DEF OwnersAgree, BodyIsFree
<1> QED
  BY <1>3, <1>4, <1>5, <1>6 DEF OwnersAgree, n

\* What a sequence holds with one more entry.
LEMMA HoldsOneMore ==
  ASSUME NEW S, NEW s \in Seq(S), NEW e
  PROVE  \A x : x \in ToSet(Append(s, e)) <=> x \in ToSet(s) \/ x = e
<1>1. /\ DOMAIN Append(s, e) = 1..Len(s) + 1 /\ DOMAIN s = 1..Len(s) /\ Len(s) \in Nat
      /\ \A i \in DOMAIN s : Append(s, e)[i] = s[i]
      /\ Append(s, e)[Len(s) + 1] = e
  BY Pushed
<1> DEFINE t == Append(s, e)
<1> HIDE DEF t
<1>2. \A i \in DOMAIN t : i \in DOMAIN s \/ i = Len(s) + 1
  BY <1>1 DEF t
<1>3. \A i \in DOMAIN s : i \in DOMAIN t
  BY <1>1 DEF t
<1>4. Len(s) + 1 \in DOMAIN t
  BY <1>1 DEF t
<1>5. \A x : x \in ToSet(t) => x \in ToSet(s) \/ x = e
  BY <1>1, <1>2 DEF ToSet, t
<1>6. \A x : x \in ToSet(s) \/ x = e => x \in ToSet(t)
  BY <1>1, <1>3, <1>4 DEF ToSet, t
<1> QED
  BY <1>5, <1>6 DEF t

LEMMA AddingRegionKeepsOwners ==
  ASSUME NEW m, Arena(m), OwnersAgree(m), NEW o \in DOMAIN m.op
  PROVE  OwnersAgree(WithRegion(m, o))
<1> DEFINE n == WithRegion(m, o)
           new == Len(n.region)
<1>1. /\ DOMAIN n.op = DOMAIN m.op
      /\ \A x \in DOMAIN m.op : SameHead(m.op[x], n.op[x]) /\ (x # o => n.op[x].regions = m.op[x].regions)
      /\ n.op[o].regions = Append(m.op[o].regions, new)
      /\ n.block = m.block /\ n.value = m.value
  BY AddingRegionKeepsArena
<1>2. /\ \A r \in DOMAIN n.region : r \in DOMAIN m.region \/ r = new
      /\ \A r \in DOMAIN m.region : r \in DOMAIN n.region /\ n.region[r] = m.region[r]
      /\ n.region[new].blocks = <<>> /\ n.region[new].owner = o
  BY AddingRegionKeepsArena
<1>a. \A x : x \in ToSet(Append(m.op[o].regions, new)) <=> x \in ToSet(m.op[o].regions) \/ x = new
  <2>1. m.op[o].regions \in Seq(Nat)
    BY DEF Arena, IsModule, IsOp
  <2> QED
    BY <2>1, HoldsOneMore
<1> HIDE DEF n, new
<1>3. BlocksPlaced(n)
  <2>1. ASSUME NEW r \in DOMAIN n.region, NEW b \in ToSet(n.region[r].blocks)
        PROVE  b \in DOMAIN n.block /\ n.block[b].region = r
    <3>1. r # new
      BY <1>2 DEF ToSet
    <3> QED
      BY <1>1, <1>2, <3>1 DEF OwnersAgree, BlocksPlaced
  <2>2. ASSUME NEW b \in DOMAIN n.block
        PROVE  n.block[b].region \in DOMAIN n.region /\ b \in ToSet(n.region[n.block[b].region].blocks)
    BY <1>1, <1>2 DEF OwnersAgree, BlocksPlaced
  <2> QED
    BY <2>1, <2>2 DEF BlocksPlaced
<1>4. RegionsClaimed(n)
  <2> SUFFICES ASSUME NEW r \in DOMAIN n.region, n.region[r].owner # 0
               PROVE  n.region[r].owner \in DOMAIN n.op /\ r \in ToSet(n.op[n.region[r].owner].regions)
    BY DEF RegionsClaimed
  <2>1. CASE r = new
    BY <1>1, <1>2, <1>a, <2>1
  <2>2. CASE r # new
    <3>1. r \in DOMAIN m.region /\ n.region[r] = m.region[r]
      BY <1>2, <2>2
    <3>2. m.region[r].owner \in DOMAIN m.op /\ r \in ToSet(m.op[m.region[r].owner].regions)
      BY <3>1 DEF OwnersAgree, RegionsClaimed
    <3>3. CASE m.region[r].owner = o
      BY <1>1, <1>a, <3>1, <3>2, <3>3
    <3>4. CASE m.region[r].owner # o
      BY <1>1, <3>1, <3>2, <3>4
    <3> QED
      BY <3>3, <3>4
  <2> QED
    BY <2>1, <2>2
<1>5. ResultsProduced(n)
  <2>1. \A x \in DOMAIN m.op : Results(n, x) = Results(m, x)
    BY <1>1 DEF SameHead, Results
  <2> QED
    BY <1>1, <2>1 DEF OwnersAgree, ResultsProduced, HasProducer
<1>6. BodyIsFree(n)
  BY <1>1, <1>2 DEF OwnersAgree, BodyIsFree, BlocksPlaced
<1> QED
  BY <1>3, <1>4, <1>5, <1>6 DEF OwnersAgree, n

LEMMA AddingBlockKeepsOwners ==
  ASSUME NEW m, Arena(m), OwnersAgree(m), NEW r \in DOMAIN m.region
  PROVE  OwnersAgree(WithBlock(m, r))
<1> DEFINE n == WithBlock(m, r)
           new == NewBlock(m)
<1>1. /\ n.op = m.op /\ n.value = m.value
      /\ DOMAIN n.region = DOMAIN m.region
      /\ \A x \in DOMAIN m.region : /\ n.region[x].owner = m.region[x].owner
                                    /\ x # r => n.region[x].blocks = m.region[x].blocks
      /\ n.region[r].blocks = Append(m.region[r].blocks, new)
  BY AddingBlockKeepsArena
<1>2. /\ new \in DOMAIN n.block
      /\ \A x \in DOMAIN n.block : x \in DOMAIN m.block \/ x = new
      /\ \A x \in DOMAIN m.block : x \in DOMAIN n.block /\ n.block[x] = m.block[x]
      /\ n.block[new].region = r
  BY AddingBlockKeepsArena
<1>a. \A x : x \in ToSet(Append(m.region[r].blocks, new)) <=> x \in ToSet(m.region[r].blocks) \/ x = new
  <2>1. m.region[r].blocks \in Seq(Nat)
    BY DEF Arena, IsModule, IsRegion
  <2> QED
    BY <2>1, HoldsOneMore
<1> HIDE DEF n, new
<1>3. BlocksPlaced(n)
  <2>1. ASSUME NEW x \in DOMAIN n.region, NEW b \in ToSet(n.region[x].blocks)
        PROVE  b \in DOMAIN n.block /\ n.block[b].region = x
    <3>1. CASE x = r
      <4>1. b = new \/ b \in ToSet(m.region[r].blocks)
        BY <1>1, <1>a, <3>1
      <4>2. b \in ToSet(m.region[r].blocks) => b \in DOMAIN m.block /\ m.block[b].region = r
        BY DEF OwnersAgree, BlocksPlaced
      <4> QED
        BY <1>2, <3>1, <4>1, <4>2
    <3>2. CASE x # r
      <4>1. b \in DOMAIN m.block /\ m.block[b].region = x
        BY <1>1, <3>2 DEF OwnersAgree, BlocksPlaced
      <4> QED
        BY <1>2, <4>1
    <3> QED
      BY <3>1, <3>2
  <2>2. ASSUME NEW b \in DOMAIN n.block
        PROVE  n.block[b].region \in DOMAIN n.region /\ b \in ToSet(n.region[n.block[b].region].blocks)
    <3>1. CASE b = new
      BY <1>1, <1>2, <1>a, <3>1
    <3>2. CASE b # new
      <4>1. /\ b \in DOMAIN m.block /\ m.block[b].region \in DOMAIN m.region
            /\ b \in ToSet(m.region[m.block[b].region].blocks)
        BY <1>2, <3>2 DEF OwnersAgree, BlocksPlaced
      <4>2. CASE m.block[b].region = r
        BY <1>1, <1>2, <1>a, <4>1, <4>2
      <4>3. CASE m.block[b].region # r
        BY <1>1, <1>2, <4>1, <4>3
      <4> QED
        BY <4>2, <4>3
    <3> QED
      BY <3>1, <3>2
  <2> QED
    BY <2>1, <2>2 DEF BlocksPlaced
<1>4. RegionsClaimed(n)
  BY <1>1 DEF OwnersAgree, RegionsClaimed
<1>5. ResultsProduced(n)
  <2>1. \A o \in DOMAIN m.op : \A v \in Results(m, o) : v \in DOMAIN m.value /\ m.value[v].producer = o
    BY DEF OwnersAgree, ResultsProduced
  <2>2. \A v \in DOMAIN m.value : HasProducer(m, v)
    BY DEF OwnersAgree, ResultsProduced
  <2>3. \A v \in DOMAIN n.value : HasProducer(n, v)
    BY <1>1, <1>2, <2>2 DEF HasProducer, Results
  <2> QED
    BY <1>1, <2>1, <2>3 DEF ResultsProduced, Results
<1>6. BodyIsFree(n)
  BY <1>1, <1>2 DEF OwnersAgree, BodyIsFree, BlocksPlaced
<1> QED
  BY <1>3, <1>4, <1>5, <1>6 DEF OwnersAgree, n

-----------------------------------------------------------------------------
(* The edits of parallelization.                                           *)

\* An operation with a block of its own.
IsWrapper(m, o) ==
  /\ o \in DOMAIN m.op
  /\ InnerBlock(m, o) \in DOMAIN m.block
  /\ m.region[m.block[InnerBlock(m, o)].region].owner = o

\* n has all that m has, where it was.
Grows(m, n) ==
  /\ DOMAIN m.op \subseteq DOMAIN n.op
  /\ DOMAIN m.block \subseteq DOMAIN n.block
  /\ DOMAIN m.region \subseteq DOMAIN n.region
  /\ \A x \in DOMAIN m.op : /\ SameHead(m.op[x], n.op[x])
                            /\ n.op[x].erased = m.op[x].erased
                            /\ n.op[x].parent = m.op[x].parent
                            /\ n.op[x].regions = m.op[x].regions
  /\ \A x \in DOMAIN m.block : n.block[x].region = m.block[x].region
  /\ \A x \in DOMAIN m.region : /\ n.region[x].owner = m.region[x].owner
                                /\ n.region[x].blocks = m.region[x].blocks
  /\ DOMAIN m.value \subseteq DOMAIN n.value
  /\ \A v \in DOMAIN m.value : /\ n.value[v].producer = m.value[v].producer
                               /\ n.value[v].home = m.value[v].home

\* What escapes are the results of the group's members that are read outside it.
LEMMA EscapingValues ==
  ASSUME NEW m, Arena(m), OwnersAgree(m), NEW ops \in Seq(DOMAIN m.op)
  PROVE  /\ Escaping(m, ops) \in Seq(DOMAIN m.value)
         /\ \A v : v \in ToSet(Escaping(m, ops)) <=>
                    (\E i \in DOMAIN ops : v \in Results(m, ops[i])) /\ Escapes(m, ops, v)
<1> DEFINE V == DOMAIN m.value
           parts == [i \in DOMAIN ops |-> m.op[ops[i]].results]
           results == FlattenSeq(parts)
           single(i) == IF Escapes(m, ops, results[i]) THEN <<results[i]>> ELSE <<>>
           chosen == [i \in DOMAIN results |-> single(i)]
<1>1. ASSUME NEW o \in DOMAIN m.op PROVE m.op[o].results \in Seq(V)
  <2>1. m.op[o].results \in Seq(Nat)
    BY DEF Arena, IsModule, IsOp
  <2>2. \A i \in DOMAIN m.op[o].results : m.op[o].results[i] \in V
    BY DEF OwnersAgree, ResultsProduced, Results, ToSet
  <2> HIDE DEF V
  <2> QED
    BY <2>1, <2>2
<1> HIDE DEF V
<1>2. parts \in Seq(Seq(V))
  <2>1. \A i \in DOMAIN ops : ops[i] \in DOMAIN m.op
    OBVIOUS
  <2>2. parts \in [1..Len(ops) -> Seq(V)] /\ Len(ops) \in Nat
    BY <1>1, <2>1
  <2> HIDE DEF parts
  <2> QED
    BY <2>2, ListedFunction
<1>6. DOMAIN parts = DOMAIN ops /\ \A i \in DOMAIN ops : ToSet(parts[i]) = Results(m, ops[i])
  BY DEF Results
<1> HIDE DEF parts
<1>3. /\ results \in Seq(V)
      /\ \A v : v \in ToSet(results) <=> \E i \in DOMAIN parts : v \in ToSet(parts[i])
  BY <1>2, Flattening
<1>7. \A v : v \in ToSet(results) <=> \E i \in DOMAIN ops : v \in Results(m, ops[i])
  BY <1>3, <1>6
<1> HIDE DEF results
<1>4. chosen \in Seq(Seq(V))
  <2>1. ASSUME NEW i \in DOMAIN results PROVE single(i) \in Seq(V)
    <3>1. results[i] \in V
      BY <1>3
    <3> QED
      BY <3>1
  <2>2. chosen \in [1..Len(results) -> Seq(V)] /\ Len(results) \in Nat
    <3> HIDE DEF single
    <3> QED
      BY <1>3, <2>1
  <2> HIDE DEF chosen
  <2> QED
    BY <2>2, ListedFunction
<1>5. Escaping(m, ops) = FlattenSeq(chosen)
  BY DEF Escaping, results, parts
<1>8. ASSUME NEW v
      PROVE  (\E i \in DOMAIN chosen : v \in ToSet(chosen[i])) <=> v \in ToSet(results) /\ Escapes(m, ops, v)
  <2>1. ASSUME NEW i \in DOMAIN results
        PROVE  v \in ToSet(single(i)) <=> v = results[i] /\ Escapes(m, ops, results[i])
    BY DEF ToSet
  <2>2. DOMAIN chosen = DOMAIN results /\ \A i \in DOMAIN results : chosen[i] = single(i)
    OBVIOUS
  <2>3. v \in ToSet(results) <=> \E i \in DOMAIN results : v = results[i]
    BY DEF ToSet
  <2> HIDE DEF chosen, single
  <2> QED
    BY <2>1, <2>2, <2>3
<1> HIDE DEF chosen
<1>9. /\ FlattenSeq(chosen) \in Seq(V)
      /\ \A v : v \in ToSet(FlattenSeq(chosen)) <=> \E i \in DOMAIN chosen : v \in ToSet(chosen[i])
  BY <1>4, Flattening
<1> QED
  BY <1>5, <1>7, <1>8, <1>9 DEF V

\* The head of an operation that a pass makes has no attributes.
LEMMA PlainHead ==
  ASSUME NEW name, IsName(name), NEW operands, IsFunction(operands)
  PROVE  IsHead(Head0(name, operands)) /\ Head0(name, operands).name = name
  BY DEF Head0, IsHead, IntsAreInts

LEMMA NamesOfPasses == IsName(Parallel) /\ IsName(Yield)
  BY DEF IsName, Parallel, Yield

LEMMA OnlyEntry == \A x : Append(<<>>, x) = <<x>>
  OBVIOUS

\* The wrapper takes the place of an operation of the block.
LEMMA WrappingKeepsArena ==
  ASSUME NEW m, Arena(m), OwnersAgree(m), RegionsFilled(m),
         NEW b \in DOMAIN m.block, NEW ops \in Seq(DOMAIN m.op),
         ops[1] \in ToSet(m.block[b].ops)
  PROVE  LET n == WithParallel(m, b, ops) IN
         /\ Arena(n) /\ OwnersAgree(n) /\ RegionsFilled(n)
         /\ Grows(m, n)
         /\ NewOp(m) # 0 /\ NewOp(m) \notin DOMAIN m.op /\ IsWrapper(n, NewOp(m))
         /\ \A x \in DOMAIN n.op : x \in DOMAIN m.op \/ x = NewOp(m)
         /\ n.op[NewOp(m)].parent = b /\ n.op[NewOp(m)].name = Parallel
         /\ InnerBlock(n, NewOp(m)) \notin DOMAIN m.block
         /\ \A x \in DOMAIN m.op : n.op[x].operands = m.op[x].operands
         /\ SameOrderBut(NewOp(m), m, n) /\ TakesPlace(m, n, NewOp(m), ops[1])
         /\ DOMAIN n.op[NewOp(m)].results = DOMAIN Escaping(m, ops)
<1> DEFINE outs == [i \in DOMAIN Escaping(m, ops) |-> m.value[Escaping(m, ops)[i]]]
           head == Head0(Parallel, <<>>)
           new == NewOp(m)
           at == Position(m, ops[1])
           made == WithOp(m, head, outs)
           placed == Inserted(made, b, at, new)
           owning == WithRegion(placed, new)
           region == Len(owning.region)
           block == NewBlock(owning)
           n == WithBlock(owning, region)
<1>1. WithParallel(m, b, ops) = n
  BY DEF WithParallel
<1>a. Len(outs) \in Nat /\ DOMAIN outs = DOMAIN Escaping(m, ops) /\ DOMAIN outs = 1..Len(outs)
  <2> DEFINE k == Len(Escaping(m, ops))
  <2>1. DOMAIN Escaping(m, ops) = 1..k /\ k \in Nat
    BY EscapingValues
  <2>2. outs \in [1..k -> ToSet(outs)] /\ DOMAIN outs = DOMAIN Escaping(m, ops)
    BY <2>1 DEF ToSet
  <2> HIDE DEF outs, k
  <2>3. outs \in Seq(ToSet(outs))
    BY <2>1, <2>2, ListedFunction
  <2> QED
    BY <2>2, <2>3
<1>b. IsHead(head) /\ head.name = Parallel
  BY PlainHead, NamesOfPasses, SequencesAreLists
<1> HIDE DEF outs, head
<1>2. /\ Arena(made)
      /\ new \in DOMAIN made.op /\ new \notin DOMAIN m.op
      /\ \A x \in DOMAIN m.op : x \in DOMAIN made.op /\ made.op[x] = m.op[x]
      /\ \A x \in DOMAIN made.op : x \in DOMAIN m.op \/ x = new
      /\ made.op[new].parent = 0 /\ ~made.op[new].erased
      /\ made.op[new].name = Parallel /\ made.op[new].regions = <<>>
      /\ made.block = m.block /\ made.region = m.region
      /\ \A v \in DOMAIN m.value : v \in DOMAIN made.value /\ made.value[v] = m.value[v]
      /\ DOMAIN made.op[new].results = DOMAIN Escaping(m, ops)
  BY <1>a, <1>b, CreatingKeepsArena
<1>c. OwnersAgree(made)
  BY <1>a, <1>b, CreatingKeepsOwners
<1>3. at \in 1..Len(m.block[b].ops) + 1
  <2>1. m.op[ops[1]].parent = b /\ m.block[b].ops \in Seq(Nat)
    BY ListedOperations
  <2>2. at \in DOMAIN m.block[b].ops
    BY <2>1 DEF Position, ToSet
  <2> QED
    BY <2>1, <2>2
<1>g. at \in DOMAIN m.block[b].ops /\ m.block[b].ops[at] = ops[1]
  <2>1. m.op[ops[1]].parent = b
    BY ListedOperations
  <2> QED
    BY <2>1 DEF Position, ToSet
<1>4. new # 0
  BY ArenaShape DEF NewOp, Arena
<1> HIDE DEF made, at, new
<1>5. /\ Arena(placed) /\ SameNesting(made, placed)
      /\ placed.op[new].parent = b /\ SamePlacesBut(new, made, placed)
      /\ SameOrderBut(new, made, placed)
  BY <1>2, <1>3, InsertingKeepsArena
<1>h. TakesPlace(made, placed, new, ops[1])
  BY <1>2, <1>g, InsertingTakesPlace
<1> HIDE DEF placed
<1>d. OwnersAgree(placed)
  <2>1. SameOwners(made, placed)
    BY <1>5 DEF SameNesting, SameOwners, SameHead
  <2> QED
    BY <1>c, <2>1, KeepingOwners
<1>6. new \in DOMAIN placed.op /\ placed.op[new].regions = <<>> /\ placed.op[new].name = Parallel
  BY <1>2, <1>5 DEF SameNesting, SameHead
<1>7. /\ Arena(owning)
      /\ DOMAIN owning.op = DOMAIN placed.op
      /\ \A x \in DOMAIN placed.op : /\ owning.op[x].erased = placed.op[x].erased
                                     /\ owning.op[x].parent = placed.op[x].parent
                                     /\ SameHead(placed.op[x], owning.op[x])
                                     /\ owning.op[x].operands = placed.op[x].operands
                                     /\ x # new => owning.op[x].regions = placed.op[x].regions
      /\ owning.op[new].regions = <<region>>
      /\ region \in DOMAIN owning.region /\ region \notin DOMAIN placed.region
      /\ \A r \in DOMAIN owning.region : r \in DOMAIN placed.region \/ r = region
      /\ \A r \in DOMAIN placed.region : r \in DOMAIN owning.region /\ owning.region[r] = placed.region[r]
      /\ owning.region[region].blocks = <<>> /\ owning.region[region].owner = new
      /\ owning.block = placed.block /\ owning.value = placed.value
  <2>1. owning.op[new].regions = Append(placed.op[new].regions, region)
    BY <1>5, <1>6, AddingRegionKeepsArena
  <2>2. owning.op[new].regions = <<region>>
    BY <1>6, <2>1, OnlyEntry
  <2> HIDE DEF region
  <2> QED
    BY <1>5, <1>6, <2>2, AddingRegionKeepsArena DEF region
<1>e. OwnersAgree(owning)
  BY <1>5, <1>6, <1>d, AddingRegionKeepsOwners
<1> HIDE DEF owning, region
<1>8. /\ Arena(n)
      /\ n.op = owning.op /\ n.value = owning.value
      /\ DOMAIN n.region = DOMAIN owning.region
      /\ \A x \in DOMAIN owning.region :
           /\ n.region[x].owner = owning.region[x].owner
           /\ x # region => n.region[x].blocks = owning.region[x].blocks
      /\ n.region[region].blocks = <<block>>
      /\ block \in DOMAIN n.block /\ block \notin DOMAIN owning.block
      /\ \A x \in DOMAIN owning.block : x \in DOMAIN n.block /\ n.block[x] = owning.block[x]
      /\ n.block[block].region = region /\ DOMAIN n.block[block].ops = {}
      /\ \A x \in DOMAIN n.block : x \in DOMAIN owning.block \/ x = block
  <2>1. n.region[region].blocks = Append(owning.region[region].blocks, block)
    BY <1>7, AddingBlockKeepsArena
  <2>2. n.region[region].blocks = <<block>>
    BY <1>7, <2>1, OnlyEntry
  <2> QED
    BY <1>7, <2>2, AddingBlockKeepsArena
<1>f. OwnersAgree(n)
  BY <1>7, <1>e, AddingBlockKeepsOwners
<1> HIDE DEF n, block
<1>9. InnerBlock(n, new) = block
  BY <1>7, <1>8 DEF InnerBlock
<1>10. DOMAIN n.op = DOMAIN made.op
  BY <1>5, <1>7, <1>8 DEF SameNesting
<1>11. ASSUME NEW x \in DOMAIN m.op
       PROVE  /\ n.op[x].erased = m.op[x].erased /\ n.op[x].parent = m.op[x].parent
              /\ SameHead(m.op[x], n.op[x]) /\ n.op[x].regions = m.op[x].regions
              /\ n.op[x].operands = m.op[x].operands
  <2>1. x \in DOMAIN made.op /\ made.op[x] = m.op[x] /\ x # new
    BY <1>2
  <2>2. /\ placed.op[x].erased = made.op[x].erased /\ x \in DOMAIN placed.op
        /\ placed.op[x].regions = made.op[x].regions
        /\ placed.op[x].operands = made.op[x].operands
        /\ SameHead(made.op[x], placed.op[x])
    BY <1>5, <2>1 DEF SameNesting
  <2>3. placed.op[x].parent = made.op[x].parent
    BY <1>5, <2>1 DEF SamePlacesBut
  <2> QED
    BY <1>7, <1>8, <2>1, <2>2, <2>3 DEF SameHead
<1>12. ASSUME NEW x \in DOMAIN m.block
       PROVE  x \in DOMAIN n.block /\ n.block[x].region = m.block[x].region /\ x # block
  <2>1. x \in DOMAIN placed.block /\ placed.block[x].region = m.block[x].region
    BY <1>2, <1>5 DEF SameNesting
  <2> QED
    BY <1>7, <1>8, <2>1
<1>13. placed.region = m.region
  BY <1>2, <1>5 DEF SameNesting
<1>14. ASSUME NEW x \in DOMAIN m.region
       PROVE  /\ x \in DOMAIN n.region
              /\ n.region[x].owner = m.region[x].owner /\ n.region[x].blocks = m.region[x].blocks
  BY <1>7, <1>8, <1>13
<1>i. n.value = made.value
  BY <1>5, <1>7, <1>8 DEF SameNesting
<1>15. Grows(m, n)
  <2>1. DOMAIN m.op \subseteq DOMAIN n.op
    BY <1>2, <1>10
  <2>2. \A v \in DOMAIN m.value : v \in DOMAIN n.value /\ n.value[v] = m.value[v]
    BY <1>2, <1>i
  <2> QED
    BY <1>11, <1>12, <1>14, <2>1, <2>2 DEF Grows
<1>j. ASSUME NEW x, NEW y
      PROVE  /\ Sooner(n, x, y) <=> Sooner(placed, x, y)
             /\ Sooner(made, x, y) <=> Sooner(m, x, y)
  <2>1. ~SoonerIn(n.block[block].ops, x, y)
    BY <1>8 DEF SoonerIn
  <2>2. Sooner(n, x, y) <=> Sooner(owning, x, y)
    BY <1>8, <2>1 DEF Sooner
  <2>3. Sooner(owning, x, y) <=> Sooner(placed, x, y)
    BY <1>7 DEF Sooner
  <2>4. Sooner(made, x, y) <=> Sooner(m, x, y)
    BY <1>2 DEF Sooner
  <2> QED
    BY <2>2, <2>3, <2>4
<1>k. SameOrderBut(new, m, n)
  BY <1>5, <1>j DEF SameOrderBut
<1>l. TakesPlace(m, n, new, ops[1])
  BY <1>h, <1>j DEF TakesPlace
<1>m. \A x \in DOMAIN m.op : n.op[x].operands = m.op[x].operands
  BY <1>11
<1>n. DOMAIN n.op[new].results = DOMAIN Escaping(m, ops)
  <2>1. placed.op[new].results = made.op[new].results
    BY <1>2, <1>5 DEF SameNesting, SameHead
  <2>2. n.op[new].results = placed.op[new].results
    BY <1>6, <1>7, <1>8 DEF SameHead
  <2> QED
    BY <1>2, <2>1, <2>2
<1>16. RegionsFilled(n)
  <2> SUFFICES ASSUME NEW r \in DOMAIN n.region PROVE n.region[r].blocks # <<>>
    BY DEF RegionsFilled
  <2>1. CASE r = region
    <3>1. <<block>> # <<>>
      OBVIOUS
    <3> QED
      BY <1>8, <2>1, <3>1
  <2>2. CASE r # region
    BY <1>7, <1>8, <1>13, <1>14, <2>2 DEF RegionsFilled
  <2> QED
    BY <2>1, <2>2
<1>17. IsWrapper(n, new)
  BY <1>2, <1>7, <1>8, <1>9, <1>10 DEF IsWrapper
<1>18. n.op[new].parent = b /\ n.op[new].name = Parallel
  BY <1>5, <1>6, <1>7, <1>8 DEF SameHead
<1>19. \A x \in DOMAIN n.op : x \in DOMAIN m.op \/ x = new
  BY <1>2, <1>10
<1>20. InnerBlock(n, new) \notin DOMAIN m.block
  BY <1>9, <1>12
<1> QED
  BY <1>1, <1>2, <1>4, <1>8, <1>15, <1>16, <1>17, <1>18, <1>19, <1>20,
     <1>f, <1>k, <1>l, <1>m, <1>n DEF new

\* The escaping results leave by a yield at the end of the wrapper's block.
LEMMA RoutingKeepsArena ==
  ASSUME NEW m, Arena(m), OwnersAgree(m), RegionsFilled(m), NEW o, IsWrapper(m, o),
         NEW values, IsFunction(values)
  PROVE  LET n == Routed(m, o, values) IN
         /\ Arena(n) /\ OwnersAgree(n) /\ RegionsFilled(n)
         /\ Grows(m, n)
         /\ \A x \in DOMAIN n.op : x \in DOMAIN m.op \/ n.op[x].parent = InnerBlock(m, o)
         /\ DOMAIN n.block = DOMAIN m.block /\ n.region = m.region
         /\ \A x, y : x \in DOMAIN m.op /\ y \in DOMAIN m.op => (Sooner(n, x, y) <=> Sooner(m, x, y))
         /\ values = <<>> => n = m
         /\ values # <<>> =>
              \A x \in DOMAIN m.op : ~m.op[x].erased =>
                n.op[x].operands = Redirected(m.op[x].operands, Outputs(m, o, values))
<1>1. CASE values = <<>>
  BY <1>1 DEF Routed, Grows, SameHead
<1>2. CASE values # <<>>
  <2> DEFINE renamed == Renamed(m, values)
             to == Outputs(m, o, values)
             redirected == UsesReplaced(renamed, to)
             head == Head0(Yield, values)
             made == WithOp(redirected, head, <<>>)
             b == InnerBlock(m, o)
             new == NewOp(m)
             n == Appended(made, b, new)
  <2>1. Routed(m, o, values) = n
    BY <1>2 DEF Routed
  <2>2. /\ DOMAIN renamed = DOMAIN m /\ renamed.op = m.op
        /\ renamed.block = m.block /\ renamed.region = m.region
        /\ renamed.value = [v \in DOMAIN m.value |->
             IF v \in ToSet(values) THEN [m.value[v] EXCEPT !.name = Append(@, "local")] ELSE m.value[v]]
    <3>1. renamed = [m EXCEPT !.value = [v \in DOMAIN m.value |->
                       IF v \in ToSet(values) THEN [m.value[v] EXCEPT !.name = Append(@, "local")]
                       ELSE m.value[v]]]
      BY DEF Renamed
    <3> HIDE DEF renamed
    <3> QED
      BY <3>1 DEF Arena, IsModule
  <2>g. IsFunction(renamed)
    BY DEF Renamed, IsFunction
  <2> HIDE DEF renamed, to
  <2>a. /\ DOMAIN renamed.value = DOMAIN m.value
        /\ \A v \in DOMAIN m.value : /\ IsValue(renamed.value[v])
                                     /\ renamed.value[v].producer = m.value[v].producer
                                     /\ renamed.value[v].home = m.value[v].home
    <3>1. \A v \in DOMAIN m.value : IsValue(m.value[v])
      BY DEF Arena, IsModule
    <3> QED
      BY <2>2, <3>1 DEF IsValue
  <2>b. renamed.value \in Seq(ToSet(renamed.value))
    <3>1. DOMAIN renamed.value = 1..Len(m.value) /\ Len(m.value) \in Nat
      BY <2>a, ArenaShape DEF Arena
    <3>2. renamed.value \in [1..Len(m.value) -> ToSet(renamed.value)]
      BY <2>2, <3>1 DEF ToSet
    <3> QED
      BY <3>1, <3>2, ListedFunction
  <2>3. Arena(renamed)
    <3>1. IsModule(renamed)
      BY <2>2, <2>a, <2>b, <2>g DEF Arena, IsModule
    <3>2. ArenaAgrees(renamed)
      BY <2>2, SamePlaces DEF Arena
    <3> QED
      BY <3>1, <3>2 DEF Arena
  <2>4. /\ Arena(redirected) /\ DOMAIN redirected.op = DOMAIN m.op
        /\ \A x \in DOMAIN m.op : /\ redirected.op[x].parent = m.op[x].parent
                                  /\ redirected.op[x].erased = m.op[x].erased
                                  /\ redirected.op[x].regions = m.op[x].regions
                                  /\ SameHead(m.op[x], redirected.op[x])
                                  /\ ~m.op[x].erased =>
                                       redirected.op[x].operands = Redirected(m.op[x].operands, to)
        /\ redirected.block = m.block /\ redirected.region = m.region
        /\ redirected.value = renamed.value
    BY <2>2, <2>3, RedirectingKeepsArena
  <2> HIDE DEF redirected
  <2>c. OwnersAgree(redirected)
    <3>1. SameOwners(m, redirected)
      BY <2>4, <2>a DEF SameOwners, SameHead
    <3> QED
      BY <3>1, KeepingOwners
  <2>5. NewOp(redirected) = new
    <3>1. /\ DOMAIN redirected.op = 1..Len(redirected.op) /\ Len(redirected.op) \in Nat
          /\ DOMAIN m.op = 1..Len(m.op) /\ Len(m.op) \in Nat
      BY <2>4, ArenaShape DEF Arena
    <3>2. \A k \in Nat : k \in 1..Len(m.op) <=> k \in 1..Len(redirected.op)
      BY <2>4, <3>1
    <3>3. Len(redirected.op) = Len(m.op)
      <4>1. Len(m.op) >= 1 => Len(m.op) =< Len(redirected.op)
        BY <3>1, <3>2
      <4>2. Len(redirected.op) >= 1 => Len(redirected.op) =< Len(m.op)
        BY <3>1, <3>2
      <4> QED
        BY <3>1, <4>1, <4>2
    <3> QED
      BY <3>3 DEF NewOp
  <2>d. IsHead(head) /\ Len(<<>>) \in Nat
    BY PlainHead, NamesOfPasses
  <2> HIDE DEF head
  <2>6. /\ Arena(made) /\ OwnersAgree(made)
        /\ new \in DOMAIN made.op
        /\ \A x \in DOMAIN redirected.op : x \in DOMAIN made.op /\ made.op[x] = redirected.op[x]
        /\ \A x \in DOMAIN made.op : x \in DOMAIN redirected.op \/ x = new
        /\ made.op[new].parent = 0 /\ ~made.op[new].erased
        /\ new \notin DOMAIN redirected.op
        /\ made.block = redirected.block /\ made.region = redirected.region
        /\ \A v \in DOMAIN redirected.value : v \in DOMAIN made.value /\ made.value[v] = redirected.value[v]
    BY <2>4, <2>5, <2>c, <2>d, CreatingKeepsArena, CreatingKeepsOwners
  <2> HIDE DEF made, new
  <2>7. b \in DOMAIN made.block
    BY <2>4, <2>6 DEF IsWrapper
  <2>8. /\ Arena(n) /\ SameNesting(made, n) /\ n.op[new].parent = b /\ SamePlacesBut(new, made, n)
        /\ SameOrderBut(new, made, n)
    BY <2>6, <2>7, AppendingKeepsArena
  <2> HIDE DEF n, b
  <2>9. OwnersAgree(n)
    <3>1. SameOwners(made, n)
      BY <2>8 DEF SameNesting, SameOwners, SameHead
    <3> QED
      BY <2>6, <3>1, KeepingOwners
  <2>10. DOMAIN n.block = DOMAIN m.block /\ n.region = m.region /\ DOMAIN n.op = DOMAIN made.op
    BY <2>4, <2>6, <2>8 DEF SameNesting
  <2>11. ASSUME NEW x \in DOMAIN m.op
         PROVE  /\ x \in DOMAIN n.op
                /\ SameHead(m.op[x], n.op[x]) /\ n.op[x].erased = m.op[x].erased
                /\ n.op[x].parent = m.op[x].parent /\ n.op[x].regions = m.op[x].regions
                /\ ~m.op[x].erased => n.op[x].operands = Redirected(m.op[x].operands, to)
    <3>1. x \in DOMAIN made.op /\ made.op[x] = redirected.op[x] /\ x # new
      BY <2>4, <2>6
    <3>2. /\ n.op[x].erased = made.op[x].erased /\ n.op[x].regions = made.op[x].regions
          /\ n.op[x].operands = made.op[x].operands
          /\ SameHead(made.op[x], n.op[x])
      BY <2>8, <3>1 DEF SameNesting
    <3>3. n.op[x].parent = made.op[x].parent
      BY <2>8, <3>1 DEF SamePlacesBut
    <3> QED
      BY <2>4, <2>10, <3>1, <3>2, <3>3 DEF SameHead
  <2>12. \A x \in DOMAIN m.block : n.block[x].region = m.block[x].region
    BY <2>4, <2>6, <2>8 DEF SameNesting
  <2>e. ASSUME NEW v \in DOMAIN m.value
        PROVE  /\ v \in DOMAIN n.value
               /\ n.value[v].producer = m.value[v].producer /\ n.value[v].home = m.value[v].home
    BY <2>4, <2>6, <2>8, <2>a DEF SameNesting
  <2>13. Grows(m, n)
    BY <2>10, <2>11, <2>12, <2>e DEF Grows
  <2>f. ASSUME NEW x \in DOMAIN m.op, NEW y \in DOMAIN m.op
        PROVE  Sooner(n, x, y) <=> Sooner(m, x, y)
    <3>1. x # new /\ y # new
      BY <2>4, <2>6
    <3>2. Sooner(n, x, y) <=> Sooner(made, x, y)
      BY <2>8, <3>1 DEF SameOrderBut
    <3> QED
      BY <2>4, <2>6, <3>2 DEF Sooner
  <2>14. RegionsFilled(n)
    BY <2>10 DEF RegionsFilled
  <2>15. \A x \in DOMAIN n.op : x \in DOMAIN m.op \/ n.op[x].parent = b
    BY <2>4, <2>6, <2>8, <2>10
  <2> QED
    BY <1>2, <2>1, <2>8, <2>9, <2>10, <2>11, <2>13, <2>14, <2>15, <2>f DEF b, to
<1> QED
  BY <1>1, <1>2

-----------------------------------------------------------------------------
(* The pipeline.                                                           *)

\* What an edit relies on that the step before it has left: dead operations
\* are in the arena, the group's members are not erased, and the wrapper has
\* a block to move them to.
ArenaInv ==
  /\ Arena(ir) /\ OwnersAgree(ir) /\ RegionsFilled(ir)
  /\ dead \subseteq DOMAIN ir.op
  /\ group \in Seq(Nat)
  /\ \A i \in DOMAIN group : group[i] \in DOMAIN ir.op /\ ~ir.op[group[i]].erased
  /\ wrapper # 0 => IsWrapper(ir, wrapper) /\ pass = "parallelization"
  /\ pass = "parallelization" => dead = {}
  /\ group # <<>> => wrapper # 0
  /\ IsFunction(escaping)

LEMMA ArenaInvInit == PassesInit => ArenaInv
<1> SUFFICES ASSUME NEW m \in Modules, Loaded(m) PROVE ArenaInv
  BY DEF PassesInit
<1>1. Arena(m) /\ OwnersAgree(m) /\ RegionsFilled(m)
  BY ModulesAssumption DEF Arena, Sound
<1> QED
  BY <1>1, SequencesAreLists DEF Loaded, ArenaInv

\* What the current block holds, when a step edits it.
LEMMA RunIsListed ==
  ASSUME NEW m, Arena(m), NEW b \in DOMAIN m.block, NEW r \in Runs(m, b)
  PROVE  /\ Group(m, b, r) \in Seq(Nat)
         /\ Group(m, b, r)[1] \in ToSet(m.block[b].ops)
         /\ \A i \in DOMAIN Group(m, b, r) : Group(m, b, r)[i] \in ToSet(m.block[b].ops)
<1> DEFINE s == m.block[b].ops
           ops == Group(m, b, r)
<1>1. s \in Seq(Nat)
  BY ListedOperations
<1>2. r[1] \in 1..Len(s) /\ r[2] \in 1..Len(s) /\ r[2] > r[1]
  BY DEF Runs, OpsIn
<1>3. ops = SubSeq(s, r[1], r[2])
  BY DEF Group, OpsIn
<1> DEFINE first == r[1]
           last == r[2]
<1>4. first \in 1..Len(s) /\ last \in 1..Len(s) /\ last > first /\ ops = SubSeq(s, first, last)
  BY <1>2, <1>3
<1> HIDE DEF s, ops, first, last
<1>5. /\ ops \in Seq(Nat) /\ Len(ops) = last - first + 1
      /\ \A i \in 1..last - first + 1 : ops[i] = s[first + i - 1]
  <2>1. first \in Int /\ last \in Int /\ first <= last
    BY <1>1, <1>4
  <2>2. \A i \in first..last : s[i] \in Nat
    BY <1>1, <1>4
  <2>3. /\ ops \in Seq(Nat) /\ Len(ops) = IF first <= last THEN last - first + 1 ELSE 0
        /\ \A i \in 1..last - first + 1 : ops[i] = s[first + i - 1]
    <3>1. /\ SubSeq(s, first, last) \in Seq(Nat)
          /\ Len(SubSeq(s, first, last)) = IF first <= last THEN last - first + 1 ELSE 0
          /\ \A i \in 1..last - first + 1 : SubSeq(s, first, last)[i] = s[first + i - 1]
      BY <2>1, <2>2, SubSeqProperties
    <3> QED
      BY <1>4, <3>1
  <2> QED
    BY <2>1, <2>3
<1>6. ASSUME NEW i \in 1..last - first + 1 PROVE ops[i] \in ToSet(s)
  <2>1. first + i - 1 \in DOMAIN s
    BY <1>1, <1>4
  <2> QED
    BY <1>5, <2>1 DEF ToSet
<1>7. 1 \in 1..last - first + 1 /\ DOMAIN ops = 1..last - first + 1
  BY <1>1, <1>4, <1>5
<1>8. /\ ops \in Seq(Nat) /\ ops[1] \in ToSet(s)
      /\ \A i \in DOMAIN ops : ops[i] \in ToSet(s)
  BY <1>5, <1>6, <1>7
<1> QED
  BY <1>8 DEF ops, s

LEMMA ArenaInvStep == ArenaInv /\ [PassesNext]_passesVars => ArenaInv'
<1> SUFFICES ASSUME ArenaInv, [PassesNext]_passesVars PROVE ArenaInv'
  OBVIOUS
<1> USE DEF ArenaInv
<1>1. CASE UNCHANGED passesVars
  BY <1>1 DEF passesVars, local
<1>2. CASE LeaveBlock
  BY <1>2, SequencesAreLists DEF LeaveBlock, Start
<1>3. CASE Skip
  BY <1>3 DEF Skip, passVars
<1>4. CASE Remember
  BY <1>4 DEF Remember, passVars
<1>5. CASE ReuseEarlier
  <2>1. PICK to : ir' = UsesReplaced(ir, to)
    BY <1>5 DEF ReuseEarlier
  <2>2. /\ Arena(ir') /\ DOMAIN ir'.op = DOMAIN ir.op
        /\ \A o \in DOMAIN ir.op : /\ ir'.op[o].erased = ir.op[o].erased
                                   /\ ir'.op[o].regions = ir.op[o].regions
        /\ ir'.block = ir.block /\ ir'.region = ir.region
        /\ SameOwners(ir, ir')
    BY <2>1, RedirectingKeepsArena DEF SameOwners, SameHead
  <2>5. OwnersAgree(ir') /\ RegionsFilled(ir')
    BY <2>2, KeepingOwners DEF SameOwners, RegionsFilled
  <2>3. UNCHANGED <<dead, group, wrapper, escaping, pass>>
    BY <1>5 DEF ReuseEarlier
  <2>4. wrapper # 0 => IsWrapper(ir', wrapper)
    BY <2>2 DEF IsWrapper, InnerBlock
  <2> QED
    BY <2>2, <2>3, <2>4, <2>5
<1>6. CASE EndDeduplication
  BY <1>6, SequencesAreLists DEF EndDeduplication, Start
<1>7. CASE Scan
  <2>1. dead' \subseteq DOMAIN ir.op
    BY <1>7 DEF Scan, Dead, Live
  <2> QED
    BY <1>7, <2>1 DEF Scan, passVars
<1>8. CASE EraseOne
  <2>1. PICK o \in dead : ir' = Erased(ir, o) /\ dead' = dead \ {o}
    BY <1>8 DEF EraseOne
  <2>2. Arena(ir') /\ DOMAIN ir'.op = DOMAIN ir.op /\ SameOwners(ir, ir')
    BY <2>1, ErasingKeepsArena DEF SameOwners, SameHead
  <2>4. OwnersAgree(ir') /\ RegionsFilled(ir')
    BY <2>2, KeepingOwners DEF SameOwners, RegionsFilled
  <2>3. UNCHANGED <<group, wrapper, escaping, pass>> /\ wrapper = 0 /\ group = <<>>
    BY <1>8 DEF EraseOne
  <2> QED
    BY <2>1, <2>2, <2>3, <2>4
<1>9. CASE EndElimination
  BY <1>9, SequencesAreLists DEF EndElimination, Start
<1>10. CASE Wrap
  <2>0. PICK b \in DOMAIN ir.block : \E r \in Runs(ir, b) :
          /\ ir' = WithParallel(ir, b, Group(ir, b, r)) /\ group' = Group(ir, b, r)
          /\ escaping' = Escaping(ir, Group(ir, b, r))
    BY <1>10 DEF Wrap
  <2>1. PICK r \in Runs(ir, b) :
          /\ ir' = WithParallel(ir, b, Group(ir, b, r)) /\ group' = Group(ir, b, r)
          /\ escaping' = Escaping(ir, Group(ir, b, r))
    BY <2>0
  <2>2. UNCHANGED <<dead, pass>> /\ pass = "parallelization" /\ wrapper' = NewOp(ir)
    BY <1>10 DEF Wrap
  <2>3. /\ group' \in Seq(Nat)
        /\ group'[1] \in ToSet(ir.block[b].ops)
        /\ \A i \in DOMAIN group' : group'[i] \in ToSet(ir.block[b].ops)
    BY <2>1, RunIsListed
  <2>a. group' \in Seq(DOMAIN ir.op)
    BY <2>3, ListedOperations
  <2>4. /\ Arena(ir') /\ OwnersAgree(ir') /\ RegionsFilled(ir')
        /\ Grows(ir, ir')
        /\ wrapper' # 0 /\ IsWrapper(ir', wrapper')
    BY <2>1, <2>2, <2>3, <2>a, WrappingKeepsArena
  <2>5. \A i \in DOMAIN group' : group'[i] \in DOMAIN ir'.op /\ ~ir'.op[group'[i]].erased
    BY <2>3, <2>4, ListedOperations DEF Grows
  <2>6. IsFunction(escaping')
    BY <2>1, <2>a, EscapingValues, SequencesAreLists
  <2> QED
    BY <2>2, <2>3, <2>4, <2>5, <2>6
<1>11. CASE Move
  <2> DEFINE o == Head(group)
             b == InnerBlock(ir, wrapper)
  <2>1. /\ group # <<>> /\ ir' = MovedToEnd(ir, o, b) /\ group' = Tail(group)
        /\ UNCHANGED <<dead, wrapper, escaping, pass>>
    BY <1>11 DEF Move, passVars
  <2>2. o \in DOMAIN ir.op /\ ~ir.op[o].erased /\ b \in DOMAIN ir.block
    <3>1. 1 \in DOMAIN group /\ o = group[1]
      BY <2>1
    <3> QED
      BY <2>1, <3>1 DEF IsWrapper
  <2>3. Arena(ir') /\ SameNesting(ir, ir')
    BY <2>1, <2>2, MovingKeepsArena
  <2>4. /\ group' \in Seq(Nat)
        /\ \A i \in DOMAIN group' : i + 1 \in DOMAIN group /\ group'[i] = group[i + 1]
    <3>1. group \in Seq(Nat) /\ group # <<>> /\ group' = Tail(group)
      BY <2>1
    <3>2. /\ group' \in Seq(Nat) /\ DOMAIN group = 1..Len(group) /\ Len(group) \in Nat
          /\ DOMAIN group' = 1..Len(group) - 1
          /\ \A i \in 1..Len(group) - 1 : group'[i] = group[i + 1]
      BY <3>1
    <3> QED
      BY <3>1, <3>2
  <2>5. \A i \in DOMAIN group' : group'[i] \in DOMAIN ir'.op /\ ~ir'.op[group'[i]].erased
    <3> SUFFICES ASSUME NEW i \in DOMAIN group'
                 PROVE  group'[i] \in DOMAIN ir'.op /\ ~ir'.op[group'[i]].erased
      OBVIOUS
    <3>1. group'[i] \in DOMAIN ir.op /\ ~ir.op[group'[i]].erased
      BY <2>4
    <3> QED
      BY <2>3, <3>1 DEF SameNesting
  <2>6. wrapper # 0 /\ IsWrapper(ir', wrapper)
    BY <2>1, <2>3 DEF IsWrapper, InnerBlock, SameNesting
  <2>7. dead' \subseteq DOMAIN ir'.op
    BY <2>1, <2>3 DEF SameNesting
  <2>8. OwnersAgree(ir') /\ RegionsFilled(ir')
    <3>1. SameOwners(ir, ir')
      BY <2>3 DEF SameNesting, SameOwners, SameHead
    <3> QED
      BY <3>1, KeepingOwners DEF SameOwners, RegionsFilled
  <2> QED
    BY <2>1, <2>3, <2>4, <2>5, <2>6, <2>7, <2>8
<1>12. CASE Route
  <2>1. /\ ir' = Routed(ir, wrapper, escaping) /\ group = <<>> /\ wrapper # 0
        /\ wrapper' = 0 /\ escaping' = <<>> /\ UNCHANGED <<dead, group, pass>>
    BY <1>12 DEF Route, passVars
  <2>2. Arena(ir') /\ OwnersAgree(ir') /\ RegionsFilled(ir')
    BY <2>1, RoutingKeepsArena
  <2>3. dead' = {}
    BY <2>1
  <2> QED
    BY <2>1, <2>2, <2>3, SequencesAreLists
<1>13. CASE Converge
  BY <1>13, SequencesAreLists DEF Converge, Start
<1>14. CASE HitCap
  BY <1>14, SequencesAreLists DEF HitCap, Start
<1>15. CASE AnotherRound
  BY <1>15, SequencesAreLists DEF AnotherRound, Start
<1> QED
  BY <1>1, <1>2, <1>3, <1>4, <1>5, <1>6, <1>7, <1>8, <1>9, <1>10, <1>11, <1>12, <1>13,
     <1>14, <1>15 DEF PassesNext, Deduplicate, Eliminate, Parallelize

\* The arenas agree in every state of a pipeline over modules of which the
\* arenas agree, however many operations, blocks and regions they have.
THEOREM PassesKeepArenas == PassesSpec => []ArenaHolds
<1>1. ArenaInv => ArenaHolds
  BY DEF ArenaInv, Arena, ArenaHolds
<1> QED
  BY <1>1, ArenaInvInit, ArenaInvStep, PTL DEF PassesSpec
=============================================================================
