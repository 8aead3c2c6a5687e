-------------------------- MODULE ContainersProofs --------------------------
(***************************************************************************)
(* The safety of components one thread uses, for every value of their      *)
(* constants: MemoryPool, for any sizes of blocks, headers and requests;   *)
(* the rate limiters, the vectors on disk, Queue and DummyQueue and the    *)
(* Vector over a memory pool; then that LFUCache is a cache by LFUPolicy.  *)
(* Each is alone in having its variables, so that every other component's  *)
(* steps stutter for it.                                                   *)
(***************************************************************************)
EXTENDS MCContainers, Integers, FiniteSetTheorems, SequenceTheorems,
        NaturalsInduction, TLAPS

-----------------------------------------------------------------------------
(* MemoryPool                                                               *)

(* What a pool consists of.                                                 *)
PoolShape(p) ==
  /\ p = [firstBlock |-> p.firstBlock, currentBlock |-> p.currentBlock,
          block |-> p.block]
  /\ p.firstBlock \in Address
  /\ p.currentBlock \in Address
  /\ DOMAIN p.block \subseteq Blocks
  /\ p.block \in [DOMAIN p.block -> Header]
  /\ \A b \in DOMAIN p.block : p.block[b].offset <= p.block[b].blockSize

(* The links of the chain, each undone by the one in the other direction;   *)
(* only the current block has no next, only the first no previous one.      *)
LinksOK(p) ==
  p.firstBlock # Null =>
    /\ p.firstBlock \in DOMAIN p.block
    /\ p.currentBlock \in DOMAIN p.block
    /\ \A b \in DOMAIN p.block :
         /\ p.block[b].next = Null <=> b = p.currentBlock
         /\ p.block[b].prev = Null <=> b = p.firstBlock
         /\ p.block[b].next # Null =>
              /\ p.block[b].next \in DOMAIN p.block
              /\ p.block[p.block[b].next].prev = b
         /\ p.block[b].prev # Null =>
              /\ p.block[b].prev \in DOMAIN p.block
              /\ p.block[p.block[b].prev].next = b

UnitsIn(L, b) == {u \in L : u.container = b}

Apart(p, L) ==
  \A u \in L :
    /\ u.container \in DOMAIN p.block
    /\ End(u) <= p.block[u.container].offset
    /\ \A w \in L \ {u} :
         u.container = w.container => End(u) <= w.at \/ End(w) <= u.at

(* The two counters of a block know how many units in it are in use.        *)
Accounts(p, L) ==
  \A b \in DOMAIN p.block :
    /\ IsFiniteSet(UnitsIn(L, b))
    /\ p.block[b].numberOfAllocated
         = p.block[b].numberOfDeleted + Cardinality(UnitsIn(L, b))

UnitsOK(p, L) ==
  /\ L \subseteq UnitRecord
  /\ p.firstBlock = Null => L = {}
  /\ Apart(p, L)
  /\ Accounts(p, L)

Inv ==
  /\ PoolShape(pool)
  /\ LinksOK(pool)
  /\ pool.firstBlock # Null => UnitsOK(pool, live)
  /\ pool.firstBlock = Null => live = {}

-----------------------------------------------------------------------------
(* A new block: the chain grows by it, no unit is in it.                    *)

LEMMA ConstructedOK ==
  ASSUME NEW b \in Blocks
  PROVE  /\ PoolShape(Constructed(b))
         /\ LinksOK(Constructed(b))
         /\ Constructed(b).firstBlock # Null
         /\ UnitsOK(Constructed(b), {})
<1> DEFINE p == Constructed(b)
           h == [blockSize |-> DefaultBlockSize, offset |-> 0, next |-> Null,
                 prev |-> Null, numberOfAllocated |-> 0, numberOfDeleted |-> 0]
<1>1. p = [firstBlock |-> b, currentBlock |-> b, block |-> [x \in {b} |-> h]]
  BY PoolAssumption DEF Constructed, Created, NoPool, Linked
<1>2. h \in Header /\ b # Null
  BY PoolAssumption DEF Header, Address
<1> HIDE DEF p
<1>3. PoolShape(p)
  BY <1>1, <1>2, PoolAssumption DEF PoolShape, Address
<1>4. LinksOK(p)
  BY <1>1, <1>2 DEF LinksOK
<1>5. UnitsIn({}, b) = {}
  BY DEF UnitsIn
<1>6. UnitsOK(p, {})
  BY <1>1, <1>2, <1>5, FS_EmptySet DEF UnitsOK, Apart, Accounts
<1> QED
  BY <1>1, <1>2, <1>3, <1>4, <1>6 DEF p

LEMMA CreatedOK ==
  ASSUME NEW p, NEW L, NEW b, NEW size \in Nat,
         PoolShape(p), LinksOK(p), UnitsOK(p, L), p.firstBlock # Null,
         b \in Fresh(p)
  PROVE  /\ PoolShape(Created(p, b, size))
         /\ LinksOK(Created(p, b, size))
         /\ Created(p, b, size).firstBlock # Null
         /\ UnitsOK(Created(p, b, size), L)
         /\ Created(p, b, size).currentBlock = b
         /\ Created(p, b, size).block[b].offset = 0
         /\ Created(p, b, size).block[b].blockSize = size
<1> DEFINE q == Created(p, b, size)
           h == [blockSize |-> size, offset |-> 0, next |-> Null,
                 prev |-> p.currentBlock,
                 numberOfAllocated |-> 0, numberOfDeleted |-> 0]
           D == DOMAIN p.block
           c == p.currentBlock
<1>1. b \in Blocks /\ b \notin D /\ b # Null /\ c \in D /\ c # b
  BY PoolAssumption DEF Fresh, PoolShape, LinksOK
<1>2. q = [firstBlock |-> p.firstBlock, currentBlock |-> b,
           block |-> [x \in D \cup {b} |->
                        IF x = b THEN h
                        ELSE IF x = c THEN [p.block[x] EXCEPT !.next = b]
                        ELSE p.block[x]]]
  BY DEF Created, Linked
<1>3. h \in Header
  BY <1>1 DEF Header, Address, PoolShape
<1>4. [p.block[c] EXCEPT !.next = b] \in Header
  BY <1>1 DEF PoolShape, Header, Address
<1> HIDE DEF q
<1>5. /\ q.block[b] = h
      /\ q.block[c] = [p.block[c] EXCEPT !.next = b]
      /\ \A x \in D \ {c} : q.block[x] = p.block[x]
      /\ DOMAIN q.block = D \cup {b}
      /\ q.firstBlock = p.firstBlock
      /\ q.currentBlock = b
  BY <1>1, <1>2
<1>6. \A x \in D : /\ p.block[x] \in Header
                   /\ q.block[x].offset = p.block[x].offset
                   /\ q.block[x].blockSize = p.block[x].blockSize
                   /\ q.block[x].prev = p.block[x].prev
                   /\ q.block[x].numberOfAllocated = p.block[x].numberOfAllocated
                   /\ q.block[x].numberOfDeleted = p.block[x].numberOfDeleted
  BY <1>5 DEF PoolShape, Header
<1>7. PoolShape(q)
  <2>1. \A x \in D \cup {b} : q.block[x] \in Header
    BY <1>3, <1>4, <1>5, <1>6
  <2>2. \A x \in D \cup {b} : q.block[x].offset <= q.block[x].blockSize
    BY <1>5, <1>6 DEF PoolShape, Header
  <2>3. q.block = [x \in D \cup {b} |-> q.block[x]]
    BY <1>2, <1>5
  <2> QED
    BY <1>1, <1>2, <1>5, <2>1, <2>2, <2>3 DEF PoolShape, Address
<1>8. LinksOK(q)
  <2>1. q.block[c].next = b /\ q.block[b].prev = c /\ q.block[b].next = Null
    BY <1>1, <1>5, <1>6 DEF Header, PoolShape
  <2>2. \A x \in D \ {c} : q.block[x].next = p.block[x].next
    BY <1>5
  <2> DEFINE f == p.block
             g == q.block
  <2>3. /\ \A x \in D : f[x].next = Null <=> x = c
        /\ \A x \in D : f[x].prev = Null <=> x = p.firstBlock
        /\ \A x \in D : f[x].next # Null => f[x].next \in D /\ f[f[x].next].prev = x
        /\ \A x \in D : f[x].prev # Null => f[x].prev \in D /\ f[f[x].prev].next = x
        /\ p.firstBlock \in D
        /\ \A x \in D : x # Null
    BY PoolAssumption DEF LinksOK, PoolShape
  <2>4. \A x \in D : g[x].prev = f[x].prev
    BY <1>6
  <2> HIDE DEF f, g, D, c, h
  <2>5. \A x \in D \cup {b} : g[x].next = Null <=> x = b
    BY <1>1, <2>1, <2>2, <2>3 DEF f, g
  <2>6. \A x \in D \cup {b} : g[x].prev = Null <=> x = p.firstBlock
    BY <1>1, <2>1, <2>3, <2>4 DEF f, g
  <2>7. \A x \in D \cup {b} : g[x].next # Null =>
          g[x].next \in D \cup {b} /\ g[g[x].next].prev = x
    BY <1>1, <2>1, <2>2, <2>3, <2>4, <2>5 DEF f, g
  <2>8. \A x \in D \cup {b} : g[x].prev # Null =>
          g[x].prev \in D \cup {b} /\ g[g[x].prev].next = x
    BY <1>1, <2>1, <2>2, <2>3, <2>4 DEF f, g
  <2> QED
    BY <1>5, <2>3, <2>5, <2>6, <2>7, <2>8 DEF LinksOK, D, g
<1>9. UnitsOK(q, L)
  <2>1. \A u \in L : u.container \in D
    BY DEF UnitsOK, Apart
  <2>2. UnitsIn(L, b) = {}
    BY <1>1, <2>1 DEF UnitsIn
  <2>3. Accounts(q, L)
    BY <1>5, <1>6, <2>2, FS_EmptySet DEF Accounts, UnitsOK
  <2>4. Apart(q, L)
    BY <1>5, <1>6, <2>1 DEF Apart, UnitsOK
  <2> QED
    BY <1>5, <2>3, <2>4 DEF UnitsOK
<1> QED
  BY <1>5, <1>7, <1>8, <1>9 DEF q

-----------------------------------------------------------------------------
(* allocatesize                                                             *)

LEMMA HeaderOneMore ==
  ASSUME NEW h \in Header, NEW size \in Nat
  PROVE  LET k == OneMore(h, size)
         IN  /\ k \in Header
             /\ k.offset = h.offset + UnitHeader + size
             /\ k.numberOfAllocated = h.numberOfAllocated + 1
             /\ k.numberOfDeleted = h.numberOfDeleted
             /\ k.blockSize = h.blockSize
             /\ k.next = h.next /\ k.prev = h.prev
<1>1. /\ h.blockSize \in Nat /\ h.offset \in Nat
      /\ h.numberOfAllocated \in Nat /\ h.numberOfDeleted \in Nat
      /\ h.next \in Address /\ h.prev \in Address
      /\ size \in Nat /\ UnitHeader \in Nat
  BY PoolAssumption DEF Header
<1> DEFINE m == h.offset + UnitHeader + size
           n == h.numberOfAllocated + 1
           g == [h EXCEPT !.offset = m]
           k == [g EXCEPT !.numberOfAllocated = n]
<1>2. m \in Nat /\ n \in Nat
  BY <1>1
<1>3. OneMore(h, size) = k
  BY DEF OneMore, Header
<1> HIDE DEF m, n
<1>4. /\ g \in Header /\ g.offset = m /\ g.next = h.next /\ g.prev = h.prev
      /\ g.numberOfAllocated = h.numberOfAllocated
      /\ g.numberOfDeleted = h.numberOfDeleted /\ g.blockSize = h.blockSize
  BY <1>2 DEF Header
<1> HIDE DEF g
<1>5. /\ k \in Header /\ k.offset = g.offset /\ k.next = g.next
      /\ k.prev = g.prev /\ k.numberOfAllocated = n
      /\ k.numberOfDeleted = g.numberOfDeleted /\ k.blockSize = g.blockSize
  BY <1>2, <1>4 DEF Header
<1> QED
  BY <1>3, <1>4, <1>5 DEF m, n

LEMMA AddUnit ==
  ASSUME NEW L, NEW u, NEW b, IsFiniteSet(UnitsIn(L, b)), u \notin L
  PROVE  /\ IsFiniteSet(UnitsIn(L \cup {u}, b))
         /\ Cardinality(UnitsIn(L \cup {u}, b))
              = IF u.container = b THEN Cardinality(UnitsIn(L, b)) + 1
                ELSE Cardinality(UnitsIn(L, b))
<1>1. CASE u.container = b
  <2>1. UnitsIn(L \cup {u}, b) = UnitsIn(L, b) \cup {u} /\ u \notin UnitsIn(L, b)
    BY <1>1 DEF UnitsIn
  <2>2. /\ IsFiniteSet(UnitsIn(L, b) \cup {u})
        /\ Cardinality(UnitsIn(L, b) \cup {u}) = Cardinality(UnitsIn(L, b)) + 1
    BY <2>1, FS_AddElement
  <2> QED
    BY <1>1, <2>1, <2>2
<1>2. CASE u.container # b
  <2>1. UnitsIn(L \cup {u}, b) = UnitsIn(L, b)
    BY <1>2 DEF UnitsIn
  <2> QED
    BY <1>2, <2>1
<1> QED
  BY <1>1, <1>2

LEMMA RoomyOK ==
  ASSUME NEW p, NEW L, NEW size \in Nat, NEW b,
         PoolShape(p), LinksOK(p), UnitsOK(p, L), p.firstBlock # Null,
         b \in Fresh(p)
  PROVE  LET q == Roomy(p, size, b)
             h == q.block[q.currentBlock]
         IN  /\ PoolShape(q)
             /\ LinksOK(q)
             /\ UnitsOK(q, L)
             /\ q.firstBlock # Null
             /\ h.offset + UnitHeader + size <= h.blockSize
<1> DEFINE n == Greater(size + UnitHeader, DefaultBlockSize)
<1>1. CASE Fits(p, size)
  <2>1. p.block[p.currentBlock] \in Header
    BY DEF PoolShape, LinksOK
  <2> QED
    BY <1>1, <2>1, PoolAssumption DEF Roomy, Fits, PoolShape, LinksOK, Header
<1>2. CASE ~Fits(p, size)
  <2>1. n \in Nat /\ UnitHeader + size <= n
    BY PoolAssumption DEF Greater
  <2>2. Roomy(p, size, b) = Created(p, b, n)
    BY <1>2 DEF Roomy
  <2> HIDE DEF n
  <2>3. PICK q : q = Created(p, b, n)
    OBVIOUS
  <2>4. /\ PoolShape(q) /\ LinksOK(q) /\ q.firstBlock # Null /\ UnitsOK(q, L)
        /\ q.currentBlock = b /\ q.block[b].offset = 0 /\ q.block[b].blockSize = n
    <3>1. n \in Nat
      BY <2>1
    <3>2. /\ PoolShape(Created(p, b, n)) /\ LinksOK(Created(p, b, n))
          /\ Created(p, b, n).firstBlock # Null /\ UnitsOK(Created(p, b, n), L)
          /\ Created(p, b, n).currentBlock = b
          /\ Created(p, b, n).block[b].offset = 0
          /\ Created(p, b, n).block[b].blockSize = n
      BY <3>1, CreatedOK
    <3> QED
      BY <2>3, <3>2
  <2>5. q.block[b].offset + UnitHeader + size <= q.block[b].blockSize
    <3>1. 0 + UnitHeader + size <= n
      BY <2>1, PoolAssumption
    <3> QED
      BY <2>4, <3>1, Zenon
  <2> QED
    BY <2>2, <2>3, <2>4, <2>5, Zenon
<1> QED
  BY <1>1, <1>2

LEMMA WithUnitOK ==
  ASSUME NEW p, NEW L, NEW size \in Nat,
         PoolShape(p), LinksOK(p), UnitsOK(p, L), p.firstBlock # Null,
         p.block[p.currentBlock].offset + UnitHeader + size
           <= p.block[p.currentBlock].blockSize
  PROVE  /\ PoolShape(WithUnit(p, size))
         /\ LinksOK(WithUnit(p, size))
         /\ WithUnit(p, size).firstBlock # Null
         /\ UnitsOK(WithUnit(p, size), L \cup {NextUnit(p, size)})
<1> DEFINE q == WithUnit(p, size)
           u == NextUnit(p, size)
           D == DOMAIN p.block
           c == p.currentBlock
           h == p.block[c]
           k == OneMore(h, size)
<1>1. c \in D /\ c \in Blocks /\ h \in Header
  BY DEF LinksOK, PoolShape
<1>2. /\ k \in Header
      /\ k.offset = h.offset + UnitHeader + size
      /\ k.numberOfAllocated = h.numberOfAllocated + 1
      /\ k.numberOfDeleted = h.numberOfDeleted
      /\ k.blockSize = h.blockSize
      /\ k.next = h.next /\ k.prev = h.prev
  BY <1>1, HeaderOneMore
<1>3. q = [firstBlock |-> p.firstBlock, currentBlock |-> c,
           block |-> [p.block EXCEPT ![c] = k]]
  BY <1>1 DEF WithUnit, PoolShape
<1>4. u = [container |-> c, at |-> h.offset, length |-> size]
  BY DEF NextUnit
<1>5. u \in UnitRecord /\ End(u) = k.offset
  BY <1>1, <1>2, <1>4, PoolAssumption DEF UnitRecord, End, Header
<1> HIDE DEF q, u, k
<1>6. /\ DOMAIN q.block = D
      /\ q.block[c] = k
      /\ \A x \in D \ {c} : q.block[x] = p.block[x]
      /\ q.firstBlock = p.firstBlock /\ q.currentBlock = c
  BY <1>1, <1>3 DEF PoolShape
<1>7. PoolShape(q)
  BY <1>1, <1>2, <1>3, <1>6 DEF PoolShape
<1>8. LinksOK(q)
  <2>1. \A x \in D : q.block[x].next = p.block[x].next /\ q.block[x].prev = p.block[x].prev
    BY <1>2, <1>6
  <2> QED
    BY <1>6, <2>1 DEF LinksOK
<1>9. \A w \in L : /\ w \in UnitRecord /\ End(w) \in Nat /\ w.at \in Nat
                  /\ w.at < End(w)
                  /\ w.container \in D
                  /\ End(w) <= p.block[w.container].offset
  BY PoolAssumption DEF UnitsOK, Apart, UnitRecord, End
<1>10. u \notin L
  BY <1>1, <1>2, <1>4, <1>5, <1>9, PoolAssumption DEF Header
<1>11. Apart(q, L \cup {u})
  <2>1. \A w \in L : w.container = c => End(w) <= u.at
    BY <1>4, <1>9
  <2>2. \A w \in L : End(w) <= q.block[w.container].offset
    BY <1>1, <1>2, <1>6, <1>9, PoolAssumption DEF Header
  <2>3. End(u) <= q.block[c].offset
    BY <1>1, <1>2, <1>5, <1>6, PoolAssumption DEF Header
  <2>4. u.container = c
    BY <1>4
  <2> QED
    BY <1>1, <1>6, <1>9, <2>1, <2>2, <2>3, <2>4 DEF Apart, UnitsOK
<1>12. Accounts(q, L \cup {u})
  <2> SUFFICES ASSUME NEW x \in D
               PROVE  /\ IsFiniteSet(UnitsIn(L \cup {u}, x))
                      /\ q.block[x].numberOfAllocated = q.block[x].numberOfDeleted
                           + Cardinality(UnitsIn(L \cup {u}, x))
    BY <1>6 DEF Accounts
  <2>1. /\ IsFiniteSet(UnitsIn(L, x))
        /\ p.block[x].numberOfAllocated
             = p.block[x].numberOfDeleted + Cardinality(UnitsIn(L, x))
    BY DEF UnitsOK, Accounts
  <2>2. Cardinality(UnitsIn(L, x)) \in Nat
    BY <2>1, FS_CardinalityType
  <2>3. p.block[x] \in Header
    BY DEF PoolShape
  <2>4. /\ IsFiniteSet(UnitsIn(L \cup {u}, x))
        /\ Cardinality(UnitsIn(L \cup {u}, x))
             = IF x = c THEN Cardinality(UnitsIn(L, x)) + 1
               ELSE Cardinality(UnitsIn(L, x))
    BY <1>4, <1>10, <2>1, AddUnit
  <2>5. CASE x = c
    BY <1>2, <1>6, <2>1, <2>2, <2>3, <2>4, <2>5 DEF Header
  <2>6. CASE x # c
    BY <1>6, <2>1, <2>4, <2>6
  <2> QED
    BY <2>5, <2>6
<1> QED
  BY <1>5, <1>6, <1>7, <1>8, <1>11, <1>12 DEF UnitsOK, q, u

-----------------------------------------------------------------------------
(* deallocate: the unit leaves its block                                    *)

LEMMA HeaderOneLess ==
  ASSUME NEW h \in Header, NEW u \in UnitRecord,
         End(u) <= h.offset, h.numberOfAllocated # 0
  PROVE  LET k == OneLess(h, u)
         IN  /\ k \in Header
             /\ k.offset = IF h.offset = End(u) THEN u.at ELSE h.offset
             /\ h.offset = End(u) =>
                  /\ k.numberOfAllocated = h.numberOfAllocated - 1
                  /\ k.numberOfDeleted = h.numberOfDeleted
             /\ h.offset # End(u) =>
                  /\ k.numberOfAllocated = h.numberOfAllocated
                  /\ k.numberOfDeleted = h.numberOfDeleted + 1
             /\ k.blockSize = h.blockSize
             /\ k.next = h.next /\ k.prev = h.prev
<1>1. /\ h.blockSize \in Nat /\ h.offset \in Nat
      /\ h.numberOfAllocated \in Nat /\ h.numberOfDeleted \in Nat
      /\ h.next \in Address /\ h.prev \in Address
      /\ u.at \in Nat /\ u.length \in Nat /\ UnitHeader \in Nat
  BY PoolAssumption DEF Header, UnitRecord
<1>2. CASE h.offset = End(u)
  <2> DEFINE m == h.offset - (UnitHeader + u.length)
             n == h.numberOfAllocated - 1
             g == [h EXCEPT !.offset = m]
             k == [g EXCEPT !.numberOfAllocated = n]
  <2>1. m = u.at /\ n \in Nat
    BY <1>1, <1>2 DEF End
  <2>2. OneLess(h, u) = k
    BY <1>2 DEF OneLess, Header
  <2> HIDE DEF m, n
  <2>3. /\ g \in Header /\ g.offset = m /\ g.next = h.next /\ g.prev = h.prev
        /\ g.numberOfAllocated = h.numberOfAllocated
        /\ g.numberOfDeleted = h.numberOfDeleted /\ g.blockSize = h.blockSize
    BY <1>1, <2>1 DEF Header
  <2> HIDE DEF g
  <2>4. /\ k \in Header /\ k.offset = g.offset /\ k.next = g.next
        /\ k.prev = g.prev /\ k.numberOfAllocated = n
        /\ k.numberOfDeleted = g.numberOfDeleted /\ k.blockSize = g.blockSize
    BY <2>1, <2>3 DEF Header
  <2> QED
    BY <1>2, <2>1, <2>2, <2>3, <2>4 DEF n
<1>3. CASE h.offset # End(u)
  <2> DEFINE n == h.numberOfDeleted + 1
             k == [h EXCEPT !.numberOfDeleted = n]
  <2>1. OneLess(h, u) = k /\ n \in Nat
    BY <1>1, <1>3 DEF OneLess
  <2> HIDE DEF n
  <2>2. /\ k \in Header /\ k.offset = h.offset /\ k.next = h.next
        /\ k.prev = h.prev /\ k.numberOfAllocated = h.numberOfAllocated
        /\ k.numberOfDeleted = n /\ k.blockSize = h.blockSize
    BY <2>1 DEF Header
  <2> QED
    BY <1>3, <2>1, <2>2 DEF n
<1> QED
  BY <1>2, <1>3

LEMMA RemoveUnit ==
  ASSUME NEW L, NEW u, NEW b, IsFiniteSet(UnitsIn(L, b)), u \in L
  PROVE  /\ IsFiniteSet(UnitsIn(L \ {u}, b))
         /\ Cardinality(UnitsIn(L \ {u}, b))
              = IF u.container = b THEN Cardinality(UnitsIn(L, b)) - 1
                ELSE Cardinality(UnitsIn(L, b))
<1>1. CASE u.container = b
  <2>1. UnitsIn(L \ {u}, b) = UnitsIn(L, b) \ {u} /\ u \in UnitsIn(L, b)
    BY <1>1 DEF UnitsIn
  <2>2. /\ IsFiniteSet(UnitsIn(L, b) \ {u})
        /\ Cardinality(UnitsIn(L, b) \ {u}) = Cardinality(UnitsIn(L, b)) - 1
    BY <2>1, FS_RemoveElement
  <2> QED
    BY <1>1, <2>1, <2>2
<1>2. CASE u.container # b
  <2>1. UnitsIn(L \ {u}, b) = UnitsIn(L, b)
    BY <1>2 DEF UnitsIn
  <2> QED
    BY <1>2, <2>1
<1> QED
  BY <1>1, <1>2

LEMMA WithoutUnitOK ==
  ASSUME NEW p, NEW L, NEW u \in L,
         PoolShape(p), LinksOK(p), UnitsOK(p, L), p.firstBlock # Null
  PROVE  LET q == WithoutUnit(p, u)
         IN  /\ PoolShape(q)
             /\ LinksOK(q)
             /\ UnitsOK(q, L \ {u})
             /\ q.firstBlock # Null
             /\ DOMAIN q.block = DOMAIN p.block
<1> DEFINE q == WithoutUnit(p, u)
           D == DOMAIN p.block
           c == u.container
           h == p.block[c]
           k == OneLess(h, u)
<1>1. /\ c \in D /\ c \in Blocks /\ h \in Header /\ u \in UnitRecord
      /\ End(u) <= h.offset /\ h.offset <= h.blockSize
  BY DEF UnitsOK, Apart, PoolShape
<1>2. \A x \in D : /\ IsFiniteSet(UnitsIn(L, x))
                   /\ Cardinality(UnitsIn(L, x)) \in Nat
                   /\ p.block[x].numberOfAllocated
                        = p.block[x].numberOfDeleted + Cardinality(UnitsIn(L, x))
  BY FS_CardinalityType DEF UnitsOK, Accounts
<1>3. Cardinality(UnitsIn(L, c)) # 0
  <2>1. u \in UnitsIn(L, c)
    BY DEF UnitsIn
  <2> QED
    BY <1>1, <1>2, <2>1, FS_EmptySet
<1>4. h.numberOfAllocated # 0
  BY <1>1, <1>2, <1>3 DEF Header
<1>5. /\ k \in Header
      /\ k.offset = IF h.offset = End(u) THEN u.at ELSE h.offset
      /\ h.offset = End(u) =>
           /\ k.numberOfAllocated = h.numberOfAllocated - 1
           /\ k.numberOfDeleted = h.numberOfDeleted
      /\ h.offset # End(u) =>
           /\ k.numberOfAllocated = h.numberOfAllocated
           /\ k.numberOfDeleted = h.numberOfDeleted + 1
      /\ k.blockSize = h.blockSize
      /\ k.next = h.next /\ k.prev = h.prev
  BY <1>1, <1>4, HeaderOneLess
<1>6. q = [firstBlock |-> p.firstBlock, currentBlock |-> p.currentBlock,
           block |-> [p.block EXCEPT ![c] = k]]
  BY <1>1 DEF WithoutUnit, PoolShape
<1> HIDE DEF q, k
<1>7. /\ DOMAIN q.block = D
      /\ q.block[c] = k
      /\ \A x \in D \ {c} : q.block[x] = p.block[x]
      /\ q.firstBlock = p.firstBlock /\ q.currentBlock = p.currentBlock
  BY <1>1, <1>6 DEF PoolShape
<1>8. \A w \in L : /\ w \in UnitRecord /\ End(w) \in Nat /\ w.at \in Nat
                  /\ w.at < End(w)
                  /\ w.container \in D
                  /\ End(w) <= p.block[w.container].offset
  BY PoolAssumption DEF UnitsOK, Apart, UnitRecord, End
<1>9. k.offset <= k.blockSize
  BY <1>1, <1>5, <1>8 DEF Header
<1>10. PoolShape(q)
  BY <1>1, <1>5, <1>6, <1>7, <1>9 DEF PoolShape
<1>11. LinksOK(q)
  <2>1. \A x \in D : q.block[x].next = p.block[x].next /\ q.block[x].prev = p.block[x].prev
    BY <1>5, <1>7
  <2> QED
    BY <1>7, <2>1 DEF LinksOK
<1>12. Apart(q, L \ {u})
  <2>1. \A w \in L \ {u} : w.container = c => End(u) <= w.at \/ End(w) <= u.at
    BY DEF UnitsOK, Apart
  <2>2. \A w \in L \ {u} : w.container = c => End(w) <= k.offset
    BY <1>1, <1>5, <1>8, <2>1 DEF Header
  <2>3. \A w \in L \ {u} : End(w) <= q.block[w.container].offset
    BY <1>7, <1>8, <2>2
  <2> QED
    BY <1>7, <1>8, <2>3 DEF Apart, UnitsOK
<1>13. Accounts(q, L \ {u})
  <2> SUFFICES ASSUME NEW x \in D
               PROVE  /\ IsFiniteSet(UnitsIn(L \ {u}, x))
                      /\ q.block[x].numberOfAllocated = q.block[x].numberOfDeleted
                           + Cardinality(UnitsIn(L \ {u}, x))
    BY <1>7 DEF Accounts
  <2>1. /\ IsFiniteSet(UnitsIn(L \ {u}, x))
        /\ Cardinality(UnitsIn(L \ {u}, x))
             = IF x = c THEN Cardinality(UnitsIn(L, x)) - 1
               ELSE Cardinality(UnitsIn(L, x))
    BY <1>2, RemoveUnit
  <2>2. CASE x = c
    <3>1. h.numberOfAllocated = h.numberOfDeleted + Cardinality(UnitsIn(L, c))
      BY <1>1, <1>2
    <3>2. Cardinality(UnitsIn(L, c)) \in Nat
      BY <1>1, <1>2
    <3>3. k.numberOfAllocated
            = k.numberOfDeleted + (Cardinality(UnitsIn(L, c)) - 1)
      BY <1>1, <1>5, <3>1, <3>2 DEF Header
    <3> QED
      BY <1>7, <2>1, <2>2, <3>3
  <2>3. CASE x # c
    BY <1>2, <1>7, <2>1, <2>3
  <2> QED
    BY <2>2, <2>3
<1> QED
  BY <1>7, <1>10, <1>11, <1>12, <1>13 DEF UnitsOK, q

-----------------------------------------------------------------------------
(* deallocate: an empty block leaves the chain                              *)

SameCounts(h, k) ==
  /\ h.blockSize = k.blockSize
  /\ h.offset = k.offset
  /\ h.numberOfAllocated = k.numberOfAllocated
  /\ h.numberOfDeleted = k.numberOfDeleted

LEMMA SetNext ==
  ASSUME NEW p, PoolShape(p), NEW x \in DOMAIN p.block, NEW a \in Address
  PROVE  LET q == [p EXCEPT !.block[x].next = a]
         IN  /\ PoolShape(q)
             /\ q.firstBlock = p.firstBlock /\ q.currentBlock = p.currentBlock
             /\ DOMAIN q.block = DOMAIN p.block
             /\ \A y \in DOMAIN p.block :
                  /\ q.block[y].next = IF y = x THEN a ELSE p.block[y].next
                  /\ q.block[y].prev = p.block[y].prev
                  /\ SameCounts(q.block[y], p.block[y])
<1> DEFINE q == [p EXCEPT !.block[x].next = a]
           h == p.block[x]
           k == [h EXCEPT !.next = a]
<1>1. h \in Header
  BY DEF PoolShape
<1>2. k \in Header /\ k.next = a /\ k.prev = h.prev /\ SameCounts(k, h)
  BY <1>1 DEF Header, SameCounts
<1>3. q = [firstBlock |-> p.firstBlock, currentBlock |-> p.currentBlock,
           block |-> [p.block EXCEPT ![x] = k]]
  BY DEF PoolShape
<1>4. h.offset <= h.blockSize
  BY DEF PoolShape
<1> HIDE DEF q, k
<1>5. /\ q.firstBlock = p.firstBlock /\ q.currentBlock = p.currentBlock
      /\ DOMAIN q.block = DOMAIN p.block
      /\ q.block[x] = k
      /\ \A y \in DOMAIN p.block \ {x} : q.block[y] = p.block[y]
  BY <1>3 DEF PoolShape
<1>6. PoolShape(q)
  BY <1>2, <1>3, <1>4, <1>5 DEF PoolShape, SameCounts
<1> QED
  BY <1>2, <1>5, <1>6 DEF q, SameCounts

LEMMA SetPrev ==
  ASSUME NEW p, PoolShape(p), NEW x \in DOMAIN p.block, NEW a \in Address
  PROVE  LET q == [p EXCEPT !.block[x].prev = a]
         IN  /\ PoolShape(q)
             /\ q.firstBlock = p.firstBlock /\ q.currentBlock = p.currentBlock
             /\ DOMAIN q.block = DOMAIN p.block
             /\ \A y \in DOMAIN p.block :
                  /\ q.block[y].prev = IF y = x THEN a ELSE p.block[y].prev
                  /\ q.block[y].next = p.block[y].next
                  /\ SameCounts(q.block[y], p.block[y])
<1> DEFINE q == [p EXCEPT !.block[x].prev = a]
           h == p.block[x]
           k == [h EXCEPT !.prev = a]
<1>1. h \in Header
  BY DEF PoolShape
<1>2. k \in Header /\ k.prev = a /\ k.next = h.next /\ SameCounts(k, h)
  BY <1>1 DEF Header, SameCounts
<1>3. q = [firstBlock |-> p.firstBlock, currentBlock |-> p.currentBlock,
           block |-> [p.block EXCEPT ![x] = k]]
  BY DEF PoolShape
<1>4. h.offset <= h.blockSize
  BY DEF PoolShape
<1> HIDE DEF q, k
<1>5. /\ q.firstBlock = p.firstBlock /\ q.currentBlock = p.currentBlock
      /\ DOMAIN q.block = DOMAIN p.block
      /\ q.block[x] = k
      /\ \A y \in DOMAIN p.block \ {x} : q.block[y] = p.block[y]
  BY <1>3 DEF PoolShape
<1>6. PoolShape(q)
  BY <1>2, <1>3, <1>4, <1>5 DEF PoolShape, SameCounts
<1> QED
  BY <1>2, <1>5, <1>6 DEF q, SameCounts

(* The blocks around b are linked to each other, whichever case it is.      *)
LEMMA UnlinkedLinks ==
  ASSUME NEW p, PoolShape(p), LinksOK(p), p.firstBlock # Null,
         p.currentBlock # p.firstBlock, NEW b \in DOMAIN p.block
  PROVE  LET q == Unlinked(p, b)
             f == p.block
             n == f[b].next
             m == f[b].prev
         IN  /\ PoolShape(q)
             /\ DOMAIN q.block = DOMAIN f
             /\ q.firstBlock = IF b = p.firstBlock THEN n ELSE p.firstBlock
             /\ q.currentBlock = IF b = p.currentBlock THEN m ELSE p.currentBlock
             /\ \A y \in DOMAIN f \ {b} :
                  /\ q.block[y].next = IF f[y].next = b THEN n ELSE f[y].next
                  /\ q.block[y].prev = IF f[y].prev = b THEN m ELSE f[y].prev
             /\ \A y \in DOMAIN f : SameCounts(q.block[y], f[y])
<1> DEFINE q == Unlinked(p, b)
           f == p.block
           D == DOMAIN f
           n == f[b].next
           m == f[b].prev
<1>1. /\ n \in Address /\ m \in Address /\ Null \in Address
      /\ Null \notin D
  BY PoolAssumption DEF PoolShape, Header, Address
<1>2. /\ n = Null <=> b = p.currentBlock
      /\ m = Null <=> b = p.firstBlock
      /\ n # Null => n \in D /\ f[n].prev = b
      /\ m # Null => m \in D /\ f[m].next = b
  BY DEF LinksOK
<1>3. \A y \in D : /\ f[y].next = b => y = m
                   /\ f[y].prev = b => y = n
  BY <1>1 DEF LinksOK
<1>4. CASE b = p.firstBlock
  <2> DEFINE r == [p EXCEPT !.block[n].prev = Null]
  <2>1. n \in D /\ b # p.currentBlock /\ m = Null
    BY <1>2, <1>4
  <2>2. /\ PoolShape(r)
        /\ r.firstBlock = p.firstBlock /\ r.currentBlock = p.currentBlock
        /\ DOMAIN r.block = D
        /\ \A y \in D :
             /\ r.block[y].prev = IF y = n THEN Null ELSE f[y].prev
             /\ r.block[y].next = f[y].next
             /\ SameCounts(r.block[y], f[y])
    BY <1>1, <2>1, SetPrev
  <2>3. q = [r EXCEPT !.firstBlock = n]
    BY <1>4 DEF Unlinked, PoolShape
  <2> HIDE DEF r, q
  <2>4. /\ q = [firstBlock |-> n, currentBlock |-> r.currentBlock,
                block |-> r.block]
    BY <2>2, <2>3 DEF PoolShape
  <2>5. q.firstBlock = n /\ q.currentBlock = p.currentBlock /\ q.block = r.block
    BY <2>2, <2>4
  <2>6. PoolShape(q)
    BY <1>1, <2>2, <2>4, <2>5 DEF PoolShape
  <2> QED
    BY <1>1, <1>2, <1>3, <1>4, <2>1, <2>2, <2>5, <2>6 DEF q
<1>5. CASE b # p.firstBlock /\ b = p.currentBlock
  <2> DEFINE r == [p EXCEPT !.block[m].next = Null]
  <2>1. m \in D /\ n = Null
    BY <1>2, <1>5
  <2>2. /\ PoolShape(r)
        /\ r.firstBlock = p.firstBlock /\ r.currentBlock = p.currentBlock
        /\ DOMAIN r.block = D
        /\ \A y \in D :
             /\ r.block[y].next = IF y = m THEN Null ELSE f[y].next
             /\ r.block[y].prev = f[y].prev
             /\ SameCounts(r.block[y], f[y])
    BY <1>1, <2>1, SetNext
  <2>3. q = [r EXCEPT !.currentBlock = m]
    BY <1>5 DEF Unlinked, PoolShape
  <2> HIDE DEF r, q
  <2>4. /\ q = [firstBlock |-> r.firstBlock, currentBlock |-> m,
                block |-> r.block]
    BY <2>2, <2>3 DEF PoolShape
  <2>5. q.firstBlock = p.firstBlock /\ q.currentBlock = m /\ q.block = r.block
    BY <2>2, <2>4
  <2>6. PoolShape(q)
    BY <1>1, <2>2, <2>4, <2>5 DEF PoolShape
  <2> QED
    BY <1>1, <1>2, <1>3, <1>5, <2>1, <2>2, <2>5, <2>6 DEF q
<1>6. CASE b # p.firstBlock /\ b # p.currentBlock
  <2> DEFINE r == [p EXCEPT !.block[m].next = n]
             s == [r EXCEPT !.block[n].prev = m]
  <2>1. m \in D /\ n \in D
    BY <1>2, <1>6
  <2>2. /\ PoolShape(r)
        /\ r.firstBlock = p.firstBlock /\ r.currentBlock = p.currentBlock
        /\ DOMAIN r.block = D
        /\ \A y \in D :
             /\ r.block[y].next = IF y = m THEN n ELSE f[y].next
             /\ r.block[y].prev = f[y].prev
             /\ SameCounts(r.block[y], f[y])
    BY <1>1, <2>1, SetNext
  <2>3. q = s
    BY <1>6 DEF Unlinked, PoolShape
  <2> HIDE DEF r
  <2>4. n \in DOMAIN r.block /\ PoolShape(r)
    BY <2>1, <2>2
  <2>5. /\ PoolShape(s)
        /\ s.firstBlock = r.firstBlock /\ s.currentBlock = r.currentBlock
        /\ DOMAIN s.block = DOMAIN r.block
        /\ \A y \in DOMAIN r.block :
             /\ s.block[y].prev = IF y = n THEN m ELSE r.block[y].prev
             /\ s.block[y].next = r.block[y].next
             /\ SameCounts(s.block[y], r.block[y])
    BY <1>1, <2>4, SetPrev
  <2> HIDE DEF s, q
  <2>6. \A y \in D : SameCounts(q.block[y], f[y])
    BY <2>2, <2>3, <2>5 DEF SameCounts
  <2>7. \A y \in D :
           /\ q.block[y].next = IF y = m THEN n ELSE f[y].next
           /\ q.block[y].prev = IF y = n THEN m ELSE f[y].prev
    BY <2>2, <2>3, <2>5
  <2> QED
    BY <1>1, <1>2, <1>3, <1>6, <2>1, <2>2, <2>3, <2>5, <2>6, <2>7 DEF q
<1> QED
  BY <1>4, <1>5, <1>6

LEMMA FreedOK ==
  ASSUME NEW p, NEW L, NEW b \in DOMAIN p.block,
         PoolShape(p), LinksOK(p), UnitsOK(p, L), p.firstBlock # Null,
         p.currentBlock # p.firstBlock, UnitsIn(L, b) = {}
  PROVE  LET q == Freed(Unlinked(p, b), b)
         IN  /\ PoolShape(q)
             /\ LinksOK(q)
             /\ UnitsOK(q, L)
             /\ q.firstBlock # Null
<1> DEFINE r == Unlinked(p, b)
           q == Freed(r, b)
           f == p.block
           g == q.block
           D == DOMAIN f
           n == f[b].next
           m == f[b].prev
<1>1. /\ PoolShape(r)
      /\ DOMAIN r.block = D
      /\ r.firstBlock = IF b = p.firstBlock THEN n ELSE p.firstBlock
      /\ r.currentBlock = IF b = p.currentBlock THEN m ELSE p.currentBlock
      /\ \A y \in D \ {b} :
           /\ r.block[y].next = IF f[y].next = b THEN n ELSE f[y].next
           /\ r.block[y].prev = IF f[y].prev = b THEN m ELSE f[y].prev
      /\ \A y \in D : SameCounts(r.block[y], f[y])
  BY UnlinkedLinks
<1> HIDE DEF r
<1>2. q = [firstBlock |-> r.firstBlock, currentBlock |-> r.currentBlock,
           block |-> [y \in D \ {b} |-> r.block[y]]]
  BY <1>1 DEF Freed, Restrict, PoolShape
<1> HIDE DEF q
<1>3. /\ q.firstBlock = r.firstBlock /\ q.currentBlock = r.currentBlock
      /\ DOMAIN g = D \ {b}
      /\ \A y \in D \ {b} : g[y] = r.block[y]
  BY <1>2
<1>4. PoolShape(q)
  BY <1>1, <1>2, <1>3 DEF PoolShape
<1>5. b \in D /\ Null \notin D
  BY PoolAssumption DEF PoolShape
<1>6. /\ n = Null <=> b = p.currentBlock
      /\ m = Null <=> b = p.firstBlock
      /\ n # Null => n \in D /\ f[n].prev = b
      /\ m # Null => m \in D /\ f[m].next = b
  BY DEF LinksOK
<1>7. /\ n = b <=> m = b
      /\ \A y \in D \ {b} : /\ f[y].next = b => m = y /\ n # b
                           /\ f[y].prev = b => n = y /\ m # b
  BY <1>5, <1>6 DEF LinksOK
<1>8. q.firstBlock # Null /\ q.firstBlock \in D \ {b}
  BY <1>1, <1>3, <1>6, <1>7 DEF LinksOK
<1>9. q.currentBlock \in D \ {b}
  BY <1>1, <1>3, <1>6, <1>7 DEF LinksOK
<1>10. LinksOK(q)
  <2>1. \A y \in D \ {b} :
           /\ g[y].next = IF f[y].next = b THEN n ELSE f[y].next
           /\ g[y].prev = IF f[y].prev = b THEN m ELSE f[y].prev
    BY <1>1, <1>3
  <2>2. /\ q.firstBlock = IF b = p.firstBlock THEN n ELSE p.firstBlock
        /\ q.currentBlock = IF b = p.currentBlock THEN m ELSE p.currentBlock
    BY <1>1, <1>3
  <2>3. \A y \in D :
           /\ f[y].next = Null <=> y = p.currentBlock
           /\ f[y].prev = Null <=> y = p.firstBlock
           /\ f[y].next # Null => f[y].next \in D /\ f[f[y].next].prev = y
           /\ f[y].prev # Null => f[y].prev \in D /\ f[f[y].prev].next = y
    BY DEF LinksOK
  <2> HIDE DEF f, g, D, n, m
  <2>4. ASSUME NEW y \in D \ {b}
        PROVE  /\ g[y].next = Null <=> y = q.currentBlock
               /\ g[y].prev = Null <=> y = q.firstBlock
    BY <1>5, <1>6, <1>7, <2>1, <2>2, <2>3
  <2>5. ASSUME NEW y \in D \ {b}, g[y].next # Null
        PROVE  g[y].next \in D \ {b} /\ g[g[y].next].prev = y
    BY <1>5, <1>6, <1>7, <2>1, <2>3, <2>5 DEF n, m
  <2>6. ASSUME NEW y \in D \ {b}, g[y].prev # Null
        PROVE  g[y].prev \in D \ {b} /\ g[g[y].prev].next = y
    BY <1>5, <1>6, <1>7, <2>1, <2>3, <2>6 DEF n, m
  <2> QED
    BY <1>3, <1>8, <1>9, <2>4, <2>5, <2>6 DEF LinksOK, g
<1>11. \A y \in D \ {b} :
          /\ g[y].offset = f[y].offset
          /\ g[y].numberOfAllocated = f[y].numberOfAllocated
          /\ g[y].numberOfDeleted = f[y].numberOfDeleted
  BY <1>1, <1>3 DEF SameCounts
<1>12. \A u \in L : u.container \in D \ {b}
  BY DEF UnitsOK, Apart, UnitsIn
<1>13. Apart(q, L)
  BY <1>3, <1>11, <1>12 DEF UnitsOK, Apart
<1>14. Accounts(q, L)
  BY <1>3, <1>11 DEF UnitsOK, Accounts
<1> QED
  BY <1>4, <1>8, <1>10, <1>13, <1>14 DEF UnitsOK, q, r

(* A block that is empty by its counters holds no unit in use.              *)
LEMMA EmptyHoldsNone ==
  ASSUME NEW p, NEW L, NEW b \in DOMAIN p.block,
         PoolShape(p), UnitsOK(p, L), IsEmpty(p.block[b])
  PROVE  UnitsIn(L, b) = {}
<1> DEFINE h == p.block[b]
<1>1. h \in Header
  BY DEF PoolShape
<1>2. CASE h.offset = 0
  <2>1. \A u \in L : u.container = b => End(u) <= 0
    BY <1>2 DEF UnitsOK, Apart
  <2>2. \A u \in L : ~(End(u) <= 0)
    BY PoolAssumption DEF UnitsOK, UnitRecord, End
  <2> QED
    BY <2>1, <2>2 DEF UnitsIn
<1>3. CASE h.numberOfAllocated = h.numberOfDeleted
  <2>1. /\ IsFiniteSet(UnitsIn(L, b))
        /\ h.numberOfAllocated = h.numberOfDeleted + Cardinality(UnitsIn(L, b))
    BY DEF UnitsOK, Accounts
  <2>2. Cardinality(UnitsIn(L, b)) \in Nat
    BY <2>1, FS_CardinalityType
  <2>3. Cardinality(UnitsIn(L, b)) = 0
    BY <1>1, <1>3, <2>1, <2>2 DEF Header
  <2> QED
    BY <2>1, <2>3, FS_EmptySet
<1> QED
  BY <1>2, <1>3 DEF IsEmpty

LEMMA DeallocatedOK ==
  ASSUME NEW p, NEW L, NEW u \in L,
         PoolShape(p), LinksOK(p), UnitsOK(p, L), p.firstBlock # Null
  PROVE  LET q == Deallocated(p, u)
         IN  /\ PoolShape(q)
             /\ LinksOK(q)
             /\ UnitsOK(q, L \ {u})
             /\ q.firstBlock # Null
<1> DEFINE r == WithoutUnit(p, u)
           c == u.container
           q == Deallocated(p, u)
<1>1. /\ PoolShape(r) /\ LinksOK(r) /\ UnitsOK(r, L \ {u})
      /\ r.firstBlock # Null /\ DOMAIN r.block = DOMAIN p.block
  BY WithoutUnitOK
<1>2. c \in DOMAIN r.block
  BY <1>1 DEF UnitsOK, Apart
<1>3. q = IF r.currentBlock # r.firstBlock /\ IsEmpty(r.block[c])
          THEN Freed(Unlinked(r, c), c)
          ELSE r
  BY DEF Deallocated
<1> HIDE DEF r, q, c
<1>4. CASE r.currentBlock # r.firstBlock /\ IsEmpty(r.block[c])
  <2>1. UnitsIn(L \ {u}, c) = {}
    BY <1>1, <1>2, <1>4, EmptyHoldsNone
  <2> QED
    BY <1>1, <1>2, <1>3, <1>4, <2>1, FreedOK DEF q
<1>5. CASE ~(r.currentBlock # r.firstBlock /\ IsEmpty(r.block[c]))
  BY <1>1, <1>3, <1>5 DEF q
<1> QED
  BY <1>4, <1>5

-----------------------------------------------------------------------------
(* The invariant                                                            *)

LEMMA InvHolds == Spec => []Inv
<1>1. Init => Inv
  <2> SUFFICES ASSUME Init PROVE Inv
    OBVIOUS
  <2>1. pool = [firstBlock |-> Null, currentBlock |-> Null, block |-> <<>>]
    BY DEF Init, NoPool
  <2>2. DOMAIN pool.block = {}
    BY <2>1
  <2>3. PoolShape(pool)
    BY <2>1, <2>2 DEF PoolShape, Address
  <2> QED
    BY <2>1, <2>3 DEF Init, Inv, LinksOK
<1>2. Inv /\ [Next]_poolVars => Inv'
  <2> SUFFICES ASSUME Inv, [Next]_poolVars PROVE Inv'
    OBVIOUS
  <2>1. CASE Construct
    <3> PICK b \in Fresh(pool) : pool' = Constructed(b)
      BY <2>1 DEF Construct
    <3>1. b \in Blocks /\ live' = {}
      BY <2>1 DEF Construct, Fresh, Inv
    <3> QED
      BY <3>1, ConstructedOK DEF Inv
  <2>2. ASSUME NEW size \in Sizes, Allocate(size) PROVE Inv'
    <3> PICK b \in Fresh(pool) :
             /\ pool' = WithUnit(Roomy(pool, size, b), size)
             /\ live' = live \cup {NextUnit(Roomy(pool, size, b), size)}
      BY <2>2 DEF Allocate
    <3> DEFINE p == Roomy(pool, size, b)
    <3>1. pool.firstBlock # Null /\ size \in Nat
      BY <2>2, PoolAssumption DEF Allocate
    <3>2. /\ PoolShape(p) /\ LinksOK(p) /\ UnitsOK(p, live) /\ p.firstBlock # Null
          /\ p.block[p.currentBlock].offset + UnitHeader + size
               <= p.block[p.currentBlock].blockSize
      BY <3>1, RoomyOK DEF Inv
    <3>3. pool' = WithUnit(p, size) /\ live' = live \cup {NextUnit(p, size)}
      OBVIOUS
    <3> HIDE DEF p
    <3>4. PoolShape(pool') /\ LinksOK(pool') /\ UnitsOK(pool', live')
          /\ pool'.firstBlock # Null
      BY <3>1, <3>2, <3>3, WithUnitOK
    <3> QED
      BY <3>4 DEF Inv
  <2>3. ASSUME NEW u \in live, Deallocate(u) PROVE Inv'
    <3>1. pool.firstBlock # Null
      BY DEF Inv
    <3>2. pool' = Deallocated(pool, u) /\ live' = live \ {u}
      BY <2>3 DEF Deallocate
    <3>3. PoolShape(pool') /\ LinksOK(pool') /\ UnitsOK(pool', live')
          /\ pool'.firstBlock # Null
      BY <3>1, <3>2, DeallocatedOK DEF Inv
    <3> QED
      BY <3>3 DEF Inv
  <2>4. CASE Destroy
    <3> DEFINE rest == DOMAIN pool.block \ Chain(pool)
    <3>1. /\ pool' = [firstBlock |-> Null, currentBlock |-> Null,
                      block |-> [b \in rest |-> pool.block[b]]]
          /\ live' = {}
      BY <2>4 DEF Destroy, Destructed, NoPool, Restrict
    <3>2. rest \subseteq DOMAIN pool.block
      OBVIOUS
    <3> HIDE DEF rest
    <3>3. /\ DOMAIN pool'.block = rest
          /\ \A b \in rest : pool'.block[b] = pool.block[b]
          /\ pool'.firstBlock = Null
      BY <3>1
    <3>4. PoolShape(pool')
      BY <3>1, <3>2, <3>3 DEF PoolShape, Address, Inv
    <3> QED
      BY <3>1, <3>3, <3>4 DEF Inv, LinksOK
  <2>5. CASE UNCHANGED poolVars
    BY <2>5 DEF poolVars, Inv
  <2> QED
    BY <2>1, <2>2, <2>3, <2>4, <2>5 DEF Next
<1> QED
  BY <1>1, <1>2, PTL DEF Spec

(* The offset of a block never passes its size, so that the subtraction     *)
(* with which allocatesize looks for room does not wrap around, whatever    *)
(* sizes are asked for.                                                     *)
THEOREM TypeCorrect == Spec => []TypeOK
<1>1. Inv => TypeOK
  BY DEF Inv, PoolShape, UnitsOK, TypeOK
<1> QED
  BY <1>1, InvHolds, PTL

(* allocatesize never hands out memory that is in use, and deallocate frees *)
(* no block with a unit in use.                                             *)
THEOREM UnitsStayApart == Spec => []UnitsApart
<1>1. Inv => UnitsApart
  BY DEF Inv, UnitsOK, Apart, UnitsApart
<1> QED
  BY <1>1, InvHolds, PTL

-----------------------------------------------------------------------------
(* The chain                                                                *)

(* The next pointers lead to every block.  That neighbours point to each    *)
(* other does not say so: a ring of blocks apart from the chain would pass. *)
Reached(p) == \A S \in SUBSET DOMAIN p.block : Follows(p, S) => S = DOMAIN p.block

(* The blocks in B are in use.                                              *)
InUse(B, L) == \A b \in B : UnitsIn(L, b) # {}

ChainInv ==
  /\ Reached(pool)
  /\ pool.firstBlock = Null => DOMAIN pool.block = {}
  /\ InUse(DOMAIN pool.block \ {pool.firstBlock}, live)

LEMMA ReachedIs == ASSUME NEW p PROVE Reached(p) <=> Chain(p) = DOMAIN p.block
<1>1. ASSUME Reached(p) PROVE Chain(p) = DOMAIN p.block
  BY <1>1 DEF Reached, Chain
<1>2. ASSUME Chain(p) = DOMAIN p.block PROVE Reached(p)
  BY <1>2 DEF Reached, Chain
<1> QED
  BY <1>1, <1>2

(* A pool whose pointers have stayed the same.                              *)
LEMMA SameChain ==
  ASSUME NEW p, NEW q, Reached(p), DOMAIN q.block = DOMAIN p.block,
         q.firstBlock = p.firstBlock,
         \A b \in DOMAIN p.block : q.block[b].next = p.block[b].next
  PROVE  Reached(q)
<1> SUFFICES ASSUME NEW S \in SUBSET DOMAIN q.block, Follows(q, S)
             PROVE  S = DOMAIN q.block
  BY DEF Reached
<1>1. {q.block[b].next : b \in S} = {p.block[b].next : b \in S}
  OBVIOUS
<1>2. Follows(p, S)
  BY <1>1 DEF Follows
<1> QED
  BY <1>2 DEF Reached

(* The chain leads to the current block, and now from it to the new one.    *)
LEMMA CreatedChain ==
  ASSUME NEW p, NEW b, NEW size \in Nat, PoolShape(p), LinksOK(p),
         p.firstBlock # Null, Reached(p), b \in Fresh(p)
  PROVE  /\ Reached(Created(p, b, size))
         /\ DOMAIN Created(p, b, size).block = DOMAIN p.block \cup {b}
         /\ Created(p, b, size).firstBlock = p.firstBlock
         /\ Created(p, b, size).currentBlock = b
<1> DEFINE q == Created(p, b, size)
           h == [blockSize |-> size, offset |-> 0, next |-> Null,
                 prev |-> p.currentBlock,
                 numberOfAllocated |-> 0, numberOfDeleted |-> 0]
           D == DOMAIN p.block
           c == p.currentBlock
<1>1. b \in Blocks /\ b \notin D /\ c \in D /\ c # b /\ p.firstBlock \in D
  BY DEF Fresh, LinksOK
<1>2. q = [firstBlock |-> p.firstBlock, currentBlock |-> b,
           block |-> [x \in D \cup {b} |->
                        IF x = b THEN h
                        ELSE IF x = c THEN [p.block[x] EXCEPT !.next = b]
                        ELSE p.block[x]]]
  BY DEF Created, Linked
<1>3. p.block[c] \in Header
  BY <1>1 DEF PoolShape
<1>4. [p.block[c] EXCEPT !.next = b].next = b
  BY <1>3 DEF Header
<1> HIDE DEF q, h
<1>5. /\ q.firstBlock = p.firstBlock /\ q.currentBlock = b
      /\ DOMAIN q.block = D \cup {b}
      /\ q.block[c].next = b
      /\ \A x \in D \ {c} : q.block[x] = p.block[x]
  BY <1>1, <1>2, <1>4
<1>6. ASSUME NEW S \in SUBSET (D \cup {b}), Follows(q, S)
      PROVE  S = D \cup {b}
  <2> DEFINE T == S \ {b}
  <2>1. /\ p.firstBlock \in S
        /\ \A x \in S : q.block[x].next \in D \cup {b} => q.block[x].next \in S
    BY <1>1, <1>5, <1>6 DEF Follows
  <2>2. p.firstBlock \in T /\ T \in SUBSET D
    BY <1>1, <2>1
  <2>3. ASSUME NEW x \in T, p.block[x].next \in D PROVE p.block[x].next \in T
    <3>1. CASE x = c
      BY <1>1, <2>3, <3>1, PoolAssumption DEF LinksOK, PoolShape
    <3>2. CASE x # c
      BY <1>1, <1>5, <2>1, <2>2, <2>3, <3>2
    <3> QED
      BY <3>1, <3>2
  <2> HIDE DEF T
  <2>4. Follows(p, T)
    BY <2>2, <2>3 DEF Follows
  <2>5. T = D
    BY <2>2, <2>4 DEF Reached
  <2>6. c \in S
    BY <1>1, <2>5 DEF T
  <2>7. b \in S
    BY <1>5, <2>1, <2>6
  <2> QED
    BY <2>5, <2>7 DEF T
<1> QED
  BY <1>5, <1>6 DEF Reached, q

(* Past the block that is taken out the chain leads to all the others.      *)
LEMMA FreedChain ==
  ASSUME NEW p, NEW b \in DOMAIN p.block, PoolShape(p), LinksOK(p),
         p.firstBlock # Null, p.currentBlock # p.firstBlock, Reached(p)
  PROVE  LET q == Freed(Unlinked(p, b), b)
         IN  /\ Reached(q)
             /\ DOMAIN q.block = DOMAIN p.block \ {b}
             /\ b # p.firstBlock => q.firstBlock = p.firstBlock
<1> DEFINE r == Unlinked(p, b)
           q == Freed(r, b)
           f == p.block
           D == DOMAIN f
           n == f[b].next
           m == f[b].prev
<1>1. /\ PoolShape(r)
      /\ DOMAIN r.block = D
      /\ r.firstBlock = IF b = p.firstBlock THEN n ELSE p.firstBlock
      /\ \A y \in D \ {b} : r.block[y].next = IF f[y].next = b THEN n ELSE f[y].next
  BY UnlinkedLinks
<1> HIDE DEF r
<1>2. q = [firstBlock |-> r.firstBlock, currentBlock |-> r.currentBlock,
           block |-> [y \in D \ {b} |-> r.block[y]]]
  BY <1>1 DEF Freed, Restrict, PoolShape
<1> HIDE DEF q
<1>3. /\ DOMAIN q.block = D \ {b}
      /\ q.firstBlock = IF b = p.firstBlock THEN n ELSE p.firstBlock
      /\ \A y \in D \ {b} : q.block[y].next = IF f[y].next = b THEN n ELSE f[y].next
  BY <1>1, <1>2
<1>4. b \in D /\ p.firstBlock \in D /\ Null \notin D
  BY PoolAssumption DEF PoolShape, LinksOK
<1>5. \A y \in D : f[y].next = b => y = m
  BY <1>4 DEF LinksOK
<1>6. b # p.firstBlock => m \in D /\ f[m].next = b
  BY DEF LinksOK
<1>7. b = p.firstBlock => m = Null
  BY DEF LinksOK
<1>8. ASSUME NEW S \in SUBSET (D \ {b}), Follows(q, S)
      PROVE  S = D \ {b}
  <2>1. /\ q.firstBlock \in D \ {b} => q.firstBlock \in S
        /\ \A x \in S : q.block[x].next \in D \ {b} => q.block[x].next \in S
    BY <1>3, <1>8 DEF Follows
  <2>2. CASE b = p.firstBlock \/ m \in S
    <3> DEFINE T == S \cup {b}
    <3>1. T \in SUBSET D
      BY <1>4
    <3>2. p.firstBlock \in T
      BY <1>3, <1>4, <2>1, <2>2
    <3>3. ASSUME NEW x \in T, f[x].next \in D PROVE f[x].next \in T
      <4>1. CASE x = b
        <5>1. n = b => n \in T
          OBVIOUS
        <5>2. CASE b = p.firstBlock /\ n # b
          BY <1>3, <2>1, <3>3, <4>1, <5>2
        <5>3. CASE m \in S /\ n # b
          <6>1. m \in D \ {b} /\ f[m].next = b
            BY <1>4, <1>6, <1>7, <5>3
          <6>2. q.block[m].next = n
            BY <1>3, <6>1
          <6> QED
            BY <2>1, <3>3, <4>1, <5>3, <6>2
        <5> QED
          BY <2>2, <4>1, <5>1, <5>2, <5>3
      <4>2. CASE x # b
        <5>1. x \in S /\ x \in D \ {b}
          BY <4>2
        <5>2. f[x].next # b => q.block[x].next = f[x].next
          BY <1>3, <5>1
        <5> QED
          BY <2>1, <3>3, <5>1, <5>2
      <4> QED
        BY <4>1, <4>2
    <3> HIDE DEF T
    <3>4. Follows(p, T)
      BY <3>1, <3>2, <3>3 DEF Follows
    <3>5. T = D
      BY <3>1, <3>4 DEF Reached
    <3> QED
      BY <3>5 DEF T
  <2>3. CASE b # p.firstBlock /\ m \notin S
    <3>1. p.firstBlock \in S /\ S \in SUBSET D
      BY <1>3, <1>4, <2>1, <2>3
    <3>2. ASSUME NEW x \in S, f[x].next \in D PROVE f[x].next \in S
      <4>1. x \in D \ {b} /\ f[x].next # b
        BY <1>5, <2>3
      <4>2. q.block[x].next = f[x].next
        BY <1>3, <4>1
      <4> QED
        BY <2>1, <3>2, <4>1, <4>2
    <3>3. Follows(p, S)
      BY <3>1, <3>2 DEF Follows
    <3>4. S = D
      BY <3>1, <3>3 DEF Reached
    <3> QED
      BY <1>4, <3>4
  <2> QED
    BY <2>2, <2>3
<1>9. Reached(q)
  BY <1>3, <1>8 DEF Reached
<1> QED
  BY <1>3, <1>9 DEF q, r

(* The current block is the first one only if there is no other.            *)
LEMMA OnlyBlock ==
  ASSUME NEW p, PoolShape(p), LinksOK(p), p.firstBlock # Null, Reached(p),
         p.currentBlock = p.firstBlock
  PROVE  DOMAIN p.block = {p.firstBlock}
<1> DEFINE S == {p.firstBlock}
<1>1. S \in SUBSET DOMAIN p.block /\ Null \notin DOMAIN p.block
  BY PoolAssumption DEF PoolShape, LinksOK
<1>2. p.block[p.firstBlock].next = Null
  BY <1>1 DEF LinksOK
<1>3. Follows(p, S)
  BY <1>1, <1>2 DEF Follows
<1> QED
  BY <1>1, <1>3 DEF Reached

LEMMA WithUnitChain ==
  ASSUME NEW p, NEW L, NEW size \in Nat, PoolShape(p), LinksOK(p),
         p.firstBlock # Null, Reached(p),
         InUse(DOMAIN p.block \ {p.firstBlock, p.currentBlock}, L)
  PROVE  LET q == WithUnit(p, size)
         IN  /\ Reached(q)
             /\ q.firstBlock = p.firstBlock
             /\ InUse(DOMAIN q.block \ {q.firstBlock}, L \cup {NextUnit(p, size)})
<1> DEFINE q == WithUnit(p, size)
           D == DOMAIN p.block
           c == p.currentBlock
           h == p.block[c]
           k == OneMore(h, size)
           u == NextUnit(p, size)
<1>1. c \in D /\ h \in Header
  BY DEF LinksOK, PoolShape
<1>2. k.next = h.next
  BY <1>1, HeaderOneMore
<1>3. q = [firstBlock |-> p.firstBlock, currentBlock |-> c,
           block |-> [p.block EXCEPT ![c] = k]]
  BY <1>1 DEF WithUnit, PoolShape
<1>4. u.container = c
  BY DEF NextUnit
<1> HIDE DEF q, k, u
<1>5. /\ DOMAIN q.block = D /\ q.firstBlock = p.firstBlock
      /\ \A b \in D : q.block[b].next = p.block[b].next
  BY <1>1, <1>2, <1>3
<1>6. Reached(q)
  BY <1>5, SameChain
<1>7. InUse(D \ {p.firstBlock}, L \cup {u})
  BY <1>4 DEF InUse, UnitsIn
<1> QED
  BY <1>5, <1>6, <1>7 DEF q, u

(* A block that keeps no unit in use is freed, or is the only one.          *)
LEMMA DeallocatedChain ==
  ASSUME NEW p, NEW L, NEW u \in L,
         PoolShape(p), LinksOK(p), UnitsOK(p, L), p.firstBlock # Null,
         Reached(p), InUse(DOMAIN p.block \ {p.firstBlock}, L)
  PROVE  LET q == Deallocated(p, u)
         IN  /\ Reached(q)
             /\ InUse(DOMAIN q.block \ {q.firstBlock}, L \ {u})
<1> DEFINE r == WithoutUnit(p, u)
           c == u.container
           q == Deallocated(p, u)
           D == DOMAIN p.block
           h == p.block[c]
           k == OneLess(h, u)
<1>1. /\ PoolShape(r) /\ LinksOK(r) /\ UnitsOK(r, L \ {u})
      /\ r.firstBlock # Null /\ DOMAIN r.block = D
  BY WithoutUnitOK
<1>2. c \in D /\ h \in Header
  BY DEF UnitsOK, Apart, PoolShape
<1>3. k.next = h.next
  BY <1>2 DEF OneLess, Header
<1>4. r = [firstBlock |-> p.firstBlock, currentBlock |-> p.currentBlock,
           block |-> [p.block EXCEPT ![c] = k]]
  BY <1>2 DEF WithoutUnit, PoolShape
<1>5. q = IF r.currentBlock # r.firstBlock /\ IsEmpty(r.block[c])
          THEN Freed(Unlinked(r, c), c)
          ELSE r
  BY DEF Deallocated
<1> HIDE DEF r, q, k
<1>6. /\ r.firstBlock = p.firstBlock
      /\ \A b \in D : r.block[b].next = p.block[b].next
  BY <1>2, <1>3, <1>4
<1>7. Reached(r)
  BY <1>1, <1>6, SameChain
<1>8. InUse(D \ {p.firstBlock, c}, L \ {u})
  BY DEF InUse, UnitsIn
<1>9. CASE r.currentBlock # r.firstBlock /\ IsEmpty(r.block[c])
  <2>1. q = Freed(Unlinked(r, c), c) /\ c \in DOMAIN r.block
    BY <1>1, <1>2, <1>5, <1>9
  <2>2. /\ Reached(q) /\ DOMAIN q.block = D \ {c}
        /\ c # r.firstBlock => q.firstBlock = r.firstBlock
    BY <1>1, <1>7, <1>9, <2>1, FreedChain
  <2>3. DOMAIN q.block \ {q.firstBlock} \subseteq D \ {p.firstBlock, c}
    BY <1>6, <2>2
  <2>4. InUse(DOMAIN q.block \ {q.firstBlock}, L \ {u})
    BY <1>8, <2>3 DEF InUse
  <2> QED
    BY <2>2, <2>4 DEF q
<1>10. CASE r.currentBlock = r.firstBlock
  <2>1. D = {p.firstBlock}
    BY <1>1, <1>6, <1>7, <1>10, OnlyBlock
  <2>2. q = r
    BY <1>5, <1>10
  <2> QED
    BY <1>1, <1>6, <1>7, <2>1, <2>2 DEF InUse, q
<1>11. CASE ~IsEmpty(r.block[c])
  <2>1. q = r
    BY <1>5, <1>11
  <2>2. UnitsIn(L \ {u}, c) # {}
    <3>1. /\ IsFiniteSet(UnitsIn(L \ {u}, c))
          /\ r.block[c].numberOfAllocated
               = r.block[c].numberOfDeleted + Cardinality(UnitsIn(L \ {u}, c))
          /\ r.block[c] \in Header
      BY <1>1, <1>2 DEF UnitsOK, Accounts, PoolShape
    <3>2. Cardinality(UnitsIn(L \ {u}, c)) # 0
      BY <1>11, <3>1 DEF IsEmpty, Header
    <3> QED
      BY <3>2, FS_EmptySet
  <2>3. InUse(D \ {p.firstBlock}, L \ {u})
    BY <1>8, <2>2 DEF InUse
  <2> QED
    BY <1>1, <1>6, <1>7, <2>1, <2>3 DEF q
<1> QED
  BY <1>9, <1>10, <1>11

LEMMA ChainInvNext == Inv /\ ChainInv /\ [Next]_poolVars => ChainInv'
<1> SUFFICES ASSUME Inv, ChainInv, [Next]_poolVars PROVE ChainInv'
  OBVIOUS
<1>1. CASE Construct
  <2>1. PICK b \in Blocks : pool' = Constructed(b)
    BY <1>1 DEF Construct, Fresh
  <2> DEFINE h == [blockSize |-> DefaultBlockSize, offset |-> 0, next |-> Null,
                   prev |-> Null, numberOfAllocated |-> 0, numberOfDeleted |-> 0]
  <2>2. pool' = [firstBlock |-> b, currentBlock |-> b, block |-> [x \in {b} |-> h]]
    BY <2>1, PoolAssumption DEF Constructed, Created, NoPool, Linked
  <2>3. DOMAIN pool'.block = {b} /\ pool'.firstBlock = b /\ b # Null
    BY <2>2, PoolAssumption
  <2>4. Reached(pool')
    BY <2>3 DEF Reached, Follows
  <2> QED
    BY <2>3, <2>4 DEF ChainInv, InUse
<1>2. ASSUME NEW size \in Sizes, Allocate(size) PROVE ChainInv'
  <2>1. PICK b \in Fresh(pool) :
          /\ pool' = WithUnit(Roomy(pool, size, b), size)
          /\ live' = live \cup {NextUnit(Roomy(pool, size, b), size)}
    BY <1>2 DEF Allocate
  <2> DEFINE p == Roomy(pool, size, b)
             n == Greater(size + UnitHeader, DefaultBlockSize)
  <2>2. /\ pool.firstBlock # Null /\ size \in Nat /\ n \in Nat
        /\ PoolShape(pool) /\ LinksOK(pool) /\ UnitsOK(pool, live)
    BY <1>2, PoolAssumption DEF Allocate, Inv, Greater
  <2>3. /\ PoolShape(p) /\ LinksOK(p) /\ p.firstBlock # Null
    BY <2>2, RoomyOK
  <2> HIDE DEF n
  <2>4. /\ Reached(p)
        /\ InUse(DOMAIN p.block \ {p.firstBlock, p.currentBlock}, live)
    <3>1. CASE Fits(pool, size)
      BY <3>1 DEF Roomy, ChainInv, InUse
    <3>2. CASE ~Fits(pool, size)
      <4>1. p = Created(pool, b, n)
        BY <3>2 DEF Roomy, n
      <4>2. /\ Reached(p) /\ DOMAIN p.block = DOMAIN pool.block \cup {b}
            /\ p.firstBlock = pool.firstBlock /\ p.currentBlock = b
        BY <2>2, <4>1, CreatedChain DEF ChainInv
      <4> QED
        BY <4>2 DEF ChainInv, InUse
    <3> QED
      BY <3>1, <3>2
  <2> HIDE DEF p
  <2>5. pool' = WithUnit(p, size) /\ live' = live \cup {NextUnit(p, size)}
    BY <2>1 DEF p
  <2>6. /\ Reached(pool') /\ pool'.firstBlock # Null
        /\ InUse(DOMAIN pool'.block \ {pool'.firstBlock}, live')
    BY <2>2, <2>3, <2>4, <2>5, WithUnitChain
  <2> QED
    BY <2>6 DEF ChainInv
<1>3. ASSUME NEW u \in live, Deallocate(u) PROVE ChainInv'
  <2>1. pool.firstBlock # Null
    BY DEF Inv
  <2>2. pool' = Deallocated(pool, u) /\ live' = live \ {u}
    BY <1>3 DEF Deallocate
  <2>3. /\ Reached(pool')
        /\ InUse(DOMAIN pool'.block \ {pool'.firstBlock}, live')
    BY <2>1, <2>2, DeallocatedChain DEF Inv, ChainInv
  <2>4. pool'.firstBlock # Null
    BY <2>1, <2>2, DeallocatedOK DEF Inv
  <2> QED
    BY <2>3, <2>4 DEF ChainInv
<1>4. CASE Destroy
  <2>1. Chain(pool) = DOMAIN pool.block
    BY ReachedIs DEF ChainInv
  <2> DEFINE rest == DOMAIN pool.block \ Chain(pool)
  <2>2. pool' = [firstBlock |-> Null, currentBlock |-> Null,
                 block |-> [b \in rest |-> pool.block[b]]]
    BY <1>4 DEF Destroy, Destructed, NoPool, Restrict
  <2>3. rest = {}
    BY <2>1
  <2> HIDE DEF rest
  <2>4. DOMAIN pool'.block = {}
    BY <2>2, <2>3
  <2> QED
    BY <2>4 DEF ChainInv, Reached, InUse
<1>5. CASE UNCHANGED poolVars
  BY <1>5 DEF poolVars, ChainInv
<1> QED
  BY <1>1, <1>2, <1>3, <1>4, <1>5 DEF Next

(* The blocks are one chain that the destructor can follow, whatever was    *)
(* allocated and deallocated in whatever order, and a block other than the  *)
(* first is freed when its last unit goes.                                  *)
THEOREM ChainStaysIntact == Spec => []ChainIntact
<1>1. Init => ChainInv
  <2> SUFFICES ASSUME Init PROVE ChainInv
    OBVIOUS
  <2>1. pool = [firstBlock |-> Null, currentBlock |-> Null, block |-> <<>>]
    BY DEF Init, NoPool
  <2>2. DOMAIN pool.block = {}
    BY <2>1
  <2> QED
    BY <2>2 DEF ChainInv, Reached, InUse
<1>2. Inv /\ ChainInv => ChainIntact
  <2> SUFFICES ASSUME Inv, ChainInv PROVE ChainIntact
    OBVIOUS
  <2>1. Chain(pool) = DOMAIN pool.block
    BY ReachedIs DEF ChainInv
  <2>2. DOMAIN pool.block # {} => pool.firstBlock # Null
    BY DEF ChainInv
  <2>3. \A b \in DOMAIN pool.block :
          b = pool.firstBlock \/ \E u \in live : u.container = b
    BY DEF ChainInv, InUse, UnitsIn
  <2> QED
    BY <2>1, <2>2, <2>3 DEF ChainIntact, Inv, LinksOK
<1> QED
  BY <1>1, <1>2, ChainInvNext, InvHolds, PTL DEF Spec

-----------------------------------------------------------------------------
(* RateLimiter                                                              *)
LEMMA LimiterFacts ==
  /\ Capacity \in Nat /\ Capacity > 0 /\ Rate \in Nat /\ Rate > 0
  /\ MaxElapsed \in Nat /\ MaxBack \in Nat
BY LimiterConstants DEF Limiter!BucketAssumption

LEMMA LeastMost ==
  ASSUME NEW m \in Int, NEW n \in Int
  PROVE  /\ Limiter!Least(m, n) = IF m <= n THEN m ELSE n
         /\ Limiter!Most(m, n) = IF m <= n THEN n ELSE m
<1>1. \E x \in {m, n} : \A y \in {m, n} : x <= y
  OBVIOUS
<1>2. \E x \in {m, n} : \A y \in {m, n} : x >= y
  OBVIOUS
<1>3. Limiter!Least(m, n) \in {m, n} /\ \A y \in {m, n} : Limiter!Least(m, n) <= y
  BY <1>1 DEF Limiter!Least, Limiter!Min
<1>4. Limiter!Most(m, n) \in {m, n} /\ \A y \in {m, n} : Limiter!Most(m, n) >= y
  BY <1>2 DEF Limiter!Most, Limiter!Max
<1> QED
  BY <1>3, <1>4

Earned == Rate * elapsed

(* What may still be granted without the passing of time, and what has been *)
(* granted in excess, stay within the bound together.  A full TokenBucket   *)
(* may still earn what it has earned before.                                *)
LimiterInv ==
  /\ bucket \in {"TokenBucket", "get_token", "LeakyBucket"}
  /\ tokens \in Int /\ elapsed \in Int /\ back \in Nat /\ excess \in Nat
  /\ bucket = "get_token" =>
       /\ excess <= Capacity
       /\ excess = 0 \/ excess + tokens + Earned <= Capacity
  /\ bucket = "LeakyBucket" =>
       /\ excess <= Capacity
       /\ excess = 0 \/ excess <= tokens - Earned
  /\ bucket = "TokenBucket" =>
       /\ tokens <= Capacity
       /\ excess <= 2 * Capacity
       /\ tokens = Capacity =>
            /\ excess <= Capacity
            /\ excess = 0 \/ excess + Earned <= Capacity
       /\ tokens # Capacity =>
            excess <= Capacity \/ excess + tokens + Earned <= 2 * Capacity

LEMMA LimiterInit == Limiter!Init => LimiterInv
<1> SUFFICES ASSUME Limiter!Init PROVE LimiterInv
  OBVIOUS
<1>1. Capacity \in Nat /\ Rate \in Nat
  BY LimiterFacts
<1>2. /\ bucket \in {"TokenBucket", "get_token", "LeakyBucket"}
      /\ elapsed = 0 /\ back = 0 /\ excess = 0
      /\ bucket = "TokenBucket" => tokens = Capacity
      /\ bucket # "TokenBucket" => tokens = 0
  BY DEF Limiter!Init, Limiter!Bucket
<1> QED
  BY <1>1, <1>2 DEF LimiterInv, Earned

LEMMA EarnedFacts ==
  ASSUME elapsed \in Int
  PROVE  /\ Earned \in Int
         /\ elapsed' = elapsed + 1 => Earned' = Earned + Rate
         /\ elapsed' = elapsed - 1 => Earned' = Earned - Rate
         /\ elapsed' = elapsed => Earned' = Earned
         /\ elapsed' = 0 => Earned' = 0
<1>1. Rate \in Nat
  BY LimiterFacts
<1> QED
  BY <1>1 DEF Earned

LEMMA LimiterTick == LimiterInv /\ Limiter!Tick => LimiterInv'
<1> SUFFICES ASSUME LimiterInv, Limiter!Tick PROVE LimiterInv'
  OBVIOUS
<1>1. /\ Capacity \in Nat /\ Rate \in Nat /\ Earned \in Int /\ Earned' = Earned + Rate
      /\ elapsed' \in Int
  BY LimiterFacts, EarnedFacts DEF LimiterInv, Limiter!Tick
<1>2. bucket' = bucket /\ tokens' = tokens /\ back' = back
  BY DEF Limiter!Tick
<1>3. excess' = IF 0 <= excess - Rate THEN excess - Rate ELSE 0
  BY <1>1, LeastMost DEF LimiterInv, Limiter!Tick
<1>4. excess' \in Nat
  BY <1>1, <1>3 DEF LimiterInv
<1> HIDE DEF Earned
<1> QED
  BY <1>1, <1>2, <1>3, <1>4 DEF LimiterInv

LEMMA LimiterSetBack == LimiterInv /\ Limiter!SetBack => LimiterInv'
<1> SUFFICES ASSUME LimiterInv, Limiter!SetBack PROVE LimiterInv'
  OBVIOUS
<1>1. /\ Capacity \in Nat /\ Rate \in Nat /\ Earned \in Int /\ Earned' = Earned - Rate
      /\ elapsed' \in Int
  BY LimiterFacts, EarnedFacts DEF LimiterInv, Limiter!SetBack
<1>2. bucket' = bucket /\ tokens' = tokens /\ back' = back + 1 /\ excess' = excess
  BY DEF Limiter!SetBack
<1> HIDE DEF Earned
<1> QED
  BY <1>1, <1>2 DEF LimiterInv

(* get_tokens of each bucket.                                               *)
LEMMA RefreshedIs ==
  ASSUME LimiterInv
  PROVE  /\ bucket = "TokenBucket" /\ tokens = Capacity =>
              Limiter!Refreshed.tokens = tokens /\ Limiter!Refreshed.elapsed = elapsed
         /\ bucket # "LeakyBucket" /\ ~(bucket = "TokenBucket" /\ tokens = Capacity) =>
              /\ Limiter!Refreshed.elapsed = 0
              /\ Limiter!Refreshed.tokens =
                   IF Capacity <= tokens + Earned THEN Capacity ELSE tokens + Earned
         /\ bucket = "LeakyBucket" =>
              /\ Limiter!Refreshed.elapsed = 0
              /\ Limiter!Refreshed.tokens =
                   IF 0 <= tokens - Earned THEN tokens - Earned ELSE 0
<1>1. /\ Capacity \in Nat /\ Earned \in Int /\ tokens \in Int
      /\ bucket \in {"TokenBucket", "get_token", "LeakyBucket"}
      /\ bucket = "TokenBucket" => tokens <= Capacity
  BY LimiterFacts, EarnedFacts DEF LimiterInv
<1>2. /\ Limiter!Least(Capacity, tokens + Earned) =
           IF Capacity <= tokens + Earned THEN Capacity ELSE tokens + Earned
      /\ Limiter!Most(0, tokens - Earned) =
           IF 0 <= tokens - Earned THEN tokens - Earned ELSE 0
  BY <1>1, LeastMost
<1>3. CASE bucket = "TokenBucket" /\ tokens = Capacity
  BY <1>1, <1>3 DEF Limiter!Refreshed, Limiter!State
<1>4. CASE bucket # "LeakyBucket" /\ ~(bucket = "TokenBucket" /\ tokens = Capacity)
  <2>1. ~(bucket = "TokenBucket" /\ tokens >= Capacity)
    BY <1>1, <1>4
  <2>2. Limiter!Refreshed = Limiter!State(Limiter!Least(Capacity, tokens + Earned), 0)
    BY <1>4, <2>1 DEF Limiter!Refreshed, Earned
  <2> QED
    BY <1>2, <1>4, <2>2 DEF Limiter!State
<1>5. CASE bucket = "LeakyBucket"
  <2>1. Limiter!Refreshed = Limiter!State(Limiter!Most(0, tokens - Earned), 0)
    BY <1>5 DEF Limiter!Refreshed, Earned
  <2> QED
    BY <1>2, <1>5, <2>1 DEF Limiter!State
<1> QED
  BY <1>3, <1>4, <1>5

LEMMA LimiterRefresh == LimiterInv /\ Limiter!Refresh => LimiterInv'
<1> SUFFICES ASSUME LimiterInv, Limiter!Refresh PROVE LimiterInv'
  OBVIOUS
<1>1. Capacity \in Nat /\ Earned \in Int /\ elapsed \in Int
  BY LimiterFacts, EarnedFacts DEF LimiterInv
<1>2. /\ tokens' = Limiter!Refreshed.tokens /\ elapsed' = Limiter!Refreshed.elapsed
      /\ bucket' = bucket /\ back' = back /\ excess' = excess
  BY DEF Limiter!Refresh
<1>3. /\ elapsed' = elapsed => Earned' = Earned
      /\ elapsed' = 0 => Earned' = 0
  BY <1>1, EarnedFacts
<1> HIDE DEF Earned
<1>4. CASE bucket = "TokenBucket" /\ tokens = Capacity
  BY <1>1, <1>2, <1>3, <1>4, RefreshedIs DEF LimiterInv
<1>5. CASE bucket # "LeakyBucket" /\ ~(bucket = "TokenBucket" /\ tokens = Capacity)
  <2>1. /\ elapsed' = 0 /\ Earned' = 0
        /\ tokens' = IF Capacity <= tokens + Earned THEN Capacity ELSE tokens + Earned
    BY <1>2, <1>3, <1>5, RefreshedIs
  <2> QED
    BY <1>1, <1>2, <1>5, <2>1 DEF LimiterInv
<1>6. CASE bucket = "LeakyBucket"
  <2>1. /\ elapsed' = 0 /\ Earned' = 0
        /\ tokens' = IF 0 <= tokens - Earned THEN tokens - Earned ELSE 0
    BY <1>2, <1>3, <1>6, RefreshedIs
  <2> QED
    BY <1>1, <1>2, <1>6, <2>1 DEF LimiterInv
<1> QED
  BY <1>4, <1>5, <1>6

LEMMA LimiterTake ==
  ASSUME LimiterInv, NEW n \in 1 .. Capacity, Limiter!Take(n)
  PROVE  LimiterInv'
<1>1. /\ Capacity \in Nat /\ Earned \in Int /\ elapsed \in Int
      /\ n \in Nat /\ 1 <= n /\ n <= Capacity
  BY LimiterFacts, EarnedFacts DEF LimiterInv
<1>2. /\ tokens' = Limiter!Refreshed.tokens - n /\ elapsed' = Limiter!Refreshed.elapsed
      /\ n <= Limiter!Refreshed.tokens /\ bucket # "LeakyBucket"
      /\ bucket' = bucket /\ back' = back /\ excess' = excess + n
  BY DEF Limiter!Take
<1>3. /\ elapsed' = elapsed => Earned' = Earned
      /\ elapsed' = 0 => Earned' = 0
  BY <1>1, EarnedFacts
<1> HIDE DEF Earned
<1>4. CASE bucket = "TokenBucket" /\ tokens = Capacity
  <2>1. elapsed' = elapsed /\ Earned' = Earned /\ tokens' = Capacity - n
    BY <1>2, <1>3, <1>4, RefreshedIs
  <2> QED
    BY <1>1, <1>2, <1>4, <2>1 DEF LimiterInv
<1>5. CASE ~(bucket = "TokenBucket" /\ tokens = Capacity)
  <2> DEFINE r == IF Capacity <= tokens + Earned THEN Capacity ELSE tokens + Earned
  <2>1. /\ elapsed' = 0 /\ Earned' = 0 /\ tokens' = r - n /\ n <= r
    BY <1>2, <1>3, <1>5, RefreshedIs
  <2>2. tokens \in Int /\ excess \in Nat /\ bucket \in {"TokenBucket", "get_token"}
    BY <1>2 DEF LimiterInv
  <2>3. r \in Int /\ r <= Capacity /\ r <= tokens + Earned
    BY <1>1, <2>2
  <2> HIDE DEF r
  <2>4. CASE bucket = "TokenBucket"
    <3>1. excess + r <= 2 * Capacity
      BY <1>1, <1>5, <2>2, <2>3, <2>4 DEF LimiterInv
    <3> QED
      BY <1>1, <1>2, <2>1, <2>2, <2>3, <2>4, <3>1 DEF LimiterInv
  <2>5. CASE bucket = "get_token"
    <3>1. excess + r <= Capacity
      BY <1>1, <2>2, <2>3, <2>5 DEF LimiterInv
    <3> QED
      BY <1>1, <1>2, <2>1, <2>2, <2>3, <2>5, <3>1 DEF LimiterInv
  <2> QED
    BY <2>2, <2>4, <2>5
<1> QED
  BY <1>4, <1>5

LEMMA LimiterFill ==
  ASSUME LimiterInv, NEW n \in 1 .. Capacity, Limiter!Fill(n)
  PROVE  LimiterInv'
<1>1. /\ Capacity \in Nat /\ Rate \in Nat /\ Earned \in Int /\ elapsed \in Int
      /\ n \in Nat /\ 1 <= n /\ n <= Capacity /\ excess \in Nat /\ tokens \in Int
  BY LimiterFacts, EarnedFacts DEF LimiterInv
<1>2. /\ bucket = "LeakyBucket" /\ n + Limiter!Refreshed.tokens <= Capacity
      /\ tokens' = Limiter!Refreshed.tokens + n /\ elapsed' = 0
      /\ bucket' = bucket /\ back' = back
  BY DEF Limiter!Fill
<1>3. PICK passed \in {0, 1} : excess' = Limiter!Most(0, excess + n - Rate * passed)
  BY DEF Limiter!Fill
<1>4. excess' \in Nat /\ excess' <= excess + n
  <2>1. PICK late \in Nat : late = Rate * passed
    <3>1. Rate * 0 = 0 /\ Rate * 1 = Rate
      BY <1>1
    <3>2. Rate * passed = 0 \/ Rate * passed = Rate
      BY <3>1
    <3> QED
      BY <1>1, <3>2
  <2>2. excess' = IF 0 <= excess + n - late THEN excess + n - late ELSE 0
    BY <1>1, <1>3, <2>1, LeastMost
  <2> QED
    BY <1>1, <2>2
<1>5. Earned' = 0
  BY <1>1, <1>2, EarnedFacts
<1> HIDE DEF Earned
<1>6. PICK used \in Int : used = IF 0 <= tokens - Earned THEN tokens - Earned ELSE 0
  <2>1. (IF 0 <= tokens - Earned THEN tokens - Earned ELSE 0) \in Int
    BY <1>1
  <2> QED
    BY <2>1
<1>7. /\ tokens' = used + n /\ n + used <= Capacity
  BY <1>2, <1>6, RefreshedIs
<1>8. excess <= used
  BY <1>1, <1>2, <1>6 DEF LimiterInv
<1> QED
  BY <1>1, <1>2, <1>4, <1>5, <1>7, <1>8 DEF LimiterInv

LEMMA LimiterNext == LimiterInv /\ [Limiter!Next]_bucketVars => LimiterInv'
<1> SUFFICES ASSUME LimiterInv, [Limiter!Next]_bucketVars PROVE LimiterInv'
  OBVIOUS
<1>1. CASE UNCHANGED bucketVars
  BY <1>1 DEF bucketVars, LimiterInv, Earned
<1>2. CASE Limiter!Next
  BY <1>2, LimiterTick, LimiterSetBack, LimiterRefresh, LimiterTake, LimiterFill
  DEF Limiter!Next
<1> QED
  BY <1>1, <1>2

(* What a bucket grants stays within Rate times the time that passes and    *)
(* one burst of Capacity, two for TokenBucket, whatever the rate, the       *)
(* capacity and the times of the calls, and though the clock is set back.   *)
THEOREM BucketsGrantWithinBounds == MCSpec => []GrantsBounded
<1>1. MCInit => LimiterInv
  BY LimiterInit DEF MCInit
<1>2. LimiterInv /\ [MCNext]_mcVars => LimiterInv'
  BY LimiterNext DEF MCNext, mcVars, bucketVars, Run
<1>3. LimiterInv => GrantsBounded
  <2>1. Capacity \in Nat
    BY LimiterFacts
  <2> QED
    BY <2>1 DEF LimiterInv, GrantsBounded, Limiter!GrantsBounded
<1> QED
  BY <1>1, <1>2, <1>3, PTL DEF MCSpec

-----------------------------------------------------------------------------
(* DiskVector                                                               *)
Stored == Seq(Values \cup {Zero})

(* The stream has failed only where the program knows it, and its put area  *)
(* is empty except within a put.                                            *)
VectorInv ==
  /\ file \in Stored /\ Len(file) = count
  /\ kept \in [Disk!Position -> Values \cup {Zero}]
  /\ \A pos \in Disk!Position :
       kept[pos] = IF pos < count THEN file[pos + 1] ELSE Zero
  /\ failed \in BOOLEAN /\ failed = missed /\ count <= MaxSize
  /\ putting = <<>> => buffer = <<>>
  /\ putting # <<>> =>
       /\ \E pos \in Disk!Position, w \in Values : putting = <<pos, w>>
       /\ buffer = IF failed THEN <<>> ELSE putting

LEMMA WrittenIsStored ==
  ASSUME NEW s \in Stored, NEW pos \in Nat, NEW x \in Values
  PROVE  Disk!Written(s, pos, x) \in Stored
<1> DEFINE size == IF pos < Len(s) THEN Len(s) ELSE pos + 1
<1>1. size \in Nat /\ Len(s) \in Nat
  BY DEF Stored
<1>2. \A n \in 1 .. size :
        (IF n = pos + 1 THEN x ELSE IF n <= Len(s) THEN s[n] ELSE Zero)
          \in Values \cup {Zero}
  BY <1>1 DEF Stored
<1>3. Disk!Written(s, pos, x) =
        [n \in 1 .. size |-> IF n = pos + 1 THEN x ELSE IF n <= Len(s) THEN s[n]
                             ELSE Zero]
  BY DEF Disk!Written
<1> HIDE DEF size
<1>4. Disk!Written(s, pos, x) \in [1 .. size -> Values \cup {Zero}]
  BY <1>2, <1>3
<1> QED
  BY <1>1, <1>4 DEF Stored

(* f is s with w at pos, and zeros where that leaves a gap.                 *)
WithPut(f, s, pos, w) ==
  /\ f \in Stored
  /\ Len(f) = IF pos < Len(s) THEN Len(s) ELSE pos + 1
  /\ \A q \in Nat : q < Len(f) =>
       f[q + 1] = IF q = pos THEN w ELSE IF q < Len(s) THEN s[q + 1] ELSE Zero

LEMMA SameLast ==
  ASSUME NEW k \in Nat, NEW l \in Nat, 1 .. k = 1 .. l
  PROVE  k = l
<1>1. k <= l \/ k \in (1 .. k) \ (1 .. l)
  OBVIOUS
<1>2. l <= k \/ l \in (1 .. l) \ (1 .. k)
  OBVIOUS
<1> QED
  BY <1>1, <1>2

LEMMA WrittenHolds ==
  ASSUME NEW s \in Stored, NEW pos \in Nat, NEW w \in Values
  PROVE  WithPut(Disk!Written(s, pos, w), s, pos, w)
<1> DEFINE m == IF pos < Len(s) THEN Len(s) ELSE pos + 1
           f == Disk!Written(s, pos, w)
<1>1. m \in Nat /\ Len(s) \in Nat
  BY DEF Stored
<1>2. f = [n \in 1 .. m |-> IF n = pos + 1 THEN w ELSE IF n <= Len(s) THEN s[n]
                            ELSE Zero]
  BY DEF Disk!Written
<1>3. f \in Stored
  BY WrittenIsStored
<1>4. Len(f) = m
  <2>1. DOMAIN f = 1 .. Len(f) /\ Len(f) \in Nat
    BY <1>3 DEF Stored
  <2>2. DOMAIN f = 1 .. m
    BY <1>2
  <2> HIDE DEF f, m
  <2> QED
    BY <1>1, <2>1, <2>2, SameLast, Zenon
<1>5. ASSUME NEW q \in Nat, q < m
      PROVE  f[q + 1] = IF q = pos THEN w
                        ELSE IF q < Len(s) THEN s[q + 1] ELSE Zero
  <2>1. q + 1 \in 1 .. m /\ (q + 1 = pos + 1 <=> q = pos)
        /\ (q + 1 <= Len(s) <=> q < Len(s))
    BY <1>1, <1>5
  <2> HIDE DEF m
  <2> QED
    BY <1>2, <2>1
<1> QED
  BY <1>3, <1>4, <1>5 DEF WithPut

LEMMA DiskNext == VectorInv /\ [Disk!Next]_diskVars => VectorInv'
<1> SUFFICES ASSUME VectorInv, [Disk!Next]_diskVars PROVE VectorInv'
  OBVIOUS
<1>a. /\ Disk!Position \subseteq Nat /\ MaxSize \in Nat /\ count \in Nat
      /\ \A pos \in Disk!Position : pos + 1 <= MaxSize
  BY DiskConstants DEF Disk!Position, Disk!VectorAssumption, VectorInv, Stored
<1>b. \A pos, w : <<pos, w>> # <<>>
  OBVIOUS
<1>c. putting = <<>> => buffer = <<>> /\ Disk!Synced = file
  BY DEF VectorInv, Disk!Synced
<1>1. CASE UNCHANGED diskVars
  BY <1>1 DEF diskVars, VectorInv
<1>2. ASSUME NEW pos \in Disk!Position, NEW w \in Values, Disk!Put(pos, w)
      PROVE  VectorInv'
  <2>1. /\ putting' = <<pos, w>> /\ file' = file
        /\ buffer' = (IF failed THEN <<>> ELSE <<pos, w>>)
        /\ UNCHANGED <<failed, kept, count, missed>>
    BY <1>2, <1>c DEF Disk!Put, Disk!promiseVars
  <2> QED
    BY <1>b, <2>1 DEF VectorInv
<1>3. ASSUME NEW pos \in Disk!Position, Disk!Get(pos) PROVE VectorInv'
  <2>1. /\ file' = file /\ buffer' = <<>> /\ putting = <<>>
        /\ failed' = (failed \/ pos >= Len(file))
        /\ missed' = (missed \/ pos >= count)
        /\ UNCHANGED <<putting, kept, count>>
    BY <1>3, <1>c DEF Disk!Get
  <2> QED
    BY <2>1 DEF VectorInv
<1>4. CASE Disk!Flush
  <2>1. PICK pos \in Disk!Position, w \in Values : putting = <<pos, w>>
    BY <1>4 DEF VectorInv, Disk!Flush
  <2>2. putting[1] = pos /\ putting[2] = w /\ putting' = <<>> /\ buffer' = <<>>
        /\ file' = Disk!Synced /\ failed' = failed
    BY <1>4, <2>1 DEF Disk!Flush
  <2>3. CASE failed
    <3>1. file' = file /\ UNCHANGED <<kept, count, missed>>
      BY <1>4, <1>b, <2>1, <2>2, <2>3
      DEF VectorInv, Disk!Flush, Disk!Promise, Disk!Synced, Disk!promiseVars
    <3> QED
      BY <2>2, <3>1 DEF VectorInv
  <2>4. CASE ~failed
    <3>1. file' = Disk!Written(file, pos, w)
      BY <1>b, <2>1, <2>2, <2>4 DEF VectorInv, Disk!Synced
    <3>2. /\ kept' = [kept EXCEPT ![pos] = w] /\ missed' = missed
          /\ count' = IF pos < count THEN count ELSE pos + 1
      BY <1>4, <2>2, <2>4 DEF VectorInv, Disk!Flush, Disk!Promise
    <3>3. /\ file' \in Stored /\ Len(file') = count'
          /\ \A q \in Nat : q < count' =>
               file'[q + 1] = IF q = pos THEN w
                              ELSE IF q < count THEN file[q + 1] ELSE Zero
      <4>1. file \in Stored /\ Len(file) = count /\ pos \in Nat
        BY <1>a DEF VectorInv
      <4>2. WithPut(file', file, pos, w)
        BY <3>1, <4>1, WrittenHolds, Zenon
      <4>3. Len(file') = count'
        BY <3>2, <4>1, <4>2 DEF WithPut
      <4> QED
        BY <4>1, <4>2, <4>3 DEF WithPut
    <3>4. \A q \in Disk!Position :
            kept'[q] = IF q < count' THEN file'[q + 1] ELSE Zero
      <4> SUFFICES ASSUME NEW q \in Disk!Position
                   PROVE  kept'[q] = IF q < count' THEN file'[q + 1] ELSE Zero
        OBVIOUS
      <4>1. kept[q] = (IF q < count THEN file[q + 1] ELSE Zero)
            /\ kept'[q] = (IF q = pos THEN w ELSE kept[q])
        BY <3>2 DEF VectorInv
      <4>2. pos < count' /\ (q < count => q < count') /\ q \in Nat
        BY <1>a, <3>2
      <4> QED
        BY <3>3, <4>1, <4>2
    <3>5. kept' \in [Disk!Position -> Values \cup {Zero}] /\ count' <= MaxSize
      BY <1>a, <3>2 DEF VectorInv
    <3> QED
      BY <2>2, <3>2, <3>3, <3>4, <3>5 DEF VectorInv
  <2> QED
    BY <2>3, <2>4
<1>5. CASE Disk!Reopen \/ Disk!Killed
  <2>1. /\ file' = file /\ buffer' = <<>> /\ putting' = <<>>
        /\ failed' = FALSE /\ missed' = FALSE /\ UNCHANGED <<kept, count>>
    BY <1>5, <1>c DEF Disk!Reopen, Disk!Killed, Disk!Opened
  <2> QED
    BY <2>1 DEF VectorInv
<1> QED
  BY <1>1, <1>2, <1>3, <1>4, <1>5 DEF Disk!Next

LEMMA DiskInit == Disk!Init => VectorInv
<1> SUFFICES ASSUME Disk!Init PROVE VectorInv
  OBVIOUS
<1>1. /\ failed = FALSE /\ missed = FALSE /\ file = <<>> /\ count = 0
      /\ putting = <<>> /\ buffer = <<>>
      /\ kept = [pos \in Disk!Position |-> Zero]
  BY DEF Disk!Init
<1>2. file \in Stored /\ Len(file) = 0
  BY <1>1 DEF Stored
<1>3. \A pos \in Disk!Position : ~(pos < 0)
  BY DEF Disk!Position
<1>4. 0 <= MaxSize
  BY DiskConstants DEF Disk!VectorAssumption
<1> QED
  BY <1>1, <1>2, <1>3, <1>4 DEF VectorInv

LEMMA VectorInvPersists == VectorInv => Disk!VectorPersists
<1> SUFFICES ASSUME VectorInv PROVE Disk!VectorPersists
  OBVIOUS
<1>1. count \in Nat /\ Len(file) = count /\ count <= MaxSize /\ MaxSize \in Nat
  BY DiskConstants DEF VectorInv, Stored, Disk!VectorAssumption
<1>2. ASSUME NEW pos \in 0 .. count - 1 PROVE file[pos + 1] = kept[pos]
  <2>1. pos \in Disk!Position /\ pos < count
    BY <1>1 DEF Disk!Position
  <2> QED
    BY <2>1 DEF VectorInv
<1>3. ASSUME putting = <<>>, NEW pos \in Disk!Position
      PROVE  Disk!Answer(pos) = IF missed \/ pos >= count THEN Garbage ELSE kept[pos]
  <2>1. Disk!Synced = file /\ failed = missed /\ pos \in Nat
    BY <1>3 DEF VectorInv, Disk!Synced, Disk!Position
  <2>2. kept[pos] = IF pos < count THEN file[pos + 1] ELSE Zero
    BY DEF VectorInv
  <2> QED
    BY <1>1, <2>1, <2>2 DEF Disk!Answer
<1> QED
  BY <1>1, <1>2, <1>3 DEF Disk!VectorPersists

-----------------------------------------------------------------------------
(* BufferPool: positions, pages and frames                                  *)
Offset == 0 .. PageSize - 1
PageData == [Offset -> Values]
PageOf(pos) == Buffer!PageOf(pos)

LEMMA BufferFacts ==
  /\ PoolSize \in Nat /\ PoolSize > 0 /\ PageSize \in Nat /\ PageSize > 0
  /\ LastPage \in Nat /\ Zero \in Values
  /\ Buffer!PageId = 0 .. LastPage /\ Buffer!Frame = 0 .. PoolSize - 1
  /\ Buffer!NoPage = -1 /\ Buffer!NoFrame = -1
BY BufferConstants
DEF Buffer!BufferAssumption, Buffer!PageId, Buffer!Frame, Buffer!NoPage, Buffer!NoFrame

LEMMA LessThan == \A x, y \in Nat : <<x, y>> \in OpToRel(<, Nat) <=> x < y
BY DEF OpToRel

LEMMA DivMod ==
  ASSUME NEW n \in Int, NEW m \in Int, m > 0
  PROVE  /\ n % m \in 0 .. m - 1 /\ n \div m \in Int
         /\ n % m = n - (n \div m) * m
<1>1. n % m \in 0 .. m - 1
  BY SMT
<1>2. n \div m \in Int
  BY SMT
<1>3. n % m = n - (n \div m) * m
  BY SMT
<1> QED
  BY <1>1, <1>2, <1>3

(* A position is a page and an offset in it.                                *)
LEMMA Positions ==
  ASSUME NEW pos \in Buffer!Position
  PROVE  /\ pos \in Nat
         /\ \E p \in Buffer!PageId, k \in Offset :
              PageOf(pos) = p /\ pos % PageSize = k /\ p * PageSize + k = pos
<1>1. /\ PageSize \in Nat /\ PageSize > 0 /\ LastPage \in Nat
      /\ pos \in Nat /\ pos < (LastPage + 1) * PageSize
  <2>1. PageSize \in Nat /\ PageSize > 0 /\ LastPage \in Nat
    BY BufferFacts
  <2>2. (LastPage + 1) * PageSize \in Int
    BY <2>1
  <2> QED
    BY <2>1, <2>2 DEF Buffer!Position
<1>2. PICK p \in Int, k \in 0 .. PageSize - 1 :
        p = pos \div PageSize /\ k = pos % PageSize /\ k = pos - p * PageSize
  <2>1. /\ pos % PageSize \in 0 .. PageSize - 1 /\ pos \div PageSize \in Int
        /\ pos % PageSize = pos - (pos \div PageSize) * PageSize
    BY <1>1, DivMod
  <2> QED
    BY <2>1
<1>3. p * PageSize \in Int /\ p * PageSize + k = pos
  BY <1>1, <1>2
<1>4. p >= 0
  <2>1. SUFFICES ASSUME p <= -1 PROVE FALSE
    BY <1>1
  <2>2. p * PageSize <= (-1) * PageSize
    BY <1>1, <2>1
  <2> QED
    BY <1>1, <1>3, <2>2
<1>5. p <= LastPage
  <2>1. SUFFICES ASSUME p >= LastPage + 1 PROVE FALSE
    BY <1>1
  <2>2. p * PageSize >= (LastPage + 1) * PageSize
    BY <1>1, <2>1
  <2>3. p * PageSize \in Int /\ (LastPage + 1) * PageSize \in Int
    BY <1>1
  <2> QED
    BY <1>1, <1>3, <2>2, <2>3
<1>6. PageOf(pos) = p /\ pos % PageSize = k
  BY <1>2 DEF PageOf, Buffer!PageOf
<1>7. p \in Buffer!PageId /\ k \in Offset
  BY <1>1, <1>4, <1>5, BufferFacts DEF Offset
<1> QED
  BY <1>1, <1>3, <1>6, <1>7

-----------------------------------------------------------------------------
(* BufferPool: the invariant                                                *)
PageRecord == [page_id : Int, is_dirty : {FALSE}, data : PageData]

BufferType ==
  /\ pages \in [Buffer!Frame -> PageRecord]
  /\ page_table \in [Buffer!PageId -> Buffer!Frame \cup {Buffer!NoFrame}]
  /\ poolFile \in Seq(Values)
  /\ expected \in [Buffer!Position -> Values]
  /\ fetched \subseteq Buffer!PageId
  /\ \A p \in Buffer!PageId : p \in fetched <=> Buffer!Hit(p)

(* Frames and pages belong together, and a frame without a page is as it    *)
(* was at first.                                                            *)
FramesHold ==
  /\ \A p \in fetched : pages[page_table[p]].page_id = p
  /\ \A f \in Buffer!Frame :
       IF pages[f].page_id = Buffer!NoPage
       THEN pages[f].data = [k \in Offset |-> Zero]
       ELSE pages[f].page_id \in fetched /\ page_table[pages[f].page_id] = f

(* What the program expects is in the frame of the page, or in the file.    *)
Kept(pos) ==
  IF PageOf(pos) \in fetched THEN pages[page_table[PageOf(pos)]].data[pos % PageSize]
  ELSE Buffer!Element(poolFile, pos)

BufferInv ==
  /\ BufferType
  /\ Cardinality(fetched) <= PoolSize =>
       FramesHold /\ \A pos \in Buffer!Position : expected[pos] = Kept(pos)

(* Frames hold Boolean FALSE as is_dirty: nothing is ever written back.     *)
LEMMA ElementIs ==
  ASSUME NEW f \in Seq(Values), NEW i \in Nat
  PROVE  Buffer!Element(f, i) \in Values /\ (i >= Len(f) => Buffer!Element(f, i) = Zero)
<1>1. Len(f) \in Nat /\ \A n \in 1 .. Len(f) : f[n] \in Values
  OBVIOUS
<1>2. i < Len(f) => i + 1 \in 1 .. Len(f)
  BY <1>1
<1> QED
  BY <1>1, <1>2, BufferFacts DEF Buffer!Element

LEMMA BufferInit == Buffer!Init => BufferInv
<1> SUFFICES ASSUME Buffer!Init PROVE BufferInv
  OBVIOUS
<1>1. /\ pages = [f \in Buffer!Frame |->
                    [page_id |-> Buffer!NoPage, is_dirty |-> FALSE,
                     data |-> [k \in Offset |-> Zero]]]
      /\ page_table = [p \in Buffer!PageId |-> Buffer!NoFrame]
      /\ expected = [pos \in Buffer!Position |-> Buffer!Element(poolFile, pos)]
      /\ fetched = {}
  BY DEF Buffer!Init, Offset
<1>2. poolFile \in Seq(Values)
  <2>1. PICK n \in 0 .. MaxFile : poolFile \in [1 .. n -> Values]
    BY DEF Buffer!Init
  <2>2. n \in Nat
    BY BufferConstants DEF Buffer!BufferAssumption
  <2> QED
    BY <2>1, <2>2
<1>3. \A pos \in Buffer!Position : Buffer!Element(poolFile, pos) \in Values
  BY <1>2, Positions, ElementIs
<1>4. [k \in Offset |-> Zero] \in PageData /\ Buffer!NoPage \in Int
  BY BufferFacts DEF PageData
<1>5. BufferType
  BY <1>1, <1>2, <1>3, <1>4 DEF BufferType, PageRecord, Buffer!Hit
<1>6. FramesHold /\ \A pos \in Buffer!Position : expected[pos] = Kept(pos)
  BY <1>1 DEF FramesHold, Kept
<1> QED
  BY <1>5, <1>6 DEF BufferInv

(* As long as the pages fit there is a frame for another one.               *)
LEMMA FreeFrame ==
  ASSUME BufferType, FramesHold, Cardinality(fetched) < PoolSize
  PROVE  \E f \in Buffer!Frame : pages[f].page_id = Buffer!NoPage
<1> SUFFICES ASSUME \A f \in Buffer!Frame : pages[f].page_id # Buffer!NoPage
             PROVE  FALSE
  OBVIOUS
<1>1. \A f \in Buffer!Frame :
        pages[f].page_id \in fetched /\ page_table[pages[f].page_id] = f
  BY DEF FramesHold
<1> DEFINE g == [f \in Buffer!Frame |-> pages[f].page_id]
<1>2. g \in [Buffer!Frame -> fetched]
  BY <1>1
<1>3. IsFiniteSet(Buffer!Frame) /\ Cardinality(Buffer!Frame) = PoolSize
  <2>1. PoolSize \in Nat /\ PoolSize > 0 /\ Buffer!Frame = 0 .. PoolSize - 1
    BY BufferFacts
  <2>2. 0 \in Int /\ PoolSize - 1 \in Int
    BY <2>1
  <2>3. /\ IsFiniteSet(0 .. PoolSize - 1)
        /\ Cardinality(0 .. PoolSize - 1) =
             IF 0 > PoolSize - 1 THEN 0 ELSE PoolSize - 1 - 0 + 1
    BY <2>2, FS_Interval
  <2> QED
    BY <2>1, <2>3
<1>4. IsFiniteSet(fetched)
  <2>1. 0 \in Int /\ LastPage \in Int /\ Buffer!PageId = 0 .. LastPage
    BY BufferFacts
  <2>2. IsFiniteSet(0 .. LastPage)
    BY <2>1, FS_Interval
  <2>3. fetched \in SUBSET (0 .. LastPage)
    BY <2>1 DEF BufferType
  <2> QED
    BY <2>2, <2>3, FS_Subset
<1> HIDE DEF g
<1>5. PICK x, y \in Buffer!Frame : x # y /\ g[x] = g[y]
  BY <1>2, <1>3, <1>4, FS_PigeonHole
<1> QED
  BY <1>1, <1>5 DEF g

(* The victim is a frame, and one without a page if there is one.           *)
LEMMA VictimIs ==
  ASSUME BufferType
  PROVE  /\ Buffer!Victim \in Buffer!Frame
         /\ (\E f \in Buffer!Frame : pages[f].page_id = Buffer!NoPage) =>
              pages[Buffer!Victim].page_id = Buffer!NoPage
<1> DEFINE free == {f \in Buffer!Frame : pages[f].page_id = Buffer!NoPage}
<1>1. CASE free = {}
  BY <1>1, BufferFacts DEF Buffer!Victim
<1>2. CASE free # {}
  <2>1. free \subseteq Nat
    BY BufferFacts
  <2>2. PICK x \in free : \A y \in free : ~(<<y, x>> \in OpToRel(<, Nat))
    BY <1>2, <2>1, NatLessThanWellFounded, WFMin
  <2>3. \A y \in free : x <= y
    <3>1. \A y \in free : ~(y < x)
      BY <2>1, <2>2, LessThan, Zenon
    <3> QED
      BY <2>1, <3>1
  <2>4. Buffer!Min(free) \in free
    BY <2>3 DEF Buffer!Min
  <2> QED
    BY <1>2, <2>4 DEF Buffer!Victim
<1> QED
  BY <1>1, <1>2

(* No frame is ever dirty, so that nothing is ever written to the file.     *)
LEMMA FrameIs ==
  ASSUME BufferType, NEW p \in Buffer!PageId
  PROVE  /\ Buffer!FrameFor(p) \in Buffer!Frame
         /\ Buffer!FileAfter(p) = poolFile
         /\ Buffer!Hit(p) => Buffer!FrameFor(p) = page_table[p]
         /\ Buffer!FetchPage(p) \in PageRecord
<1>1. Buffer!FrameFor(p) \in Buffer!Frame
  BY VictimIs DEF Buffer!FrameFor, Buffer!Hit, BufferType
<1>2. PICK f \in Buffer!Frame : f = Buffer!FrameFor(p)
  BY <1>1
<1>3. pages[f] \in PageRecord
  BY DEF BufferType
<1>4. Buffer!FileAfter(p) = poolFile
  BY <1>2, <1>3 DEF PageRecord, Buffer!FileAfter
<1>5. Buffer!Block(poolFile, p) \in PageData
  <2>1. \A k \in Offset : p * PageSize + k \in Nat
    BY BufferFacts DEF Offset
  <2>2. \A k \in Offset : Buffer!Element(poolFile, p * PageSize + k) \in Values
    BY <2>1, ElementIs DEF BufferType
  <2> QED
    BY <2>2 DEF Buffer!Block, PageData, Offset
<1>6. Buffer!FetchPage(p) \in PageRecord
  <2>1. CASE Buffer!Hit(p)
    BY <1>2, <1>3, <2>1 DEF Buffer!FetchPage
  <2>2. CASE ~Buffer!Hit(p)
    <3>1. p \in Int
      BY BufferFacts
    <3>2. Buffer!ReadBlock(poolFile, p, pages[f].data) \in PageData
      BY <1>3, <1>5 DEF Buffer!ReadBlock, PageRecord
    <3> QED
      BY <1>2, <1>4, <2>2, <3>1, <3>2 DEF Buffer!FetchPage, PageRecord
  <2> QED
    BY <2>1, <2>2
<1> QED
  BY <1>1, <1>4, <1>6 DEF Buffer!FrameFor

LEMMA PagesFit ==
  BufferType =>
    /\ IsFiniteSet(fetched) /\ Cardinality(fetched) \in Nat
    /\ \A p \in Buffer!PageId :
         Cardinality(fetched \cup {p}) <= PoolSize =>
           /\ Cardinality(fetched) <= PoolSize
           /\ p \notin fetched => Cardinality(fetched) < PoolSize
<1> SUFFICES ASSUME BufferType PROVE
      /\ IsFiniteSet(fetched) /\ Cardinality(fetched) \in Nat
      /\ \A p \in Buffer!PageId :
           Cardinality(fetched \cup {p}) <= PoolSize =>
             /\ Cardinality(fetched) <= PoolSize
             /\ p \notin fetched => Cardinality(fetched) < PoolSize
  OBVIOUS
<1>1. 0 \in Int /\ LastPage \in Int /\ Buffer!PageId = 0 .. LastPage /\ PoolSize \in Nat
  BY BufferFacts
<1>2. IsFiniteSet(0 .. LastPage)
  BY <1>1, FS_Interval
<1>3. fetched \in SUBSET (0 .. LastPage)
  BY <1>1 DEF BufferType
<1>4. IsFiniteSet(fetched)
  BY <1>2, <1>3, FS_Subset
<1>5. Cardinality(fetched) \in Nat
  BY <1>4, FS_CardinalityType
<1>6. ASSUME NEW p \in Buffer!PageId, Cardinality(fetched \cup {p}) <= PoolSize
      PROVE  /\ Cardinality(fetched) <= PoolSize
             /\ p \notin fetched => Cardinality(fetched) < PoolSize
  <2>1. Cardinality(fetched \cup {p})
          = IF p \in fetched THEN Cardinality(fetched) ELSE Cardinality(fetched) + 1
    BY <1>4, FS_AddElement
  <2> QED
    BY <1>1, <1>5, <1>6, <2>1
<1> QED
  BY <1>4, <1>5, <1>6

(* A page that fits has a frame of its own, with what is expected.          *)
LEMMA FetchIs ==
  ASSUME BufferInv, NEW p \in Buffer!PageId, Cardinality(fetched \cup {p}) <= PoolSize
  PROVE  /\ Buffer!FetchPage(p).page_id = p
         /\ pages[Buffer!FrameFor(p)].page_id = IF p \in fetched THEN p ELSE Buffer!NoPage
         /\ \A pos \in Buffer!Position :
              PageOf(pos) = p => Buffer!FetchPage(p).data[pos % PageSize] = expected[pos]
<1>1. /\ BufferType /\ FramesHold
      /\ \A pos \in Buffer!Position : expected[pos] = Kept(pos)
  <2>1. BufferType
    BY DEF BufferInv
  <2>2. Cardinality(fetched) <= PoolSize
    BY <2>1, PagesFit
  <2> QED
    BY <2>1, <2>2 DEF BufferInv
<1>2. p \in fetched <=> Buffer!Hit(p)
  BY <1>1 DEF BufferType
<1>3. CASE p \in fetched
  <2>1. Buffer!FrameFor(p) = page_table[p]
    BY <1>1, <1>2, <1>3, FrameIs
  <2>2. Buffer!FetchPage(p) = pages[page_table[p]]
    BY <1>2, <1>3, <2>1 DEF Buffer!FetchPage
  <2> QED
    BY <1>1, <1>3, <2>1, <2>2 DEF FramesHold, Kept
<1>4. CASE p \notin fetched
  <2>1. PICK f \in Buffer!Frame : f = Buffer!FrameFor(p)
    BY <1>1, FrameIs
  <2>2. pages[f].page_id = Buffer!NoPage
    <3>1. \E g \in Buffer!Frame : pages[g].page_id = Buffer!NoPage
      <4>1. Cardinality(fetched) < PoolSize
        BY <1>1, <1>4, PagesFit
      <4> QED
        BY <1>1, <4>1, FreeFrame
    <3>2. f = Buffer!Victim
      BY <1>2, <1>4, <2>1 DEF Buffer!FrameFor
    <3> QED
      BY <1>1, <3>1, <3>2, VictimIs
  <2>3. pages[f].data = [k \in Offset |-> Zero]
    BY <1>1, <2>2 DEF FramesHold
  <2>4. /\ Buffer!FetchPage(p).page_id = p
        /\ Buffer!FetchPage(p).data = Buffer!ReadBlock(poolFile, p, [k \in Offset |-> Zero])
    <3>1. Buffer!FileAfter(p) = poolFile
      BY <1>1, FrameIs
    <3> QED
      BY <1>2, <1>4, <2>1, <2>3, <3>1 DEF Buffer!FetchPage
  <2>5. ASSUME NEW pos \in Buffer!Position, PageOf(pos) = p
        PROVE  Buffer!FetchPage(p).data[pos % PageSize] = expected[pos]
    <3>1. PICK k \in Offset : pos % PageSize = k /\ p * PageSize + k = pos /\ pos \in Nat
      BY <2>5, Positions
    <3>2. expected[pos] = Buffer!Element(poolFile, pos)
      BY <1>1, <1>4, <2>5 DEF Kept
    <3>3. CASE p * PageSize > Len(poolFile)
      <4>1. pos >= Len(poolFile)
        <5>1. p * PageSize \in Int /\ k \in Nat /\ Len(poolFile) \in Nat
          BY <1>1, BufferFacts DEF Offset, BufferType
        <5> QED
          BY <3>1, <3>3, <5>1
      <4>2. expected[pos] = Zero
        BY <1>1, <3>1, <3>2, <4>1, ElementIs DEF BufferType
      <4> QED
        BY <2>4, <3>1, <3>3, <4>2 DEF Buffer!ReadBlock
    <3>4. CASE ~(p * PageSize > Len(poolFile))
      <4>1. Buffer!FetchPage(p).data = Buffer!Block(poolFile, p)
        BY <2>4, <3>4 DEF Buffer!ReadBlock
      <4>2. Buffer!Block(poolFile, p)[k] = Buffer!Element(poolFile, p * PageSize + k)
        BY DEF Buffer!Block, Offset
      <4> QED
        BY <3>1, <3>2, <4>1, <4>2
    <3> QED
      BY <3>3, <3>4
  <2> QED
    BY <1>4, <2>1, <2>2, <2>4, <2>5
<1> QED
  BY <1>3, <1>4

LEMMA UseKeeps ==
  ASSUME BufferInv, NEW p \in Buffer!PageId, NEW d \in PageData, Buffer!Use(p, d),
         expected' \in [Buffer!Position -> Values],
         \A pos \in Buffer!Position :
           /\ PageOf(pos) # p => expected'[pos] = expected[pos]
           /\ PageOf(pos) = p /\ Cardinality(fetched \cup {p}) <= PoolSize =>
                expected'[pos] = d[pos % PageSize]
  PROVE  BufferInv'
<1>1. BufferType
  BY DEF BufferInv
<1>2. PICK f \in Buffer!Frame : f = Buffer!FrameFor(p)
  BY <1>1, FrameIs
<1>3. PICK r \in PageRecord : r = [Buffer!FetchPage(p) EXCEPT !.data = d]
  BY <1>1, FrameIs DEF PageRecord
<1>4. r.data = d /\ r.page_id = Buffer!FetchPage(p).page_id
  BY <1>1, <1>3, FrameIs DEF PageRecord
<1>5. /\ pages' = [pages EXCEPT ![f] = r]
      /\ page_table' = [page_table EXCEPT ![p] = f]
      /\ poolFile' = poolFile
      /\ fetched' = fetched \cup {p}
  BY <1>1, <1>2, <1>3, FrameIs DEF Buffer!Use
<1>6. /\ page_table'[p] = f
      /\ \A q \in Buffer!PageId \ {p} : page_table'[q] = page_table[q]
      /\ pages'[f] = r
      /\ \A g \in Buffer!Frame \ {f} : pages'[g] = pages[g]
  BY <1>1, <1>5 DEF BufferType
<1>7. BufferType'
  <2>1. \A q \in Buffer!PageId : q \in fetched' <=> Buffer!Hit(q)'
    <3>1. f # Buffer!NoFrame
      BY BufferFacts
    <3> QED
      BY <1>1, <1>5, <1>6, <3>1 DEF BufferType, Buffer!Hit
  <2> QED
    BY <1>1, <1>5, <2>1 DEF BufferType
<1>8. ASSUME Cardinality(fetched') <= PoolSize
      PROVE  FramesHold' /\ \A pos \in Buffer!Position : expected'[pos] = Kept(pos)'
  <2>1. /\ Cardinality(fetched \cup {p}) <= PoolSize
        /\ FramesHold /\ \A pos \in Buffer!Position : expected[pos] = Kept(pos)
    <3>1. Cardinality(fetched \cup {p}) <= PoolSize
      BY <1>5, <1>8
    <3>2. Cardinality(fetched) <= PoolSize
      BY <1>1, <3>1, PagesFit
    <3> QED
      BY <3>1, <3>2 DEF BufferInv
  <2>2. r.page_id = p /\ pages[f].page_id = IF p \in fetched THEN p ELSE Buffer!NoPage
    BY <1>2, <1>4, <2>1, FetchIs
  <2>3. ASSUME NEW q \in fetched \ {p} PROVE page_table[q] \in Buffer!Frame \ {f}
    <3>1. q \in Buffer!PageId /\ pages[page_table[q]].page_id = q
      BY <1>1, <2>1 DEF BufferType, FramesHold
    <3>2. page_table[q] \in Buffer!Frame
      BY <1>1, <3>1 DEF BufferType, Buffer!Hit
    <3>3. q # Buffer!NoPage
      BY <3>1, BufferFacts
    <3> QED
      BY <2>2, <3>1, <3>2, <3>3
  <2>4. \A q \in fetched' : pages'[page_table'[q]].page_id = q
    BY <1>1, <1>5, <1>6, <2>1, <2>2, <2>3 DEF FramesHold, BufferType
  <2>5. p # Buffer!NoPage
    BY BufferFacts
  <2>6. ASSUME NEW g \in Buffer!Frame
        PROVE  IF pages'[g].page_id = Buffer!NoPage
               THEN pages'[g].data = [k \in Offset |-> Zero]
               ELSE /\ pages'[g].page_id \in fetched'
                    /\ page_table'[pages'[g].page_id] = g
    <3>1. CASE g = f
      BY <1>5, <1>6, <2>2, <2>5, <3>1
    <3>2. CASE g # f
      <4>1. pages'[g] = pages[g]
        BY <1>6, <3>2
      <4>2. CASE pages[g].page_id = Buffer!NoPage
        BY <2>1, <4>1, <4>2 DEF FramesHold
      <4>3. CASE pages[g].page_id # Buffer!NoPage
        <5>1. PICK q \in fetched : q = pages[g].page_id /\ page_table[q] = g
          BY <2>1, <4>3 DEF FramesHold
        <5>2. q # p
          BY <1>1, <1>2, <3>2, <5>1, FrameIs DEF BufferType
        <5> QED
          BY <1>1, <1>5, <1>6, <4>1, <4>3, <5>1, <5>2 DEF BufferType
      <4> QED
        BY <4>2, <4>3
    <3> QED
      BY <3>1, <3>2
  <2>7. ASSUME NEW pos \in Buffer!Position PROVE expected'[pos] = Kept(pos)'
    <3>1. PICK q \in Buffer!PageId : q = PageOf(pos)
      BY Positions
    <3>2. Kept(pos)' = IF q \in fetched' THEN pages'[page_table'[q]].data[pos % PageSize]
                       ELSE Buffer!Element(poolFile, pos)
      BY <1>5, <3>1 DEF Kept, PageOf, Buffer!PageOf, Buffer!Element
    <3>3. CASE q = p
      <4>1. expected'[pos] = d[pos % PageSize]
        BY <2>1, <3>1, <3>3
      <4>2. Kept(pos)' = r.data[pos % PageSize]
        BY <1>5, <1>6, <3>2, <3>3
      <4> QED
        BY <1>4, <4>1, <4>2
    <3>4. CASE q # p
      <4>1. expected'[pos] = Kept(pos)
        BY <2>1, <3>1, <3>4
      <4>2. q \in fetched' <=> q \in fetched
        BY <1>5, <3>4
      <4>3. q \in fetched => pages'[page_table'[q]] = pages[page_table[q]]
        BY <1>6, <2>3, <3>4
      <4> QED
        BY <3>1, <3>2, <4>1, <4>2, <4>3 DEF Kept
    <3> QED
      BY <3>3, <3>4
  <2> QED
    BY <2>4, <2>6, <2>7 DEF FramesHold
<1> QED
  BY <1>7, <1>8 DEF BufferInv

LEMMA BufferNext == BufferInv /\ [Buffer!Next]_(Buffer!vars) => BufferInv'
<1> SUFFICES ASSUME BufferInv, [Buffer!Next]_(Buffer!vars) PROVE BufferInv'
  OBVIOUS
<1>1. BufferType
  BY DEF BufferInv
<1>2. CASE UNCHANGED Buffer!vars
  BY <1>2 DEF Buffer!vars, BufferInv, BufferType, FramesHold, Kept, Buffer!Hit,
              Buffer!Element, PageOf, Buffer!PageOf
<1>3. ASSUME NEW pos \in Buffer!Position, Buffer!Get(pos) PROVE BufferInv'
  <2>1. PICK p \in Buffer!PageId : p = PageOf(pos)
    BY Positions
  <2>2. PICK d \in PageData : d = Buffer!FetchPage(p).data
    BY <1>1, FrameIs DEF PageRecord
  <2>3. Buffer!Use(p, d) /\ expected' = expected
    BY <1>3, <2>1, <2>2 DEF Buffer!Get, PageOf
  <2>4. \A q \in Buffer!Position :
          /\ PageOf(q) # p => expected'[q] = expected[q]
          /\ PageOf(q) = p /\ Cardinality(fetched \cup {p}) <= PoolSize =>
               expected'[q] = d[q % PageSize]
    BY <2>2, <2>3, FetchIs
  <2>5. expected' \in [Buffer!Position -> Values]
    BY <1>1, <2>3 DEF BufferType
  <2> QED
    BY <2>3, <2>4, <2>5, UseKeeps
<1>4. ASSUME NEW pos \in Buffer!Position, NEW x \in Values, Buffer!Put(pos, x)
      PROVE  BufferInv'
  <2>1. PICK p \in Buffer!PageId, k \in Offset :
          p = PageOf(pos) /\ k = pos % PageSize /\ p * PageSize + k = pos
    BY Positions
  <2>2. PICK c \in PageData : c = Buffer!FetchPage(p).data
    BY <1>1, FrameIs DEF PageRecord
  <2>3. PICK d \in PageData : d = [c EXCEPT ![k] = x]
    BY DEF PageData
  <2>4. Buffer!Use(p, d) /\ expected' = [expected EXCEPT ![pos] = x]
    BY <1>4, <2>1, <2>2, <2>3 DEF Buffer!Put, PageOf
  <2>5. /\ expected' \in [Buffer!Position -> Values] /\ expected'[pos] = x
        /\ \A q \in Buffer!Position \ {pos} : expected'[q] = expected[q]
    BY <1>1, <2>4 DEF BufferType
  <2>6. ASSUME NEW q \in Buffer!Position, PageOf(q) = p,
               Cardinality(fetched \cup {p}) <= PoolSize
        PROVE  expected'[q] = d[q % PageSize]
    <3>1. PICK j \in Offset : q % PageSize = j /\ p * PageSize + j = q
      BY <2>6, Positions
    <3>2. c[j] = expected[q]
      BY <2>2, <2>6, <3>1, FetchIs
    <3>3. j = k => q = pos
      BY <2>1, <3>1
    <3> QED
      BY <2>1, <2>3, <2>5, <3>1, <3>2, <3>3 DEF PageData
  <2>7. \A q \in Buffer!Position : PageOf(q) # p => expected'[q] = expected[q]
    BY <2>1, <2>5
  <2> QED
    BY <2>4, <2>5, <2>6, <2>7, UseKeeps
<1> QED
  BY <1>2, <1>3, <1>4 DEF Buffer!Next

(* The vectors on disk, of any size, over any number of frames and pages:   *)
(* what was put is what get answers, as long as the pages used fit into the *)
(* frames; and the file of a DiskVector holds every put that has returned,  *)
(* over any number of reopenings and kills of the process.                  *)
THEOREM VectorsOnDiskHold == MCSpec => []DiskVectorsHold
<1>1. MCInit => BufferInv /\ VectorInv
  BY BufferInit, DiskInit DEF MCInit
<1>2. BufferInv /\ VectorInv /\ [MCNext]_mcVars => BufferInv' /\ VectorInv'
  <2> SUFFICES ASSUME BufferInv, VectorInv, [MCNext]_mcVars
               PROVE  BufferInv' /\ VectorInv'
    OBVIOUS
  <2>1. [Buffer!Next]_(Buffer!vars)
    BY DEF MCNext, mcVars, bufferVars, Buffer!vars, Run
  <2>2. [Disk!Next]_diskVars
    BY DEF MCNext, mcVars, diskVars, Run
  <2> QED
    BY <2>1, <2>2, BufferNext, DiskNext
<1>3. BufferInv /\ VectorInv => DiskVectorsHold
  <2> SUFFICES ASSUME BufferInv, VectorInv PROVE DiskVectorsHold
    OBVIOUS
  <2>1. ASSUME NEW pos \in Buffer!Position,
               Cardinality(fetched \cup {PageOf(pos)}) <= PoolSize
        PROVE  Buffer!Answer(pos) = expected[pos]
    <3>1. PageOf(pos) \in Buffer!PageId
      BY Positions
    <3> QED
      BY <2>1, <3>1, FetchIs DEF Buffer!Answer, PageOf
  <2>2. Buffer!ReadsSeeWrites
    BY <2>1 DEF Buffer!ReadsSeeWrites, PageOf, Cardinality, Buffer!Cardinality
  <2> QED
    BY <2>2, VectorInvPersists DEF DiskVectorsHold
<1> QED
  BY <1>1, <1>2, <1>3, PTL DEF MCSpec

-----------------------------------------------------------------------------
(* Queue and DummyQueue                                                     *)
QueueType ==
  /\ class \in {"Queue", "DummyQueue"}
  /\ v \in [Node -> Values \cup {Null}]
  /\ next \in [Node -> Node \cup {Null}]
  /\ queueLive \subseteq Node
  /\ queueContent \in Seq(Values)

(* The chain that Queue!QueueHolds asks for, with no two nodes the same: so *)
(* that the node a pop frees is not met again further on.                   *)
QueueInv ==
  /\ QueueType
  /\ \E c \in [1 .. Queue!Length -> queueLive] :
       Queue!IsChain(c) /\ queueLive = {c[k] : k \in 1 .. Queue!Length}

LEMMA QueueFacts == Null \notin Node /\ Null \notin Values
BY QueueConstants DEF Queue!SeqQueueAssumption

LEMMA QueueInit == Queue!Init => QueueInv
<1> SUFFICES ASSUME Queue!Init PROVE QueueInv
  OBVIOUS
<1>1. QueueType
  BY DEF Queue!Init, QueueType
<1>2. CASE class = "Queue"
  <2>1. queueLive = {} /\ head = Null /\ Queue!Length = 0 /\ queueContent = <<>>
    BY <1>2 DEF Queue!Init, Queue!Length
  <2>2. PICK c \in [1 .. 0 -> queueLive] : c = [k \in 1 .. 0 |-> Null]
    <3>1. \A k \in 1 .. 0 : FALSE
      OBVIOUS
    <3>2. [k \in 1 .. 0 |-> Null] \in [1 .. 0 -> queueLive]
      BY <3>1
    <3> QED
      BY <3>2
  <2>3. Queue!IsChain(c) /\ queueLive = {c[k] : k \in 1 .. 0}
    BY <2>1 DEF Queue!IsChain
  <2> QED
    BY <1>1, <2>1, <2>2, <2>3 DEF QueueInv
<1>3. CASE class # "Queue"
  <2>1. PICK n \in Node : /\ queueLive = {n} /\ head = n /\ tail = n /\ queueContent = <<>>
                          /\ Queue!Length = 1 /\ next[n] = Null
    BY <1>3 DEF Queue!Init, Queue!Length
  <2>2. PICK c \in [1 .. 1 -> queueLive] : c = [k \in 1 .. 1 |-> n]
    BY <2>1
  <2>3. Queue!IsChain(c) /\ queueLive = {c[k] : k \in 1 .. 1}
    BY <2>1, <2>2 DEF Queue!IsChain
  <2> QED
    BY <1>1, <2>1, <2>2, <2>3 DEF QueueInv
<1> QED
  BY <1>2, <1>3

LEMMA LengthIs ==
  QueueType => /\ Len(queueContent) \in Nat /\ Queue!Length \in Nat
               /\ class = "Queue" => Queue!Length = Len(queueContent)
               /\ class # "Queue" => Queue!Length = Len(queueContent) + 1
BY DEF QueueType, Queue!Length

LEMMA EmptyIs ==
  ASSUME QueueType, NEW c \in [1 .. Queue!Length -> queueLive], Queue!IsChain(c)
  PROVE  Queue!Empty <=> queueContent = <<>>
<1>1. /\ Len(queueContent) \in Nat /\ Queue!Length \in Nat
      /\ queueContent = <<>> <=> Len(queueContent) = 0
  BY LengthIs DEF QueueType
<1>2. \A k \in 1 .. Queue!Length : c[k] \in Node /\ c[k] # Null
  BY QueueFacts DEF QueueType
<1>3. CASE class = "Queue"
  <2>1. Queue!Length = Len(queueContent)
    BY <1>3, LengthIs
  <2>2. head = Null <=> Queue!Length = 0
    BY <1>1, <1>2 DEF Queue!IsChain
  <2> QED
    BY <1>1, <1>3, <2>1, <2>2 DEF Queue!Empty
<1>4. CASE class # "Queue"
  <2>1. Queue!Length = Len(queueContent) + 1
    BY <1>4, LengthIs
  <2>2. 1 \in 1 .. Queue!Length /\ Queue!Length \in 1 .. Queue!Length
    BY <1>1, <2>1
  <2>3. head = tail <=> Queue!Length = 1
    BY <1>1, <2>1, <2>2 DEF Queue!IsChain
  <2> QED
    BY <1>1, <1>4, <2>1, <2>3 DEF Queue!Empty
<1> QED
  BY <1>3, <1>4

LEMMA QueuePush ==
  ASSUME QueueInv, NEW n \in Node, NEW x \in Values, Queue!Push(n, x)
  PROVE  QueueInv'
<1>1. QueueType
  BY DEF QueueInv
<1>2. PICK c \in [1 .. Queue!Length -> queueLive] :
        Queue!IsChain(c) /\ queueLive = {c[k] : k \in 1 .. Queue!Length}
  BY DEF QueueInv
<1>3. PICK L \in Nat : L = Queue!Length
  BY <1>1, LengthIs
<1>4. PICK N \in Nat : N = Len(queueContent) /\ L = IF class = "Queue" THEN N ELSE N + 1
  BY <1>1, <1>3, LengthIs
<1>5. /\ n \notin queueLive /\ tail' = n /\ queueLive' = queueLive \cup {n}
      /\ queueContent' = Append(queueContent, x) /\ class' = class
  BY DEF Queue!Push
<1>6. /\ queueContent' \in Seq(Values) /\ Len(queueContent') = N + 1
      /\ queueContent'[N + 1] = x
      /\ \A k \in 1 .. N : queueContent'[k] = queueContent[k]
  BY <1>1, <1>4, <1>5 DEF QueueType
<1>7. Queue!Length' = L + 1
  BY <1>4, <1>5, <1>6 DEF Queue!Length
<1>8. /\ c \in [1 .. L -> queueLive] /\ queueLive = {c[k] : k \in 1 .. L}
      /\ \A k \in 1 .. L : c[k] \in Node /\ c[k] # Null /\ c[k] # n
      /\ n # Null
  BY <1>1, <1>2, <1>3, <1>5, QueueFacts DEF QueueType
<1>9. /\ L = 0 => head = Null
      /\ L # 0 => head = c[1] /\ tail = c[L]
      /\ \A k \in 1 .. L : next[c[k]] = IF k = L THEN Null ELSE c[k + 1]
      /\ \A j, k \in 1 .. L : c[j] = c[k] => j = k
      /\ \A k \in 1 .. N : v[c[k]] = queueContent[k]
  BY <1>2, <1>3, <1>4 DEF Queue!IsChain
<1>10. PICK d \in [1 .. L + 1 -> queueLive'] :
         d[L + 1] = n /\ \A k \in 1 .. L : d[k] = c[k]
  <2> DEFINE e == [k \in 1 .. L + 1 |-> IF k = L + 1 THEN n ELSE c[k]]
  <2>1. e \in [1 .. L + 1 -> queueLive']
    BY <1>5, <1>8
  <2>2. e[L + 1] = n /\ \A k \in 1 .. L : e[k] = c[k]
    OBVIOUS
  <2> QED
    BY <2>1, <2>2
<1>11. L # 0 => \A k \in 1 .. L : c[k] = tail <=> k = L
  BY <1>9
<1>12. /\ v' \in [Node -> Values \cup {Null}] /\ next' \in [Node -> Node \cup {Null}]
       /\ head' = (IF L = 0 THEN n ELSE head)
       /\ next'[n] = Null
       /\ \A k \in 1 .. L : next'[c[k]] = IF k = L THEN n ELSE c[k + 1]
       /\ \A k \in 1 .. N : v'[c[k]] = queueContent[k]
       /\ v'[d[N + 1]] = x
  <2>1. CASE Queue!PushQueue(n, x)
    <3>1. class = "Queue" /\ tail \in queueLive \cup {Null} /\ v' = [v EXCEPT ![n] = x] /\ L = N
      BY <1>4, <2>1 DEF Queue!PushQueue
    <3>2. v' \in [Node -> Values \cup {Null}] /\ v'[n] = x /\ \A m \in Node \ {n} : v'[m] = v[m]
      BY <1>1, <3>1 DEF QueueType
    <3>3. CASE L = 0
      <4>1. tail = Null
        BY <1>8, <3>1, <3>3
      <4>2. next' = [next EXCEPT ![n] = Null] /\ head' = n
        BY <2>1, <4>1 DEF Queue!PushQueue
      <4> QED
        BY <1>1, <1>10, <3>1, <3>2, <3>3, <4>2 DEF QueueType
    <3>4. CASE L # 0
      <4>1. tail = c[L] /\ L \in 1 .. L /\ tail \in Node /\ tail # Null /\ tail # n
        BY <1>8, <1>9, <3>4
      <4>2. next' = [next EXCEPT ![tail] = n, ![n] = Null] /\ head' = head
        BY <2>1, <4>1 DEF Queue!PushQueue
      <4>3. /\ next' \in [Node -> Node \cup {Null}] /\ next'[tail] = n /\ next'[n] = Null
            /\ \A m \in Node \ {n, tail} : next'[m] = next[m]
        BY <1>1, <4>1, <4>2 DEF QueueType
      <4>4. \A k \in 1 .. L : next'[c[k]] = IF k = L THEN n ELSE c[k + 1]
        BY <1>8, <1>9, <1>11, <3>4, <4>1, <4>3
      <4>5. \A k \in 1 .. N : v'[c[k]] = queueContent[k]
        BY <1>8, <1>9, <3>1, <3>2
      <4>6. v'[d[N + 1]] = x
        BY <1>10, <3>1, <3>2
      <4> QED
        BY <3>2, <3>4, <4>2, <4>3, <4>4, <4>5, <4>6
    <3> QED
      BY <3>3, <3>4
  <2>2. CASE Queue!PushDummy(n, x)
    <3>1. /\ class = "DummyQueue" /\ L = N + 1 /\ L # 0
          /\ v' = [v EXCEPT ![tail] = x, ![n] = Null]
          /\ next' = [next EXCEPT ![tail] = n, ![n] = Null] /\ head' = head
      BY <1>4, <2>2 DEF Queue!PushDummy
    <3>2. tail = c[L] /\ L \in 1 .. L /\ tail \in Node /\ tail # Null /\ tail # n
      BY <1>8, <1>9, <3>1
    <3>3. /\ next' \in [Node -> Node \cup {Null}] /\ next'[tail] = n /\ next'[n] = Null
          /\ \A m \in Node \ {n, tail} : next'[m] = next[m]
      BY <1>1, <3>1, <3>2 DEF QueueType
    <3>4. /\ v' \in [Node -> Values \cup {Null}] /\ v'[tail] = x
          /\ \A m \in Node \ {n, tail} : v'[m] = v[m]
      BY <1>1, <3>1, <3>2 DEF QueueType
    <3>5. \A k \in 1 .. L : next'[c[k]] = IF k = L THEN n ELSE c[k + 1]
      BY <1>8, <1>9, <1>11, <3>1, <3>2, <3>3
    <3>6. \A k \in 1 .. N : k \in 1 .. L /\ c[k] # tail
      BY <1>11, <3>1
    <3>7. \A k \in 1 .. N : v'[c[k]] = queueContent[k]
      BY <1>8, <1>9, <3>4, <3>6
    <3>8. v'[d[N + 1]] = x
      BY <1>10, <3>1, <3>2, <3>4
    <3> QED
      BY <3>1, <3>3, <3>4, <3>5, <3>7, <3>8
  <2> QED
    BY <2>1, <2>2 DEF Queue!Push
<1>13. Queue!IsChain(d)'
  <2>1. L + 1 # 0 /\ head' = d[1] /\ tail' = d[L + 1]
    BY <1>5, <1>9, <1>10, <1>12
  <2>2. \A k \in 1 .. L + 1 : next'[d[k]] = IF k = L + 1 THEN Null ELSE d[k + 1]
    BY <1>10, <1>12
  <2>3. \A j, k \in 1 .. L + 1 : d[j] = d[k] => j = k
    BY <1>8, <1>9, <1>10
  <2>4. \A k \in 1 .. N + 1 : v'[d[k]] = queueContent'[k]
    BY <1>4, <1>6, <1>10, <1>12
  <2> QED
    BY <1>6, <1>7, <2>1, <2>2, <2>3, <2>4 DEF Queue!IsChain
<1>14. queueLive' = {d[k] : k \in 1 .. L + 1}
  <2>1. (\A k \in 1 .. L : k \in 1 .. L + 1) /\ L + 1 \in 1 .. L + 1
    OBVIOUS
  <2>2. ASSUME NEW m \in queueLive' PROVE \E k \in 1 .. L + 1 : m = d[k]
    <3>1. CASE m = n
      BY <1>10, <2>1, <3>1
    <3>2. CASE m # n
      <4>1. PICK k \in 1 .. L : m = c[k]
        BY <1>5, <1>8, <3>2
      <4> QED
        BY <1>10, <2>1, <4>1
    <3> QED
      BY <3>1, <3>2
  <2>3. \A k \in 1 .. L + 1 : d[k] \in queueLive'
    BY <1>10
  <2> QED
    BY <2>2, <2>3
<1>15. QueueType'
  BY <1>1, <1>5, <1>6, <1>12 DEF QueueType
<1> QED
  BY <1>7, <1>13, <1>14, <1>15 DEF QueueInv

LEMMA QueuePop ==
  ASSUME QueueInv, Queue!TryPop
  PROVE  QueueInv'
<1>1. QueueType
  BY DEF QueueInv
<1>2. PICK c \in [1 .. Queue!Length -> queueLive] :
        Queue!IsChain(c) /\ queueLive = {c[k] : k \in 1 .. Queue!Length}
  BY DEF QueueInv
<1>3. PICK L \in Nat : L = Queue!Length
  BY <1>1, LengthIs
<1>4. PICK N \in Nat : N = Len(queueContent) /\ L = IF class = "Queue" THEN N ELSE N + 1
  BY <1>1, <1>3, LengthIs
<1>5. /\ head' = next[head] /\ queueLive' = queueLive \ {head}
      /\ queueContent' = Tail(queueContent) /\ class' = class
      /\ tail' = tail /\ v' = v /\ next' = next
  BY DEF Queue!TryPop
<1>6. N # 0 /\ L # 0
  <2>1. queueContent # <<>>
    BY <1>1, <1>2, EmptyIs DEF Queue!TryPop
  <2> QED
    BY <1>1, <1>4, <2>1 DEF QueueType
<1>7. /\ queueContent' \in Seq(Values) /\ Len(queueContent') = N - 1
      /\ \A k \in 1 .. N - 1 : queueContent'[k] = queueContent[k + 1]
  <2>1. queueContent # <<>> /\ queueContent \in Seq(Values)
    BY <1>1, <1>4, <1>6 DEF QueueType
  <2> QED
    BY <1>4, <1>5, <2>1
<1>8. Queue!Length' = L - 1
  BY <1>4, <1>5, <1>7 DEF Queue!Length
<1>9. /\ head = c[1] /\ tail = c[L]
      /\ \A k \in 1 .. L : next[c[k]] = IF k = L THEN Null ELSE c[k + 1]
      /\ \A j, k \in 1 .. L : c[j] = c[k] => j = k
      /\ \A k \in 1 .. N : v[c[k]] = queueContent[k]
      /\ c \in [1 .. L -> queueLive] /\ queueLive = {c[k] : k \in 1 .. L}
  BY <1>2, <1>3, <1>4, <1>6 DEF Queue!IsChain
<1>10. \A k \in 1 .. L - 1 : k + 1 \in 1 .. L /\ k + 1 # 1
  OBVIOUS
<1>11. PICK d \in [1 .. L - 1 -> queueLive'] : \A k \in 1 .. L - 1 : d[k] = c[k + 1]
  <2> DEFINE e == [k \in 1 .. L - 1 |-> c[k + 1]]
  <2>1. \A k \in 1 .. L - 1 : c[k + 1] \in queueLive'
    BY <1>5, <1>6, <1>9, <1>10
  <2>2. e \in [1 .. L - 1 -> queueLive'] /\ \A k \in 1 .. L - 1 : e[k] = c[k + 1]
    BY <2>1
  <2> QED
    BY <2>2
<1>12. Queue!IsChain(d)'
  <2>1. IF L - 1 = 0 THEN head' = Null ELSE head' = d[1] /\ tail' = d[L - 1]
    BY <1>5, <1>6, <1>9, <1>11
  <2>2. ASSUME NEW k \in 1 .. L - 1
        PROVE  next'[d[k]] = IF k = L - 1 THEN Null ELSE d[k + 1]
    <3>1. next'[d[k]] = IF k + 1 = L THEN Null ELSE c[k + 1 + 1]
      BY <1>5, <1>9, <1>10, <1>11
    <3>2. CASE k = L - 1
      BY <3>1, <3>2
    <3>3. CASE k # L - 1
      <4>1. k + 1 \in 1 .. L - 1 /\ k + 1 # L
        BY <3>3
      <4> QED
        BY <1>11, <3>1, <3>3, <4>1
    <3> QED
      BY <3>2, <3>3
  <2>3. ASSUME NEW j \in 1 .. L - 1, NEW k \in 1 .. L - 1, d[j] = d[k] PROVE j = k
    <3>1. j + 1 = k + 1
      BY <1>9, <1>10, <1>11, <2>3
    <3> QED
      BY <3>1
  <2>4. \A k \in 1 .. N - 1 : v'[d[k]] = queueContent'[k]
    <3>1. \A k \in 1 .. N - 1 : k \in 1 .. L - 1 /\ k + 1 \in 1 .. N
      BY <1>4
    <3>2. \A k \in 1 .. N - 1 : v'[d[k]] = v[c[k + 1]]
      BY <1>5, <1>11, <3>1
    <3>3. \A k \in 1 .. N - 1 : v[c[k + 1]] = queueContent[k + 1]
      BY <1>9, <3>1
    <3> QED
      BY <1>7, <3>2, <3>3
  <2> QED
    BY <1>7, <1>8, <2>1, <2>2, <2>3, <2>4 DEF Queue!IsChain
<1>13. queueLive' = {d[k] : k \in 1 .. L - 1}
  <2>1. ASSUME NEW m \in queueLive' PROVE \E k \in 1 .. L - 1 : m = d[k]
    <3>1. PICK k \in 1 .. L : m = c[k] /\ k # 1
      BY <1>5, <1>9
    <3>2. k - 1 \in 1 .. L - 1 /\ k - 1 + 1 = k
      BY <3>1
    <3> QED
      BY <1>11, <3>1, <3>2
  <2> QED
    BY <1>11, <2>1
<1>14. QueueType'
  BY <1>1, <1>5, <1>7 DEF QueueType
<1> QED
  BY <1>8, <1>12, <1>13, <1>14 DEF QueueInv

LEMMA QueueNext == QueueInv /\ [Queue!Next]_(Queue!queueVars) => QueueInv'
<1> SUFFICES ASSUME QueueInv, [Queue!Next]_(Queue!queueVars) PROVE QueueInv'
  OBVIOUS
<1>1. CASE UNCHANGED Queue!queueVars
  <2>1. PICK c \in [1 .. Queue!Length -> queueLive] :
          Queue!IsChain(c) /\ queueLive = {c[k] : k \in 1 .. Queue!Length}
    BY DEF QueueInv
  <2>2. /\ class' = class /\ head' = head /\ tail' = tail /\ v' = v /\ next' = next
        /\ queueLive' = queueLive /\ queueContent' = queueContent
    BY <1>1 DEF Queue!queueVars
  <2>3. Queue!Length' = Queue!Length
    BY <2>2 DEF Queue!Length
  <2>4. Queue!IsChain(c)'
    BY <2>1, <2>2, <2>3 DEF Queue!IsChain
  <2>5. QueueType'
    BY <2>2 DEF QueueInv, QueueType
  <2> QED
    BY <2>1, <2>2, <2>3, <2>4, <2>5 DEF QueueInv
<1>2. CASE Queue!TryPopNothing
  BY <1>1, <1>2 DEF Queue!TryPopNothing
<1> QED
  BY <1>1, <1>2, QueuePush, QueuePop DEF Queue!Next

(* Queue and DummyQueue, over any memory: elements come out as they went    *)
(* in, and the chain from head_ to tail_ is made of exactly the live nodes. *)
THEOREM QueuesHold == MCSpec => []QueueHolds
<1>1. MCInit => QueueInv
  BY QueueInit DEF MCInit
<1>2. QueueInv /\ [MCNext]_mcVars => QueueInv'
  <2> SUFFICES ASSUME QueueInv, [MCNext]_mcVars PROVE QueueInv'
    OBVIOUS
  <2>1. [Queue!Next]_(Queue!queueVars)
    BY DEF MCNext, mcVars, queueVars, Queue!queueVars, Run
  <2> QED
    BY <2>1, QueueNext
<1>3. QueueInv => QueueHolds
  <2> SUFFICES ASSUME QueueInv PROVE Queue!QueueHolds
    BY DEF QueueHolds
  <2>1. QueueType
    BY DEF QueueInv
  <2>2. PICK c \in [1 .. Queue!Length -> queueLive] :
          Queue!IsChain(c) /\ queueLive = {c[k] : k \in 1 .. Queue!Length}
    BY DEF QueueInv
  <2>3. Queue!Empty <=> queueContent = <<>>
    BY <2>1, <2>2, EmptyIs
  <2>4. queueContent # <<>> => Queue!Popped = Head(queueContent)
    <3>1. queueContent # <<>> =>
            1 \in 1 .. Len(queueContent) /\ Head(queueContent) = queueContent[1]
      BY <2>1 DEF QueueType
    <3>2. queueContent # <<>> => Queue!Length # 0
      BY <2>1, <3>1, LengthIs
    <3>3. queueContent # <<>> => v[head] = queueContent[1]
      BY <2>2, <3>1, <3>2 DEF Queue!IsChain
    <3> QED
      BY <2>3, <3>1, <3>3 DEF Queue!Popped
  <2> QED
    BY <2>2, <2>3, <2>4 DEF Queue!QueueHolds
<1> QED
  BY <1>1, <1>2, <1>3, PTL DEF MCSpec

-----------------------------------------------------------------------------
(* Vector                                                                   *)

(* What the vector holds is placed in its buffer, and nothing else is in    *)
(* memory.  Without a vector the pool may be in any state: a constructor    *)
(* starts a new one.                                                        *)
BufferHolds ==
  /\ PoolShape(pool) /\ LinksOK(pool) /\ UnitsOK(pool, live)
  /\ pool.firstBlock # Null
  /\ vector = [first |-> vector.first, last |-> vector.last, end |-> vector.end]
  /\ vector.first \in UnitRecord
  /\ live = {vector.first}
  /\ vector.last \in Nat /\ vector.end \in Nat /\ vector.end > 0
  /\ vector.last <= vector.end /\ vector.end <= vector.first.length
  /\ content \in Seq(Values) /\ Len(content) = vector.last
  /\ object = Placed(vector.first, content)

VectorKept ==
  /\ user = "program" => vector = Null
  /\ IF vector = Null THEN object = <<>> ELSE BufferHolds

LEMMA PlacedIs ==
  ASSUME NEW u \in UnitRecord, NEW x \in Seq(Values)
  PROVE  /\ DOMAIN Placed(u, x) = Words(u, Len(x))
         /\ \A i \in 1 .. Len(x) : /\ Word(u, i - 1) \in Words(u, Len(x))
                                   /\ Placed(u, x)[Word(u, i - 1)] = x[i]
<1>1. Len(x) \in Nat /\ u.at \in Int /\ UnitHeader \in Int
  BY PoolAssumption DEF UnitRecord
<1>2. ASSUME NEW i \in 1 .. Len(x)
      PROVE  /\ Word(u, i - 1) \in Words(u, Len(x))
             /\ Placed(u, x)[Word(u, i - 1)] = x[i]
  <2>1. i - 1 \in 0 .. Len(x) - 1
    BY <1>1
  <2>2. Word(u, i - 1) \in Words(u, Len(x))
    BY <2>1 DEF Words
  <2>3. Word(u, i - 1)[2] - (u.at + UnitHeader) + 1 = i
    BY <1>1 DEF Word
  <2> QED
    BY <2>2, <2>3 DEF Placed
<1> QED
  BY <1>2 DEF Placed

(* A function that is x on the words behind u is x placed there.            *)
LEMMA PlacedThere ==
  ASSUME NEW u \in UnitRecord, NEW x \in Seq(Values), NEW f,
         f = [w \in DOMAIN f |-> f[w]], DOMAIN f = Words(u, Len(x)),
         \A i \in 1 .. Len(x) : f[Word(u, i - 1)] = x[i]
  PROVE  f = Placed(u, x)
<1>1. Len(x) \in Nat
  OBVIOUS
<1>2. ASSUME NEW w \in Words(u, Len(x)) PROVE f[w] = Placed(u, x)[w]
  <2>1. PICK i \in 0 .. Len(x) - 1 : w = Word(u, i)
    BY DEF Words
  <2>2. i + 1 \in 1 .. Len(x) /\ (i + 1) - 1 = i
    BY <1>1
  <2> QED
    BY <2>1, <2>2, PlacedIs
<1> QED
  BY <1>2, PlacedIs DEF Placed

LEMMA WordsApart ==
  ASSUME NEW u \in UnitRecord, NEW i \in Int, NEW j \in Int, Word(u, i) = Word(u, j)
  PROVE  i = j
<1>1. u.at \in Int /\ UnitHeader \in Int
  BY PoolAssumption DEF UnitRecord
<1>2. u.at + UnitHeader + i = u.at + UnitHeader + j
  BY DEF Word
<1> QED
  BY <1>1, <1>2

LEMMA ElementsAre ==
  ASSUME BufferHolds
  PROVE  Elements(vector.first, vector.last) = content
<1>1. \A i \in 1 .. Len(content) : object[Word(vector.first, i - 1)] = content[i]
  BY PlacedIs DEF BufferHolds
<1>2. content = [i \in 1 .. Len(content) |-> content[i]]
  BY DEF BufferHolds
<1> QED
  BY <1>1, <1>2 DEF Elements, BufferHolds

LEMMA NothingLeft ==
  ASSUME BufferHolds
  PROVE  Restrict(object, DOMAIN object \ Words(vector.first, vector.last)) = <<>>
<1>1. DOMAIN object = Words(vector.first, vector.last)
  BY PlacedIs DEF BufferHolds
<1>2. DOMAIN object \ Words(vector.first, vector.last) = {}
  BY <1>1
<1> QED
  BY <1>2 DEF Restrict

LEMMA AddedToNothing == ASSUME NEW f, f = [w \in DOMAIN f |-> f[w]]
                        PROVE  Added(<<>>, f) = f
<1>1. DOMAIN <<>> = {}
  OBVIOUS
<1> QED
  BY <1>1 DEF Added

(* A unit of a pool in which old is in use.                                 *)
LEMMA NewUnit ==
  ASSUME NEW p, NEW L, NEW size \in Nat, NEW b,
         PoolShape(p), LinksOK(p), UnitsOK(p, L), p.firstBlock # Null, b \in Fresh(p)
  PROVE  LET q == Roomy(p, size, b)
             u == NextUnit(q, size)
         IN  /\ PoolShape(WithUnit(q, size)) /\ LinksOK(WithUnit(q, size))
             /\ UnitsOK(WithUnit(q, size), L \cup {u})
             /\ WithUnit(q, size).firstBlock # Null
             /\ u \in UnitRecord /\ u.length = size /\ u \notin L
<1> DEFINE q == Roomy(p, size, b)
           u == NextUnit(q, size)
           h == q.block[q.currentBlock]
<1>1. /\ PoolShape(q) /\ LinksOK(q) /\ UnitsOK(q, L) /\ q.firstBlock # Null
      /\ h.offset + UnitHeader + size <= h.blockSize
  BY RoomyOK
<1> HIDE DEF q
<1>2. /\ PoolShape(WithUnit(q, size)) /\ LinksOK(WithUnit(q, size))
      /\ UnitsOK(WithUnit(q, size), L \cup {u})
      /\ WithUnit(q, size).firstBlock # Null
  BY <1>1, WithUnitOK
<1>3. u = [container |-> q.currentBlock, at |-> h.offset, length |-> size]
  BY DEF NextUnit
<1> HIDE DEF u
<1>4. u \in UnitRecord
  BY <1>2 DEF UnitsOK
<1>5. u \notin L
  <2> SUFFICES ASSUME u \in L PROVE FALSE
    OBVIOUS
  <2>1. End(u) <= h.offset
    BY <1>1, <1>3 DEF UnitsOK, Apart
  <2>2. u.at = h.offset /\ u.length = size /\ u.at \in Nat
    BY <1>3, <1>4 DEF UnitRecord
  <2> QED
    BY <2>1, <2>2, PoolAssumption DEF End
<1> QED
  BY <1>2, <1>3, <1>4, <1>5 DEF q, u

LEMMA RecordIsNotNull ==
  ASSUME NEW u \in UnitRecord, NEW m \in Nat, NEW n \in Nat
  PROVE  [first |-> u, last |-> m, end |-> n] # Null
BY PoolVectorAssumption

LEMMA ConstructHolds ==
  ASSUME NEW x \in Seq(Values), NEW n \in Nat, n > 0, Len(x) <= n,
         ConstructVector(x, n)
  PROVE  vector' # Null /\ BufferHolds'
<1>1. PICK b \in Blocks : \E c \in Blocks \ {b} :
        LET p == Roomy(Constructed(b), n, c)
            u == NextUnit(p, n)
        IN  /\ pool' = WithUnit(p, n)
            /\ live' = {u}
            /\ vector' = [first |-> u, last |-> Len(x), end |-> n]
            /\ object' = Placed(u, x)
  BY DEF ConstructVector
<1>0. PICK c \in Blocks \ {b} :
        LET p == Roomy(Constructed(b), n, c)
            u == NextUnit(p, n)
        IN  /\ pool' = WithUnit(p, n)
            /\ live' = {u}
            /\ vector' = [first |-> u, last |-> Len(x), end |-> n]
            /\ object' = Placed(u, x)
  BY <1>1
<1> DEFINE o == Constructed(b)
           u == NextUnit(Roomy(o, n, c), n)
<1>2. /\ PoolShape(o) /\ LinksOK(o) /\ o.firstBlock # Null /\ UnitsOK(o, {})
  BY ConstructedOK
<1>3. c \in Fresh(o)
  BY DEF Fresh, Constructed, Created, NoPool, Linked
<1>4. /\ pool' = WithUnit(Roomy(o, n, c), n) /\ live' = {u}
      /\ vector' = [first |-> u, last |-> Len(x), end |-> n]
      /\ object' = Placed(u, x)
  BY <1>0
<1> HIDE DEF o
<1>5. /\ PoolShape(pool') /\ LinksOK(pool') /\ UnitsOK(pool', {} \cup {u})
      /\ pool'.firstBlock # Null /\ u \in UnitRecord /\ u.length = n
  <2>1. /\ PoolShape(o) /\ LinksOK(o) /\ UnitsOK(o, {}) /\ o.firstBlock # Null
        /\ c \in Fresh(o) /\ n \in Nat
    BY <1>2, <1>3
  <2>2. LET q == Roomy(o, n, c)
            w == NextUnit(q, n)
        IN  /\ PoolShape(WithUnit(q, n)) /\ LinksOK(WithUnit(q, n))
            /\ UnitsOK(WithUnit(q, n), {} \cup {w})
            /\ WithUnit(q, n).firstBlock # Null
            /\ w \in UnitRecord /\ w.length = n /\ w \notin {}
    BY <2>1, NewUnit, Zenon
  <2> QED
    BY <1>4, <2>2
<1> HIDE DEF u
<1>6. {} \cup {u} = live' /\ content' = x /\ Len(x) \in Nat
  BY <1>4 DEF ConstructVector
<1>7. vector' # Null
  BY <1>4, <1>5, <1>6, RecordIsNotNull
<1> QED
  BY <1>4, <1>5, <1>6, <1>7 DEF BufferHolds

LEMMA RegrowHolds ==
  ASSUME BufferHolds, NEW x \in Seq(Values), NEW n \in Nat, n > 0,
         vector.last + Len(x) <= n, Regrow(n, x), content' = content \o x
  PROVE  vector' # Null /\ BufferHolds'
<1> DEFINE old == vector.first
<1>1. PICK b \in Fresh(pool) :
        LET p == Roomy(pool, n, b)
            new == NextUnit(p, n)
        IN  /\ pool' = Deallocated(WithUnit(p, n), old)
            /\ live' = (live \ {old}) \cup {new}
            /\ object' = Added(Restrict(object, DOMAIN object \ Words(old, vector.last)),
                               Placed(new, Elements(old, vector.last) \o x))
            /\ vector' = [first |-> new, last |-> vector.last + Len(x), end |-> n]
  BY DEF Regrow
<1> DEFINE new == NextUnit(Roomy(pool, n, b), n)
           q == WithUnit(Roomy(pool, n, b), n)
<1>2. /\ PoolShape(q) /\ LinksOK(q) /\ UnitsOK(q, live \cup {new})
      /\ q.firstBlock # Null /\ new \in UnitRecord /\ new.length = n /\ new \notin live
  <2>1. /\ PoolShape(pool) /\ LinksOK(pool) /\ UnitsOK(pool, live)
        /\ pool.firstBlock # Null /\ b \in Fresh(pool) /\ n \in Nat
    BY DEF BufferHolds
  <2>2. LET r == Roomy(pool, n, b)
            w == NextUnit(r, n)
        IN  /\ PoolShape(WithUnit(r, n)) /\ LinksOK(WithUnit(r, n))
            /\ UnitsOK(WithUnit(r, n), live \cup {w})
            /\ WithUnit(r, n).firstBlock # Null
            /\ w \in UnitRecord /\ w.length = n /\ w \notin live
    BY <2>1, NewUnit, Zenon
  <2> QED
    BY <2>2
<1>3. /\ pool' = Deallocated(q, old) /\ live' = (live \ {old}) \cup {new}
      /\ vector' = [first |-> new, last |-> vector.last + Len(x), end |-> n]
      /\ object' = Added(<<>>, Placed(new, content \o x))
  BY <1>1, NothingLeft, ElementsAre
<1> HIDE DEF new, q
<1>4. live = {old} /\ old \in live \cup {new} /\ (live \cup {new}) \ {old} = {new}
  BY <1>2 DEF BufferHolds
<1>5. /\ PoolShape(pool') /\ LinksOK(pool') /\ UnitsOK(pool', {new})
      /\ pool'.firstBlock # Null
  <2>1. /\ PoolShape(Deallocated(q, old)) /\ LinksOK(Deallocated(q, old))
        /\ UnitsOK(Deallocated(q, old), (live \cup {new}) \ {old})
        /\ Deallocated(q, old).firstBlock # Null
    BY <1>2, <1>4, DeallocatedOK, Zenon
  <2>2. pool' = Deallocated(q, old) /\ (live \cup {new}) \ {old} = {new}
    BY <1>3, <1>4
  <2> QED
    BY <2>1, <2>2, Zenon
<1>6. live' = {new}
  BY <1>3, <1>4
<1>7. content' \in Seq(Values) /\ Len(content') = vector.last + Len(x)
  <2>1. content \in Seq(Values) /\ Len(content) = vector.last
    BY DEF BufferHolds
  <2>2. content \o x \in Seq(Values) /\ Len(content \o x) = Len(content) + Len(x)
    BY <2>1, ConcatProperties, Zenon
  <2> QED
    BY <2>1, <2>2, Zenon
<1>8. object' = Placed(new, content')
  <2>1. Placed(new, content \o x)
          = [w \in DOMAIN Placed(new, content \o x) |-> Placed(new, content \o x)[w]]
    BY DEF Placed
  <2> QED
    BY <1>3, <2>1, AddedToNothing
<1>9. vector.last + Len(x) \in Nat
  BY DEF BufferHolds
<1>10. vector' # Null
  BY <1>2, <1>3, <1>9, RecordIsNotNull
<1>11. /\ vector'.first = new /\ vector'.last = vector.last + Len(x) /\ vector'.end = n
       /\ vector' = [first |-> vector'.first, last |-> vector'.last, end |-> vector'.end]
  BY <1>3
<1>12. vector.last + Len(x) <= n /\ n <= new.length
  BY <1>2
<1> QED
  BY <1>2, <1>5, <1>6, <1>7, <1>8, <1>9, <1>10, <1>11, <1>12 DEF BufferHolds

(* A step that only changes how many elements are in the buffer.            *)
LEMMA InPlaceHolds ==
  ASSUME BufferHolds, NEW n \in Nat, n <= vector.end,
         vector' = [vector EXCEPT !.last = n], UNCHANGED poolVars,
         content' \in Seq(Values), Len(content') = n,
         object' = [w \in DOMAIN object' |-> object'[w]],
         DOMAIN object' = Words(vector.first, n),
         \A i \in 1 .. n : object'[Word(vector.first, i - 1)] = content'[i]
  PROVE  vector' # Null /\ BufferHolds'
<1>1. vector' = [first |-> vector.first, last |-> n, end |-> vector.end]
  BY DEF BufferHolds
<1>2. object' = Placed(vector.first, content')
  BY PlacedThere DEF BufferHolds
<1>3. vector' # Null
  BY <1>1, RecordIsNotNull DEF BufferHolds
<1> QED
  BY <1>1, <1>2, <1>3 DEF BufferHolds, poolVars

LEMMA PushBackHolds ==
  ASSUME BufferHolds, NEW x \in Values, PushBack(x)
  PROVE  vector' # Null /\ BufferHolds'
<1> DEFINE u == vector.first
           n == vector.last
<1>1. /\ content \in Seq(Values) /\ Len(content) = n /\ n \in Nat /\ u \in UnitRecord
      /\ vector.end \in Nat /\ vector.end > 0 /\ n <= vector.end
  BY DEF BufferHolds
<1>2. /\ content' = Append(content, x) /\ content' \in Seq(Values) /\ Len(content') = n + 1
      /\ content'[n + 1] = x /\ \A i \in 1 .. n : content'[i] = content[i]
  BY <1>1 DEF PushBack
<1>3. CASE n < vector.end
  <2> DEFINE g == [w \in {Word(u, n)} |-> x]
  <2>1. /\ object' = Added(object, g) /\ vector' = [vector EXCEPT !.last = n + 1]
        /\ UNCHANGED poolVars
    BY <1>1, <1>3 DEF PushBack
  <2>2. DOMAIN object = Words(u, n) /\ \A i \in 1 .. n : object[Word(u, i - 1)] = content[i]
    BY <1>1, PlacedIs DEF BufferHolds
  <2>3. Words(u, n + 1) = Words(u, n) \cup {Word(u, n)}
    <3>1. 0 .. n + 1 - 1 = (0 .. n - 1) \cup {n}
      BY <1>1
    <3> QED
      BY <3>1 DEF Words
  <2>4. /\ object' = [w \in DOMAIN object' |-> object'[w]]
        /\ DOMAIN object' = Words(u, n + 1)
        /\ object'[Word(u, n)] = x
        /\ \A w \in Words(u, n) \ {Word(u, n)} : object'[w] = object[w]
    BY <2>1, <2>2, <2>3 DEF Added
  <2>5. ASSUME NEW i \in 1 .. n + 1 PROVE object'[Word(u, i - 1)] = content'[i]
    <3>1. CASE i = n + 1
      <4>1. i - 1 = n
        BY <1>1, <3>1
      <4> QED
        BY <1>2, <2>4, <3>1, <4>1
    <3>2. CASE i # n + 1
      <4>1. i \in 1 .. n /\ i - 1 \in 0 .. n - 1 /\ i - 1 # n
        BY <1>1, <3>2
      <4>2. Word(u, i - 1) \in Words(u, n) /\ Word(u, i - 1) # Word(u, n)
        BY <1>1, <4>1, WordsApart DEF Words
      <4> QED
        BY <1>2, <2>2, <2>4, <4>1, <4>2
    <3> QED
      BY <3>1, <3>2
  <2>6. n + 1 \in Nat /\ n + 1 <= vector.end
    BY <1>1, <1>3
  <2> HIDE DEF g, u, n
  <2> QED
    BY <1>2, <2>1, <2>4, <2>5, <2>6, InPlaceHolds DEF u
<1>4. CASE ~(n < vector.end)
  <2>1. Regrow(2 * vector.end, <<x>>) /\ n = vector.end
    BY <1>1, <1>4 DEF PushBack
  <2>2. /\ <<x>> \in Seq(Values) /\ Len(<<x>>) = 1 /\ content' = content \o <<x>>
        /\ 2 * vector.end \in Nat /\ 2 * vector.end > 0
        /\ n + Len(<<x>>) <= 2 * vector.end
    BY <1>1, <1>2, <2>1
  <2> QED
    BY <2>1, <2>2, RegrowHolds
<1> QED
  BY <1>3, <1>4

LEMMA PopBackHolds ==
  ASSUME BufferHolds, PopBack
  PROVE  vector' # Null /\ BufferHolds'
<1> DEFINE u == vector.first
           n == vector.last
<1>1. /\ content \in Seq(Values) /\ Len(content) = n /\ n \in Nat /\ u \in UnitRecord
      /\ vector.end \in Nat /\ n <= vector.end /\ n > 0
  BY DEF BufferHolds, PopBack
<1>2. /\ vector' = [vector EXCEPT !.last = n - 1] /\ UNCHANGED poolVars
      /\ object' = Restrict(object, DOMAIN object \ {Word(u, n - 1)})
      /\ content' = SubSeq(content, 1, n - 1)
  BY <1>1 DEF PopBack, Front
<1>3. /\ content' \in Seq(Values) /\ Len(content') = n - 1
      /\ \A i \in 1 .. n - 1 : content'[i] = content[i]
  <2>1. \A i \in 1 .. n - 1 : content[i] \in Values
    BY <1>1
  <2>2. /\ SubSeq(content, 1, n - 1) \in Seq(Values)
        /\ Len(SubSeq(content, 1, n - 1)) = IF 1 <= n - 1 THEN n - 1 - 1 + 1 ELSE 0
        /\ \A i \in 1 .. n - 1 - 1 + 1 : SubSeq(content, 1, n - 1)[i] = content[1 + i - 1]
    BY <1>1, <2>1, SubSeqProperties
  <2>3. \A i \in 1 .. n - 1 : i \in 1 .. n - 1 - 1 + 1 /\ 1 + i - 1 = i
    BY <1>1
  <2> QED
    BY <1>1, <1>2, <2>2, <2>3
<1>4. DOMAIN object = Words(u, n) /\ \A i \in 1 .. n : object[Word(u, i - 1)] = content[i]
  BY <1>1, PlacedIs DEF BufferHolds
<1>5. Words(u, n) \ {Word(u, n - 1)} = Words(u, n - 1)
  <2>1. 0 .. n - 1 = (0 .. n - 1 - 1) \cup {n - 1}
    BY <1>1
  <2>2. \A i \in 0 .. n - 1 - 1 : Word(u, i) # Word(u, n - 1)
    <3> SUFFICES ASSUME NEW i \in 0 .. n - 1 - 1 PROVE Word(u, i) # Word(u, n - 1)
      OBVIOUS
    <3>1. i \in Int /\ n - 1 \in Int /\ i # n - 1
      BY <1>1
    <3> QED
      BY <1>1, <3>1, WordsApart
  <2> QED
    BY <2>1, <2>2 DEF Words
<1>6. /\ object' = [w \in DOMAIN object' |-> object'[w]]
      /\ DOMAIN object' = Words(u, n - 1)
      /\ \A w \in Words(u, n - 1) : object'[w] = object[w]
  BY <1>2, <1>4, <1>5 DEF Restrict
<1>7. ASSUME NEW i \in 1 .. n - 1 PROVE object'[Word(u, i - 1)] = content'[i]
  <2>1. i - 1 \in 0 .. n - 1 - 1 /\ i \in 1 .. n
    BY <1>1
  <2>2. Word(u, i - 1) \in Words(u, n - 1)
    BY <2>1 DEF Words
  <2> QED
    BY <1>3, <1>4, <1>6, <2>1, <2>2
<1>8. n - 1 \in Nat /\ n - 1 <= vector.end
  BY <1>1
<1> HIDE DEF u, n
<1> QED
  BY <1>2, <1>3, <1>6, <1>7, <1>8, InPlaceHolds DEF u

LEMMA ClearHolds ==
  ASSUME BufferHolds, Clear
  PROVE  vector' # Null /\ BufferHolds'
<1>1. vector' = [vector EXCEPT !.last = 0] /\ UNCHANGED poolVars /\ content' = <<>>
  BY DEF Clear
<1>2. object' = Restrict(object, DOMAIN object \ Words(vector.first, vector.last))
  BY DEF Clear
<1>3. object' = <<>> /\ DOMAIN object' = {}
  BY <1>2, NothingLeft
<1>4. Words(vector.first, 0) = {}
  <2>1. 0 .. 0 - 1 = {}
    OBVIOUS
  <2> QED
    BY <2>1 DEF Words
<1>5. object' = [w \in DOMAIN object' |-> object'[w]]
  BY <1>2, <1>3 DEF Restrict
<1>6. /\ content' \in Seq(Values) /\ Len(content') = 0 /\ 0 <= vector.end
      /\ \A i \in 1 .. 0 : object'[Word(vector.first, i - 1)] = content'[i]
  BY <1>1 DEF BufferHolds
<1> QED
  BY <1>1, <1>3, <1>4, <1>5, <1>6, InPlaceHolds

LEMMA VectorStep ==
  ASSUME VectorKept, VectorNext
  PROVE  IF vector' = Null THEN object' = <<>> ELSE BufferHolds'
<1>1. CASE ConstructDefault
  <2>1. /\ <<>> \in Seq(Values) /\ 1 \in Nat /\ 1 > 0 /\ Len(<<>>) <= 1
        /\ ConstructVector(<<>>, 1)
    BY <1>1 DEF ConstructDefault
  <2>2. vector' # Null /\ BufferHolds'
    BY <2>1, ConstructHolds, Zenon
  <2> QED
    BY <2>2
<1>2. ASSUME NEW n \in 1 .. MaxCapacity \div 2, ConstructSized(n)
      PROVE  BufferHolds' /\ vector' # Null
  <2>1. n \in Nat /\ n > 0 /\ 2 * n \in Nat /\ 2 * n > 0 /\ n <= 2 * n
    BY PoolVectorAssumption
  <2>2. PICK x \in Seq(Values) : x = [i \in 1 .. n |-> Zero] /\ Len(x) = n
    <3>1. [i \in 1 .. n |-> Zero] \in [1 .. n -> Values]
      BY PoolVectorAssumption
    <3>2. PICK x \in [1 .. n -> Values] : x = [i \in 1 .. n |-> Zero]
      BY <3>1
    <3>3. x \in Seq(Values) /\ Len(x) = n
      BY <2>1
    <3> QED
      BY <3>2, <3>3
  <2>3. ConstructVector(x, 2 * n)
    BY <1>2, <2>2 DEF ConstructSized
  <2> QED
    BY <2>1, <2>2, <2>3, ConstructHolds
<1>3. ASSUME NEW n \in 1 .. MaxCapacity \div 2, NEW x \in [1 .. n -> Values],
             ConstructList(x)
      PROVE  BufferHolds' /\ vector' # Null
  <2>1. n \in Nat /\ n > 0 /\ 2 * n \in Nat /\ 2 * n > 0 /\ n <= 2 * n
    BY PoolVectorAssumption
  <2>2. x \in Seq(Values) /\ Len(x) = n
    BY <2>1
  <2>3. ConstructVector(x, 2 * n)
    BY <1>3, <2>2 DEF ConstructList
  <2> QED
    BY <2>1, <2>2, <2>3, ConstructHolds
<1>4. ASSUME NEW n \in 1 .. MaxCapacity, Reserve(n) PROVE BufferHolds' /\ vector' # Null
  <2>1. BufferHolds /\ vector.end < n /\ Regrow(n, <<>>) /\ content' = content
    BY <1>4 DEF Reserve, VectorKept
  <2>2. n \in Nat /\ n > 0 /\ <<>> \in Seq(Values) /\ Len(<<>>) = 0
    BY PoolVectorAssumption
  <2>3. vector.last + 0 <= n /\ content' = content \o <<>>
    BY <2>1, <2>2 DEF BufferHolds
  <2> QED
    BY <2>1, <2>2, <2>3, RegrowHolds
<1>5. ASSUME NEW x \in Values, PushBack(x) PROVE BufferHolds' /\ vector' # Null
  <2>1. BufferHolds
    BY <1>5 DEF PushBack, VectorKept
  <2> QED
    BY <1>5, <2>1, PushBackHolds
<1>6. CASE PopBack
  <2>1. BufferHolds
    BY <1>6 DEF PopBack, VectorKept
  <2> QED
    BY <1>6, <2>1, PopBackHolds
<1>7. CASE Clear
  <2>1. BufferHolds
    BY <1>7 DEF Clear, VectorKept
  <2> QED
    BY <1>7, <2>1, ClearHolds
<1>8. CASE DestroyVector
  <2>1. BufferHolds /\ vector' = Null
    BY <1>8 DEF DestroyVector, VectorKept
  <2>2. object' = Restrict(object, DOMAIN object \ Words(vector.first, vector.last))
    BY <1>8 DEF DestroyVector
  <2> QED
    BY <2>1, <2>2, NothingLeft
<1> QED
  BY <1>1, <1>2, <1>3, <1>4, <1>5, <1>6, <1>7, <1>8 DEF VectorNext

(* A Vector over a pool of any sizes of blocks and headers keeps what was   *)
(* put into it, in the only unit of its pool: growing neither loses,        *)
(* repeats nor leaks an element, and no element is written past its buffer. *)
THEOREM VectorsHold == MCSpec => []VectorHolds
<1>1. MCInit => VectorKept
  BY DEF MCInit, VectorInit, VectorKept
<1>2. VectorKept /\ [MCNext]_mcVars => VectorKept'
  <2> SUFFICES ASSUME VectorKept, [MCNext]_mcVars PROVE VectorKept'
    OBVIOUS
  <2>1. CASE Run("vector") /\ VectorNext
    <3>1. IF vector' = Null THEN object' = <<>> ELSE BufferHolds'
      BY <2>1, VectorStep
    <3>2. user' = "vector"
      BY <2>1 DEF Run
    <3> QED
      BY <3>1, <3>2 DEF VectorKept
  <2>2. CASE Run("program") /\ UNCHANGED vectorVars
    BY <2>2 DEF Run, vectorVars, VectorKept
  <2>3. CASE UNCHANGED <<user, poolVars, vectorVars>>
    BY <2>3 DEF poolVars, vectorVars, VectorKept, BufferHolds
  <2> QED
    BY <2>1, <2>2, <2>3 DEF MCNext, mcVars, Run
<1>3. VectorKept => VectorHolds
  <2> SUFFICES ASSUME VectorKept, vector # Null PROVE VectorHolds
    BY DEF VectorKept, VectorHolds
  <2>1. BufferHolds
    BY DEF VectorKept
  <2>2. DOMAIN object = Words(vector.first, vector.last)
    BY <2>1, PlacedIs DEF BufferHolds
  <2>3. Elements(vector.first, vector.last) = content
    BY <2>1, ElementsAre
  <2> QED
    BY <2>1, <2>2, <2>3 DEF BufferHolds, VectorHolds
<1> QED
  BY <1>1, <1>2, <1>3, PTL DEF MCSpec

-----------------------------------------------------------------------------
(* LFUCache: what the lists hold for each frequency.                        *)
Filing == [key : Keys, val : Values]
FilingList == [freq : 1 .. MaxFreq, nodes : Seq(Filing)]
FreqsOf(L) == {L[i].freq : i \in 1 .. Len(L)}

(* The lists ascend, and N takes a frequency to the nodes in its list: to   *)
(* none if it has no list, since no list is empty.                          *)
Shows(L, N) ==
  /\ L \in Seq(FilingList)
  /\ \A i, j \in 1 .. Len(L) : i < j => L[i].freq < L[j].freq
  /\ N \in [Nat -> Seq(Filing)]
  /\ \A i \in 1 .. Len(L) : L[i].nodes # <<>> /\ N[L[i].freq] = L[i].nodes
  /\ \A f \in Nat : N[f] # <<>> => f \in FreqsOf(L)

(* The node of every key in e is filed under its uses and has its value,    *)
(* and of two nodes in a list the one behind has not been used since.       *)
Filed(N, e, o) ==
  /\ \A f \in Nat : \A j \in 1 .. Len(N[f]) :
       /\ N[f][j].key \in DOMAIN e
       /\ e[N[f][j].key].uses = f
       /\ e[N[f][j].key].val = N[f][j].val
  /\ \A f \in Nat : \A i, j \in 1 .. Len(N[f]) :
       i < j => N[f][i].key # N[f][j].key /\ <<N[f][j].key, N[f][i].key>> \in o
  /\ \A k \in DOMAIN e :
       /\ e[k].uses \in Nat
       /\ \E j \in 1 .. Len(N[e[k].uses]) : N[e[k].uses][j].key = k

Taken(N, f, j) == [N EXCEPT ![f] = RemoveAt(@, j)]
PutIn(N, g, n) == [N EXCEPT ![g] = <<n>> \o @]

LEMMA RemoveAtIs ==
  ASSUME NEW S, NEW s \in Seq(S), NEW i \in 1 .. Len(s)
  PROVE  /\ RemoveAt(s, i) \in Seq(S) /\ Len(RemoveAt(s, i)) = Len(s) - 1
         /\ \A j \in 1 .. Len(s) - 1 :
              RemoveAt(s, i)[j] = IF j < i THEN s[j] ELSE s[j + 1]
<1>1. Len(s) \in Nat /\ (\A j \in 1 .. Len(s) : s[j] \in S) /\ i \in Int
  OBVIOUS
<1>2. (\A j \in 1 .. i - 1 : s[j] \in S) /\ (\A j \in i + 1 .. Len(s) : s[j] \in S)
  BY <1>1
<1> DEFINE a == SubSeq(s, 1, i - 1)
           b == SubSeq(s, i + 1, Len(s))
<1>3. /\ a \in Seq(S) /\ Len(a) = (IF 1 <= i - 1 THEN i - 1 - 1 + 1 ELSE 0)
      /\ \A j \in 1 .. i - 1 - 1 + 1 : a[j] = s[1 + j - 1]
  BY <1>1, <1>2, SubSeqProperties
<1>4. /\ b \in Seq(S)
      /\ Len(b) = (IF i + 1 <= Len(s) THEN Len(s) - (i + 1) + 1 ELSE 0)
      /\ \A j \in 1 .. Len(s) - (i + 1) + 1 : b[j] = s[i + 1 + j - 1]
  BY <1>1, <1>2, SubSeqProperties
<1>5. RemoveAt(s, i) = a \o b
  BY DEF RemoveAt
<1> HIDE DEF a, b
<1>6. Len(a) = i - 1 /\ Len(b) = Len(s) - i
  BY <1>1, <1>3, <1>4
<1>7. /\ a \o b \in Seq(S) /\ Len(a \o b) = Len(a) + Len(b)
      /\ \A j \in 1 .. Len(a) + Len(b) :
           (a \o b)[j] = IF j <= Len(a) THEN a[j] ELSE b[j - Len(a)]
  BY <1>3, <1>4, ConcatProperties
<1>8. ASSUME NEW j \in 1 .. Len(s) - 1
      PROVE  (a \o b)[j] = IF j < i THEN s[j] ELSE s[j + 1]
  <2>1. j \in 1 .. Len(a) + Len(b)
    BY <1>1, <1>6
  <2>2. CASE j < i
    <3>1. j <= Len(a) /\ j \in 1 .. i - 1 - 1 + 1 /\ 1 + j - 1 = j
      BY <1>1, <1>6, <2>2
    <3> QED
      BY <1>3, <1>7, <2>1, <2>2, <3>1
  <2>3. CASE ~(j < i)
    <3>1. /\ ~(j <= Len(a)) /\ j - Len(a) \in 1 .. Len(s) - (i + 1) + 1
          /\ i + 1 + (j - Len(a)) - 1 = j + 1
      BY <1>1, <1>6, <2>3
    <3> QED
      BY <1>4, <1>7, <2>1, <2>3, <3>1
  <2> QED
    BY <2>2, <2>3
<1> QED
  BY <1>1, <1>5, <1>6, <1>7, <1>8

LEMMA InsertAtIs ==
  ASSUME NEW S, NEW s \in Seq(S), NEW i \in 1 .. Len(s) + 1, NEW e \in S
  PROVE  /\ InsertAt(s, i, e) \in Seq(S) /\ Len(InsertAt(s, i, e)) = Len(s) + 1
         /\ \A j \in 1 .. Len(s) + 1 :
              InsertAt(s, i, e)[j] =
                IF j < i THEN s[j] ELSE IF j = i THEN e ELSE s[j - 1]
<1>1. Len(s) \in Nat /\ (\A j \in 1 .. Len(s) : s[j] \in S) /\ i \in Int
  OBVIOUS
<1>2. (\A j \in 1 .. i - 1 : s[j] \in S) /\ (\A j \in i .. Len(s) : s[j] \in S)
  BY <1>1
<1> DEFINE a == SubSeq(s, 1, i - 1)
           b == SubSeq(s, i, Len(s))
           c == a \o <<e>>
<1>3. /\ a \in Seq(S) /\ Len(a) = (IF 1 <= i - 1 THEN i - 1 - 1 + 1 ELSE 0)
      /\ \A j \in 1 .. i - 1 - 1 + 1 : a[j] = s[1 + j - 1]
  BY <1>1, <1>2, SubSeqProperties
<1>4. /\ b \in Seq(S) /\ Len(b) = (IF i <= Len(s) THEN Len(s) - i + 1 ELSE 0)
      /\ \A j \in 1 .. Len(s) - i + 1 : b[j] = s[i + j - 1]
  BY <1>1, <1>2, SubSeqProperties
<1>5. InsertAt(s, i, e) = c \o b
  BY DEF InsertAt
<1> HIDE DEF a, b
<1>6. Len(a) = i - 1 /\ Len(b) = Len(s) - i + 1
  BY <1>1, <1>3, <1>4
<1>7. /\ c \in Seq(S) /\ Len(c) = i /\ c[i] = e
      /\ \A j \in 1 .. i - 1 : c[j] = a[j]
  BY <1>1, <1>3, <1>6
<1> HIDE DEF c
<1>8. /\ c \o b \in Seq(S) /\ Len(c \o b) = Len(c) + Len(b)
      /\ \A j \in 1 .. Len(c) + Len(b) :
           (c \o b)[j] = IF j <= Len(c) THEN c[j] ELSE b[j - Len(c)]
  BY <1>4, <1>7, ConcatProperties
<1>9. ASSUME NEW j \in 1 .. Len(s) + 1
      PROVE  (c \o b)[j] = IF j < i THEN s[j] ELSE IF j = i THEN e ELSE s[j - 1]
  <2>1. j \in 1 .. Len(c) + Len(b)
    BY <1>1, <1>6, <1>7
  <2>2. CASE j < i
    <3>1. /\ j <= Len(c) /\ j \in 1 .. i - 1 - 1 + 1 /\ 1 + j - 1 = j
          /\ j \in 1 .. i - 1
      BY <1>1, <1>7, <2>2
    <3> QED
      BY <1>3, <1>7, <1>8, <2>1, <2>2, <3>1
  <2>3. CASE j = i
    BY <1>1, <1>7, <1>8, <2>1, <2>3
  <2>4. CASE j > i
    <3>1. /\ ~(j <= Len(c)) /\ j - Len(c) \in 1 .. Len(s) - i + 1
          /\ i + (j - Len(c)) - 1 = j - 1 /\ ~(j < i) /\ j # i
      BY <1>1, <1>6, <1>7, <2>4
    <3>2. (c \o b)[j] = b[j - Len(c)]
      BY <1>8, <2>1, <3>1
    <3>3. b[j - Len(c)] = s[j - 1]
      BY <1>4, <3>1
    <3> QED
      BY <3>1, <3>2, <3>3
  <2>5. j < i \/ j = i \/ j > i
    BY <1>1
  <2> QED
    BY <2>2, <2>3, <2>4, <2>5
<1> QED
  BY <1>1, <1>5, <1>6, <1>7, <1>8, <1>9

LEMMA InFrontIs ==
  ASSUME NEW S, NEW s \in Seq(S), NEW x \in S
  PROVE  /\ <<x>> \o s \in Seq(S) /\ Len(<<x>> \o s) = Len(s) + 1
         /\ (<<x>> \o s)[1] = x
         /\ \A j \in 1 .. Len(s) : (<<x>> \o s)[j + 1] = s[j]
<1>1. <<x>> \in Seq(S) /\ Len(<<x>>) = 1 /\ <<x>>[1] = x /\ Len(s) \in Nat
  OBVIOUS
<1>2. /\ <<x>> \o s \in Seq(S) /\ Len(<<x>> \o s) = 1 + Len(s)
      /\ \A j \in 1 .. 1 + Len(s) :
           (<<x>> \o s)[j] = IF j <= 1 THEN <<x>>[j] ELSE s[j - 1]
  BY <1>1, ConcatProperties
<1>3. \A j \in 1 .. Len(s) : j + 1 \in 1 .. 1 + Len(s) /\ ~(j + 1 <= 1) /\ j + 1 - 1 = j
  BY <1>1
<1> QED
  BY <1>1, <1>2, <1>3

LEMMA IndexIs ==
  ASSUME NEW S, NEW s \in Seq(S)
  PROVE  Len(s) \in Nat /\ \A i \in 1 .. Len(s) : i \in Nat /\ i >= 1
<1>1. Len(s) \in Nat
  BY LenProperties
<1> QED
  BY <1>1

(* Taking a node out of its list, then: the key leaves e.                   *)
LEMMA TakenFiled ==
  ASSUME NEW N \in [Nat -> Seq(Filing)], NEW e, NEW o, Filed(N, e, o),
         NEW f \in Nat, NEW j \in 1 .. Len(N[f]),
         NEW e2, NEW o2,
         DOMAIN e2 = DOMAIN e \ {N[f][j].key},
         \A x \in DOMAIN e2 : e2[x] = e[x],
         \A x, y \in DOMAIN e2 : <<x, y>> \in o => <<x, y>> \in o2
  PROVE  Taken(N, f, j) \in [Nat -> Seq(Filing)] /\ Filed(Taken(N, f, j), e2, o2)
<1> DEFINE M == Taken(N, f, j)
           k == N[f][j].key
<1>a. /\ \A x \in Nat : N[x] \in Seq(Filing) /\ Len(N[x]) \in Nat
      /\ \A x \in Nat : \A i \in 1 .. Len(N[x]) : i \in Nat /\ i >= 1
  <2> SUFFICES ASSUME NEW x \in Nat
               PROVE  /\ N[x] \in Seq(Filing) /\ Len(N[x]) \in Nat
                      /\ \A i \in 1 .. Len(N[x]) : i \in Nat /\ i >= 1
    OBVIOUS
  <2>1. N[x] \in Seq(Filing)
    OBVIOUS
  <2> QED
    BY <2>1, IndexIs
<1>b. \A x \in Nat : \A i \in 1 .. Len(N[x]) :
        /\ N[x][i].key \in DOMAIN e
        /\ e[N[x][i].key].uses = x
        /\ e[N[x][i].key].val = N[x][i].val
  BY DEF Filed
<1>c. \A x \in Nat : \A i, m \in 1 .. Len(N[x]) :
        i < m => N[x][i].key # N[x][m].key /\ <<N[x][m].key, N[x][i].key>> \in o
  BY DEF Filed
<1>d. \A x \in DOMAIN e :
        /\ e[x].uses \in Nat
        /\ \E i \in 1 .. Len(N[e[x].uses]) : N[e[x].uses][i].key = x
  BY DEF Filed
<1>1. N[f] \in Seq(Filing) /\ Len(N[f]) \in Nat
  OBVIOUS
<1>2. /\ RemoveAt(N[f], j) \in Seq(Filing)
      /\ Len(RemoveAt(N[f], j)) = Len(N[f]) - 1
      /\ \A i \in 1 .. Len(N[f]) - 1 :
           RemoveAt(N[f], j)[i] = IF i < j THEN N[f][i] ELSE N[f][i + 1]
  BY <1>1, RemoveAtIs
<1>3. /\ M \in [Nat -> Seq(Filing)] /\ M[f] = RemoveAt(N[f], j)
      /\ \A g \in Nat \ {f} : M[g] = N[g]
  BY <1>2 DEF Taken
<1> HIDE DEF M
(* Every node left was in the same list, and in the same order.             *)
<1>4. ASSUME NEW g \in Nat
      PROVE  \A i \in 1 .. Len(M[g]) :
               \E m \in 1 .. Len(N[g]) :
                 /\ M[g][i] = N[g][m]
                 /\ g = f => m = (IF i < j THEN i ELSE i + 1) /\ m # j
                 /\ g # f => m = i
  <2>1. CASE g = f
    <3>1. ASSUME NEW i \in 1 .. Len(N[f]) - 1
          PROVE  /\ (IF i < j THEN i ELSE i + 1) \in 1 .. Len(N[f])
                 /\ (IF i < j THEN i ELSE i + 1) # j
                 /\ M[f][i] = N[f][IF i < j THEN i ELSE i + 1]
      <4>1. PICK n \in Nat : n = Len(N[f])
        BY <1>1
      <4>2. i \in 1 .. n - 1 /\ j \in 1 .. n
        BY <4>1
      <4>3. M[f][i] = IF i < j THEN N[f][i] ELSE N[f][i + 1]
        BY <1>2, <1>3
      <4>4. CASE i < j
        <5>1. i \in 1 .. n
          BY <4>2
        <5> QED
          BY <4>1, <4>3, <4>4, <5>1
      <4>5. CASE ~(i < j)
        <5>1. i + 1 \in 1 .. n /\ i + 1 # j
          BY <4>2, <4>5
        <5> QED
          BY <4>1, <4>3, <4>5, <5>1
      <4> QED
        BY <4>4, <4>5
    <3> QED
      BY <1>2, <1>3, <2>1, <3>1
  <2>2. CASE g # f
    BY <1>3, <2>2
  <2> QED
    BY <2>1, <2>2
<1>5. ASSUME NEW g \in Nat, NEW m \in 1 .. Len(N[g]), g = f => m # j
      PROVE  N[g][m].key \in DOMAIN e2
  <2>1. N[g][m].key \in DOMAIN e /\ e[N[g][m].key].uses = g /\ e[k].uses = f
    BY <1>b
  <2>2. CASE g = f
    <3>1. m < j \/ j < m
      BY <1>a, <1>5, <2>2
    <3>2. N[f][m].key # N[f][j].key
      BY <1>c, <2>2, <3>1
    <3> QED
      BY <2>1, <2>2, <3>2
  <2>3. CASE g # f
    BY <2>1, <2>3
  <2> QED
    BY <2>2, <2>3
<1>6. \A g \in Nat : \A i \in 1 .. Len(M[g]) :
        /\ M[g][i].key \in DOMAIN e2
        /\ e2[M[g][i].key].uses = g
        /\ e2[M[g][i].key].val = M[g][i].val
  <2> SUFFICES ASSUME NEW g \in Nat, NEW i \in 1 .. Len(M[g])
               PROVE  /\ M[g][i].key \in DOMAIN e2
                      /\ e2[M[g][i].key].uses = g
                      /\ e2[M[g][i].key].val = M[g][i].val
    OBVIOUS
  <2>1. PICK m \in 1 .. Len(N[g]) : M[g][i] = N[g][m] /\ (g = f => m # j)
    BY <1>4
  <2>2. N[g][m].key \in DOMAIN e2
    BY <1>5, <2>1
  <2>3. e[N[g][m].key].uses = g /\ e[N[g][m].key].val = N[g][m].val
    BY <1>b
  <2> QED
    BY <2>1, <2>2, <2>3
<1>7. ASSUME NEW g \in Nat, NEW i \in 1 .. Len(M[g]), NEW i2 \in 1 .. Len(M[g]), i < i2
      PROVE  M[g][i].key # M[g][i2].key /\ <<M[g][i2].key, M[g][i].key>> \in o2
  <2>1. PICK m \in 1 .. Len(N[g]) :
          /\ M[g][i] = N[g][m]
          /\ g = f => m = (IF i < j THEN i ELSE i + 1) /\ m # j
          /\ g # f => m = i
    BY <1>4
  <2>2. PICK m2 \in 1 .. Len(N[g]) :
          /\ M[g][i2] = N[g][m2]
          /\ g = f => m2 = (IF i2 < j THEN i2 ELSE i2 + 1) /\ m2 # j
          /\ g # f => m2 = i2
    BY <1>4
  <2>3. i \in Nat /\ i2 \in Nat /\ j \in Nat
    BY <1>1, <1>3
  <2>4. m < m2
    <3>1. CASE g = f
      <4>1. /\ m = (IF i < j THEN i ELSE i + 1)
            /\ m2 = (IF i2 < j THEN i2 ELSE i2 + 1)
        BY <2>1, <2>2, <3>1
      <4>2. CASE i2 < j
        BY <1>7, <2>3, <4>1, <4>2
      <4>3. CASE ~(i2 < j) /\ i < j
        <5>1. m = i /\ m2 = i2 + 1
          BY <4>1, <4>3
        <5> QED
          BY <1>7, <2>3, <5>1
      <4>4. CASE ~(i2 < j) /\ ~(i < j)
        <5>1. m = i + 1 /\ m2 = i2 + 1
          BY <4>1, <4>4
        <5> QED
          BY <1>7, <2>3, <5>1
      <4> QED
        BY <4>2, <4>3, <4>4
    <3>2. CASE g # f
      BY <1>7, <2>1, <2>2, <3>2
    <3> QED
      BY <3>1, <3>2
  <2>5. N[g][m].key # N[g][m2].key /\ <<N[g][m2].key, N[g][m].key>> \in o
    BY <1>c, <2>4
  <2> QED
    BY <1>6, <2>1, <2>2, <2>5
<1>8. ASSUME NEW x \in DOMAIN e2
      PROVE  /\ e2[x].uses \in Nat
             /\ \E i \in 1 .. Len(M[e2[x].uses]) : M[e2[x].uses][i].key = x
  <2> DEFINE g == e[x].uses
  <2>1. x \in DOMAIN e /\ x # k /\ e2[x] = e[x] /\ g \in Nat
    BY <1>d
  <2>2. PICK m \in 1 .. Len(N[g]) : N[g][m].key = x
    BY <1>d, <2>1
  <2> HIDE DEF g
  <2>3. CASE g = f
    <3>1. m # j /\ m \in Nat
      <4>1. N[f][m].key = x /\ m \in 1 .. Len(N[f])
        BY <2>2, <2>3
      <4>2. m # j
        BY <2>1, <4>1
      <4> QED
        BY <1>a, <4>1, <4>2
    <3>2. CASE m < j
      <4>1. m \in 1 .. Len(N[f]) - 1
        BY <1>1, <2>2, <2>3, <3>2
      <4>2. M[f][m] = N[f][m] /\ m \in 1 .. Len(M[f])
        BY <1>2, <1>3, <3>2, <4>1
      <4> QED
        BY <2>1, <2>2, <2>3, <4>2 DEF g
    <3>3. CASE j < m
      <4>1. m - 1 \in 1 .. Len(N[f]) - 1 /\ ~(m - 1 < j) /\ m - 1 + 1 = m
        BY <1>1, <2>2, <2>3, <3>3
      <4>2. M[f][m - 1] = N[f][m] /\ m - 1 \in 1 .. Len(M[f])
        BY <1>2, <1>3, <4>1
      <4> QED
        BY <2>1, <2>2, <2>3, <4>2 DEF g
    <3> QED
      BY <1>1, <3>1, <3>2, <3>3
  <2>4. CASE g # f
    <3>1. M[g] = N[g]
      BY <1>3, <2>1, <2>4
    <3> QED
      BY <2>1, <2>2, <3>1 DEF g
  <2> QED
    BY <2>3, <2>4
<1>9. Filed(M, e2, o2)
  BY <1>6, <1>7, <1>8 DEF Filed
<1> QED
  BY <1>3, <1>9 DEF M

(* The key of n, used g times, joins those in e as the last one used.       *)
Grown(e, o, g, n, e2, o2) ==
  /\ n.key \notin DOMAIN e
  /\ DOMAIN e2 = DOMAIN e \cup {n.key}
  /\ e2[n.key].uses = g /\ e2[n.key].val = n.val
  /\ \A x \in DOMAIN e : e2[x] = e[x] /\ <<x, n.key>> \in o2
  /\ \A x, y \in DOMAIN e : <<x, y>> \in o => <<x, y>> \in o2

(* A new node in front of a list: its key joins e as the latest used.       *)
LEMMA PutFiled ==
  ASSUME NEW N \in [Nat -> Seq(Filing)], NEW e, NEW o, Filed(N, e, o),
         NEW g \in Nat, NEW n \in Filing, NEW e2, NEW o2, Grown(e, o, g, n, e2, o2)
  PROVE  PutIn(N, g, n) \in [Nat -> Seq(Filing)] /\ Filed(PutIn(N, g, n), e2, o2)
<1>g1. n.key \notin DOMAIN e /\ DOMAIN e2 = DOMAIN e \cup {n.key}
  BY DEF Grown
<1>g2. e2[n.key].uses = g /\ e2[n.key].val = n.val
  BY DEF Grown
<1>g3. \A x \in DOMAIN e : e2[x] = e[x] /\ <<x, n.key>> \in o2
  BY DEF Grown
<1>g4. \A x, y \in DOMAIN e : <<x, y>> \in o => <<x, y>> \in o2
  BY DEF Grown
<1> USE <1>g1, <1>g2, <1>g3, <1>g4
<1> DEFINE M == PutIn(N, g, n)
<1>a. /\ \A x \in Nat : N[x] \in Seq(Filing) /\ Len(N[x]) \in Nat
      /\ \A x \in Nat : \A i \in 1 .. Len(N[x]) : i \in Nat /\ i >= 1
  <2> SUFFICES ASSUME NEW x \in Nat
               PROVE  /\ N[x] \in Seq(Filing) /\ Len(N[x]) \in Nat
                      /\ \A i \in 1 .. Len(N[x]) : i \in Nat /\ i >= 1
    OBVIOUS
  <2>1. N[x] \in Seq(Filing)
    OBVIOUS
  <2> QED
    BY <2>1, IndexIs
<1>b. \A x \in Nat : \A i \in 1 .. Len(N[x]) :
        /\ N[x][i].key \in DOMAIN e
        /\ e[N[x][i].key].uses = x
        /\ e[N[x][i].key].val = N[x][i].val
  BY DEF Filed
<1>c. \A x \in Nat : \A i, m \in 1 .. Len(N[x]) :
        i < m => N[x][i].key # N[x][m].key /\ <<N[x][m].key, N[x][i].key>> \in o
  BY DEF Filed
<1>d. \A x \in DOMAIN e :
        /\ e[x].uses \in Nat
        /\ \E i \in 1 .. Len(N[e[x].uses]) : N[e[x].uses][i].key = x
  BY DEF Filed
<1>1. N[g] \in Seq(Filing) /\ Len(N[g]) \in Nat
  OBVIOUS
<1>2. /\ <<n>> \o N[g] \in Seq(Filing) /\ Len(<<n>> \o N[g]) = Len(N[g]) + 1
      /\ (<<n>> \o N[g])[1] = n
      /\ \A i \in 1 .. Len(N[g]) : (<<n>> \o N[g])[i + 1] = N[g][i]
  BY <1>1, InFrontIs
<1>3. /\ M \in [Nat -> Seq(Filing)] /\ M[g] = <<n>> \o N[g]
      /\ \A f \in Nat \ {g} : M[f] = N[f]
  BY <1>2 DEF PutIn
<1> HIDE DEF M
<1>4. ASSUME NEW f \in Nat, NEW i \in 1 .. Len(M[f])
      PROVE  \/ f = g /\ i = 1 /\ M[f][i] = n
             \/ /\ f = g /\ i - 1 \in 1 .. Len(N[f]) /\ M[f][i] = N[f][i - 1]
             \/ f # g /\ i \in 1 .. Len(N[f]) /\ M[f][i] = N[f][i]
  <2>1. CASE f = g /\ i = 1
    BY <1>2, <1>3, <2>1
  <2>2. CASE f = g /\ i # 1
    <3>1. Len(M[g]) = Len(N[g]) + 1 /\ i \in 1 .. Len(M[g]) /\ i # 1
      BY <1>2, <1>3, <2>2
    <3>2. i - 1 \in 1 .. Len(N[g]) /\ i - 1 + 1 = i
      BY <1>1, <3>1
    <3> QED
      BY <1>2, <1>3, <2>2, <3>2
  <2>3. CASE f # g
    BY <1>3, <2>3
  <2> QED
    BY <2>1, <2>2, <2>3
<1>5. \A f \in Nat : \A i \in 1 .. Len(N[f]) :
        /\ N[f][i].key \in DOMAIN e /\ N[f][i].key # n.key
        /\ e2[N[f][i].key].uses = f
        /\ e2[N[f][i].key].val = N[f][i].val
  <2> SUFFICES ASSUME NEW f \in Nat, NEW i \in 1 .. Len(N[f])
               PROVE  /\ N[f][i].key \in DOMAIN e /\ N[f][i].key # n.key
                      /\ e2[N[f][i].key].uses = f
                      /\ e2[N[f][i].key].val = N[f][i].val
    OBVIOUS
  <2>1. /\ N[f][i].key \in DOMAIN e
        /\ e[N[f][i].key].uses = f
        /\ e[N[f][i].key].val = N[f][i].val
    BY <1>b
  <2> QED
    BY <2>1
<1>6. \A f \in Nat : \A i \in 1 .. Len(M[f]) :
        /\ M[f][i].key \in DOMAIN e2
        /\ e2[M[f][i].key].uses = f
        /\ e2[M[f][i].key].val = M[f][i].val
  <2> SUFFICES ASSUME NEW f \in Nat, NEW i \in 1 .. Len(M[f])
               PROVE  /\ M[f][i].key \in DOMAIN e2
                      /\ e2[M[f][i].key].uses = f
                      /\ e2[M[f][i].key].val = M[f][i].val
    OBVIOUS
  <2>1. CASE f = g /\ i = 1
    BY <1>2, <1>3, <2>1
  <2>2. CASE f = g /\ i # 1
    <3>1. i - 1 \in 1 .. Len(N[f]) /\ M[f][i] = N[f][i - 1]
      BY <1>4, <2>2
    <3>2. /\ N[f][i - 1].key \in DOMAIN e
          /\ e2[N[f][i - 1].key].uses = f
          /\ e2[N[f][i - 1].key].val = N[f][i - 1].val
      BY <1>5, <3>1
    <3> QED
      BY <3>1, <3>2
  <2>3. CASE f # g
    <3>1. i \in 1 .. Len(N[f]) /\ M[f][i] = N[f][i]
      BY <1>4, <2>3
    <3>2. /\ N[f][i].key \in DOMAIN e
          /\ e2[N[f][i].key].uses = f
          /\ e2[N[f][i].key].val = N[f][i].val
      BY <1>5, <3>1
    <3> QED
      BY <3>1, <3>2
  <2> QED
    BY <2>1, <2>2, <2>3
<1>7. ASSUME NEW f \in Nat, NEW i \in 1 .. Len(M[f]), NEW i2 \in 1 .. Len(M[f]), i < i2
      PROVE  M[f][i].key # M[f][i2].key /\ <<M[f][i2].key, M[f][i].key>> \in o2
  <2>1. i \in Nat /\ i2 \in Nat /\ i >= 1 /\ i2 # 1
    <3>1. M[f] \in Seq(Filing)
      BY <1>3
    <3>2. i \in Nat /\ i2 \in Nat /\ i >= 1
      BY <3>1, IndexIs
    <3> QED
      BY <1>7, <3>2
  <2>2. CASE f = g /\ i = 1
    <3>1. M[f][i] = n /\ i2 - 1 \in 1 .. Len(N[f]) /\ M[f][i2] = N[f][i2 - 1]
      BY <1>4, <1>7, <2>1, <2>2
    <3>2. N[f][i2 - 1].key \in DOMAIN e /\ N[f][i2 - 1].key # n.key
      BY <1>5, <3>1
    <3> QED
      BY <3>1, <3>2
  <2>3. CASE f = g /\ i # 1
    <3>1. /\ i - 1 \in 1 .. Len(N[f]) /\ M[f][i] = N[f][i - 1]
          /\ i2 - 1 \in 1 .. Len(N[f]) /\ M[f][i2] = N[f][i2 - 1]
          /\ i - 1 < i2 - 1
      <4>1. i # 1 /\ i2 # 1 /\ f = g
        BY <2>1, <2>3
      <4>2. i - 1 \in 1 .. Len(N[f]) /\ M[f][i] = N[f][i - 1]
        BY <1>4, <4>1
      <4>3. i2 - 1 \in 1 .. Len(N[f]) /\ M[f][i2] = N[f][i2 - 1]
        BY <1>4, <4>1
      <4>4. i - 1 < i2 - 1
        BY <1>7, <2>1
      <4> QED
        BY <4>2, <4>3, <4>4
    <3>2. N[f][i - 1].key # N[f][i2 - 1].key /\ <<N[f][i2 - 1].key, N[f][i - 1].key>> \in o
      BY <1>c, <3>1
    <3> QED
      BY <1>5, <3>1, <3>2
  <2>4. CASE f # g
    <3>1. /\ i \in 1 .. Len(N[f]) /\ M[f][i] = N[f][i]
          /\ i2 \in 1 .. Len(N[f]) /\ M[f][i2] = N[f][i2]
      BY <1>4, <2>4
    <3>2. N[f][i].key # N[f][i2].key /\ <<N[f][i2].key, N[f][i].key>> \in o
      BY <1>c, <1>7, <3>1
    <3> QED
      BY <1>5, <3>1, <3>2
  <2> QED
    BY <2>2, <2>3, <2>4
<1>8. ASSUME NEW x \in DOMAIN e2
      PROVE  /\ e2[x].uses \in Nat
             /\ \E i \in 1 .. Len(M[e2[x].uses]) : M[e2[x].uses][i].key = x
  <2>1. CASE x = n.key
    <3>1. 1 \in 1 .. Len(M[g]) /\ M[g][1] = n
      BY <1>1, <1>2, <1>3
    <3> QED
      BY <2>1, <3>1
  <2>2. CASE x # n.key
    <3>1. x \in DOMAIN e /\ e2[x] = e[x] /\ e[x].uses \in Nat
      BY <1>d, <2>2
    <3>2. PICK m \in 1 .. Len(N[e[x].uses]) : N[e[x].uses][m].key = x
      BY <1>d, <3>1
    <3>3. CASE e[x].uses = g
      <4>1. m + 1 \in 1 .. Len(M[g]) /\ M[g][m + 1] = N[g][m]
        BY <1>1, <1>2, <1>3, <3>2, <3>3
      <4>2. N[g][m].key = x
        BY <3>2, <3>3
      <4>3. e2[x].uses = g
        BY <3>1, <3>3
      <4> QED
        BY <4>1, <4>2, <4>3
    <3>4. CASE e[x].uses # g
      <4>1. M[e[x].uses] = N[e[x].uses]
        BY <1>3, <3>1, <3>4
      <4> QED
        BY <3>1, <3>2, <4>1
    <3> QED
      BY <3>3, <3>4
  <2> QED
    BY <2>1, <2>2
<1>9. Filed(M, e2, o2)
  BY <1>6, <1>7, <1>8 DEF Filed
<1> QED
  BY <1>3, <1>9 DEF M

LEMMA TakeThenPut ==
  ASSUME NEW N \in [Nat -> Seq(Filing)], NEW f \in Nat, NEW g \in Nat, f # g,
         NEW j \in 1 .. Len(N[f]), NEW n \in Filing
  PROVE  PutIn(Taken(N, f, j), g, n) = Taken(PutIn(N, g, n), f, j)
BY DEF PutIn, Taken

-----------------------------------------------------------------------------
(* LFUCache: how the lists change.                                          *)
LEMMA ShowsFacts ==
  ASSUME NEW L, NEW N, Shows(L, N)
  PROVE  /\ Len(L) \in Nat
         /\ \A i \in 1 .. Len(L) :
              /\ i \in Nat
              /\ L[i] \in FilingList
              /\ L[i].freq \in 1 .. MaxFreq /\ L[i].freq \in Nat
              /\ Cache!Place(L, L[i].freq) = i
         /\ \A i, j \in 1 .. Len(L) : L[i].freq = L[j].freq => i = j
         /\ FreqsOf(L) = {f \in Nat : N[f] # <<>>}
<1>1. L \in Seq(FilingList) /\ MaxFreq \in Nat
  BY CacheConstants DEF Shows, Cache!CacheAssumption
<1>2. Len(L) \in Nat /\ DOMAIN L = 1 .. Len(L) /\ \A i \in 1 .. Len(L) : L[i] \in FilingList
  BY <1>1
<1>3. \A i \in 1 .. Len(L) : i \in Nat /\ L[i].freq \in 1 .. MaxFreq /\ L[i].freq \in Nat
  BY <1>1, <1>2 DEF FilingList
<1>4. ASSUME NEW i \in 1 .. Len(L), NEW j \in 1 .. Len(L), L[i].freq = L[j].freq
      PROVE  i = j
  <2>1. i \in Nat /\ j \in Nat /\ L[i].freq \in Nat
    BY <1>3
  <2>2. /\ i < j => L[i].freq < L[j].freq
        /\ j < i => L[j].freq < L[i].freq
    BY DEF Shows
  <2>3. ~(i < j) /\ ~(j < i)
    BY <1>4, <2>1, <2>2
  <2> QED
    BY <2>1, <2>3
<1>5. \A i \in 1 .. Len(L) : Cache!Place(L, L[i].freq) = i
  BY <1>2, <1>4 DEF Cache!Place
<1>6. FreqsOf(L) = {f \in Nat : N[f] # <<>>}
  <2>1. \A i \in 1 .. Len(L) : L[i].freq \in Nat /\ N[L[i].freq] # <<>>
    BY <1>3 DEF Shows
  <2>2. \A f \in FreqsOf(L) : f \in Nat /\ N[f] # <<>>
    BY <2>1 DEF FreqsOf
  <2>3. \A f \in Nat : N[f] # <<>> => f \in FreqsOf(L)
    BY DEF Shows
  <2> QED
    BY <2>2, <2>3
<1> QED
  BY <1>2, <1>3, <1>4, <1>5, <1>6

LEMMA SetNodes ==
  ASSUME NEW L, NEW N, Shows(L, N), NEW i \in 1 .. Len(L),
         NEW s \in Seq(Filing), s # <<>>
  PROVE  Shows([L EXCEPT ![i].nodes = s], [N EXCEPT ![L[i].freq] = s])
<1> DEFINE M == [L EXCEPT ![i].nodes = s]
           P == [N EXCEPT ![L[i].freq] = s]
<1>1. /\ L \in Seq(FilingList) /\ Len(L) \in Nat
      /\ \A j \in 1 .. Len(L) : L[j] \in FilingList /\ L[j].freq \in Nat
      /\ \A j \in 1 .. Len(L) : L[i].freq = L[j].freq => i = j
  BY ShowsFacts DEF Shows
<1>2. [L[i] EXCEPT !.nodes = s] \in FilingList /\ [L[i] EXCEPT !.nodes = s].freq = L[i].freq
      /\ [L[i] EXCEPT !.nodes = s].nodes = s
  BY <1>1 DEF FilingList
<1>3. /\ M \in Seq(FilingList) /\ Len(M) = Len(L)
      /\ M[i] = [L[i] EXCEPT !.nodes = s]
      /\ \A j \in 1 .. Len(L) : j # i => M[j] = L[j]
  BY <1>1, <1>2
<1>4. /\ P \in [Nat -> Seq(Filing)] /\ P[L[i].freq] = s
      /\ \A f \in Nat : f # L[i].freq => P[f] = N[f]
  BY <1>1 DEF Shows
<1> HIDE DEF M, P
<1>5. \A j \in 1 .. Len(L) : M[j].freq = L[j].freq
  BY <1>2, <1>3
<1>6. \A j, m \in 1 .. Len(M) : j < m => M[j].freq < M[m].freq
  BY <1>3, <1>5 DEF Shows
<1>7. \A j \in 1 .. Len(M) : M[j].nodes # <<>> /\ P[M[j].freq] = M[j].nodes
  <2> SUFFICES ASSUME NEW j \in 1 .. Len(L)
               PROVE  M[j].nodes # <<>> /\ P[M[j].freq] = M[j].nodes
    BY <1>3
  <2>1. CASE j = i
    BY <1>2, <1>3, <1>4, <2>1
  <2>2. CASE j # i
    <3>1. L[j].freq \in Nat /\ L[j].freq # L[i].freq /\ M[j] = L[j]
      BY <1>1, <1>3, <2>2
    <3> QED
      BY <1>4, <3>1 DEF Shows
  <2> QED
    BY <2>1, <2>2
<1>8. \A f \in Nat : P[f] # <<>> => f \in FreqsOf(M)
  <2> SUFFICES ASSUME NEW f \in Nat, P[f] # <<>> PROVE \E j \in 1 .. Len(M) : f = M[j].freq
    BY DEF FreqsOf
  <2>1. \E j \in 1 .. Len(L) : f = L[j].freq
    <3>1. CASE f = L[i].freq
      BY <3>1
    <3>2. CASE f # L[i].freq
      BY <1>4, <3>2 DEF Shows, FreqsOf
    <3> QED
      BY <3>1, <3>2
  <2> QED
    BY <1>3, <1>5, <2>1
<1>9. Shows(M, P)
  BY <1>3, <1>4, <1>6, <1>7, <1>8 DEF Shows
<1> QED
  BY <1>9 DEF M, P

LEMMA DropList ==
  ASSUME NEW L, NEW N, Shows(L, N), NEW i \in 1 .. Len(L)
  PROVE  Shows(RemoveAt(L, i), [N EXCEPT ![L[i].freq] = <<>>])
<1> DEFINE M == RemoveAt(L, i)
           P == [N EXCEPT ![L[i].freq] = <<>>]
<1>0. PICK n \in Nat : n = Len(L)
  BY ShowsFacts
<1>1. /\ L \in Seq(FilingList)
      /\ \A j \in 1 .. n : L[j] \in FilingList /\ L[j].freq \in Nat
      /\ \A j \in 1 .. n : L[i].freq = L[j].freq => i = j
      /\ i \in 1 .. n
  BY <1>0, ShowsFacts DEF Shows
<1>2. /\ M \in Seq(FilingList) /\ Len(M) = n - 1
      /\ \A j \in 1 .. n - 1 : M[j] = IF j < i THEN L[j] ELSE L[j + 1]
  BY <1>0, <1>1, RemoveAtIs
<1>3. /\ P \in [Nat -> Seq(Filing)] /\ P[L[i].freq] = <<>>
      /\ \A f \in Nat : f # L[i].freq => P[f] = N[f]
  BY <1>1 DEF Shows
<1> HIDE DEF M, P
<1>4. ASSUME NEW j \in 1 .. n - 1
      PROVE  \E m \in 1 .. n : /\ M[j] = L[m] /\ m # i
                               /\ m = (IF j < i THEN j ELSE j + 1)
  <2>1. CASE j < i
    BY <1>1, <1>2, <2>1
  <2>2. CASE ~(j < i)
    <3>1. j + 1 \in 1 .. n /\ j + 1 # i
      BY <1>1, <2>2
    <3> QED
      BY <1>2, <2>2, <3>1
  <2> QED
    BY <2>1, <2>2
<1>5. ASSUME NEW j \in 1 .. n - 1, NEW k \in 1 .. n - 1, j < k
      PROVE  M[j].freq < M[k].freq
  <2>1. PICK m \in 1 .. n : M[j] = L[m] /\ m = (IF j < i THEN j ELSE j + 1)
    BY <1>4
  <2>2. PICK p2 \in 1 .. n : M[k] = L[p2] /\ p2 = (IF k < i THEN k ELSE k + 1)
    BY <1>4
  <2>3. m < p2
    <3>1. CASE k < i
      BY <1>1, <1>5, <2>1, <2>2, <3>1
    <3>2. CASE ~(k < i)
      BY <1>1, <1>5, <2>1, <2>2, <3>2
    <3> QED
      BY <3>1, <3>2
  <2> QED
    BY <1>0, <2>1, <2>2, <2>3 DEF Shows
<1>6. \A j \in 1 .. n - 1 : M[j].nodes # <<>> /\ P[M[j].freq] = M[j].nodes
  <2> SUFFICES ASSUME NEW j \in 1 .. n - 1
               PROVE  M[j].nodes # <<>> /\ P[M[j].freq] = M[j].nodes
    OBVIOUS
  <2>1. PICK m \in 1 .. n : M[j] = L[m] /\ m # i
    BY <1>4
  <2>2. L[m].freq \in Nat /\ L[m].freq # L[i].freq
    BY <1>1, <2>1
  <2> QED
    BY <1>0, <1>3, <2>1, <2>2 DEF Shows
<1>7. ASSUME NEW f \in Nat, P[f] # <<>>
      PROVE  \E j \in 1 .. n - 1 : f = M[j].freq
  <2>1. f # L[i].freq /\ N[f] # <<>>
    BY <1>3, <1>7
  <2>2. PICK m \in 1 .. n : f = L[m].freq
    BY <1>0, <2>1 DEF Shows, FreqsOf
  <2>3. m # i
    BY <2>1, <2>2
  <2>4. CASE m < i
    <3>1. m \in 1 .. n - 1 /\ M[m] = L[m]
      BY <1>1, <1>2, <2>4
    <3> QED
      BY <2>2, <3>1
  <2>5. CASE i < m
    <3>1. m - 1 \in 1 .. n - 1 /\ ~(m - 1 < i) /\ m - 1 + 1 = m
      BY <1>1, <2>5
    <3> QED
      BY <1>2, <2>2, <3>1
  <2> QED
    BY <1>1, <2>3, <2>4, <2>5
<1>8. Shows(M, P)
  BY <1>2, <1>3, <1>5, <1>6, <1>7 DEF Shows, FreqsOf
<1> QED
  BY <1>8 DEF M, P

LEMMA NewList ==
  ASSUME NEW L, NEW N, Shows(L, N), NEW i \in 1 .. Len(L) + 1,
         NEW g \in 1 .. MaxFreq, NEW n \in Filing,
         \A j \in 1 .. Len(L) : IF j < i THEN L[j].freq < g ELSE g < L[j].freq
  PROVE  Shows(InsertAt(L, i, [freq |-> g, nodes |-> <<n>>]), PutIn(N, g, n))
<1> DEFINE l == [freq |-> g, nodes |-> <<n>>]
           M == InsertAt(L, i, l)
           P == PutIn(N, g, n)
<1>0. PICK c \in Nat : c = Len(L)
  BY ShowsFacts
<1>1. /\ L \in Seq(FilingList)
      /\ \A j \in 1 .. c : L[j] \in FilingList /\ L[j].freq \in Nat
      /\ i \in 1 .. c + 1 /\ g \in Nat
      /\ \A j \in 1 .. c : IF j < i THEN L[j].freq < g ELSE g < L[j].freq
  <2>1. MaxFreq \in Nat
    BY CacheConstants DEF Cache!CacheAssumption
  <2>2. g \in Nat
    BY <2>1
  <2> QED
    BY <1>0, <2>2, ShowsFacts DEF Shows
<1>2. l \in FilingList /\ l.freq = g /\ l.nodes = <<n>> /\ <<n>> # <<>>
  BY DEF FilingList
<1> HIDE DEF l
<1>3. /\ M \in Seq(FilingList) /\ Len(M) = c + 1
      /\ \A j \in 1 .. c + 1 : M[j] = IF j < i THEN L[j] ELSE IF j = i THEN l ELSE L[j - 1]
  <2>1. L \in Seq(FilingList) /\ i \in 1 .. Len(L) + 1 /\ l \in FilingList
    BY <1>1, <1>2
  <2>2. /\ InsertAt(L, i, l) \in Seq(FilingList) /\ Len(InsertAt(L, i, l)) = Len(L) + 1
        /\ \A j \in 1 .. Len(L) + 1 :
             InsertAt(L, i, l)[j] = IF j < i THEN L[j] ELSE IF j = i THEN l ELSE L[j - 1]
    <3> DEFINE F == FilingList
    <3>1. L \in Seq(F) /\ i \in 1 .. Len(L) + 1 /\ l \in F
      BY <2>1
    <3> HIDE DEF F
    <3>2. /\ InsertAt(L, i, l) \in Seq(F) /\ Len(InsertAt(L, i, l)) = Len(L) + 1
          /\ \A j \in 1 .. Len(L) + 1 :
               InsertAt(L, i, l)[j] = IF j < i THEN L[j] ELSE IF j = i THEN l ELSE L[j - 1]
      BY <3>1, InsertAtIs, SMTT(60)
    <3> QED
      BY <3>2 DEF F
  <2>3. M = InsertAt(L, i, l)
    BY DEF M
  <2> QED
    BY <1>0, <2>2, <2>3, Zenon
<1>4. \A j \in 1 .. c : L[j].freq # g
  BY <1>1
<1>5. N \in [Nat -> Seq(Filing)] /\ N[g] = <<>>
  <2>1. g \notin FreqsOf(L)
    BY <1>0, <1>4 DEF FreqsOf
  <2> QED
    BY <1>1, <2>1 DEF Shows
<1>6. /\ P \in [Nat -> Seq(Filing)] /\ P[g] = <<n>>
      /\ \A f \in Nat : f # g => P[f] = N[f]
  <2>1. <<n>> \o N[g] = <<n>>
    BY <1>5
  <2> QED
    BY <1>1, <1>5, <2>1 DEF PutIn
<1> HIDE DEF M, P
<1>7. ASSUME NEW j \in 1 .. c + 1
      PROVE  \/ j < i /\ j \in 1 .. c /\ M[j] = L[j] /\ L[j].freq < g
             \/ j = i /\ M[j] = l
             \/ i < j /\ j - 1 \in 1 .. c /\ M[j] = L[j - 1] /\ g < L[j - 1].freq
  <2>1. CASE j < i
    <3>1. j \in 1 .. c
      BY <1>1, <2>1
    <3> QED
      BY <1>1, <1>3, <2>1, <3>1
  <2>2. CASE j = i
    BY <1>1, <1>3, <2>2
  <2>3. CASE i < j
    <3>1. j - 1 \in 1 .. c /\ ~(j - 1 < i) /\ ~(j < i) /\ j # i
      BY <1>1, <2>3
    <3> QED
      BY <1>1, <1>3, <2>3, <3>1
  <2> QED
    BY <1>1, <2>1, <2>2, <2>3
<1>8. ASSUME NEW j \in 1 .. c + 1, NEW k \in 1 .. c + 1, j < k
      PROVE  M[j].freq < M[k].freq
  <2>0. j \in Nat /\ k \in Nat /\ i \in Nat
    BY <1>1
  <2>1. CASE k < i
    <3>1. j < i /\ ~(i < j) /\ j # i /\ ~(i < k) /\ k # i
      BY <1>8, <2>0, <2>1
    <3>2. j \in 1 .. c /\ k \in 1 .. c /\ M[j] = L[j] /\ M[k] = L[k]
      BY <1>7, <3>1
    <3> QED
      BY <1>0, <1>8, <3>2 DEF Shows
  <2>2. CASE k = i
    <3>1. j < i /\ ~(i < j) /\ j # i
      BY <1>8, <2>0, <2>2
    <3>2. M[j] = L[j] /\ L[j].freq < g /\ M[k] = l
      BY <1>7, <2>0, <2>2, <3>1
    <3> QED
      BY <1>2, <3>2
  <2>3. CASE i < k
    <3>1. ~(k < i) /\ k # i
      BY <2>0, <2>3
    <3>2. k - 1 \in 1 .. c /\ M[k] = L[k - 1] /\ g < L[k - 1].freq
      BY <1>7, <3>1
    <3>3. CASE j < i
      <4>1. ~(i < j) /\ j # i
        BY <2>0, <3>3
      <4>2. j \in 1 .. c /\ M[j] = L[j] /\ L[j].freq < g
        BY <1>7, <4>1
      <4>3. L[j].freq \in Nat /\ L[k - 1].freq \in Nat
        BY <1>1, <3>2, <4>2
      <4> QED
        BY <1>1, <3>2, <4>2, <4>3
    <3>4. CASE j = i
      BY <1>2, <1>3, <1>1, <3>2, <3>4
    <3>5. CASE i < j
      <4>1. ~(j < i) /\ j # i
        BY <2>0, <3>5
      <4>2. j - 1 \in 1 .. c /\ M[j] = L[j - 1]
        BY <1>7, <4>1
      <4>3. j - 1 < k - 1
        BY <1>8, <2>0
      <4> QED
        BY <1>0, <3>2, <4>2, <4>3 DEF Shows
    <3> QED
      BY <2>0, <3>3, <3>4, <3>5
  <2> QED
    BY <2>0, <2>1, <2>2, <2>3
<1>9. ASSUME NEW j \in 1 .. c + 1
      PROVE  M[j].nodes # <<>> /\ P[M[j].freq] = M[j].nodes
  <2>1. CASE M[j] = l
    BY <1>2, <1>6, <2>1
  <2>2. ASSUME NEW m \in 1 .. c, M[j] = L[m]
        PROVE  M[j].nodes # <<>> /\ P[M[j].freq] = M[j].nodes
    <3>1. L[m].freq \in Nat /\ L[m].freq # g
      BY <1>1, <1>4
    <3> QED
      BY <1>0, <1>6, <2>2, <3>1 DEF Shows
  <2> QED
    BY <1>7, <2>1, <2>2
<1>10. ASSUME NEW f \in Nat, P[f] # <<>>
       PROVE  \E j \in 1 .. c + 1 : f = M[j].freq
  <2>1. CASE f = g
    BY <1>1, <1>2, <1>3, <2>1
  <2>2. CASE f # g
    <3>1. N[f] # <<>>
      BY <1>6, <1>10, <2>2
    <3>2. PICK m \in 1 .. c : f = L[m].freq
      BY <1>0, <3>1 DEF Shows, FreqsOf
    <3>3. CASE m < i
      <4>1. m \in 1 .. c + 1 /\ M[m] = L[m]
        BY <1>3, <3>3
      <4> QED
        BY <3>2, <4>1
    <3>4. CASE ~(m < i)
      <4>1. m + 1 \in 1 .. c + 1 /\ ~(m + 1 < i) /\ m + 1 # i /\ m + 1 - 1 = m
        BY <1>1, <3>4
      <4>2. M[m + 1] = L[m]
        BY <1>3, <4>1
      <4> QED
        BY <3>2, <4>1, <4>2
    <3> QED
      BY <3>3, <3>4
  <2> QED
    BY <2>1, <2>2
<1>11. Shows(M, P)
  BY <1>3, <1>6, <1>8, <1>9, <1>10 DEF Shows, FreqsOf
<1> QED
  BY <1>11 DEF M, P, l

LEMMA PushFrontShows ==
  ASSUME NEW L, NEW N, Shows(L, N), NEW g \in FreqsOf(L), NEW n \in Filing
  PROVE  Shows(Cache!PushFront(L, g, n), PutIn(N, g, n))
<1>1. PICK i \in 1 .. Len(L) : g = L[i].freq
  BY DEF FreqsOf
<1>2. Cache!Place(L, g) = i
  BY <1>1, ShowsFacts
<1>3. L[i].nodes = N[g] /\ N[g] \in Seq(Filing)
  BY <1>1, ShowsFacts DEF Shows
<1>4. <<n>> \o N[g] \in Seq(Filing) /\ <<n>> \o N[g] # <<>>
  <2>1. <<n>> \o N[g] \in Seq(Filing) /\ Len(<<n>> \o N[g]) = Len(N[g]) + 1
    BY <1>3, InFrontIs
  <2>2. Len(N[g]) \in Nat /\ Len(N[g]) + 1 # 0
    BY <1>3, LenProperties
  <2> QED
    BY <2>1, <2>2
<1>5. Cache!PushFront(L, g, n) = [L EXCEPT ![i].nodes = <<n>> \o N[g]]
  BY <1>2, <1>3 DEF Cache!PushFront
<1>6. PutIn(N, g, n) = [N EXCEPT ![L[i].freq] = <<n>> \o N[g]]
  BY <1>1 DEF PutIn
<1>7. Shows([L EXCEPT ![i].nodes = <<n>> \o N[g]], [N EXCEPT ![L[i].freq] = <<n>> \o N[g]])
  BY <1>4, SetNodes, Zenon
<1> QED
  BY <1>5, <1>6, <1>7

(* The only node of a list with the key k is the one at j.                  *)
OnlyAt(s, j, k) ==
  s[j].key = k /\ \A m \in 1 .. Len(s) : s[m].key = k => m = j

(* Erasing the node of k leaves the lists that show N2.                     *)
Leaves(L, f, k, N2, freqs) ==
  /\ Shows(Cache!Without(L, f, k), N2)
  /\ Cache!FreqsWithout(freqs, L, f, k) = FreqsOf(Cache!Without(L, f, k))

LEMMA WithoutShows ==
  ASSUME NEW L, NEW N, Shows(L, N), NEW f \in Nat, NEW j \in 1 .. Len(N[f]),
         NEW k, OnlyAt(N[f], j, k)
  PROVE  Leaves(L, f, k, Taken(N, f, j), FreqsOf(L))
<1> DEFINE rest == RemoveAt(N[f], j)
<1>1. N[f] \in Seq(Filing) /\ N[f] # <<>>
  BY DEF Shows
<1>2. PICK i \in 1 .. Len(L) : f = L[i].freq
  BY <1>1 DEF Shows, FreqsOf
<1>3. Cache!Place(L, f) = i /\ L[i].nodes = N[f]
  BY <1>2, ShowsFacts DEF Shows
<1>4. Cache!Spot(N[f], k) = j
  BY <1>1 DEF Cache!Spot, OnlyAt
<1>5. Cache!NodesWithout(L, f, k) = rest
  BY <1>3, <1>4 DEF Cache!NodesWithout, Cache!RemoveAt, RemoveAt
<1>6. rest \in Seq(Filing)
  BY <1>1, RemoveAtIs
<1>7. Taken(N, f, j) = [N EXCEPT ![L[i].freq] = rest]
  BY <1>2 DEF Taken
<1>8. Shows(Cache!Without(L, f, k), Taken(N, f, j))
  <2>1. CASE rest = <<>>
    <3>1. Cache!Without(L, f, k) = RemoveAt(L, i)
      BY <1>3, <1>5, <2>1 DEF Cache!Without, Cache!RemoveAt, RemoveAt
    <3>2. Shows(RemoveAt(L, i), [N EXCEPT ![L[i].freq] = <<>>])
      BY DropList
    <3> QED
      BY <1>7, <2>1, <3>1, <3>2
  <2>2. CASE rest # <<>>
    <3>1. Cache!Without(L, f, k) = [L EXCEPT ![i].nodes = rest]
      BY <1>3, <1>5, <2>2 DEF Cache!Without
    <3> HIDE DEF rest
    <3>2. Shows([L EXCEPT ![i].nodes = rest], [N EXCEPT ![L[i].freq] = rest])
      BY <1>6, <2>2, SetNodes, Zenon
    <3> QED
      BY <1>7, <3>1, <3>2
  <2> QED
    BY <2>1, <2>2
<1>9. Cache!FreqsWithout(FreqsOf(L), L, f, k) = FreqsOf(Cache!Without(L, f, k))
  <2>1. FreqsOf(L) = {g \in Nat : N[g] # <<>>}
    BY ShowsFacts
  <2>2. FreqsOf(Cache!Without(L, f, k)) = {g \in Nat : Taken(N, f, j)[g] # <<>>}
    BY <1>8, ShowsFacts
  <2>3. N \in [Nat -> Seq(Filing)]
    BY DEF Shows
  <2>4. \A g \in Nat : Taken(N, f, j)[g] = IF g = f THEN rest ELSE N[g]
    BY <2>3 DEF Taken
  <2> HIDE DEF rest
  <2> QED
    BY <1>1, <1>5, <2>1, <2>2, <2>4 DEF Cache!FreqsWithout
<1> QED
  BY <1>8, <1>9 DEF Leaves

-----------------------------------------------------------------------------
(* LFUCache: the invariant                                                  *)
Entries ==
  [k \in Cache!Cached |-> [val |-> Cache!ValueOf(k), uses |-> key_table[k]]]

CacheType ==
  /\ capacity \in Nat
  /\ DOMAIN key_table \subseteq Keys
  /\ key_table \in [DOMAIN key_table -> 1 .. MaxFreq]
  /\ IsFiniteSet(DOMAIN key_table)
  /\ Cardinality(DOMAIN key_table) <= capacity
  /\ erased \subseteq DOMAIN key_table
  /\ erased = {} \/ Cardinality(erased) < capacity

CacheInv ==
  /\ CacheType
  /\ freq_table = FreqsOf(freq_list)
  /\ \E N \in [Nat -> Seq(Filing)] :
       Shows(freq_list, N) /\ Filed(N, Entries, older)

LEMMA KeyOnce ==
  ASSUME NEW N \in [Nat -> Seq(Filing)], NEW e, NEW o, Filed(N, e, o),
         NEW f \in Nat, NEW i \in 1 .. Len(N[f]), NEW j \in 1 .. Len(N[f]),
         N[f][i].key = N[f][j].key
  PROVE  i = j
<1>1. \A x \in Nat : \A a, b \in 1 .. Len(N[x]) :
        a < b => N[x][a].key # N[x][b].key /\ <<N[x][b].key, N[x][a].key>> \in o
  BY DEF Filed
<1>2. i \in Nat /\ j \in Nat
  BY IndexIs
<1>3. ~(i < j) /\ ~(j < i)
  BY <1>1
<1> QED
  BY <1>2, <1>3

(* The node an iterator identifies.                                         *)
LEMMA SpotIs ==
  ASSUME NEW s \in Seq(Filing), NEW j \in 1 .. Len(s), NEW k, OnlyAt(s, j, k)
  PROVE  Cache!Spot(s, k) = j
BY DEF Cache!Spot, OnlyAt

LEMMA NodeFound ==
  ASSUME NEW L, NEW N \in [Nat -> Seq(Filing)], Shows(L, N), NEW f \in Nat, NEW j \in 1 .. Len(N[f]),
         NEW k, OnlyAt(N[f], j, k)
  PROVE  /\ f \in FreqsOf(L)
         /\ L[Cache!Place(L, f)].nodes = N[f]
<1>1. N[f] \in Seq(Filing) /\ N[f] # <<>>
  BY DEF Shows
<1>2. PICK i \in 1 .. Len(L) : f = L[i].freq
  BY <1>1 DEF Shows, FreqsOf
<1>3. Cache!Place(L, f) = i
  BY <1>2, ShowsFacts
<1>4. L[i].nodes = N[f]
  BY <1>2 DEF Shows
<1>5. f \in FreqsOf(L)
  BY <1>2 DEF FreqsOf
<1> QED
  BY <1>3, <1>4, <1>5

(* Every key in e has one node, and that node has its value.                *)
HeldAt(s, j, k, val) == OnlyAt(s, j, k) /\ s[j].val = val

LEMMA NodeHeld ==
  ASSUME NEW N \in [Nat -> Seq(Filing)], NEW e, NEW o, Filed(N, e, o),
         NEW k \in DOMAIN e, NEW f \in Nat, f = e[k].uses
  PROVE  \E j \in 1 .. Len(N[f]) : HeldAt(N[f], j, k, e[k].val)
<1>1. \E i \in 1 .. Len(N[f]) : N[f][i].key = k
  BY DEF Filed
<1>2. PICK j \in 1 .. Len(N[f]) : N[f][j].key = k
  BY <1>1
<1>3. \A x \in Nat : \A i \in 1 .. Len(N[x]) :
        /\ N[x][i].key \in DOMAIN e
        /\ e[N[x][i].key].uses = x
        /\ e[N[x][i].key].val = N[x][i].val
  BY DEF Filed
<1>4. N[f][j].val = e[k].val
  <2>1. e[N[f][j].key].val = N[f][j].val
    BY <1>3
  <2> QED
    BY <1>2, <2>1
<1>5. OnlyAt(N[f], j, k)
  <2>1. \A m \in 1 .. Len(N[f]) : N[f][m].key = N[f][j].key => m = j
    BY KeyOnce
  <2> QED
    BY <1>2, <2>1 DEF OnlyAt
<1> QED
  BY <1>4, <1>5 DEF HeldAt

LEMMA EntriesAre ==
  ASSUME NEW N \in [Nat -> Seq(Filing)], NEW e, NEW o, Filed(N, e, o),
         Shows(freq_list, N), DOMAIN e = Cache!Cached,
         e = [k \in DOMAIN e |-> [val |-> e[k].val, uses |-> e[k].uses]],
         \A k \in DOMAIN e : e[k].uses = key_table[k]
  PROVE  Entries = e
<1>1. ASSUME NEW k \in DOMAIN e PROVE Cache!ValueOf(k) = e[k].val
  <2>1. PICK f \in Nat : f = e[k].uses /\ f = key_table[k]
    BY DEF Filed
  <2>2. PICK j \in 1 .. Len(N[f]) : HeldAt(N[f], j, k, e[k].val)
    BY <2>1, NodeHeld
  <2>3. OnlyAt(N[f], j, k) /\ N[f][j].val = e[k].val
    BY <2>2 DEF HeldAt
  <2>4. freq_list[Cache!Place(freq_list, f)].nodes = N[f]
    BY <2>3, NodeFound
  <2>5. Cache!Spot(N[f], k) = j
    BY <2>3, SpotIs
  <2> QED
    BY <2>1, <2>3, <2>4, <2>5 DEF Cache!ValueOf
<1>2. Entries = [k \in DOMAIN e |-> [val |-> e[k].val, uses |-> e[k].uses]]
  BY <1>1 DEF Entries
<1> QED
  BY <1>2

LEMMA EntriesAreNext ==
  ASSUME NEW N \in [Nat -> Seq(Filing)], NEW e, NEW o, Filed(N, e, o),
         Shows(freq_list', N), DOMAIN e = Cache!Cached',
         e = [k \in DOMAIN e |-> [val |-> e[k].val, uses |-> e[k].uses]],
         \A k \in DOMAIN e : e[k].uses = key_table'[k]
  PROVE  Entries' = e
<1>1. ASSUME NEW k \in DOMAIN e PROVE Cache!ValueOf(k)' = e[k].val
  <2>1. PICK f \in Nat : f = e[k].uses /\ f = key_table'[k]
    BY DEF Filed
  <2>2. PICK j \in 1 .. Len(N[f]) : HeldAt(N[f], j, k, e[k].val)
    BY <2>1, NodeHeld
  <2>3. OnlyAt(N[f], j, k) /\ N[f][j].val = e[k].val
    BY <2>2 DEF HeldAt
  <2>4. freq_list'[Cache!Place(freq_list', f)].nodes = N[f]
    BY <2>3, NodeFound
  <2>5. Cache!Spot(N[f], k) = j
    BY <2>3, SpotIs
  <2> QED
    BY <2>1, <2>3, <2>4, <2>5 DEF Cache!ValueOf
<1>2. Entries' = [k \in DOMAIN e |-> [val |-> e[k].val, uses |-> e[k].uses]]
  BY <1>1 DEF Entries
<1> QED
  BY <1>2

LEMMA CacheInit == Cache!Init => CacheInv
<1> SUFFICES ASSUME Cache!Init PROVE CacheInv
  OBVIOUS
<1> DEFINE N == [f \in Nat |-> <<>>]
<1>1. CacheType
  <2>1. MaxKeys \in Nat /\ \A n \in 0 .. MaxKeys : n \in Nat /\ 0 <= n
    BY CacheConstants DEF Cache!CacheAssumption
  <2>2. DOMAIN key_table = {} /\ erased = {} /\ capacity \in 0 .. MaxKeys
    BY DEF Cache!Init
  <2>3. key_table \in [{} -> 1 .. MaxFreq]
    BY DEF Cache!Init
  <2> QED
    BY <2>1, <2>2, <2>3, FS_EmptySet DEF CacheType
<1>2. freq_list = <<>> /\ Len(freq_list) = 0 /\ freq_table = {} /\ Cache!Cached = {}
  BY DEF Cache!Init, Cache!Cached
<1>3. N \in [Nat -> Seq(Filing)] /\ \A f \in Nat : N[f] = <<>> /\ Len(N[f]) = 0
  OBVIOUS
<1> HIDE DEF N
<1>4. freq_list \in Seq(FilingList) /\ 1 .. Len(freq_list) = {}
  BY <1>2
<1>5. Shows(freq_list, N)
  BY <1>3, <1>4 DEF Shows, FreqsOf
<1>6. DOMAIN Entries = {}
  BY <1>2 DEF Entries
<1>7. \A f \in Nat : 1 .. Len(N[f]) = {}
  BY <1>3
<1>8. Filed(N, Entries, older)
  BY <1>6, <1>7 DEF Filed
<1> QED
  BY <1>1, <1>2, <1>3, <1>4, <1>5, <1>8 DEF CacheInv, FreqsOf

(* What the invariant says of a cached key.                                 *)
LEMMA KeyFacts ==
  ASSUME CacheInv, NEW N \in [Nat -> Seq(Filing)],
         Shows(freq_list, N), Filed(N, Entries, older), NEW k \in Cache!Cached
  PROVE  /\ key_table[k] \in 1 .. MaxFreq /\ key_table[k] \in Nat
         /\ key_table[k] \in FreqsOf(freq_list)
         /\ k \in Keys /\ DOMAIN Entries = Cache!Cached
         /\ Entries[k] = [val |-> Cache!ValueOf(k), uses |-> key_table[k]]
         /\ \E j \in 1 .. Len(N[key_table[k]]) :
              OnlyAt(N[key_table[k]], j, k)
         /\ Cache!ValueOf(k) \in Values
<1>1. /\ k \in DOMAIN key_table /\ DOMAIN Entries = Cache!Cached
      /\ Entries[k] = [val |-> Cache!ValueOf(k), uses |-> key_table[k]]
  BY DEF Entries, Cache!Cached
<1>2. k \in DOMAIN Entries /\ Entries[k].uses = key_table[k] /\ Entries[k].val = Cache!ValueOf(k)
  BY <1>1
<1>3. key_table[k] \in 1 .. MaxFreq /\ key_table[k] \in Nat /\ k \in Keys
  BY <1>1, CacheConstants DEF CacheInv, CacheType, Cache!CacheAssumption
<1>4. PICK f \in Nat : f = Entries[k].uses /\ f = key_table[k]
  BY <1>2, <1>3
<1>5. PICK j \in 1 .. Len(N[f]) : HeldAt(N[f], j, k, Entries[k].val)
  BY <1>2, <1>4, NodeHeld
<1>6. OnlyAt(N[f], j, k) /\ N[f][j].val = Cache!ValueOf(k)
  BY <1>2, <1>5 DEF HeldAt
<1>7. f \in FreqsOf(freq_list)
  BY <1>6, NodeFound
<1>8. Cache!ValueOf(k) \in Values
  <2>1. N[f] \in Seq(Filing)
    OBVIOUS
  <2>2. N[f][j] \in Filing
    BY <2>1
  <2> QED
    BY <1>6, <2>2 DEF Filing
<1> QED
  BY <1>1, <1>3, <1>4, <1>6, <1>7, <1>8

(* A node more adds its frequency to those that have a list.                *)
LEMMA FreqsPut ==
  ASSUME NEW L, NEW N, Shows(L, N), NEW g \in Nat, NEW n \in Filing,
         NEW M, Shows(M, PutIn(N, g, n))
  PROVE  FreqsOf(M) = FreqsOf(L) \cup {g}
<1> DEFINE P == PutIn(N, g, n)
<1>1. FreqsOf(L) = {f \in Nat : N[f] # <<>>}
  BY ShowsFacts
<1>2. FreqsOf(M) = {f \in Nat : P[f] # <<>>}
  BY ShowsFacts
<1>3. N \in [Nat -> Seq(Filing)]
  BY DEF Shows
<1>4. P[g] # <<>> /\ \A f \in Nat : f # g => P[f] = N[f]
  <2>1. N[g] \in Seq(Filing)
    BY <1>3
  <2>2. Len(<<n>> \o N[g]) = Len(N[g]) + 1 /\ Len(N[g]) \in Nat
    BY <2>1, InFrontIs, LenProperties
  <2>3. <<n>> \o N[g] # <<>>
    BY <2>2
  <2> QED
    BY <1>3, <2>3 DEF PutIn
<1> HIDE DEF P
<1> QED
  BY <1>1, <1>2, <1>4

(* A list for f + 1 next to the one for f.                                  *)
LEMMA InsertNextShows ==
  ASSUME NEW L, NEW N, Shows(L, N), NEW f \in FreqsOf(L), f < MaxFreq,
         f + 1 \notin FreqsOf(L), NEW n \in Filing
  PROVE  Shows(Cache!InsertNext(L, f, n), PutIn(N, f + 1, n))
<1>1. PICK i \in 1 .. Len(L) : f = L[i].freq
  BY DEF FreqsOf
<1>2. /\ Len(L) \in Nat /\ MaxFreq \in Nat
      /\ Cache!Place(L, f) = i
      /\ \A m \in 1 .. Len(L) : m \in Nat /\ L[m].freq \in Nat /\ L[m].freq \in 1 .. MaxFreq
  BY <1>1, ShowsFacts, CacheConstants DEF Cache!CacheAssumption
<1>3. i + 1 \in 1 .. Len(L) + 1 /\ f + 1 \in 1 .. MaxFreq /\ f \in Nat /\ i \in Nat
  BY <1>1, <1>2
<1>4. ASSUME NEW m \in 1 .. Len(L)
      PROVE  IF m < i + 1 THEN L[m].freq < f + 1 ELSE f + 1 < L[m].freq
  <2>1. m \in Nat /\ L[m].freq \in Nat
    BY <1>2
  <2>2. /\ m < i => L[m].freq < L[i].freq
        /\ i < m => L[i].freq < L[m].freq
    BY <1>1 DEF Shows
  <2>3. L[m].freq # f + 1
    BY DEF FreqsOf
  <2>4. CASE m < i
    BY <1>1, <1>3, <2>1, <2>2, <2>4
  <2>5. CASE m = i
    BY <1>1, <1>3, <2>1, <2>5
  <2>6. CASE i < m
    BY <1>1, <1>3, <2>1, <2>2, <2>3, <2>6
  <2> QED
    BY <1>3, <2>1, <2>4, <2>5, <2>6
<1>5. Cache!InsertNext(L, f, n) = InsertAt(L, i + 1, [freq |-> f + 1, nodes |-> <<n>>])
  BY <1>2 DEF Cache!InsertNext, Cache!InsertAt, InsertAt
<1> DEFINE g == f + 1
           c == i + 1
<1>6. /\ c \in 1 .. Len(L) + 1 /\ g \in 1 .. MaxFreq
      /\ \A m \in 1 .. Len(L) : IF m < c THEN L[m].freq < g ELSE g < L[m].freq
  BY <1>3, <1>4
<1> HIDE DEF g, c
<1>7. Shows(InsertAt(L, c, [freq |-> g, nodes |-> <<n>>]), PutIn(N, g, n))
  BY <1>6, NewList
<1> QED
  BY <1>5, <1>7 DEF g, c

(* A node for a key without one, in front of the list for 1.                *)
LEMMA Inserted ==
  ASSUME NEW k \in Keys \ DOMAIN key_table, NEW val \in Values, NEW gone,
         NEW lists, Cache!InsertKey(k, val, gone, FreqsOf(lists), lists),
         NEW N \in [Nat -> Seq(Filing)], Shows(lists, N),
         Filed(N, [x \in Cache!Cached \ gone |-> Entries[x]],
               Cache!Among(Cache!Cached \ gone))
  PROVE  LET n == [key |-> k, val |-> val]
             e == [x \in (Cache!Cached \ gone) \cup {k} |->
                     IF x = k THEN [val |-> val, uses |-> 1] ELSE Entries[x]]
         IN  /\ PutIn(N, 1, n) \in [Nat -> Seq(Filing)]
             /\ Shows(freq_list', PutIn(N, 1, n))
             /\ freq_table' = FreqsOf(freq_list')
             /\ Filed(PutIn(N, 1, n), e, older')
<1> DEFINE n == [key |-> k, val |-> val]
           C == Cache!Cached \ gone
           e0 == [x \in C |-> Entries[x]]
           e == [x \in C \cup {k} |->
                   IF x = k THEN [val |-> val, uses |-> 1] ELSE Entries[x]]
           P == PutIn(N, 1, n)
<1>1. n \in Filing /\ n.key = k /\ n.val = val /\ 1 \in 1 .. MaxFreq /\ 1 \in Nat
  BY CacheConstants DEF Filing, Cache!CacheAssumption
<1>2. k \notin C
  BY DEF Cache!Cached
<1>3. Shows(freq_list', P)
  <2>1. CASE 1 \in FreqsOf(lists)
    <3>1. freq_list' = Cache!PushFront(lists, 1, n)
      BY <2>1 DEF Cache!InsertKey
    <3> QED
      BY <1>1, <2>1, <3>1, PushFrontShows
  <2>2. CASE 1 \notin FreqsOf(lists)
    <3>1. freq_list' = InsertAt(lists, 1, [freq |-> 1, nodes |-> <<n>>])
      BY <2>2 DEF Cache!InsertKey, Cache!InsertAt, InsertAt
    <3>2. \A j \in 1 .. Len(lists) : j \in Nat /\ lists[j].freq \in 1 .. MaxFreq /\ lists[j].freq # 1
      BY <2>2, ShowsFacts DEF FreqsOf
    <3>3. MaxFreq \in Nat /\ Len(lists) \in Nat
      BY ShowsFacts, CacheConstants DEF Cache!CacheAssumption
    <3>4. 1 \in 1 .. Len(lists) + 1
      BY <3>3
    <3>5. \A j \in 1 .. Len(lists) :
            IF j < 1 THEN lists[j].freq < 1 ELSE 1 < lists[j].freq
      <4>1. \A j \in 1 .. Len(lists) : ~(j < 1)
        BY <3>3
      <4>2. \A m \in 1 .. MaxFreq : m # 1 => 1 < m
        BY <3>3
      <4> QED
        BY <3>2, <4>1, <4>2
    <3> HIDE DEF n, P
    <3>6. Shows(InsertAt(lists, 1, [freq |-> 1, nodes |-> <<n>>]), PutIn(N, 1, n))
      BY <1>1, <3>4, <3>5, NewList
    <3> QED
      BY <3>1, <3>6 DEF P
  <2> QED
    BY <2>1, <2>2
<1>4. freq_table' = FreqsOf(freq_list')
  <2>1. freq_table' = FreqsOf(lists) \cup {1}
    BY DEF Cache!InsertKey
  <2> HIDE DEF n
  <2>2. Shows(freq_list', PutIn(N, 1, n))
    BY <1>3
  <2> HIDE DEF P
  <2>3. FreqsOf(freq_list') = FreqsOf(lists) \cup {1}
    <3>1. PICK g \in Nat : g = 1
      OBVIOUS
    <3>2. n \in Filing /\ Shows(freq_list', PutIn(N, g, n))
      BY <1>1, <2>2, <3>1
    <3>3. FreqsOf(freq_list') = FreqsOf(lists) \cup {g}
      BY <3>2, FreqsPut
    <3> QED
      BY <3>1, <3>3
  <2> QED
    BY <2>1, <2>3
<1>5. older' = Cache!Among(C) \cup (C \X {k})
  <2>1. Cache!Cached \ (gone \cup {k}) = C
    BY <1>2
  <2>2. older' = Cache!Used(k, gone)
    BY DEF Cache!InsertKey
  <2> QED
    BY <2>1, <2>2 DEF Cache!Used
<1>6. Grown(e0, Cache!Among(C), 1, n, e, older')
  BY <1>1, <1>2, <1>5 DEF Grown
<1>7. Filed(N, e0, Cache!Among(C))
  OBVIOUS
<1> HIDE DEF n, e, e0, P
<1>8. PutIn(N, 1, n) \in [Nat -> Seq(Filing)] /\ Filed(PutIn(N, 1, n), e, older')
  BY <1>1, <1>6, <1>7, PutFiled
<1> QED
  BY <1>3, <1>4, <1>8 DEF P, n, e, C

(* A use of a key: the list of its frequency loses the node, the next gains *)
(* one in front.                                                            *)
PromotedEntries(k, val) ==
  [x \in Cache!Cached |->
     IF x = k THEN [val |-> val, uses |-> key_table[k] + 1] ELSE Entries[x]]

LEMMA MovedShows ==
  ASSUME NEW L, NEW N \in [Nat -> Seq(Filing)], Shows(L, N),
         NEW f \in Nat, NEW j \in 1 .. Len(N[f]), NEW k, OnlyAt(N[f], j, k),
         NEW g \in Nat, g # f, NEW n \in Filing,
         NEW lists, Shows(lists, PutIn(N, g, n))
  PROVE  Leaves(lists, f, k, Taken(PutIn(N, g, n), f, j), FreqsOf(L) \cup {g})
<1> DEFINE P == PutIn(N, g, n)
<1>1. FreqsOf(lists) = FreqsOf(L) \cup {g}
  BY FreqsPut
<1>2. P[f] = N[f]
  BY DEF PutIn, Shows
<1>3. Shows(lists, P)
  OBVIOUS
<1> HIDE DEF P
<1>4. j \in 1 .. Len(P[f]) /\ OnlyAt(P[f], j, k)
  BY <1>2
<1>5. Leaves(lists, f, k, Taken(P, f, j), FreqsOf(lists))
  BY <1>3, <1>4, WithoutShows
<1> QED
  BY <1>1, <1>5 DEF P

(* The node n for k, in the list for g after that for f.                    *)
Renews(k, val, f, g, n) ==
  f = key_table[k] /\ g = f + 1 /\ n = [key |-> k, val |-> val]

LEMMA PromotedLists ==
  ASSUME CacheInv, NEW N \in [Nat -> Seq(Filing)],
         Shows(freq_list, N), Filed(N, Entries, older),
         NEW k \in Cache!Cached, NEW val \in Values, Cache!Promote(k, val),
         NEW f \in Nat, NEW g \in Nat, NEW n \in Filing, Renews(k, val, f, g, n),
         NEW j \in 1 .. Len(N[f]), OnlyAt(N[f], j, k)
  PROVE  /\ Shows(freq_list', Taken(PutIn(N, g, n), f, j))
         /\ freq_table' = FreqsOf(freq_list')
<1> DEFINE lists == IF g \in freq_table THEN Cache!PushFront(freq_list, g, n)
                    ELSE Cache!InsertNext(freq_list, f, n)
<1>1. f < MaxFreq /\ f \in FreqsOf(freq_list) /\ freq_table = FreqsOf(freq_list)
  BY KeyFacts DEF Cache!Promote, CacheInv, Renews
<1>2. Shows(lists, PutIn(N, g, n))
  <2>1. CASE g \in freq_table
    <3>1. Shows(Cache!PushFront(freq_list, g, n), PutIn(N, g, n))
      BY <1>1, <2>1, PushFrontShows
    <3> QED
      BY <2>1, <3>1
  <2>2. CASE g \notin freq_table
    <3>1. f + 1 \notin FreqsOf(freq_list)
      BY <1>1, <2>2 DEF Renews
    <3>2. Shows(Cache!InsertNext(freq_list, f, n), PutIn(N, f + 1, n))
      BY <1>1, <3>1, InsertNextShows
    <3> QED
      BY <2>2, <3>2 DEF Renews
  <2> QED
    BY <2>1, <2>2
<1>3. freq_list' = Cache!Without(lists, f, k)
      /\ freq_table' = Cache!FreqsWithout(freq_table \cup {g}, lists, f, k)
  BY DEF Cache!Promote, Renews
<1> HIDE DEF lists
<1>4. g # f
  BY DEF Renews
<1>5. Leaves(lists, f, k, Taken(PutIn(N, g, n), f, j), FreqsOf(freq_list) \cup {g})
  BY <1>2, <1>4, MovedShows
<1> QED
  BY <1>1, <1>3, <1>5 DEF Leaves

LEMMA PromotedFiled ==
  ASSUME CacheInv, NEW N \in [Nat -> Seq(Filing)],
         Filed(N, Entries, older),
         NEW k \in Cache!Cached, NEW val \in Values, Cache!Promote(k, val),
         NEW f \in Nat, NEW g \in Nat, NEW n \in Filing, Renews(k, val, f, g, n),
         NEW j \in 1 .. Len(N[f]), N[f][j].key = k
  PROVE  LET M == Taken(PutIn(N, g, n), f, j)
         IN  M \in [Nat -> Seq(Filing)] /\ Filed(M, PromotedEntries(k, val), older')
<1> DEFINE C == Cache!Cached \ {k}
           e1 == [x \in C |-> Entries[x]]
           o1 == Cache!Among(C)
           T == Taken(N, f, j)
           e2 == PromotedEntries(k, val)
<1>1. DOMAIN Entries = Cache!Cached /\ N[f][j].key = k
  BY DEF Entries
<1>2. /\ DOMAIN e1 = DOMAIN Entries \ {N[f][j].key}
      /\ \A x \in DOMAIN e1 : e1[x] = Entries[x]
      /\ \A x, y \in DOMAIN e1 : <<x, y>> \in older => <<x, y>> \in o1
  BY <1>1 DEF Cache!Among
<1>3. older' = o1 \cup (C \X {k})
  <2>1. Cache!Cached \ ({} \cup {k}) = C /\ older' = Cache!Used(k, {})
    BY DEF Cache!Promote
  <2> QED
    BY <2>1 DEF Cache!Used
<1>4. Grown(e1, o1, g, n, e2, older')
  BY <1>1, <1>3 DEF PromotedEntries, Renews, Grown
<1> HIDE DEF e1, o1, e2
<1>5. T \in [Nat -> Seq(Filing)] /\ Filed(T, e1, o1)
  BY <1>2, TakenFiled
<1> HIDE DEF T
<1>6. PutIn(T, g, n) \in [Nat -> Seq(Filing)] /\ Filed(PutIn(T, g, n), e2, older')
  BY <1>4, <1>5, PutFiled
<1>7. PutIn(Taken(N, f, j), g, n) = Taken(PutIn(N, g, n), f, j)
  <2>1. f # g
    BY DEF Renews
  <2> QED
    BY <2>1, TakeThenPut
<1> QED
  BY <1>6, <1>7 DEF T, e2

LEMMA Promoted ==
  ASSUME CacheInv, NEW k \in Cache!Cached, NEW val \in Values,
         Cache!Promote(k, val), capacity' = capacity, erased' = erased
  PROVE  CacheInv' /\ Entries' = PromotedEntries(k, val)
<1>1. PICK N \in [Nat -> Seq(Filing)] : Shows(freq_list, N) /\ Filed(N, Entries, older)
  BY DEF CacheInv
<1>2. /\ k \in Keys /\ key_table[k] \in 1 .. MaxFreq /\ key_table[k] \in Nat
      /\ \E j \in 1 .. Len(N[key_table[k]]) : OnlyAt(N[key_table[k]], j, k)
  BY <1>1, KeyFacts
<1>3. PICK f \in Nat : f = key_table[k]
  BY <1>2
<1>4. PICK g \in Nat : g = f + 1
  BY <1>2
<1>5. PICK n \in Filing : n = [key |-> k, val |-> val]
  BY <1>2 DEF Filing
<1>6. PICK j \in 1 .. Len(N[f]) : OnlyAt(N[f], j, k)
  BY <1>2, <1>3
<1>7. Renews(k, val, f, g, n) /\ N[f][j].key = k
  BY <1>3, <1>4, <1>5, <1>6 DEF Renews, OnlyAt
<1> DEFINE M == Taken(PutIn(N, g, n), f, j)
           e == PromotedEntries(k, val)
<1>8. Shows(freq_list', M) /\ freq_table' = FreqsOf(freq_list')
  <2> HIDE <1>3, <1>4, <1>5
  <2> QED
    BY <1>1, <1>6, <1>7, PromotedLists
<1>9. M \in [Nat -> Seq(Filing)] /\ Filed(M, e, older')
  <2> HIDE <1>3, <1>4, <1>5
  <2> QED
    BY <1>1, <1>7, PromotedFiled
<1> HIDE DEF M
<1>10. key_table' = [key_table EXCEPT ![k] = g] /\ f < MaxFreq /\ k \in DOMAIN key_table
  BY <1>3, <1>4 DEF Cache!Promote, Cache!Cached
<1>11. CacheType' /\ DOMAIN key_table' = DOMAIN key_table
  <2>1. g \in 1 .. MaxFreq
    <3>1. MaxFreq \in Nat /\ f < MaxFreq
      BY <1>10, CacheConstants DEF Cache!CacheAssumption
    <3> HIDE <1>3
    <3> QED
      BY <1>4, <3>1
  <2> QED
    BY <1>10, <2>1 DEF CacheInv, CacheType
<1>12. Entries' = e
  <2>1. DOMAIN e = Cache!Cached'
    BY <1>11 DEF PromotedEntries, Cache!Cached
  <2>2. e = [x \in DOMAIN e |-> [val |-> e[x].val, uses |-> e[x].uses]]
    BY DEF PromotedEntries, Entries
  <2>3. \A x \in DOMAIN e : e[x].uses = key_table'[x]
    BY <1>3, <1>4, <1>10 DEF PromotedEntries, Entries, Cache!Cached
  <2> HIDE DEF e
  <2> QED
    BY <1>8, <1>9, <2>1, <2>2, <2>3, EntriesAreNext
<1> QED
  BY <1>8, <1>9, <1>11, <1>12 DEF CacheInv

(* A new key, after the keys in gone have left.                             *)
InsertedEntries(k, val, gone) ==
  [x \in (Cache!Cached \ gone) \cup {k} |->
     IF x = k THEN [val |-> val, uses |-> 1] ELSE Entries[x]]

LEMMA Joined ==
  ASSUME CacheInv, NEW k \in Keys \ DOMAIN key_table, NEW val \in Values,
         NEW gone \in SUBSET Cache!Cached,
         NEW lists, Cache!InsertKey(k, val, gone, FreqsOf(lists), lists),
         NEW N \in [Nat -> Seq(Filing)], Shows(lists, N),
         Filed(N, [x \in Cache!Cached \ gone |-> Entries[x]],
               Cache!Among(Cache!Cached \ gone)),
         Cardinality(DOMAIN key_table \ gone) < capacity,
         capacity' = capacity, erased' = erased
  PROVE  CacheInv' /\ Entries' = InsertedEntries(k, val, gone)
<1> DEFINE e == InsertedEntries(k, val, gone)
<1>1. PICK M \in [Nat -> Seq(Filing)] :
        /\ Shows(freq_list', M) /\ freq_table' = FreqsOf(freq_list')
        /\ Filed(M, e, older')
  BY Inserted DEF InsertedEntries
<1>2. /\ key_table' = [x \in (DOMAIN key_table \ gone) \cup {k} |->
                         IF x = k THEN 1 ELSE key_table[x]]
      /\ DOMAIN key_table' = (DOMAIN key_table \ gone) \cup {k}
      /\ 1 \in 1 .. MaxFreq
  BY CacheConstants DEF Cache!InsertKey, Cache!CacheAssumption
<1>3. Cache!Cached' = (Cache!Cached \ gone) \cup {k}
  BY <1>2 DEF Cache!Cached, CacheInv, CacheType
<1>4. CacheType'
  <2> DEFINE D == DOMAIN key_table \ gone
  <2>1. IsFiniteSet(D) /\ k \notin D /\ Cardinality(D) \in Nat /\ capacity \in Nat
    BY FS_Difference, FS_CardinalityType DEF CacheInv, CacheType
  <2>2. IsFiniteSet(D \cup {k}) /\ Cardinality(D \cup {k}) = Cardinality(D) + 1
    BY <2>1, FS_AddElement
  <2>3. Cardinality(D \cup {k}) <= capacity
    BY <2>1, <2>2
  <2>4. DOMAIN key_table' = D \cup {k}
    BY <1>2
  <2>5. key_table' \in [DOMAIN key_table' -> 1 .. MaxFreq] /\ DOMAIN key_table' \subseteq Keys
    BY <1>2 DEF CacheInv, CacheType
  <2>6. erased' \subseteq DOMAIN key_table'
    BY <1>2 DEF CacheInv, CacheType, Cache!Cached
  <2> HIDE DEF D
  <2> QED
    BY <2>2, <2>3, <2>4, <2>5, <2>6 DEF CacheInv, CacheType
<1>5. Entries' = e
  <2>1. DOMAIN e = Cache!Cached'
    BY <1>3 DEF InsertedEntries
  <2>2. e = [x \in DOMAIN e |-> [val |-> e[x].val, uses |-> e[x].uses]]
    BY DEF InsertedEntries, Entries
  <2>3. \A x \in DOMAIN e : e[x].uses = key_table'[x]
    <3> SUFFICES ASSUME NEW x \in (Cache!Cached \ gone) \cup {k}
                 PROVE  e[x].uses = key_table'[x]
      BY DEF InsertedEntries
    <3>1. CASE x = k
      BY <1>2, <3>1 DEF InsertedEntries
    <3>2. CASE x # k
      <4>1. x \in Cache!Cached /\ x \in DOMAIN key_table \ gone
        BY <3>2 DEF Cache!Cached
      <4>2. e[x] = Entries[x] /\ key_table'[x] = key_table[x]
        BY <1>2, <3>2, <4>1 DEF InsertedEntries
      <4>3. Entries[x].uses = key_table[x]
        BY <4>1 DEF Entries
      <4> QED
        BY <4>2, <4>3
    <3> QED
      BY <3>1, <3>2
  <2> HIDE DEF e
  <2> QED
    BY <1>1, <2>1, <2>2, <2>3, EntriesAreNext
<1> QED
  BY <1>1, <1>4, <1>5 DEF CacheInv

(* The iterator of a key leads to the node that Erase, or the making of     *)
(* room, takes out.                                                         *)
LEMMA Left ==
  ASSUME CacheInv, NEW N \in [Nat -> Seq(Filing)],
         Shows(freq_list, N), Filed(N, Entries, older),
         NEW f \in Nat, NEW j \in 1 .. Len(N[f]), NEW k, OnlyAt(N[f], j, k)
  PROVE  LET C == Cache!Cached \ {k}
             M == Taken(N, f, j)
             lists == Cache!Without(freq_list, f, k)
         IN  /\ M \in [Nat -> Seq(Filing)]
             /\ Shows(lists, M)
             /\ Cache!FreqsWithout(freq_table, freq_list, f, k) = FreqsOf(lists)
             /\ Filed(M, [x \in C |-> Entries[x]], Cache!Among(C))
<1> DEFINE C == Cache!Cached \ {k}
           e1 == [x \in C |-> Entries[x]]
           o1 == Cache!Among(C)
<1>1. Leaves(freq_list, f, k, Taken(N, f, j), FreqsOf(freq_list))
  BY WithoutShows
<1>2. DOMAIN Entries = Cache!Cached /\ N[f][j].key = k
  BY DEF Entries, OnlyAt
<1>3. /\ DOMAIN e1 = DOMAIN Entries \ {N[f][j].key}
      /\ \A x \in DOMAIN e1 : e1[x] = Entries[x]
      /\ \A x, y \in DOMAIN e1 : <<x, y>> \in older => <<x, y>> \in o1
  BY <1>2 DEF Cache!Among
<1> HIDE DEF e1, o1
<1>4. Taken(N, f, j) \in [Nat -> Seq(Filing)] /\ Filed(Taken(N, f, j), e1, o1)
  BY <1>3, TakenFiled
<1>5. freq_table = FreqsOf(freq_list)
  BY DEF CacheInv
<1> QED
  BY <1>1, <1>4, <1>5 DEF Leaves, e1, o1

(* Who is cached has a node in one of the lists, so that there is a victim  *)
(* whenever the cache is full: the last node of the first list.             *)
LEMMA LastIsVictim ==
  ASSUME CacheInv, NEW N \in [Nat -> Seq(Filing)],
         Shows(freq_list, N), Filed(N, Entries, older),
         Cache!Cached # {}
  PROVE  LET f == Cache!MINFREQ
         IN  /\ f \in Nat
             /\ Len(N[f]) \in 1 .. Len(N[f]) /\ OnlyAt(N[f], Len(N[f]), Cache!Victim)
             /\ Cache!Victim \in Cache!Cached
             /\ \A x \in Cache!Cached \ {Cache!Victim} :
                  \/ Entries[Cache!Victim].uses < Entries[x].uses
                  \/ /\ Entries[Cache!Victim].uses = Entries[x].uses
                     /\ <<Cache!Victim, x>> \in older
<1>1. PICK c \in Cache!Cached : TRUE
  OBVIOUS
<1>2. key_table[c] \in FreqsOf(freq_list)
  BY KeyFacts
<1>3. 1 \in 1 .. Len(freq_list) /\ freq_list # <<>>
  <2>1. PICK i \in 1 .. Len(freq_list) : key_table[c] = freq_list[i].freq
    BY <1>2 DEF FreqsOf
  <2>2. Len(freq_list) \in Nat /\ i \in Nat
    BY ShowsFacts
  <2> QED
    BY <2>1, <2>2
<1>4. PICK f \in Nat : f = freq_list[1].freq
  BY <1>3, ShowsFacts
<1>5. Cache!MINFREQ = f
  BY <1>3, <1>4 DEF Cache!MINFREQ
<1>6. freq_list[1].nodes = N[f] /\ N[f] # <<>> /\ N[f] \in Seq(Filing)
  BY <1>3, <1>4 DEF Shows
<1>7. PICK j \in Nat : j = Len(N[f]) /\ j \in 1 .. Len(N[f])
  <2>1. Len(N[f]) \in Nat /\ Len(N[f]) # 0
    BY <1>6, EmptySeq, LenProperties
  <2> QED
    BY <2>1
<1>8. Cache!Place(freq_list, f) = 1
  BY <1>3, <1>4, ShowsFacts
<1>9. Cache!Victim = N[f][j].key
  BY <1>5, <1>6, <1>7, <1>8 DEF Cache!Victim, Cache!Last, Last
<1>10. PICK w : w = N[f][j].key
  OBVIOUS
<1>11. OnlyAt(N[f], j, w)
  <2>1. \A m \in 1 .. Len(N[f]) : N[f][m].key = N[f][j].key => m = j
    BY <1>7, KeyOnce
  <2> QED
    BY <1>10, <2>1 DEF OnlyAt
<1>12. w \in Cache!Cached /\ Entries[w].uses = f
  <2>1. N[f][j].key \in DOMAIN Entries /\ Entries[N[f][j].key].uses = f
    BY <1>7 DEF Filed
  <2> QED
    BY <1>10, <2>1 DEF Entries
<1>13. ASSUME NEW x \in Cache!Cached \ {w}
       PROVE  \/ f < Entries[x].uses
              \/ f = Entries[x].uses /\ <<w, x>> \in older
  <2>0. x \in DOMAIN Entries
    BY DEF Entries
  <2>1. PICK g \in Nat : g = Entries[x].uses /\ \E i \in 1 .. Len(N[g]) : N[g][i].key = x
    BY <2>0 DEF Filed
  <2>2. PICK i \in 1 .. Len(N[g]) : N[g][i].key = x
    BY <2>1
  <2>3. g \in FreqsOf(freq_list)
    <3>1. N[g] # <<>>
      BY <2>2
    <3> QED
      BY <3>1 DEF Shows
  <2>4. PICK m \in 1 .. Len(freq_list) : g = freq_list[m].freq
    BY <2>3 DEF FreqsOf
  <2>5. m \in Nat /\ m >= 1 /\ (1 < m => f < g) /\ (m = 1 => g = f)
    <3>1. m \in Nat /\ m >= 1
      BY ShowsFacts
    <3>2. 1 < m => freq_list[1].freq < freq_list[m].freq
      BY <1>3 DEF Shows
    <3> QED
      BY <1>4, <2>4, <3>1, <3>2
  <2>6. CASE g = f
    <3>1. i \in 1 .. Len(N[f]) /\ N[f][i].key = x /\ x # w
      BY <2>2, <2>6
    <3>2. i < j
      <4>1. i # j
        BY <1>10, <3>1
      <4> QED
        BY <1>7, <3>1, <4>1
    <3>3. <<N[f][j].key, N[f][i].key>> \in older
      BY <1>7, <3>1, <3>2 DEF Filed
    <3> QED
      BY <1>10, <2>1, <2>6, <3>1, <3>3
  <2> QED
    BY <2>1, <2>5, <2>6
<1> QED
  BY <1>5, <1>7, <1>9, <1>10, <1>11, <1>12, <1>13

LEMMA CardinalityIs ==
  ASSUME NEW S
  PROVE  Cache!Cardinality(S) = Cardinality(S) /\ Cache!Policy!Cardinality(S) = Cardinality(S)
BY DEF Cache!Cardinality, Cache!Policy!Cardinality, Cardinality

LEMMA PolicyIs ==
  /\ Cache!Policy!Cached = Cache!Cached
  /\ \A S : Cache!Policy!Among(S) = Cache!Among(S)
  /\ \A k, gone : Cache!Policy!Used(k, gone) = Cache!Used(k, gone)
BY DEF Cache!Policy!Cached, Cache!Policy!Among, Cache!Among, Cache!Policy!Used, Cache!Used

LEMMA UsedIs ==
  ASSUME CacheInv, NEW k \in Cache!Cached, NEW val \in Values,
         Cache!Promote(k, val), Entries' = PromotedEntries(k, val), erased' = erased
  PROVE  Cache!Policy!Use(k, val)
<1>1. Entries' = [Entries EXCEPT ![k] = [val |-> val, uses |-> @.uses + 1]]
  <2>1. Entries[k].uses = key_table[k] /\ DOMAIN Entries = Cache!Cached
    BY DEF Entries
  <2>2. Entries = [x \in Cache!Cached |-> Entries[x]]
    BY DEF Entries
  <2> QED
    BY <2>1, <2>2 DEF PromotedEntries
<1>2. older' = Cache!Used(k, {})
  BY DEF Cache!Promote
<1>3. UNCHANGED Cache!Cardinality(erased)
  OBVIOUS
<1> QED
  BY <1>1, <1>2, <1>3, PolicyIs DEF Cache!Policy!Use, Entries

(* Every step keeps the invariant and is a step of LFUPolicy.               *)
LEMMA CacheGet ==
  ASSUME CacheInv, NEW k \in Keys \ erased, Cache!Get(k)
  PROVE  CacheInv' /\ capacity' = capacity
         /\ (Cache!Policy!Hit(k) \/ Cache!Policy!Miss(k))
<1>1. capacity' = capacity /\ erased' = erased
  BY DEF Cache!Get
<1>2. CASE ~Cache!Known(k)
  <2>1. /\ answer' = Missing
        /\ UNCHANGED <<key_table, freq_table, freq_list, older>>
    BY <1>2 DEF Cache!Get
  <2>2. CacheInv'
    BY <1>1, <2>1 DEF CacheInv, CacheType, Entries, Cache!Cached, Cache!ValueOf
  <2>3. k \notin Cache!Cached
    BY <1>2 DEF Cache!Known, Cache!Cached
  <2>4. Cache!Policy!Miss(k)
    BY <1>1, <2>1, <2>3, PolicyIs DEF Cache!Policy!Miss, Cache!Cached, Cache!ValueOf
  <2> QED
    BY <1>1, <2>2, <2>4
<1>3. CASE Cache!Known(k)
  <2>1. k \in Cache!Cached
    BY <1>3 DEF Cache!Known, Cache!Cached
  <2>2. PICK val : val = Cache!ValueOf(k)
    OBVIOUS
  <2>3. answer' = val /\ Cache!Promote(k, val)
    BY <1>3, <2>2 DEF Cache!Get
  <2>4. val \in Values
    <3>1. PICK N \in [Nat -> Seq(Filing)] :
            Shows(freq_list, N) /\ Filed(N, Entries, older)
      BY DEF CacheInv
    <3> QED
      BY <2>1, <2>2, <3>1, KeyFacts
  <2>5. CacheInv' /\ Entries' = PromotedEntries(k, val)
    BY <1>1, <2>1, <2>3, <2>4, Promoted
  <2>6. Cache!Policy!Use(k, val)
    BY <1>1, <2>1, <2>3, <2>4, <2>5, UsedIs
  <2>7. Entries[k].val = val
    BY <2>1, <2>2 DEF Entries
  <2>8. Cache!Policy!Hit(k)
    <3>1. Cache!Policy!Use(k, Entries[k].val) /\ answer' = Entries[k].val
      BY <2>3, <2>6, <2>7 DEF Cache!Policy!Use
    <3> QED
      BY <3>1 DEF Cache!Policy!Hit, Entries
  <2> QED
    BY <1>1, <2>5, <2>8
<1> QED
  BY <1>2, <1>3

LEMMA CachePutKnown ==
  ASSUME CacheInv, NEW k \in Keys \ erased, NEW val \in Values,
         Cache!Put(k, val), Cache!Known(k)
  PROVE  CacheInv' /\ capacity' = capacity /\ Cache!Policy!Update(k, val)
<1>1. /\ capacity' = capacity /\ erased' = erased /\ answer' = answer
      /\ Cache!Promote(k, val)
  BY DEF Cache!Put
<1>2. k \in Cache!Cached
  BY DEF Cache!Known, Cache!Cached
<1>3. CacheInv' /\ Entries' = PromotedEntries(k, val)
  BY <1>1, <1>2, Promoted
<1>4. Cache!Policy!Use(k, val)
  BY <1>1, <1>2, <1>3, UsedIs
<1> QED
  BY <1>1, <1>3, <1>4 DEF Cache!Policy!Update

(* Every place is taken by a key in the cache or lost to an erased one.     *)
LEMMA Places ==
  ASSUME CacheInv
  PROVE  /\ IsFiniteSet(DOMAIN key_table) /\ IsFiniteSet(erased)
         /\ Cardinality(Cache!Cached) \in Nat /\ Cardinality(erased) \in Nat
         /\ Cardinality(Cache!Cached) + Cardinality(erased)
              = Cardinality(DOMAIN key_table)
         /\ Cardinality(DOMAIN key_table) \in Nat
<1>1. IsFiniteSet(DOMAIN key_table) /\ erased \subseteq DOMAIN key_table
  BY DEF CacheInv, CacheType
<1>2. IsFiniteSet(erased)
  BY <1>1, FS_Subset
<1>3. /\ IsFiniteSet(DOMAIN key_table \ erased)
      /\ Cardinality(DOMAIN key_table \ erased) =
           Cardinality(DOMAIN key_table) - Cardinality(DOMAIN key_table \cap erased)
  BY <1>1, FS_Difference
<1>4. DOMAIN key_table \cap erased = erased
  BY <1>1
<1>5. /\ Cardinality(DOMAIN key_table \ erased) \in Nat
      /\ Cardinality(DOMAIN key_table) \in Nat /\ Cardinality(erased) \in Nat
  BY <1>1, <1>2, <1>3, FS_CardinalityType
<1> QED
  BY <1>1, <1>2, <1>3, <1>4, <1>5 DEF Cache!Cached

LEMMA CachePutNew ==
  ASSUME CacheInv, NEW k \in Keys \ erased, NEW val \in Values,
         Cache!Put(k, val), ~Cache!Known(k)
  PROVE  CacheInv' /\ capacity' = capacity /\ Cache!Policy!PutNew(k, val)
<1>1. capacity' = capacity /\ erased' = erased /\ answer' = answer /\ capacity # 0
  BY DEF Cache!Put
<1>2. k \in Keys \ DOMAIN key_table /\ k \notin Cache!Cached
  BY DEF Cache!Known, Cache!Cached
<1>3. PICK N \in [Nat -> Seq(Filing)] : Shows(freq_list, N) /\ Filed(N, Entries, older)
  BY DEF CacheInv
<1>4. /\ freq_table = FreqsOf(freq_list) /\ capacity \in Nat
      /\ Cardinality(DOMAIN key_table) <= capacity
      /\ erased = {} \/ Cardinality(erased) < capacity
      /\ DOMAIN Entries = Cache!Cached /\ Entries = [x \in Cache!Cached |-> Entries[x]]
  BY DEF CacheInv, CacheType, Entries
<1>5. Cache!Full <=> ~(Cardinality(Cache!Cached) + Cardinality(erased) < capacity)
  <2>1. Cache!Full <=> Cardinality(DOMAIN key_table) = capacity
    BY CardinalityIs DEF Cache!Full
  <2>2. capacity \in Nat /\ Cardinality(DOMAIN key_table) <= capacity
    BY <1>4
  <2>3. PICK a \in Nat : a = Cardinality(Cache!Cached)
    BY Places
  <2>4. PICK b \in Nat : b = Cardinality(erased)
    BY Places
  <2>5. PICK c \in Nat : c = Cardinality(DOMAIN key_table)
    BY Places
  <2>6. a + b = c
    BY <2>3, <2>4, <2>5, Places
  <2>7. c <= capacity /\ capacity \in Nat
    BY <2>2, <2>5
  <2>8. c = capacity <=> ~(a + b < capacity)
    BY <2>6, <2>7
  <2> QED
    BY <2>1, <2>3, <2>4, <2>5, <2>8
<1>6. ASSUME NEW gone \in SUBSET Cache!Cached, NEW lists,
             Cache!InsertKey(k, val, gone, FreqsOf(lists), lists),
             Entries' = InsertedEntries(k, val, gone)
      PROVE  Cache!Policy!Insert(k, val, gone)
  <2>1. older' = Cache!Used(k, gone)
    BY <1>6 DEF Cache!InsertKey
  <2>2. UNCHANGED Cache!Cardinality(erased)
    BY <1>1
  <2> QED
    BY <1>1, <1>6, <2>1, <2>2, PolicyIs DEF Cache!Policy!Insert, InsertedEntries, Entries
<1>7. CASE ~Cache!Full
  <2>1. Cache!InsertKey(k, val, {}, FreqsOf(freq_list), freq_list)
    BY <1>4, <1>7 DEF Cache!Put
  <2>2. Cardinality(DOMAIN key_table \ {}) < capacity
    <3>1. DOMAIN key_table \ {} = DOMAIN key_table
      OBVIOUS
    <3> QED
      BY <1>4, <1>5, <1>7, <3>1, Places
  <2>3. Filed(N, [x \in Cache!Cached \ {} |-> Entries[x]], Cache!Among(Cache!Cached \ {}))
    <3>1. /\ Cache!Cached \ {} = Cache!Cached
          /\ \A x, y \in Cache!Cached :
               <<x, y>> \in older => <<x, y>> \in Cache!Among(Cache!Cached)
      BY DEF Cache!Among
    <3>2. Filed(N, Entries, Cache!Among(Cache!Cached))
      <4>1. \A f \in Nat : \A j \in 1 .. Len(N[f]) :
              /\ N[f][j].key \in DOMAIN Entries
              /\ Entries[N[f][j].key].uses = f
              /\ Entries[N[f][j].key].val = N[f][j].val
        BY <1>3 DEF Filed
      <4>2. \A f \in Nat : \A i, j \in 1 .. Len(N[f]) :
              i < j => N[f][i].key # N[f][j].key /\ <<N[f][j].key, N[f][i].key>> \in older
        BY <1>3 DEF Filed
      <4>3. \A f \in Nat : \A i, j \in 1 .. Len(N[f]) :
              i < j => /\ N[f][i].key # N[f][j].key
                       /\ <<N[f][j].key, N[f][i].key>> \in Cache!Among(Cache!Cached)
        <5>1. DOMAIN Entries = Cache!Cached
          BY <1>4
        <5>2. \A f \in Nat : \A i \in 1 .. Len(N[f]) : N[f][i].key \in Cache!Cached
          BY <4>1, <5>1
        <5> QED
          BY <3>1, <4>2, <5>2
      <4>4. \A x \in DOMAIN Entries :
              /\ Entries[x].uses \in Nat
              /\ \E j \in 1 .. Len(N[Entries[x].uses]) : N[Entries[x].uses][j].key = x
        BY <1>3 DEF Filed
      <4> QED
        BY <4>1, <4>3, <4>4 DEF Filed
    <3> QED
      BY <1>4, <3>1, <3>2
  <2>4. CacheInv' /\ Entries' = InsertedEntries(k, val, {})
    BY <1>1, <1>2, <1>3, <2>1, <2>2, <2>3, Joined
  <2>5. Cache!Policy!Insert(k, val, {})
    BY <1>6, <2>1, <2>4
  <2> QED
    BY <1>1, <1>2, <1>5, <1>7, <2>4, <2>5, PolicyIs, CardinalityIs DEF Cache!Policy!PutNew
<1>8. CASE Cache!Full
  <2>1. PICK w : w = Cache!Victim
    OBVIOUS
  <2> DEFINE lists == Cache!Without(freq_list, Cache!MINFREQ, w)
  <2>2. Cache!InsertKey(k, val, {w}, Cache!FreqsWithout(freq_table, freq_list, Cache!MINFREQ, w), lists)
    BY <1>8, <2>1, Zenon DEF Cache!Put
  <2>3. Cache!Cached # {}
    <3>1. erased = {} => Cardinality(erased) = 0
      BY FS_EmptySet
    <3>2. Cache!Cached = {} => Cardinality(Cache!Cached) = 0
      BY FS_EmptySet
    <3>3. PICK a \in Nat : a = Cardinality(Cache!Cached)
      BY Places
    <3>4. PICK b \in Nat : b = Cardinality(erased)
      BY Places
    <3>5. ~(a + b < capacity)
      BY <1>5, <1>8, <3>3, <3>4
    <3>6. capacity \in Nat /\ capacity # 0
      BY <1>1, <1>4
    <3>7. b < capacity
      <4>1. CASE erased = {}
        BY <3>1, <3>4, <3>6, <4>1
      <4>2. CASE Cardinality(erased) < capacity
        BY <3>4, <4>2
      <4> QED
        BY <1>4, <4>1, <4>2, Zenon
    <3> QED
      <4>1. CASE a # 0
        BY <3>2, <3>3, <4>1
      <4>2. CASE a = 0
        BY <3>5, <3>6, <3>7, <4>2
      <4> QED
        BY <4>1, <4>2
  <2>4. PICK f \in Nat : f = Cache!MINFREQ
    BY <1>3, <2>3, LastIsVictim
  <2>5. PICK j \in 1 .. Len(N[f]) : OnlyAt(N[f], j, w)
    BY <1>3, <2>1, <2>3, <2>4, LastIsVictim
  <2>6. /\ w \in Cache!Cached
        /\ \A x \in Cache!Cached \ {w} :
             \/ Entries[w].uses < Entries[x].uses
             \/ Entries[w].uses = Entries[x].uses /\ <<w, x>> \in older
    BY <1>3, <2>1, <2>3, LastIsVictim
  <2> DEFINE M == Taken(N, f, j)
  <2>7. /\ M \in [Nat -> Seq(Filing)]
        /\ Shows(lists, M)
        /\ Cache!FreqsWithout(freq_table, freq_list, f, w) = FreqsOf(lists)
        /\ Filed(M, [x \in Cache!Cached \ {w} |-> Entries[x]], Cache!Among(Cache!Cached \ {w}))
    BY <1>3, <2>4, <2>5, Left
  <2> HIDE DEF lists, M
  <2>8. Cache!InsertKey(k, val, {w}, FreqsOf(lists), lists)
    BY <2>2, <2>4, <2>7
  <2>9. Cardinality(DOMAIN key_table \ {w}) < capacity
    <3>1. w \in DOMAIN key_table /\ IsFiniteSet(DOMAIN key_table)
      BY <2>6, Places DEF Cache!Cached
    <3>2. Cardinality(DOMAIN key_table \ {w}) = Cardinality(DOMAIN key_table) - 1
      BY <3>1, FS_RemoveElement
    <3> QED
      BY <1>4, <3>2, Places
  <2>10. CacheInv' /\ Entries' = InsertedEntries(k, val, {w})
    BY <1>1, <1>2, <2>6, <2>7, <2>8, <2>9, Joined
  <2>11. Cache!Policy!Insert(k, val, {w})
    BY <1>6, <2>6, <2>8, <2>10
  <2>12. \A x \in Cache!Policy!Cached \ {w} : Cache!Policy!Precedes(w, x)
    BY <2>6, PolicyIs DEF Cache!Policy!Precedes, Entries
  <2>13. w \in Cache!Policy!Cached /\ k \notin Cache!Policy!Cached
    BY <1>2, <2>6, PolicyIs
  <2>14. ~(Cache!Policy!Cardinality(Cache!Policy!Cached) + Cache!Cardinality(erased) < capacity)
    BY <1>5, <1>8, PolicyIs, CardinalityIs
  <2> QED
    BY <1>1, <2>10, <2>11, <2>12, <2>13, <2>14 DEF Cache!Policy!PutNew
<1> QED
  BY <1>7, <1>8

LEMMA CacheErase ==
  ASSUME CacheInv, NEW k \in Keys \ erased, Cache!Erase(k)
  PROVE  CacheInv' /\ capacity' = capacity /\ Cache!Policy!Erase(k)
<1>1. /\ capacity' = capacity /\ answer' = answer /\ key_table' = key_table
      /\ erased' = erased \cup {k} /\ k \in DOMAIN key_table /\ k \notin erased
      /\ older' = Cache!Among(Cache!Cached \ {k})
      /\ Cardinality(erased) + 1 < capacity
  BY CardinalityIs DEF Cache!Erase, Cache!Known
<1>2. k \in Cache!Cached /\ Cache!Cached' = Cache!Cached \ {k}
  BY <1>1 DEF Cache!Cached
<1>3. PICK N \in [Nat -> Seq(Filing)] : Shows(freq_list, N) /\ Filed(N, Entries, older)
  BY DEF CacheInv
<1>4. /\ key_table[k] \in Nat
      /\ \E j \in 1 .. Len(N[key_table[k]]) : OnlyAt(N[key_table[k]], j, k)
  BY <1>2, <1>3, KeyFacts
<1>5. PICK f \in Nat : f = key_table[k]
  BY <1>4
<1>6. PICK j \in 1 .. Len(N[f]) : OnlyAt(N[f], j, k)
  BY <1>4, <1>5
<1> DEFINE M == Taken(N, f, j)
           lists == Cache!Without(freq_list, f, k)
           e == [x \in Cache!Cached \ {k} |-> Entries[x]]
<1>7. /\ M \in [Nat -> Seq(Filing)]
      /\ Shows(lists, M)
      /\ Cache!FreqsWithout(freq_table, freq_list, f, k) = FreqsOf(lists)
      /\ Filed(M, e, Cache!Among(Cache!Cached \ {k}))
  BY <1>3, <1>6, Left
<1>8. freq_list' = lists /\ freq_table' = Cache!FreqsWithout(freq_table, freq_list, f, k)
  BY <1>5 DEF Cache!Erase
<1> HIDE DEF M, lists
<1>9. Shows(freq_list', M) /\ freq_table' = FreqsOf(freq_list') /\ Filed(M, e, older')
  BY <1>1, <1>7, <1>8
<1>10. IsFiniteSet(erased) /\ Cardinality(erased') = Cardinality(erased) + 1
  BY <1>1, Places, FS_AddElement
<1>11. CacheType'
  BY <1>1, <1>10 DEF CacheInv, CacheType
<1>12. Entries' = e
  <2>1. DOMAIN e = Cache!Cached'
    BY <1>2
  <2>2. e = [x \in DOMAIN e |-> [val |-> e[x].val, uses |-> e[x].uses]]
    BY DEF Entries
  <2>3. \A x \in DOMAIN e : e[x].uses = key_table'[x]
    BY <1>1 DEF Entries
  <2> HIDE DEF e
  <2> QED
    BY <1>7, <1>9, <2>1, <2>2, <2>3, EntriesAreNext
<1>13. CacheInv'
  BY <1>7, <1>9, <1>11, <1>12 DEF CacheInv
<1>14. Cache!Policy!Erase(k)
  <2>1. Cache!Cardinality(erased)' = Cache!Cardinality(erased) + 1
    <3>1. Cache!Cardinality(erased') = Cardinality(erased')
      BY CardinalityIs
    <3> QED
      BY <1>10, <3>1, CardinalityIs
  <2> QED
    BY <1>1, <1>2, <1>12, <2>1, PolicyIs DEF Cache!Policy!Erase, Entries
<1> QED
  BY <1>1, <1>13, <1>14

LEMMA CacheNext ==
  ASSUME CacheInv, [Cache!Next]_(Cache!vars)
  PROVE  CacheInv' /\ [Cache!Policy!Next]_(Cache!Policy!vars)
<1>1. CASE UNCHANGED Cache!vars
  <2>1. CacheInv'
    BY <1>1 DEF Cache!vars, CacheInv, CacheType, Entries, Cache!Cached, Cache!ValueOf
  <2>2. UNCHANGED Cache!Policy!vars
    BY <1>1 DEF Cache!vars, Cache!Policy!vars, Cache!Cached, Cache!ValueOf
  <2> QED
    BY <2>1, <2>2
<1>2. CASE Cache!PutNothing
  <2>1. UNCHANGED Cache!vars
    BY <1>2 DEF Cache!PutNothing
  <2> QED
    BY <1>1, <2>1
<1>3. ASSUME NEW k \in Keys \ erased, Cache!Get(k)
      PROVE  CacheInv' /\ Cache!Policy!Next
  BY <1>3, CacheGet DEF Cache!Policy!Next
<1>4. ASSUME NEW k \in Keys \ erased, NEW val \in Values, Cache!Put(k, val)
      PROVE  CacheInv' /\ Cache!Policy!Next
  BY <1>4, CachePutKnown, CachePutNew DEF Cache!Policy!Next
<1>5. ASSUME NEW k \in Keys \ erased, Cache!Erase(k)
      PROVE  CacheInv' /\ Cache!Policy!Next
  BY <1>5, CacheErase DEF Cache!Policy!Next
<1> QED
  BY <1>1, <1>2, <1>3, <1>4, <1>5 DEF Cache!Next

(* LFUCache keeps TablesAgree and implements LFUPolicy.                     *)
LEMMA InvAgrees == CacheInv => TablesAgree
<1> SUFFICES ASSUME CacheInv PROVE Cache!TablesAgree
  BY DEF TablesAgree
<1>1. PICK N \in [Nat -> Seq(Filing)] : Shows(freq_list, N) /\ Filed(N, Entries, older)
  BY DEF CacheInv
<1>2. /\ DOMAIN freq_list = 1 .. Len(freq_list)
      /\ \A i \in 1 .. Len(freq_list) :
           /\ freq_list[i].freq \in 1 .. MaxFreq /\ freq_list[i].freq \in Nat
           /\ freq_list[i].nodes = N[freq_list[i].freq] /\ freq_list[i].nodes # <<>>
           /\ freq_list[i].nodes \in Seq(Filing)
  <2>1. freq_list \in Seq(FilingList)
    BY <1>1 DEF Shows
  <2>2. \A i \in 1 .. Len(freq_list) :
           freq_list[i].freq \in 1 .. MaxFreq /\ freq_list[i].freq \in Nat
    BY <1>1, ShowsFacts
  <2>3. \A i \in 1 .. Len(freq_list) :
           freq_list[i].nodes # <<>> /\ N[freq_list[i].freq] = freq_list[i].nodes
    BY <1>1 DEF Shows
  <2>4. \A i \in 1 .. Len(freq_list) : freq_list[i].nodes \in Seq(Filing)
    <3>1. \A i \in 1 .. Len(freq_list) : freq_list[i] \in FilingList
      BY <2>1
    <3> QED
      BY <3>1 DEF FilingList
  <2> QED
    BY <2>1, <2>2, <2>3, <2>4
<1>3. Cache!TypeOK
  <2>1. /\ key_table \in [DOMAIN key_table -> 1 .. MaxFreq]
        /\ Cache!Cardinality(DOMAIN key_table) <= capacity
    BY CardinalityIs DEF CacheInv, CacheType
  <2>2. freq_table \subseteq 1 .. MaxFreq
    BY <1>2 DEF CacheInv, FreqsOf
  <2>3. \A i \in DOMAIN freq_list : \A j \in DOMAIN freq_list[i].nodes :
          freq_list[i].nodes[j] \in [key : Keys, val : Values]
    <3> SUFFICES ASSUME NEW i \in DOMAIN freq_list, NEW j \in DOMAIN freq_list[i].nodes
                 PROVE  freq_list[i].nodes[j] \in Filing
      BY DEF Filing
    <3>1. PICK s \in Seq(Filing) : s = freq_list[i].nodes
      BY <1>2
    <3>2. j \in DOMAIN s
      BY <3>1
    <3>3. s[j] \in Filing
      BY <3>2
    <3> QED
      BY <3>1, <3>3
  <2> QED
    BY <1>2, <2>1, <2>2, <2>3 DEF Cache!TypeOK
<1>4. \A i, j \in DOMAIN freq_list : i < j => freq_list[i].freq < freq_list[j].freq
  BY <1>1, <1>2 DEF Shows
<1>5. freq_table = {freq_list[i].freq : i \in DOMAIN freq_list}
  BY <1>2 DEF CacheInv, FreqsOf
<1>6. ASSUME NEW i \in DOMAIN freq_list, NEW j \in DOMAIN freq_list[i].nodes
      PROVE  /\ freq_list[i].nodes[j].key \in Cache!Cached
             /\ key_table[freq_list[i].nodes[j].key] = freq_list[i].freq
             /\ \A m \in DOMAIN freq_list[i].nodes :
                  freq_list[i].nodes[m].key = freq_list[i].nodes[j].key => m = j
  <2>1. PICK f \in Nat : f = freq_list[i].freq
    BY <1>2
  <2>2. /\ freq_list[i].nodes = N[f] /\ N[f] \in Seq(Filing)
        /\ DOMAIN N[f] = 1 .. Len(N[f]) /\ j \in 1 .. Len(N[f])
    <3>1. freq_list[i].nodes = N[f]
      BY <1>2, <2>1
    <3>2. N[f] \in Seq(Filing)
      OBVIOUS
    <3> QED
      BY <3>1, <3>2
  <2>3. N[f][j].key \in DOMAIN Entries /\ Entries[N[f][j].key].uses = f
    BY <1>1, <2>2 DEF Filed
  <2>4. N[f][j].key \in Cache!Cached /\ key_table[N[f][j].key] = f
    BY <2>3 DEF Entries
  <2>5. \A m \in 1 .. Len(N[f]) : N[f][m].key = N[f][j].key => m = j
    BY <1>1, <2>2, KeyOnce
  <2> QED
    BY <2>1, <2>2, <2>4, <2>5
<1>7. ASSUME NEW k \in Cache!Cached
      PROVE  \E i \in DOMAIN freq_list, node \in [key : {k}, val : Values] :
               node \in Cache!Range(freq_list[i].nodes)
  <2>1. /\ key_table[k] \in Nat /\ key_table[k] \in FreqsOf(freq_list)
        /\ \E j \in 1 .. Len(N[key_table[k]]) : OnlyAt(N[key_table[k]], j, k)
    BY <1>1, KeyFacts
  <2>2. PICK f \in Nat : f = key_table[k]
    BY <2>1
  <2>3. PICK i \in DOMAIN freq_list : f = freq_list[i].freq
    BY <1>2, <2>1, <2>2 DEF FreqsOf
  <2>4. PICK j \in 1 .. Len(N[f]) : OnlyAt(N[f], j, k)
    BY <2>1, <2>2
  <2>5. freq_list[i].nodes = N[f] /\ N[f] \in Seq(Filing) /\ j \in DOMAIN N[f]
    <3>1. freq_list[i].nodes = N[f]
      BY <1>2, <2>3
    <3>2. N[f] \in Seq(Filing)
      OBVIOUS
    <3> QED
      BY <2>4, <3>1, <3>2
  <2>6. N[f][j] \in Filing /\ N[f][j].key = k
    BY <2>4, <2>5 DEF OnlyAt
  <2>7. N[f][j] \in [key : {k}, val : Values]
    BY <2>6 DEF Filing
  <2>8. N[f][j] \in Cache!Range(freq_list[i].nodes)
    BY <2>5 DEF Cache!Range
  <2> QED
    BY <2>7, <2>8
<1>8. \A i \in DOMAIN freq_list : freq_list[i].nodes # <<>>
  BY <1>2
<1> QED
  BY <1>3, <1>4, <1>5, <1>6, <1>7, <1>8 DEF Cache!TablesAgree

LEMMA CacheStarts == Cache!Init => Cache!Policy!Init
<1> SUFFICES ASSUME Cache!Init PROVE Cache!Policy!Init
  OBVIOUS
<1>1. /\ capacity \in Nat /\ key_table = <<>> /\ erased = {} /\ answer = Missing /\ older = {}
  BY CacheConstants DEF Cache!Init, Cache!CacheAssumption
<1>2. Cache!Cached = {}
  BY <1>1 DEF Cache!Cached
<1>3. Entries = <<>>
  BY <1>2 DEF Entries
<1>4. Cache!Cardinality(erased) = 0
  BY <1>1, CardinalityIs, FS_EmptySet
<1> QED
  BY <1>1, <1>3, <1>4 DEF Cache!Policy!Init, Entries

(* See LFUCache, TablesAgree: for any keys, values and capacity no iterator *)
(* of lfu.cpp dangles as long as an erased key is not used again.           *)
THEOREM CacheTablesAgree == MCSpec => []TablesAgree
<1>1. MCInit => CacheInv
  BY CacheInit DEF MCInit
<1>2. CacheInv /\ [MCNext]_mcVars => CacheInv'
  <2>1. [MCNext]_mcVars => [Cache!Next]_(Cache!vars)
    BY DEF MCNext, mcVars, cacheVars, Run, Cache!vars
  <2> QED
    BY <2>1, CacheNext
<1> QED
  BY <1>1, <1>2, InvAgrees, PTL DEF MCSpec

(* See LFUCache, Policy: get answers the last value put, and the victim is  *)
(* the least frequently used key, of several the least recently used,       *)
(* although lfu.cpp stores neither uses nor times.                          *)
THEOREM CacheIsLFU == MCSpec => ImplementsLFUPolicy
<1>1. MCInit => CacheInv /\ Cache!Policy!Init
  BY CacheInit, CacheStarts DEF MCInit
<1>2. CacheInv /\ [MCNext]_mcVars =>
        CacheInv' /\ [Cache!Policy!Next]_(Cache!Policy!vars)
  <2>1. [MCNext]_mcVars => [Cache!Next]_(Cache!vars)
    BY DEF MCNext, mcVars, cacheVars, Run, Cache!vars
  <2> QED
    BY <2>1, CacheNext
<1>3. MCSpec => Cache!Policy!Init /\ [][Cache!Policy!Next]_(Cache!Policy!vars)
  BY <1>1, <1>2, PTL DEF MCSpec
<1> QED
  BY <1>3 DEF ImplementsLFUPolicy, Cache!ImplementsLFUPolicy, Cache!Policy!Spec

=============================================================================
