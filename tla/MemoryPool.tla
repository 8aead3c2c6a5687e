----------------------------- MODULE MemoryPool -----------------------------
(***************************************************************************)
(* MemoryPool of src/memory_pool/MemoryPool.h: units of memory cut one     *)
(* after the other from a chain of blocks.  Memory is counted in words.    *)
(*                                                                         *)
(* The pool runs in one thread; its operations are functions from the      *)
(* state of a pool to the next one, so that a user of the pool (this       *)
(* module's Next, or a container) can compose several in one step.  A      *)
(* block's address is free again after std::free and may be handed out by  *)
(* the next malloc.  When malloc fails createMemoryBlock throws before it  *)
(* has changed anything: no step.                                          *)
(***************************************************************************)
EXTENDS Naturals, FiniteSets, Functions

CONSTANTS
  Blocks,            \* addresses malloc returns
  Null,              \* nullptr
  DefaultBlockSize,  \* defaultBlockSize, in words
  UnitHeader,        \* sizeof(SMemoryUnitHeader), in words
  Sizes              \* bound: the sizes a user asks for

ASSUME PoolAssumption ==
  /\ Null \notin Blocks
  /\ DefaultBlockSize \in Nat \ {0}
  /\ UnitHeader \in Nat \ {0}
  /\ Sizes \subseteq Nat

VARIABLES
  pool,  \* firstBlock, currentBlock, and the header of every malloc'd block
  live   \* the units the user holds: container, position in it and length
         \* are what the unit's header says

poolVars == <<pool, live>>

Address == Blocks \cup {Null}
Header == [blockSize : Nat, offset : Nat, next : Address, prev : Address,
           numberOfAllocated : Nat, numberOfDeleted : Nat]
UnitRecord == [container : Blocks, at : Nat, length : Nat]

(* The end of a unit within its block.                                      *)
End(u) == u.at + UnitHeader + u.length
Fresh(p) == Blocks \ DOMAIN p.block
Greater(m, n) == IF m < n THEN n ELSE m

-----------------------------------------------------------------------------
(* The operations                                                           *)

NoPool == [firstBlock |-> Null, currentBlock |-> Null, block |-> <<>>]

Linked(p, b, header) ==
  [x \in DOMAIN p.block \cup {b} |->
     IF x = b THEN header
     ELSE IF x = p.currentBlock THEN [p.block[x] EXCEPT !.next = b]
     ELSE p.block[x]]

(* createMemoryBlock: b becomes the last and the current block.             *)
Created(p, b, size) ==
  [firstBlock |-> IF p.firstBlock = Null THEN b ELSE p.firstBlock,
   currentBlock |-> b,
   block |-> Linked(p, b, [blockSize |-> size, offset |-> 0, next |-> Null,
                           prev |-> p.currentBlock,
                           numberOfAllocated |-> 0, numberOfDeleted |-> 0])]

(* The constructor starts from two null pointers and creates a block.       *)
Constructed(b) == Created(NoPool, b, DefaultBlockSize)

Fits(p, size) ==
  LET h == p.block[p.currentBlock]
  IN  size + UnitHeader < h.blockSize - h.offset

(* allocatesize makes sure that the current block has room ...              *)
Roomy(p, size, b) ==
  IF Fits(p, size) THEN p
  ELSE Created(p, b, Greater(size + UnitHeader, DefaultBlockSize))

(* ... for the unit, which it writes at the offset of the current block.    *)
NextUnit(p, size) ==
  [container |-> p.currentBlock, at |-> p.block[p.currentBlock].offset,
   length |-> size]

OneMore(h, size) ==
  [h EXCEPT !.offset = @ + UnitHeader + size, !.numberOfAllocated = @ + 1]

WithUnit(p, size) ==
  [p EXCEPT !.block[p.currentBlock] = OneMore(@, size)]

(* Mutant of Unlinked: removing the first block leaves the back pointer of  *)
(* the second one.                                                          *)
UnlinkedForward(p, b) ==
  LET h == p.block[b]
  IN  CASE b = p.firstBlock -> [p EXCEPT !.firstBlock = h.next]
        [] b # p.firstBlock /\ b = p.currentBlock ->
             [p EXCEPT !.currentBlock = h.prev, !.block[h.prev].next = Null]
        [] OTHER -> [p EXCEPT !.block[h.prev].next = h.next,
                              !.block[h.next].prev = h.prev]

(* deallocate takes an empty block out of the chain, of which it is not the *)
(* only one.                                                                *)
Unlinked(p, b) ==
  LET h == p.block[b]
  IN  CASE b = p.firstBlock ->
             [p EXCEPT !.firstBlock = h.next, !.block[h.next].prev = Null]
        [] b # p.firstBlock /\ b = p.currentBlock ->
             [p EXCEPT !.currentBlock = h.prev, !.block[h.prev].next = Null]
        [] OTHER -> [p EXCEPT !.block[h.prev].next = h.next,
                              !.block[h.next].prev = h.prev]

Freed(p, b) == [p EXCEPT !.block = Restrict(@, DOMAIN @ \ {b})]

(* Mutant of OneLess: every unit is taken for the last in its block.        *)
OneLessBlindly(h, u) ==
  [h EXCEPT !.offset = @ - (UnitHeader + u.length), !.numberOfAllocated = @ - 1]

(* The last unit of a block gives its room back, any other is counted.      *)
OneLess(h, u) ==
  IF h.offset = End(u)
  THEN [h EXCEPT !.offset = @ - (UnitHeader + u.length),
                 !.numberOfAllocated = @ - 1]
  ELSE [h EXCEPT !.numberOfDeleted = @ + 1]

WithoutUnit(p, u) == [p EXCEPT !.block[u.container] = OneLess(@, u)]

IsEmpty(h) == h.offset = 0 \/ h.numberOfAllocated = h.numberOfDeleted

Deallocated(p, u) ==
  LET q == WithoutUnit(p, u)
  IN  IF q.currentBlock # q.firstBlock /\ IsEmpty(q.block[u.container])
      THEN Freed(Unlinked(q, u.container), u.container)
      ELSE q

(* Where the first pointer and the next pointers of S lead is in S.         *)
Follows(p, S) ==
  ({p.firstBlock} \cup {p.block[b].next : b \in S}) \cap DOMAIN p.block \subseteq S

(* Every block the next pointers lead to from the first one.                *)
Chain(p) ==
  {b \in DOMAIN p.block :
     \A S \in SUBSET DOMAIN p.block : Follows(p, S) => b \in S}

(* The destructor frees the blocks of the chain.                            *)
Destructed(p) ==
  [NoPool EXCEPT !.block = Restrict(p.block, DOMAIN p.block \ Chain(p))]

-----------------------------------------------------------------------------
(* A program that calls the pool directly                                   *)

Init ==
  /\ pool = NoPool
  /\ live = {}

Construct ==
  /\ pool.firstBlock = Null
  /\ \E b \in Fresh(pool) : pool' = Constructed(b)
  /\ UNCHANGED live

Allocate(size) ==
  /\ pool.firstBlock # Null
  /\ \E b \in Fresh(pool) :
       LET p == Roomy(pool, size, b)
       IN  /\ pool' = WithUnit(p, size)
           /\ live' = live \cup {NextUnit(p, size)}

Deallocate(u) ==
  /\ pool' = Deallocated(pool, u)
  /\ live' = live \ {u}

Destroy ==
  /\ pool.firstBlock # Null
  /\ pool' = Destructed(pool)
  /\ live' = {}

Next ==
  \/ Construct
  \/ Destroy
  \/ \E size \in Sizes : Allocate(size)
  \/ \E u \in live : Deallocate(u)

Spec == Init /\ [][Next]_poolVars

-----------------------------------------------------------------------------
(* Properties                                                               *)

(* The header of every block is well formed, its offset within the block:  *)
(* blockSize - offset of allocatesize does not wrap around.                 *)
TypeOK ==
  /\ {pool.firstBlock, pool.currentBlock} \subseteq Address
  /\ DOMAIN pool.block \subseteq Blocks
  /\ \A b \in DOMAIN pool.block :
       /\ pool.block[b] \in Header
       /\ pool.block[b].offset <= pool.block[b].blockSize
  /\ \A u \in live : u \in UnitRecord

(* No word is handed out twice, and none of a freed block: every unit lies, *)
(* with its header, below the offset of a block of the pool, and apart from *)
(* the other units.  deallocate resets the offset and frees blocks by       *)
(* counting, without a list of what is in use.                              *)
UnitsApart ==
  \A u \in live :
    /\ u.container \in DOMAIN pool.block
    /\ End(u) <= pool.block[u.container].offset
    /\ \A w \in live \ {u} :
         u.container = w.container => End(u) <= w.at \/ End(w) <= u.at

(* The next pointers lead from the first to the current block through every *)
(* block there is, so that the destructor leaks none; prev undoes next; and *)
(* memory does not pile up: every block but the first holds a unit in use.  *)
(* Only a deallocation in a block can free it, so none may miss the moment  *)
(* in which the block becomes empty.                                        *)
ChainIntact ==
  /\ Chain(pool) = DOMAIN pool.block
  /\ \A b \in DOMAIN pool.block :
       LET h == pool.block[b]
       IN  /\ h.next = Null <=> b = pool.currentBlock
           /\ h.prev = Null <=> b = pool.firstBlock
           /\ h.next # Null =>
                h.next \in DOMAIN pool.block /\ pool.block[h.next].prev = b
           /\ b = pool.firstBlock \/ \E u \in live : u.container = b
=============================================================================
