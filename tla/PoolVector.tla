----------------------------- MODULE PoolVector -----------------------------
(***************************************************************************)
(* Vector of src/memory_pool/Vector.h with a MemoryPool as its allocator,  *)
(* as TEST_USE of Bench.cpp uses it.  An element takes one word.  A vector *)
(* owns its pool.                                                          *)
(*                                                                         *)
(* Copying and moving are for vectors with the default allocator only      *)
(* (their parameter is Vector<T>) and are not modelled.  Vector(0) is left *)
(* out: it allocates no room, which expand doubles.                        *)
(***************************************************************************)
EXTENDS MemoryPool, Sequences, SequencesExt

CONSTANTS
  Values,       \* the elements
  Zero,         \* T(), one of them
  MaxCapacity   \* bound: a vector that large is not expanded

ASSUME PoolVectorAssumption ==
  /\ Zero \in Values
  /\ MaxCapacity \in Nat
  /\ Null \notin [first : UnitRecord, last : Nat, end : Nat]

VARIABLES
  vector,  \* first_ (its unit), last_ and end_ (counted from first_);
           \* Null while there is no vector
  object,  \* the elements constructed in memory, by their address
  content  \* history: what the vector's user has put into it

vectorVars == <<vector, object, content>>

Word(u, i) == <<u.container, u.at + UnitHeader + i>>
Words(u, n) == {Word(u, i) : i \in 0 .. n - 1}

(* n elements at u, the i-th of them x[i].                                  *)
Placed(u, x) ==
  [w \in Words(u, Len(x)) |-> x[(w[2] - (u.at + UnitHeader)) + 1]]

(* The elements read from u.                                                *)
Elements(u, n) == [i \in 1 .. n |-> object[Word(u, i - 1)]]

(* The elements in memory when those of new have been constructed.          *)
Added(old, new) ==
  [w \in DOMAIN old \cup DOMAIN new |->
     IF w \in DOMAIN new THEN new[w] ELSE old[w]]

VectorInit ==
  /\ vector = Null /\ object = <<>> /\ content = <<>>

-----------------------------------------------------------------------------
(* The constructors: x is what is in the vector, capacity what it has room  *)
(* for.  The allocator_ member is constructed first.                        *)
ConstructVector(x, capacity) ==
  /\ vector = Null
  /\ \E b \in Blocks : \E c \in Blocks \ {b} :
       LET p == Roomy(Constructed(b), capacity, c)
           u == NextUnit(p, capacity)
       IN  /\ pool' = WithUnit(p, capacity)
           /\ live' = {u}
           /\ vector' = [first |-> u, last |-> Len(x), end |-> capacity]
           /\ object' = Placed(u, x)
  /\ content' = x

ConstructDefault == ConstructVector(<<>>, 1)
ConstructSized(n) == ConstructVector([i \in 1 .. n |-> Zero], 2 * n)
ConstructList(x) == ConstructVector(x, 2 * Len(x))

(* Mutant of Regrow: as if the old buffer were always full.                *)
RegrowFull(capacity, x) ==
  \E b \in Fresh(pool) :
    LET p == Roomy(pool, capacity, b)
        old == vector.first
        new == NextUnit(p, capacity)
    IN  /\ pool' = Deallocated(WithUnit(p, capacity), old)
        /\ live' = (live \ {old}) \cup {new}
        /\ object' = Added(Restrict(object, DOMAIN object \ Words(old, vector.last)),
                           Placed(new, Elements(old, vector.last) \o x))
        /\ vector' = [first |-> new, last |-> vector.end + Len(x),
                      end |-> capacity]

(* expand and reserve: a buffer for capacity elements is allocated, the     *)
(* elements are copied and destroyed, the old buffer is deallocated.  x is  *)
(* what push_back then constructs behind them.                              *)
Regrow(capacity, x) ==
  \E b \in Fresh(pool) :
    LET p == Roomy(pool, capacity, b)
        old == vector.first
        new == NextUnit(p, capacity)
    IN  /\ pool' = Deallocated(WithUnit(p, capacity), old)
        /\ live' = (live \ {old}) \cup {new}
        /\ object' = Added(Restrict(object, DOMAIN object \ Words(old, vector.last)),
                           Placed(new, Elements(old, vector.last) \o x))
        /\ vector' = [first |-> new, last |-> vector.last + Len(x),
                      end |-> capacity]

Reserve(n) ==
  /\ vector # Null
  /\ vector.end < n
  /\ Regrow(n, <<>>)
  /\ UNCHANGED content

(* push_back of a value that is not an element of the vector itself.        *)
PushBack(v) ==
  /\ vector # Null
  /\ \/ /\ vector.last < vector.end
        /\ object' = Added(object, [w \in {Word(vector.first, vector.last)} |-> v])
        /\ vector' = [vector EXCEPT !.last = @ + 1]
        /\ UNCHANGED poolVars
     \/ /\ vector.last = vector.end
        /\ vector.end < MaxCapacity
        /\ Regrow(2 * vector.end, <<v>>)
  /\ content' = Append(content, v)

PopBack ==
  /\ vector # Null
  /\ vector.last > 0
  /\ vector' = [vector EXCEPT !.last = @ - 1]
  /\ object' = Restrict(object,
                        DOMAIN object \ {Word(vector.first, vector.last - 1)})
  /\ content' = Front(content)
  /\ UNCHANGED poolVars

Clear ==
  /\ vector # Null
  /\ vector' = [vector EXCEPT !.last = 0]
  /\ object' = Restrict(object,
                        DOMAIN object \ Words(vector.first, vector.last))
  /\ content' = <<>>
  /\ UNCHANGED poolVars

(* The destructor gives the buffer back, then the member allocator_ is      *)
(* destroyed.                                                               *)
DestroyVector ==
  /\ vector # Null
  /\ object' = Restrict(object,
                        DOMAIN object \ Words(vector.first, vector.last))
  /\ pool' = Destructed(Deallocated(pool, vector.first))
  /\ live' = {}
  /\ vector' = Null
  /\ content' = <<>>

VectorNext ==
  \/ ConstructDefault
  \/ \E n \in 1 .. MaxCapacity \div 2 :
       \/ ConstructSized(n)
       \/ \E x \in [1 .. n -> Values] : ConstructList(x)
  \/ \E n \in 1 .. MaxCapacity : Reserve(n)
  \/ \E v \in Values : PushBack(v)
  \/ PopBack
  \/ Clear
  \/ DestroyVector

-----------------------------------------------------------------------------
(* Properties                                                               *)

(* The vector holds what has been put into it, in a buffer that is the      *)
(* pool's only unit and is not exceeded, and there is no element anywhere   *)
(* else: growing neither loses, repeats nor leaks one.                      *)
VectorHolds ==
  IF vector = Null
  THEN object = <<>>
  ELSE /\ live = {vector.first}
       /\ vector.last <= vector.end
       /\ vector.end <= vector.first.length
       /\ DOMAIN object = Words(vector.first, vector.last)
       /\ Elements(vector.first, vector.last) = content
=============================================================================
