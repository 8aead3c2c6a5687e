------------------------------ MODULE BufferPool ------------------------------
(***************************************************************************)
(* DiskBufferVector over BufferPool over DiskManager (src/disk/vector; the *)
(* DiskManager of src/disk/bustub is the same): a vector whose pages are   *)
(* fetched into a fixed number of frames.                                  *)
(*                                                                         *)
(* A page is PageSize elements and a file is a sequence of elements; an    *)
(* element that is not there is Zero, as is one that was never written.    *)
(* Offsets stay below 2 GiB.                                               *)
(***************************************************************************)
EXTENDS Integers, Sequences, FiniteSets, FiniteSetsExt

CONSTANTS
  PoolSize,      \* pool_size_: the number of frames
  PageSize,      \* PAGE_SIZE / sizeof(T)
  LastPage,      \* bound: the largest page that is used
  MaxFile,       \* bound: the elements in the file at first
  Value,         \* what is put into the vector
  Zero           \* an element of zeros

BufferAssumption ==
  /\ PoolSize \in Nat \ {0} /\ PageSize \in Nat \ {0}
  /\ LastPage \in Nat /\ MaxFile \in Nat
  /\ Zero \in Value

PageId == 0 .. LastPage
Frame == 0 .. PoolSize - 1
Position == 0 .. (LastPage + 1) * PageSize - 1
NoPage == -1
NoFrame == -1
PageOf(pos) == pos \div PageSize

VARIABLES
  pages,       \* pages_: the frames
  page_table,  \* page_table_: the frame of a page, NoFrame if it has no entry
  file,        \* the content of the file
  expected,    \* history: what the vector should answer at each position
  fetched      \* history: the pages that were fetched

vars == <<pages, page_table, file, expected, fetched>>

Element(f, i) == IF i < Len(f) THEN f[i + 1] ELSE Zero
Block(f, p) == [k \in 0 .. PageSize - 1 |-> Element(f, p * PageSize + k)]

(* DiskManager::ReadBlock into data, which stays as it is when the block    *)
(* begins behind the end of the file.                                       *)
ReadBlock(f, p, data) == IF p * PageSize > Len(f) THEN data ELSE Block(f, p)

(* DiskManager::WriteBlock; a gap before the block is filled with zeros.    *)
WriteBlock(f, p, data) ==
  LET end == (p + 1) * PageSize
  IN  [n \in 1 .. IF end > Len(f) THEN end ELSE Len(f) |->
         IF PageOf(n - 1) = p THEN data[(n - 1) % PageSize]
         ELSE Element(f, n - 1)]

(* DiskManager's constructor opens a file that may have a content; the      *)
(* frames hold no page.                                                     *)
Init ==
  /\ pages = [f \in Frame |-> [page_id |-> NoPage, is_dirty |-> FALSE,
                               data |-> [k \in 0 .. PageSize - 1 |-> Zero]]]
  /\ page_table = [p \in PageId |-> NoFrame]
  /\ file \in UNION {[1 .. n -> Value] : n \in 0 .. MaxFile}
  /\ expected = [pos \in Position |-> Element(file, pos)]
  /\ fetched = {}

Hit(p) == page_table[p] # NoFrame

(* The first frame without a page, else frame 0.                            *)
Victim ==
  LET free == {f \in Frame : pages[f].page_id = NoPage}
  IN  IF free = {} THEN 0 ELSE Min(free)

FrameFor(p) == IF Hit(p) THEN page_table[p] ELSE Victim

FileAfter(p) ==
  LET old == pages[FrameFor(p)]
  IN  IF ~Hit(p) /\ old.is_dirty THEN WriteBlock(file, old.page_id, old.data)
      ELSE file

(* The frame that FetchPage(p) answers, with its content.                   *)
FetchPage(p) ==
  LET old == pages[FrameFor(p)]
  IN  IF Hit(p) THEN old
      ELSE [page_id |-> p, is_dirty |-> FALSE,
            data |-> ReadBlock(FileAfter(p), p, old.data)]

(* FetchPage(p) by a call that leaves data in the frame.  The entry of the  *)
(* page that was in the frame stays in page_table_.                         *)
Use(p, data) ==
  /\ pages' = [pages EXCEPT ![FrameFor(p)] = [FetchPage(p) EXCEPT !.data = data]]
  /\ page_table' = [page_table EXCEPT ![p] = FrameFor(p)]
  /\ file' = FileAfter(p)
  /\ fetched' = fetched \cup {p}

(* What get(pos) answers.                                                   *)
Answer(pos) == FetchPage(PageOf(pos)).data[pos % PageSize]

Get(pos) ==
  /\ Use(PageOf(pos), FetchPage(PageOf(pos)).data)
  /\ UNCHANGED expected

Put(pos, v) ==
  LET p == PageOf(pos)
  IN  /\ Use(p, [FetchPage(p).data EXCEPT ![pos % PageSize] = v])
      /\ expected' = [expected EXCEPT ![pos] = v]

Next ==
  \E pos \in Position : Get(pos) \/ \E v \in Value : Put(pos, v)

Spec == Init /\ [][Next]_vars

-----------------------------------------------------------------------------
(* Properties                                                               *)

(* As long as the pages used fit into the frames, the pool is an array that *)
(* begins as the file: each page gets a frame of its own and keeps it, and  *)
(* nothing that was put is lost.                                            *)
ReadsSeeWrites ==
  \A pos \in Position :
    Cardinality(fetched \cup {PageOf(pos)}) <= PoolSize
      => Answer(pos) = expected[pos]

(* "if (pages_[frame_id].IsDirty()) { // flush": what a page holds when its *)
(* frame is given to another one is in the file from then on.               *)
EvictedPagesFlushed ==
  [][\A f \in Frame :
       pages[f].page_id \notin {NoPage, pages'[f].page_id}
         => Block(file', pages[f].page_id) = pages[f].data]_vars
=============================================================================
