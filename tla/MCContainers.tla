----------------------------- MODULE MCContainers -----------------------------
(***************************************************************************)
(* The components one thread uses: MemoryPool, under a program that        *)
(* allocates and deallocates units in any order or under a Vector;         *)
(* LFUCache; SequentialQueue; the vectors on disk, BufferPool and          *)
(* DiskVector; RateLimiter.  user says which of them the program uses; the *)
(* others stay as they are.                                                *)
(***************************************************************************)
EXTENDS PoolVector

CONSTANTS
  Keys, Missing, MaxKeys, MaxFreq,         \* of LFUCache
  Node,                                    \* of SequentialQueue
  PoolSize, PageSize, LastPage, MaxFile,   \* of BufferPool
  MaxSize, Garbage,                        \* of DiskVector
  Capacity, Rate, MaxElapsed, MaxBack      \* of RateLimiter

VARIABLES
  user,
  capacity, key_table, freq_table, freq_list, erased, answer, older,
  class, head, tail, v, next, queueLive, queueContent,
  pages, page_table, poolFile, expected, fetched,
  file, buffer, failed, putting, kept, count, missed,
  bucket, tokens, elapsed, back, excess

cacheVars ==
  <<capacity, key_table, freq_table, freq_list, erased, answer, older>>
queueVars == <<class, head, tail, v, next, queueLive, queueContent>>
bufferVars == <<pages, page_table, poolFile, expected, fetched>>
diskVars == <<file, buffer, failed, putting, kept, count, missed>>
bucketVars == <<bucket, tokens, elapsed, back, excess>>
mcVars == <<user, poolVars, vectorVars, cacheVars, queueVars, bufferVars,
            diskVars, bucketVars>>

Cache == INSTANCE LFUCache WITH MaxCapacity <- MaxKeys

Queue ==
  INSTANCE SequentialQueue WITH
    Value <- Values, live <- queueLive, content <- queueContent

Buffer == INSTANCE BufferPool WITH Value <- Values, file <- poolFile

Disk == INSTANCE DiskVector WITH Value <- Values

Limiter == INSTANCE RateLimiter

ASSUME CacheConstants == Cache!CacheAssumption
ASSUME QueueConstants == Queue!SeqQueueAssumption
ASSUME BufferConstants == Buffer!BufferAssumption
ASSUME DiskConstants == Disk!VectorAssumption
ASSUME LimiterConstants == Limiter!BucketAssumption

(* What the program does not use has one initial state.                     *)
MCInit ==
  /\ user \in {"program", "vector", "cache", "queue", "buffer", "disk", "limiter"}
  /\ Init /\ VectorInit
  /\ Cache!Init /\ (user # "cache" => capacity = 0)
  /\ Queue!Init /\ (user # "queue" => class = "Queue")
  /\ Buffer!Init /\ (user # "buffer" => poolFile = <<>>)
  /\ Disk!Init
  /\ Limiter!Init /\ (user # "limiter" => bucket = "LeakyBucket")

Run(name) == user = name /\ UNCHANGED user

MCNext ==
  \/ /\ Run("program") /\ Next
     /\ UNCHANGED <<vectorVars, cacheVars, queueVars, bufferVars, diskVars, bucketVars>>
  \/ /\ Run("vector") /\ VectorNext
     /\ UNCHANGED <<cacheVars, queueVars, bufferVars, diskVars, bucketVars>>
  \/ /\ Run("cache") /\ Cache!Next
     /\ UNCHANGED <<poolVars, vectorVars, queueVars, bufferVars, diskVars, bucketVars>>
  \/ /\ Run("queue") /\ Queue!Next
     /\ UNCHANGED <<poolVars, vectorVars, cacheVars, bufferVars, diskVars, bucketVars>>
  \/ /\ Run("buffer") /\ Buffer!Next
     /\ UNCHANGED <<poolVars, vectorVars, cacheVars, queueVars, diskVars, bucketVars>>
  \/ /\ Run("disk") /\ Disk!Next
     /\ UNCHANGED <<poolVars, vectorVars, cacheVars, queueVars, bufferVars, bucketVars>>
  \/ /\ Run("limiter") /\ Limiter!Next
     /\ UNCHANGED <<poolVars, vectorVars, cacheVars, queueVars, bufferVars, diskVars>>

MCSpec == MCInit /\ [][MCNext]_mcVars

Symmetry == Permutations(Blocks)

-----------------------------------------------------------------------------
(* See LFUCache: the lists and the two tables agree.                        *)
TablesAgree == Cache!TablesAgree

(* See LFUCache: the least frequently, then least recently used key goes.   *)
ImplementsLFUPolicy == Cache!ImplementsLFUPolicy

(* See SequentialQueue: first in, first out, and no node leaks or dangles.  *)
QueueHolds == Queue!QueueHolds

(* See BufferPool and DiskVector: the vectors on disk hold what was put.    *)
DiskVectorsHold == Buffer!ReadsSeeWrites /\ Disk!VectorPersists

(* See RateLimiter: no more is granted than the rate and the bursts allow.  *)
GrantsBounded == Limiter!GrantsBounded
=============================================================================
