----------------------------- MODULE RateLimiter -----------------------------
(***************************************************************************)
(* The buckets of src/rate-limiter: TokenBucket of token_bucket.hpp,       *)
(* TokenBucket of token_bucket.cpp (get_token here) and LeakyBucket.       *)
(*                                                                         *)
(* Tokens and time are integers, and only the time since last_time_        *)
(* matters.  std::chrono::system_clock follows the time, but may be set    *)
(* back (not forward).                                                     *)
(***************************************************************************)
EXTENDS Integers, FiniteSetsExt

CONSTANTS
  Capacity,    \* capacity_
  Rate,        \* rate_: tokens per unit of time
  MaxElapsed,  \* bound: a bucket is used before this time has passed
  MaxBack      \* bound: how far the clock falls behind in all

BucketAssumption ==
  /\ Capacity \in Nat \ {0} /\ Rate \in Nat \ {0}
  /\ MaxElapsed \in Nat /\ MaxBack \in Nat

VARIABLES
  bucket,   \* its class
  tokens,   \* tokens_, used_tokens_ of a LeakyBucket
  elapsed,  \* the clock's time since last_time_
  back,     \* how far the clock has been set back in all
  excess    \* history: by how much what was granted exceeds Rate, counted
            \* from the moment at which it exceeds it most

bucketVars == <<bucket, tokens, elapsed, back, excess>>

Bucket == {"TokenBucket", "get_token", "LeakyBucket"}
Least(a, b) == Min({a, b})
Most(a, b) == Max({a, b})

Init ==
  /\ bucket \in Bucket
  /\ tokens = IF bucket = "TokenBucket" THEN Capacity ELSE 0
  /\ elapsed = 0 /\ back = 0 /\ excess = 0

(* Time passes, and may serve what was granted in excess.                   *)
Tick ==
  /\ elapsed < MaxElapsed
  /\ elapsed' = elapsed + 1
  /\ excess' = Most(0, excess - Rate)
  /\ UNCHANGED <<bucket, tokens, back>>

(* The clock is set back.                                                   *)
SetBack ==
  /\ back < MaxBack
  /\ back' = back + 1
  /\ elapsed' = elapsed - 1
  /\ UNCHANGED <<bucket, tokens, excess>>

State(n, e) == [tokens |-> n, elapsed |-> e]

(* Mutant of Refreshed: last_time_ stays behind whenever the bucket is full *)
(* afterwards.                                                              *)
RefreshedLate ==
  LET n == Least(Capacity, tokens + Rate * elapsed)
  IN  IF bucket = "LeakyBucket"
      THEN State(Most(0, tokens - Rate * elapsed), 0)
      ELSE State(n, IF n = Capacity THEN elapsed ELSE 0)

(* get_tokens, and what get_token begins with.  A TokenBucket that is full  *)
(* leaves last_time_ where it was, and is credited for that time again.     *)
Refreshed ==
  CASE bucket = "TokenBucket" /\ tokens >= Capacity -> State(tokens, elapsed)
    [] bucket = "LeakyBucket" -> State(Most(0, tokens - Rate * elapsed), 0)
    [] OTHER -> State(Least(Capacity, tokens + Rate * elapsed), 0)

(* get_tokens, or a consume or get_token that is refused (get_token has no   *)
(* other way to refresh the bucket).                                        *)
Refresh ==
  /\ bucket = "get_token" => Refreshed.tokens < 1
  /\ tokens' = Refreshed.tokens
  /\ elapsed' = Refreshed.elapsed
  /\ UNCHANGED <<bucket, back, excess>>

(* consume(n) is granted; get_token is for n = 1.                           *)
Take(n) ==
  /\ bucket # "LeakyBucket"
  /\ n = 1 \/ bucket = "TokenBucket"
  /\ n <= Refreshed.tokens
  /\ tokens' = Refreshed.tokens - n
  /\ elapsed' = Refreshed.elapsed
  /\ excess' = excess + n
  /\ UNCHANGED <<bucket, back>>

(* LeakyBucket::consume(n) is granted.  It reads the clock twice: a second  *)
(* reading that is later drops the time between the two.                    *)
Fill(n) ==
  /\ bucket = "LeakyBucket"
  /\ n + Refreshed.tokens <= Capacity
  /\ tokens' = Refreshed.tokens + n
  /\ elapsed' = 0
  /\ \E passed \in {0, 1} : excess' = Most(0, excess + n - Rate * passed)
  /\ UNCHANGED <<bucket, back>>

Next ==
  \/ Tick \/ SetBack \/ Refresh
  \/ \E n \in 1 .. Capacity : Take(n) \/ Fill(n)

Spec == Init /\ [][Next]_bucketVars

-----------------------------------------------------------------------------
(* Properties                                                               *)

(* What is granted in any period of time stays within Rate times its length *)
(* and one Capacity, two for TokenBucket, which is credited twice for time  *)
(* it was full in; a clock that is set back does no harm.                   *)
GrantsBounded ==
  excess <= IF bucket = "TokenBucket" THEN 2 * Capacity ELSE Capacity
=============================================================================
