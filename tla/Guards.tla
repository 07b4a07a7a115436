-------------------------------- MODULE Guards --------------------------------
(***************************************************************************)
(* The guards of a runtime (BotRuntime.processUpdate): a token bucket in   *)
(* front of the concurrency queue (TokenBucketRateLimiter), or a sliding   *)
(* window in Redis that the handlers of several processes share            *)
(* (RedisRateLimiter of adapter-redis).                                    *)
(*                                                                         *)
(* Clients are updates of one tenant, as in BoundedConcurrency.  `now' is  *)
(* real time and the clock of Redis.  A caller passes the Date.now() of    *)
(* its process, read before the round trip: a process whose clock lags or  *)
(* was set back, or whose call was delayed, passes an earlier time, by at  *)
(* most Skew.  A token of the bucket is worth Cost ticks of refill.        *)
(***************************************************************************)
EXTENDS BoundedConcurrency

CONSTANTS Cost,      \* ticks it takes to refill one token: 1 / refillPerSecond
          Capacity,  \* ticks of refill a full bucket holds: capacity * Cost
          Window,    \* windowMs
          Limit,     \* limit
          Block,     \* blockDurationMs, 0 for none
          Grace,     \* the second the key of the window outlives it
          Skew,      \* how far the time of a caller may be behind
          MaxTime    \* bound on the real time of a behaviour

ASSUME GuardsAssumption ==
  /\ {Cost, Window, Limit} \subseteq Nat \ {0}
  /\ {Capacity, Block, Grace, Skew, MaxTime} \subseteq Nat
  /\ Cost <= Capacity

VARIABLES kind,     \* the limiter this process is configured with
          now,      \* real time
          bucket,   \* <<>>, or <<tokens, lastRefillMs>> of the tenant
          since,    \* an arbitrary moment
          spent,    \* history: ticks of refill the bucket gave away since then
          scores,   \* the sorted set: each entry is its score and a member name
          expires,  \* when Redis drops the sorted set
          blocked,  \* when Redis drops the block key
          granted   \* history: real times the window let somebody in

limits == <<kind, bucket, since, spent, scores, expires, blocked, granted>>
guardVars == <<vars, now, limits>>

ReadClock == now - Skew .. now

GuardsInit ==
  /\ Init
  /\ kind \in {"none", "bucket", "window"}
  /\ now = Skew
  /\ bucket = <<>>
  /\ since \in IF kind = "bucket" THEN Skew .. Skew + MaxTime ELSE {Skew}
  /\ spent = 0
  /\ scores = {}
  /\ expires = 0
  /\ blocked = 0
  /\ granted = <<>>

-------------------------------------------------------------------------------
\* Defect: the bucket is filled beyond its capacity.
RefilledUnbounded(at) ==
  IF bucket = <<>> THEN Capacity ELSE bucket[1] + (at - bucket[2])

\* allow: the tokens at time `at'.  A clock that was set back takes tokens away.
Refilled(at) ==
  IF bucket = <<>>
  THEN Capacity
  ELSE LET refilled == bucket[1] + (at - bucket[2])
       IN  IF refilled < Capacity THEN refilled ELSE Capacity

\* processUpdate up to queue.run: the bucket has a token, or there is none.
PassLimiter(at) ==
  IF kind = "bucket"
  THEN /\ Refilled(at) >= Cost
       /\ bucket' = <<Refilled(at) - Cost, at>>
       /\ spent' = IF now >= since THEN spent + Cost ELSE spent
       /\ UNCHANGED <<kind, since, scores, expires, blocked, granted>>
  ELSE UNCHANGED limits

\* The update passes the limiter and meets the queue within the same step.
Arrive(c) ==
  /\ \E at \in ReadClock : PassLimiter(at)
  /\ Admit(c) \/ Enqueue(c) \/ Refuse(c)
  /\ UNCHANGED now

\* processUpdate: the update is dropped before it meets the queue.
Drop(c) ==
  /\ kind = "bucket"
  /\ pc[c] = "idle"
  /\ \E at \in ReadClock :
       /\ Refilled(at) < Cost
       /\ bucket' = <<Refilled(at), at>>
  /\ UNCHANGED <<vars, now, kind, since, spent, scores, expires, blocked, granted>>

\* The rest of BoundedConcurrency.
Work(c) ==
  /\ Recover(c) \/ Start(c) \/ Finish(c)
  /\ UNCHANGED <<now, limits>>

-------------------------------------------------------------------------------
\* Defect: entries of exactly the window's length, and one tick less, go.
PrunedEarly(at) == {entry \in scores : entry[1] > at - Window + 1}

\* ZREMRANGEBYSCORE key 0 (now - window).
Pruned(at) == {entry \in scores : entry[1] > at - Window}

\* The entries of a score are numbered: the random part of a member makes it new.
Numbered(entries, at) == Cardinality({entry \in entries : entry[1] = at})

\* How many of the remembered grants are older than the window.
Outdated == Cardinality({i \in DOMAIN granted : now - granted[i] >= Window})

\* The script finds the block key, changes nothing and refuses.
CheckBlocked ==
  /\ now < blocked
  /\ UNCHANGED limits

\* The script lets the caller in.
CheckAllowed(at) ==
  /\ now >= blocked
  /\ Cardinality(Pruned(at)) < Limit
  /\ scores' = Pruned(at) \cup {<<at, Numbered(Pruned(at), at)>>}
  /\ expires' = now + Window + Grace
  /\ granted' = Append(SubSeq(granted, Outdated + 1, Len(granted)), now)
  /\ UNCHANGED <<kind, bucket, since, spent, blocked>>

\* The script refuses the caller and blocks the key if it is told to.
CheckRefused(at) ==
  /\ now >= blocked
  /\ Cardinality(Pruned(at)) >= Limit
  /\ scores' = Pruned(at)
  /\ blocked' = IF Block > 0 THEN now + Block ELSE blocked
  /\ UNCHANGED <<kind, bucket, since, spent, expires, granted>>

Check(at) == CheckBlocked \/ CheckAllowed(at) \/ CheckRefused(at)

\* The handler of an update asks the shared window before it goes on.
Ask(c) ==
  /\ kind = "window"
  /\ pc[c] = "working"
  /\ \E at \in ReadClock : Check(at)
  /\ UNCHANGED <<vars, now>>

\* Another process asks it.
AskElsewhere ==
  /\ kind = "window"
  /\ \E at \in ReadClock : Check(at)
  /\ UNCHANGED <<vars, now>>

\* getInfo prunes what its caller's clock calls old and reports the rest.
GetInfo ==
  /\ kind = "window"
  /\ now >= blocked
  /\ \E at \in ReadClock : scores' = Pruned(at)
  /\ UNCHANGED <<vars, now, kind, bucket, since, spent, expires, blocked, granted>>

\* reset deletes both keys; the caller starts over.
Reset ==
  /\ kind = "window"
  /\ scores' = {}
  /\ blocked' = 0
  /\ granted' = <<>>
  /\ UNCHANGED <<vars, now, kind, bucket, since, spent, expires>>

\* Time passes; Redis drops the sorted set once its expiry is reached.
Tick ==
  /\ now < Skew + MaxTime
  /\ kind # "none"
  /\ now' = now + 1
  /\ scores' = IF now' >= expires THEN {} ELSE scores
  /\ UNCHANGED <<vars, kind, bucket, since, spent, expires, blocked, granted>>

GuardsNext ==
  \/ \E c \in Clients : Arrive(c) \/ Drop(c) \/ Work(c) \/ Ask(c)
  \/ AskElsewhere
  \/ GetInfo
  \/ Reset
  \/ Tick

GuardsSpec == GuardsInit /\ [][GuardsNext]_guardVars

\* Microtasks run and handlers end, as in BoundedConcurrency; nobody else has
\* to do anything.
FairGuards ==
  /\ GuardsSpec
  /\ \A c \in Clients :
       /\ WF_guardVars(Start(c) /\ UNCHANGED <<now, limits>>)
       /\ WF_guardVars(Finish(c) /\ UNCHANGED <<now, limits>>)

-------------------------------------------------------------------------------
\* However the clock of the process jumps about within Skew, from any moment on
\* the bucket gives away no more than a full bucket and what time has refilled.
BucketBounded == now >= since => spent <= Capacity + (now - since) + Skew

\* No more than Limit callers are let in within a stretch of real time that is
\* shorter than the window by more than the processes' clocks disagree: neither
\* a fast process that prunes nor getInfo nor an expiry forgets them early.
WindowBounded ==
  \A i, j \in 1 .. Len(granted) :
    i <= j /\ granted[j] - granted[i] < Window - Skew => j - i + 1 <= Limit

===============================================================================
