-------------------------- MODULE ThrottlerFallback --------------------------
(***************************************************************************)
(* The storage of the rate limiter: one visitor's hits are counted in      *)
(* Redis, and in this process's memory while Redis is away.                *)
(*                                                                         *)
(* The model follows one window of one visitor, so no count expires; the   *)
(* times are times left, so the clock needs no bound.                      *)
(***************************************************************************)
EXTENDS Naturals

CONSTANTS
    Handlers,    \* increments in flight at one time (bound)
    Limit,       \* hits admitted in a window
    RetryAfter,  \* RETRY_AFTER_MS, in ticks
    CallTime,    \* commandTimeout, in ticks
    MaxMemories  \* processes that count in their own memory (bound, on restarts)

ASSUME NumbersAreNatural ==
    /\ Limit \in Nat \ {0} /\ RetryAfter \in Nat \ {0}
    /\ CallTime \in Nat /\ MaxMemories \in Nat \ {0}

VARIABLES
    redis,       \* whether Redis can be reached: "up" or "away"
    redisHits,   \* the count in Redis, up to Limit + 1
    memoryHits,  \* the count in the memory of this process, up to Limit + 1
    down,        \* time left until downUntil: 0 when Redis is to be tried
    call,        \* the increment each handler is serving
    admitted,    \* history: requests let through in this window
    memories,    \* history: processes that counted something in memory
    calm,        \* history: time since a call of this process failed
    upFor        \* history: time Redis has been reachable without a break

vars == <<redis, redisHits, memoryHits, down, call, admitted, memories, calm, upFor>>

\* age: how long the call has taken; saw: whether Redis was away during it.
Call == [step : {"idle", "redis"}, age : 0..CallTime, saw : {"up", "away"}]
Idle == [step |-> "idle", age |-> 0, saw |-> "up"]

\* What the history needs to remember of a time.
Horizon == CallTime + RetryAfter
Later(t) == IF t < Horizon THEN t + 1 ELSE t
Sooner(t) == IF t > 0 THEN t - 1 ELSE t

TypeOK ==
    /\ redis \in {"up", "away"}
    /\ redisHits \in 0..Limit + 1 /\ memoryHits \in 0..Limit + 1
    /\ down \in 0..RetryAfter
    /\ call \in [Handlers -> Call]
    /\ admitted \in Nat
    /\ memories \in 0..MaxMemories
    /\ calm \in 0..Horizon /\ upFor \in 0..Horizon

Init ==
    /\ redis = "up" /\ upFor = Horizon
    /\ redisHits = 0 /\ memoryHits = 0
    /\ down = 0 /\ calm = Horizon
    /\ call = [h \in Handlers |-> Idle]
    /\ admitted = 0 /\ memories = 0

At(h, s) == call[h].step = s
Done(h) == call' = [call EXCEPT ![h] = Idle]

\* One more hit; above the limit every count is the same to the guard.
OneMore(hits) == IF hits > Limit THEN hits ELSE hits + 1

\* The guard lets a request through unless the count says it is over.
Admit(hits) == admitted' = IF hits < Limit THEN admitted + 1 ELSE admitted

-----------------------------------------------------------------------------
(* increment *)

\* Redis is asked unless it is being left alone.
AskRedis(h) ==
    /\ At(h, "idle") /\ down = 0
    /\ call' = [call EXCEPT ![h] = [step |-> "redis", age |-> 0, saw |-> redis]]
    /\ UNCHANGED <<redis, redisHits, memoryHits, down, admitted, memories, calm, upFor>>

\* Mutant of CountInMemory: a request that cannot be counted is let through.
LetThrough ==
    /\ admitted' = admitted + 1
    /\ UNCHANGED <<memoryHits, memories>>

CountInMemory ==
    /\ memories' = IF memoryHits = 0 THEN memories + 1 ELSE memories
    /\ memoryHits' = OneMore(memoryHits)
    /\ Admit(memoryHits)

CountAlone(h) ==
    /\ At(h, "idle") /\ down > 0
    /\ CountInMemory
    /\ UNCHANGED <<redis, redisHits, down, call, calm, upFor>>

\* Mutant of RedisAnswers: an answer is taken as a sign that Redis is back.
RedisAnswersAllClear(h) ==
    /\ At(h, "redis") /\ redis = "up"
    /\ redisHits' = OneMore(redisHits)
    /\ Admit(redisHits)
    /\ down' = 0
    /\ Done(h)
    /\ UNCHANGED <<redis, memoryHits, memories, calm, upFor>>

RedisAnswers(h) ==
    /\ At(h, "redis") /\ redis = "up"
    /\ redisHits' = OneMore(redisHits)
    /\ Admit(redisHits)
    /\ Done(h)
    /\ UNCHANGED <<redis, memoryHits, down, memories, calm, upFor>>

\* Mutant of HoldDown: the pause is added to the one there is.
HoldDownLonger == down' = down + RetryAfter

HoldDown == down' = RetryAfter

\* Mutant of RedisFails: calls are queued while Redis is away.
RedisFailsQueued(h) ==
    /\ At(h, "redis") /\ call[h].saw = "away" /\ redis = "up"
    /\ redisHits' \in {redisHits, OneMore(redisHits)}
    /\ HoldDown /\ calm' = 0
    /\ CountInMemory
    /\ Done(h)
    /\ UNCHANGED <<redis, upFor>>

\* Redis was away, and may have counted the hit before or after; the pause
\* starts anew whatever it was, and memory counts.
RedisFails(h) ==
    /\ At(h, "redis") /\ call[h].saw = "away"
    /\ redisHits' \in {redisHits, OneMore(redisHits)}
    /\ HoldDown /\ calm' = 0
    /\ CountInMemory
    /\ Done(h)
    /\ UNCHANGED <<redis, upFor>>

-----------------------------------------------------------------------------
(* Around it: Redis, the process, the clock. *)

\* Redis can no longer be reached, or can again.  It keeps its counts.
RedisGoes ==
    /\ redis = "up" /\ redis' = "away" /\ upFor' = 0
    /\ call' = [h \in Handlers |->
                  IF At(h, "redis") THEN [call[h] EXCEPT !.saw = "away"] ELSE call[h]]
    /\ UNCHANGED <<redisHits, memoryHits, down, admitted, memories, calm>>

RedisComes ==
    /\ redis = "away" /\ redis' = "up"
    /\ UNCHANGED <<redisHits, memoryHits, down, call, admitted, memories, calm, upFor>>

\* A deploy: the memory and downUntil are those of a new process.
Restart ==
    /\ memoryHits > 0 => memories < MaxMemories
    /\ memoryHits' = 0 /\ down' = 0 /\ calm' = Horizon
    /\ call' = [h \in Handlers |-> Idle]
    /\ UNCHANGED <<redis, redisHits, admitted, memories, upFor>>

\* No call outlives commandTimeout.
Tick ==
    /\ \A h \in Handlers : At(h, "redis") => call[h].age < CallTime
    /\ call' = [h \in Handlers |->
                  IF At(h, "redis") THEN [call[h] EXCEPT !.age = @ + 1] ELSE call[h]]
    /\ down' = Sooner(down)
    /\ calm' = Later(calm)
    /\ upFor' = IF redis = "up" THEN Later(upFor) ELSE upFor
    /\ UNCHANGED <<redis, redisHits, memoryHits, admitted, memories>>

Proceed(h) == RedisAnswers(h) \/ RedisFails(h)

Next ==
    \/ \E h \in Handlers : AskRedis(h) \/ CountAlone(h) \/ Proceed(h)
    \/ RedisGoes \/ RedisComes \/ Restart \/ Tick

Spec == Init /\ [][Next]_vars

\* A call settles, and its handler resumes.
FairSpec == Spec /\ \A h \in Handlers : WF_vars(Proceed(h))

-----------------------------------------------------------------------------
(* Properties. *)

\* "Redis is tried again after half a minute": no call to Redis starts sooner
\* than that after any call failed, whichever calls were in flight and in
\* whatever order they ended.
RedisLeftAlone ==
    [][\A h \in Handlers :
         At(h, "idle") /\ call'[h].step = "redis" => calm >= RetryAfter]_vars

\* A call that fails late starts the pause anew, but no outage is prolonged by
\* more than the time a call may take: once Redis has been reachable for that
\* and the pause, it is in use.
OutageBounded == upFor = Horizon => down = 0

\* "A deploy or restart no longer resets every visitor's count": a visitor gets
\* the limit once through Redis, however often the process restarts, and once
\* more for each process that had to count in memory.
LimitHolds == admitted <= Limit * (1 + memories)

\* "A Redis outage must not turn every request into a 500": every increment is
\* answered, even if Redis never comes back.
EveryIncrementAnswered == \A h \in Handlers : At(h, "redis") ~> At(h, "idle")
=============================================================================
