----------------------- MODULE ThrottlerFallbackProofs -----------------------
(***************************************************************************)
(* Proofs about ThrottlerFallback, for any number of increments in flight, *)
(* any limit and any times.                                                *)
(***************************************************************************)
EXTENDS ThrottlerFallback, TLAPS

Smaller(a, b) == IF a <= b THEN a ELSE b

\* A process that has counted nothing yet may be one more.
MemoriesLeft == memoryHits = 0 => memories < MaxMemories

\* The pause lasts what is left of it since the last failure.
PauseIsKept == down + calm >= RetryAfter

\* A call that may still fail began before Redis came back; the pause it left
\* ends within the time of a call after that.
AwayIsShort ==
    /\ redis = "away" => upFor = 0
    /\ \A h \in Handlers :
         At(h, "redis") /\ call[h].saw = "away" => upFor <= call[h].age
    /\ down > 0 => down + upFor <= Horizon

\* Who was let through was counted: in Redis, in this memory, or in an earlier
\* one, which counts as full.
AllCounted ==
    admitted <= Smaller(redisHits, Limit) + Limit * memories
                  + Smaller(memoryHits, Limit) - (IF memoryHits > 0 THEN Limit ELSE 0)

IInv ==
    /\ TypeOK /\ MemoriesLeft /\ PauseIsKept /\ AwayIsShort /\ AllCounted
    /\ memoryHits > 0 => memories > 0

-----------------------------------------------------------------------------
\* What one more memory adds to the bound.
LEMMA OneMemoryMore ==
    ASSUME NEW l \in Nat, NEW m \in Nat
    PROVE  /\ l * m \in Nat
           /\ l * (m + 1) = l * m + l
           /\ l * (1 + m) = l * m + l
           /\ m > 0 => l * m >= l
  <1>1. l * m \in Nat
    OBVIOUS
  <1>2. l * (m + 1) = l * m + l
    OBVIOUS
  <1>3. ASSUME m > 0 PROVE l * m >= l
    <2>1. m = (m - 1) + 1 /\ m - 1 \in Nat
      BY <1>3
    <2>2. l * ((m - 1) + 1) = l * (m - 1) + l
      BY <2>1
    <2>3. l * (m - 1) \in Nat
      BY <2>1
    <2> QED
      BY <2>1, <2>2, <2>3
  <1> QED
    BY <1>1, <1>2, <1>3

LEMMA Initially == Init => IInv
  <1> SUFFICES ASSUME Init PROVE IInv
    OBVIOUS
  <1> USE NumbersAreNatural DEF Init
  <1>1. TypeOK
    BY DEF TypeOK, Call, Idle, Horizon
  <1>2. MemoriesLeft /\ PauseIsKept
    BY DEF MemoriesLeft, PauseIsKept, Horizon
  <1>3. AwayIsShort
    BY DEF AwayIsShort, At, Idle
  <1>4. AllCounted
    BY OneMemoryMore DEF AllCounted, Smaller
  <1> QED
    BY <1>1, <1>2, <1>3, <1>4 DEF IInv

\* A count in memory keeps what is known of the counts.
LEMMA MemoryCounts ==
    ASSUME IInv, CountInMemory, redisHits' \in {redisHits, OneMore(redisHits)}
    PROVE  /\ memoryHits' \in 0..Limit + 1 /\ memories' \in 0..MaxMemories
           /\ redisHits' \in 0..Limit + 1
           /\ admitted' \in Nat
           /\ MemoriesLeft' /\ AllCounted'
           /\ memoryHits' > 0 => memories' > 0
  <1> USE NumbersAreNatural
  <1>1. /\ redisHits \in 0..Limit + 1 /\ memoryHits \in 0..Limit + 1
        /\ memories \in 0..MaxMemories /\ admitted \in Nat
    BY DEF IInv, TypeOK
  <1>2. /\ redisHits' \in 0..Limit + 1 /\ memoryHits' \in 0..Limit + 1
        /\ memoryHits' > 0 /\ admitted' \in Nat
    BY <1>1 DEF CountInMemory, OneMore, Admit
  <1>3. memories' \in 0..MaxMemories /\ memories' > 0
    BY <1>1 DEF CountInMemory, IInv, MemoriesLeft
  <1>4. AllCounted'
    <2>1. Smaller(redisHits, Limit) <= Smaller(redisHits', Limit)
      BY <1>1 DEF Smaller, OneMore
    <2>2. /\ Smaller(redisHits, Limit) \in Nat /\ Smaller(redisHits', Limit) \in Nat
          /\ Smaller(memoryHits, Limit) \in Nat /\ Smaller(memoryHits', Limit) \in Nat
      BY <1>1, <1>2 DEF Smaller
    <2>3. Limit * memories \in Nat /\ Limit * (memories + 1) = Limit * memories + Limit
      BY <1>1, OneMemoryMore
    <2>4. CASE memoryHits = 0
      <3>1. admitted <= Smaller(redisHits, Limit) + Limit * memories
        BY <2>4, <2>2, <2>3, <1>1 DEF IInv, AllCounted, Smaller
      <3>2. memories' = memories + 1 /\ memoryHits' = 1 /\ admitted' = admitted + 1
        BY <2>4, <1>1 DEF CountInMemory, OneMore, Admit
      <3>3. Smaller(memoryHits', Limit) = 1
        BY <3>2 DEF Smaller
      <3>4. Limit * memories' = Limit * memories + Limit
        BY <3>2, <2>3
      <3> QED
        BY <2>1, <2>2, <2>3, <3>1, <3>2, <3>3, <3>4, <1>1 DEF AllCounted
    <2>5. CASE memoryHits > 0
      <3>1. memories' = memories
        BY <2>5, <1>1 DEF CountInMemory
      <3>2. admitted' - admitted <= Smaller(memoryHits', Limit) - Smaller(memoryHits, Limit)
        BY <2>5, <1>1 DEF CountInMemory, OneMore, Admit, Smaller
      <3>3. admitted <= Smaller(redisHits, Limit) + Limit * memories
                          + Smaller(memoryHits, Limit) - Limit
        BY <2>5 DEF IInv, AllCounted
      <3> QED
        BY <2>1, <2>2, <2>3, <3>1, <3>2, <3>3, <1>1, <1>2 DEF AllCounted
    <2> QED
      BY <2>4, <2>5, <1>1
  <1> QED
    BY <1>2, <1>3, <1>4 DEF MemoriesLeft

LEMMA AskRedisKeeps ==
    ASSUME IInv, NEW h \in Handlers, AskRedis(h)
    PROVE  IInv'
  <1> USE NumbersAreNatural
  <1>1. TypeOK'
    <2>1. [step |-> "redis", age |-> 0, saw |-> redis] \in Call
      BY DEF IInv, TypeOK, Call
    <2>2. call' \in [Handlers -> Call]
      BY <2>1 DEF IInv, TypeOK, AskRedis
    <2> QED
      BY <2>2 DEF IInv, TypeOK, AskRedis
  <1>2. MemoriesLeft' /\ PauseIsKept' /\ AllCounted' /\ (memoryHits' > 0 => memories' > 0)
    BY DEF IInv, AskRedis, MemoriesLeft, PauseIsKept, AllCounted
  <1>3. AwayIsShort'
    <2> SUFFICES ASSUME NEW g \in Handlers, call'[g].step = "redis", call'[g].saw = "away"
                 PROVE  upFor <= call'[g].age
      BY DEF IInv, AskRedis, AwayIsShort, At
    <2>1. CASE g = h
      BY <2>1 DEF IInv, TypeOK, AskRedis, AwayIsShort
    <2>2. CASE g # h
      BY <2>2 DEF IInv, TypeOK, AskRedis, AwayIsShort, At
    <2> QED
      BY <2>1, <2>2
  <1> QED
    BY <1>1, <1>2, <1>3 DEF IInv

LEMMA CountAloneKeeps ==
    ASSUME IInv, NEW h \in Handlers, CountAlone(h)
    PROVE  IInv'
  <1>1. /\ memoryHits' \in 0..Limit + 1 /\ memories' \in 0..MaxMemories
        /\ admitted' \in Nat
        /\ MemoriesLeft' /\ AllCounted'
        /\ memoryHits' > 0 => memories' > 0
    BY MemoryCounts DEF CountAlone
  <1>2. UNCHANGED <<redis, redisHits, down, call, calm, upFor>>
    BY DEF CountAlone
  <1> QED
    BY <1>1, <1>2 DEF IInv, TypeOK, PauseIsKept, AwayIsShort, At

\* A call that ends leaves nothing to fail later.
LEMMA DoneIsIdle ==
    ASSUME TypeOK, NEW h \in Handlers, Done(h)
    PROVE  /\ call' \in [Handlers -> Call]
           /\ \A g \in Handlers : call'[g].step = "redis" => call'[g] = call[g]
  BY NumbersAreNatural DEF TypeOK, Done, Idle, Call

LEMMA RedisAnswersKeeps ==
    ASSUME IInv, NEW h \in Handlers, RedisAnswers(h)
    PROVE  IInv'
  <1> USE NumbersAreNatural
  <1>1. call' \in [Handlers -> Call]
        /\ \A g \in Handlers : call'[g].step = "redis" => call'[g] = call[g]
    BY DoneIsIdle DEF IInv, RedisAnswers
  <1>2. TypeOK'
    BY <1>1 DEF IInv, TypeOK, RedisAnswers, OneMore, Admit
  <1>3. MemoriesLeft' /\ PauseIsKept' /\ (memoryHits' > 0 => memories' > 0)
    BY DEF IInv, RedisAnswers, MemoriesLeft, PauseIsKept
  <1>4. AwayIsShort'
    BY <1>1 DEF IInv, RedisAnswers, AwayIsShort, At
  <1>5. AllCounted'
    <2>1. /\ redisHits \in 0..Limit + 1 /\ memoryHits \in 0..Limit + 1
          /\ memories \in Nat /\ admitted \in Nat
      BY DEF IInv, TypeOK
    <2>2. Limit * memories \in Nat
      BY <2>1, OneMemoryMore
    <2>3. admitted' - admitted <= Smaller(redisHits', Limit) - Smaller(redisHits, Limit)
      BY <2>1 DEF RedisAnswers, OneMore, Admit, Smaller
    <2>4. /\ Smaller(redisHits, Limit) \in Nat /\ Smaller(redisHits', Limit) \in Nat
          /\ Smaller(memoryHits, Limit) \in Nat /\ admitted' \in Nat
      BY <2>1 DEF RedisAnswers, OneMore, Admit, Smaller
    <2>5. memoryHits' = memoryHits /\ memories' = memories
      BY DEF RedisAnswers
    <2> QED
      BY <2>1, <2>2, <2>3, <2>4, <2>5 DEF IInv, AllCounted
  <1> QED
    BY <1>2, <1>3, <1>4, <1>5 DEF IInv

LEMMA RedisFailsKeeps ==
    ASSUME IInv, NEW h \in Handlers, RedisFails(h)
    PROVE  IInv'
  <1> USE NumbersAreNatural
  <1>1. call' \in [Handlers -> Call]
        /\ \A g \in Handlers : call'[g].step = "redis" => call'[g] = call[g]
    BY DoneIsIdle DEF IInv, RedisFails
  <1>2. /\ memoryHits' \in 0..Limit + 1 /\ memories' \in 0..MaxMemories
        /\ redisHits' \in 0..Limit + 1
        /\ admitted' \in Nat
        /\ MemoriesLeft' /\ AllCounted'
        /\ memoryHits' > 0 => memories' > 0
    BY MemoryCounts DEF RedisFails
  <1>3. down' = RetryAfter /\ calm' = 0 /\ UNCHANGED <<redis, upFor>>
    BY DEF RedisFails, HoldDown
  <1>4. TypeOK'
    BY <1>1, <1>2, <1>3 DEF IInv, TypeOK, Horizon
  <1>5. AwayIsShort'
    <2>1. call[h].age \in 0..CallTime /\ upFor \in Nat
      BY DEF IInv, TypeOK, Call, Horizon
    <2>2. upFor <= call[h].age
      BY DEF IInv, AwayIsShort, RedisFails
    <2>3. down' + upFor' <= Horizon
      BY <1>3, <2>1, <2>2 DEF Horizon
    <2> QED
      BY <1>1, <1>3, <2>3 DEF IInv, AwayIsShort, At
  <1> QED
    BY <1>2, <1>3, <1>4, <1>5 DEF IInv, PauseIsKept

LEMMA RedisGoesKeeps ==
    ASSUME IInv, RedisGoes
    PROVE  IInv'
  <1> USE NumbersAreNatural
  <1>1. call' \in [Handlers -> Call]
    BY DEF IInv, TypeOK, RedisGoes, Call, At
  <1>2. TypeOK'
    <2>1. redis' \in {"up", "away"} /\ upFor' \in 0..Horizon
      BY DEF RedisGoes, Horizon
    <2> QED
      BY <1>1, <2>1 DEF IInv, TypeOK, RedisGoes
  <1>3. AwayIsShort'
    <2>1. \A g \in Handlers : call'[g].age >= 0
      BY <1>1 DEF Call
    <2>2. down' \in 0..RetryAfter
      BY <1>2 DEF TypeOK
    <2> QED
      BY <2>1, <2>2 DEF RedisGoes, AwayIsShort, Horizon
  <1> QED
    BY <1>2, <1>3 DEF IInv, RedisGoes, MemoriesLeft, PauseIsKept, AllCounted

LEMMA RedisComesKeeps ==
    ASSUME IInv, RedisComes
    PROVE  IInv'
  BY DEF IInv, TypeOK, RedisComes, MemoriesLeft, PauseIsKept, AwayIsShort,
         AllCounted, At

LEMMA RestartKeeps ==
    ASSUME IInv, Restart
    PROVE  IInv'
  <1> USE NumbersAreNatural
  <1>1. TypeOK'
    BY DEF IInv, TypeOK, Restart, Call, Idle, Horizon
  <1>2. MemoriesLeft' /\ PauseIsKept' /\ (memoryHits' > 0 => memories' > 0)
    BY DEF IInv, TypeOK, Restart, MemoriesLeft, PauseIsKept, Horizon
  <1>3. AwayIsShort'
    BY DEF IInv, Restart, AwayIsShort, At, Idle
  <1>4. AllCounted'
    <2>1. /\ redisHits \in 0..Limit + 1 /\ memoryHits \in 0..Limit + 1
          /\ memories \in Nat /\ admitted \in Nat
      BY DEF IInv, TypeOK
    <2>2. Limit * memories \in Nat
      BY <2>1, OneMemoryMore
    <2>3. Smaller(memoryHits, Limit) - (IF memoryHits > 0 THEN Limit ELSE 0) <= 0
      BY <2>1 DEF Smaller
    <2>4. Smaller(redisHits, Limit) \in Nat /\ Smaller(memoryHits, Limit) \in Nat
      BY <2>1 DEF Smaller
    <2>5. Smaller(0, Limit) = 0
      BY DEF Smaller
    <2>6. admitted <= Smaller(redisHits, Limit) + Limit * memories
      BY <2>1, <2>2, <2>3, <2>4 DEF IInv, AllCounted
    <2> QED
      BY <2>1, <2>2, <2>4, <2>5, <2>6 DEF Restart, AllCounted
  <1> QED
    BY <1>1, <1>2, <1>3, <1>4 DEF IInv

LEMMA TickKeeps ==
    ASSUME IInv, Tick
    PROVE  IInv'
  <1> USE NumbersAreNatural
  <1>1. call' \in [Handlers -> Call]
    BY DEF IInv, TypeOK, Tick, Call, At
  <1>2. /\ down' \in 0..RetryAfter /\ calm' \in 0..Horizon /\ upFor' \in 0..Horizon
    BY DEF IInv, TypeOK, Tick, Sooner, Later, Horizon
  <1>3. TypeOK'
    BY <1>1, <1>2 DEF IInv, TypeOK, Tick
  <1>4. PauseIsKept'
    BY DEF IInv, TypeOK, Tick, Sooner, Later, PauseIsKept, Horizon
  <1>5. AwayIsShort'
    <2>1. redis' = "away" => upFor' = 0
      BY DEF IInv, AwayIsShort, Tick
    <2>2. ASSUME NEW g \in Handlers, call'[g].step = "redis", call'[g].saw = "away"
          PROVE  upFor' <= call'[g].age
      <3>1. call[g].step = "redis" /\ call[g].saw = "away" /\ call'[g].age = call[g].age + 1
        BY <2>2 DEF IInv, TypeOK, Tick, At, Call
      <3>2. upFor <= call[g].age /\ upFor' <= upFor + 1
        BY <3>1 DEF IInv, TypeOK, AwayIsShort, At, Tick, Later, Horizon
      <3>3. call[g].age \in Nat /\ upFor \in Nat /\ upFor' \in Nat
        BY <1>2 DEF IInv, TypeOK, Call, Horizon
      <3> QED
        BY <3>1, <3>2, <3>3
    <2>3. down' > 0 => down' + upFor' <= Horizon
      BY DEF IInv, TypeOK, AwayIsShort, Tick, Sooner, Later, Horizon
    <2> QED
      BY <2>1, <2>2, <2>3 DEF AwayIsShort, At
  <1> QED
    BY <1>3, <1>4, <1>5 DEF IInv, Tick, MemoriesLeft, AllCounted

LEMMA Inductive == IInv /\ [Next]_vars => IInv'
  <1> SUFFICES ASSUME IInv, [Next]_vars PROVE IInv'
    OBVIOUS
  <1>1. ASSUME NEW h \in Handlers, AskRedis(h) PROVE IInv'
    BY <1>1, AskRedisKeeps
  <1>2. ASSUME NEW h \in Handlers, CountAlone(h) PROVE IInv'
    BY <1>2, CountAloneKeeps
  <1>3. ASSUME NEW h \in Handlers, Proceed(h) PROVE IInv'
    BY <1>3, RedisAnswersKeeps, RedisFailsKeeps DEF Proceed
  <1>4. CASE RedisGoes
    BY <1>4, RedisGoesKeeps
  <1>5. CASE RedisComes
    BY <1>5, RedisComesKeeps
  <1>6. CASE Restart
    BY <1>6, RestartKeeps
  <1>7. CASE Tick
    BY <1>7, TickKeeps
  <1>8. CASE UNCHANGED vars
    BY <1>8 DEF vars, IInv, TypeOK, MemoriesLeft, PauseIsKept, AwayIsShort,
                AllCounted, At
  <1> QED
    BY <1>1, <1>2, <1>3, <1>4, <1>5, <1>6, <1>7, <1>8 DEF Next

LEMMA Invariance == Spec => []IInv
  BY Initially, Inductive, PTL DEF Spec

-----------------------------------------------------------------------------
\* Every reachable state of the storage is well typed.
THEOREM TypeCorrect == Spec => []TypeOK
  <1>1. IInv => TypeOK
    BY DEF IInv
  <1> QED
    BY <1>1, Invariance, PTL

\* Redis is not asked again before the pause after the last failure is over,
\* whatever calls were in flight when it failed.
THEOREM LeftAlone == Spec => RedisLeftAlone
  <1>1. IInv /\ [Next]_vars
          => [\A h \in Handlers :
                At(h, "idle") /\ call'[h].step = "redis" => calm >= RetryAfter]_vars
    <2> SUFFICES ASSUME IInv, Next, NEW h \in Handlers,
                        At(h, "idle"), call'[h].step = "redis"
                 PROVE  calm >= RetryAfter
      OBVIOUS
    <2>1. call' # call
      BY DEF At
    <2>2. PICK g \in Handlers : AskRedis(g)
      <3>1. ASSUME NEW g \in Handlers, CountAlone(g) PROVE FALSE
        BY <2>1, <3>1 DEF CountAlone
      <3>2. ASSUME NEW g \in Handlers, Proceed(g) PROVE FALSE
        <4>1. TypeOK /\ Done(g)
          BY <3>2 DEF IInv, Proceed, RedisAnswers, RedisFails
        <4>2. call'[h] = call[h]
          BY <4>1, DoneIsIdle
        <4> QED
          BY <4>2 DEF At
      <3>3. ~RedisGoes
        BY DEF RedisGoes, At
      <3>4. ~RedisComes
        BY <2>1 DEF RedisComes
      <3>5. ~Restart
        BY DEF Restart, Idle
      <3>6. ~Tick
        BY DEF Tick, At
      <3> QED
        BY <3>1, <3>2, <3>3, <3>4, <3>5, <3>6 DEF Next
    <2>3. down = 0
      BY <2>2 DEF AskRedis
    <2> QED
      BY <2>3, NumbersAreNatural DEF IInv, TypeOK, PauseIsKept, Horizon
  <1> QED
    BY <1>1, Invariance, PTL DEF Spec, RedisLeftAlone

\* A failure that comes late prolongs an outage by the time of a call at most.
THEOREM Bounded == Spec => []OutageBounded
  <1>1. IInv => OutageBounded
    BY NumbersAreNatural DEF IInv, TypeOK, AwayIsShort, OutageBounded, Horizon
  <1> QED
    BY <1>1, Invariance, PTL

\* Restarts and outages together give a visitor the limit once through Redis
\* and once for each process that counted in memory.
THEOREM Limited == Spec => []LimitHolds
  <1>1. ASSUME IInv PROVE LimitHolds
    <2>1. /\ redisHits \in 0..Limit + 1 /\ memoryHits \in 0..Limit + 1
          /\ memories \in Nat /\ admitted \in Nat /\ Limit \in Nat
      BY <1>1, NumbersAreNatural DEF IInv, TypeOK
    <2>2. Limit * memories \in Nat /\ Limit * (1 + memories) = Limit * memories + Limit
      BY <2>1, OneMemoryMore
    <2>3. /\ Smaller(redisHits, Limit) \in 0..Limit
          /\ Smaller(memoryHits, Limit) - (IF memoryHits > 0 THEN Limit ELSE 0) <= 0
          /\ Smaller(memoryHits, Limit) \in Nat
      BY <2>1 DEF Smaller
    <2> QED
      BY <1>1, <2>1, <2>2, <2>3 DEF IInv, AllCounted, LimitHolds
  <1> QED
    BY <1>1, Invariance, PTL
=============================================================================
