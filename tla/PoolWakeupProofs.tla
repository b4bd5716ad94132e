---------------------------- MODULE PoolWakeupProofs ---------------------------
(***************************************************************************)
(* Nobody waits for nothing: on the live PoolState no wakeup is lost, and  *)
(* Clear strands no waiter on a retired one.  For every number of threads, *)
(* sessions and PoolStates, under a bound on the maximum of the semaphore: *)
(* a Release past it throws and adds nothing, so with a small maximum      *)
(* either property can fail.                                               *)
(***************************************************************************)
EXTENDS PoolWaitersProofs

Waiting(g) == ThreadsAt(g, {"wait"})

\* A retired PoolState is cleared by one thread, the one that unlinked it.
ClearsOnce ==
    /\ \A t \in Threads : pc[t] \in ClearPCs => state[t] # active
    /\ \A t, u \in Threads :
         pc[t] \in ClearPCs /\ pc[u] \in ClearPCs /\ state[t] = state[u] => t = u

\* The number Clear has read covers everyone it must wake.
BroadcastSuffices ==
    \A t \in Threads :
        pc[t] = "broadcast" =>
            /\ Cardinality(Waiting(state[t])) <= current[t]
            /\ current[t] <= Cardinality(Threads) - 1

StrandedInv == WaitersInv /\ ClearsOnce /\ BroadcastSuffices /\ NoStrandedWaiter

\* Room for one permit per waiter on top of one per waiter.
RoomForBroadcast == 2 * (Cardinality(Threads) - 1) <= SemaphoreMax

-----------------------------------------------------------------------------
(* NoStrandedWaiter. *)

LEMMA WaitingFinite ==
    ASSUME NEW g
    PROVE  IsFiniteSet(Waiting(g)) /\ Cardinality(Waiting(g)) \in Nat
BY FS_Subset, FS_CardinalityType, ConstantsAssumption DEF Waiting, ThreadsAt

\* Nobody starts to wait on a retired PoolState.
LEMMA WaitingShrinks ==
    ASSUME LocalsInv, NEW t \in Threads, ThreadStep(t), NEW g \in PoolIds, g # active
    PROVE  Waiting(g)' \subseteq Waiting(g)
<1>1. /\ pc \in [Threads -> PCs]
      /\ state \in [Threads -> {NoPool} \cup PoolIds]
  BY DEF LocalsInv, TypeOK
<1>2. \A u \in Threads \ {t} : pc'[u] = pc[u] /\ state'[u] = state[u]
  BY OthersUntouched DEF LocalsInv
<1>3. pc'[t] = "wait" /\ state'[t] = g => pc[t] = "wait" /\ state[t] = g
  <2>. USE <1>1 DEF Goto
  <2>1. CASE Rent(t)
    <3>1. CASE RecheckBeforeWait(t)
      BY <3>1 DEF RecheckBeforeWait, localVars
    <3>2. CASE ReadCount(t)
      BY <3>2 DEF ReadCount
    <3>3. CASE ~RecheckBeforeWait(t) /\ ~ReadCount(t)
      BY <2>1, <3>3
      DEF Rent, CallRent, GetOrAdd, TryTake, LendPooled, DiscardDead, Register,
          TakePermit, Unregister, RecheckAfterWait, ReserveSlot, OpenNative,
          FreeSlot, SignalFreeSlot
    <3>. QED  BY <3>1, <3>2, <3>3
  <2>2. CASE CancelWait(t) \/ Return(t) \/ AbandonSession(t)
    BY <2>2 DEF CancelWait, Return, CallReturn, AddToBag, SignalReturn, AbandonSession
  <2>3. CASE Clear(t)
    BY <2>3 DEF Clear, CallClear, Drain, ReadWaiters, Broadcast
  <2>. QED  BY <2>1, <2>2, <2>3 DEF ThreadStep
<1>. QED  BY <1>2, <1>3 DEF Waiting, ThreadsAt

\* Only a thread that leaves Semaphore.Wait lowers the number of permits.
LEMMA PermitsGrow ==
    ASSUME LocalsInv, NEW t \in Threads, ThreadStep(t), NEW g \in PoolIds,
           ~(TakePermit(t) /\ state[t] = g)
    PROVE  permits[g] <= permits'[g]
<1>1. /\ permits \in [PoolIds -> 0 .. SemaphoreMax]
      /\ current[t] \in Int
      /\ SemaphoreMax \in Nat
  BY ConstantsAssumption DEF LocalsInv, TypeOK
<1>2. permits[g] \in Int
  BY <1>1
<1>3. CASE permits' = permits
  BY <1>2, <1>3
<1>4. CASE TakePermit(t)
  BY <1>1, <1>2, <1>4 DEF TakePermit
<1>5. CASE \E n \in Nat : Release(state[t], n)
  BY <1>1, <1>2, <1>5 DEF Release
<1>6. \/ permits' = permits
      \/ TakePermit(t)
      \/ \E n \in Nat : Release(state[t], n)
  <2>1. CASE Rent(t)
    BY <2>1
    DEF Rent, CallRent, GetOrAdd, TryTake, LendPooled, DiscardDead, ReadCount,
        Register, RecheckBeforeWait, Unregister, RecheckAfterWait, ReserveSlot,
        OpenNative, FreeSlot, SignalFreeSlot, poolVars
  <2>2. CASE CancelWait(t) \/ Return(t) \/ AbandonSession(t)
    BY <2>2
    DEF CancelWait, Return, CallReturn, AddToBag, SignalReturn, AbandonSession, poolVars
  <2>3. CASE Clear(t)
    <3>1. CASE Broadcast(t)
      BY <1>1, <3>1 DEF Broadcast
    <3>. QED  BY <2>3, <3>1 DEF Clear, CallClear, Drain, ReadWaiters, poolVars
  <2>. QED  BY <2>1, <2>2, <2>3 DEF ThreadStep
<1>. QED  BY <1>3, <1>4, <1>5, <1>6

LEMMA ClearsOnceStep ==
    ASSUME LocalsInv, LocalsInv', PendingRetired, ClearsOnce,
           NEW t \in Threads, ThreadStep(t)
    PROVE  ClearsOnce'
<1>1. /\ pc \in [Threads -> PCs]
      /\ state \in [Threads -> {NoPool} \cup PoolIds]
      /\ active \in {NoPool} \cup PoolIds
      /\ created \in Nat
      /\ \A g \in PoolIds : g \in Nat /\ g # 0
      /\ \A u \in Threads : state[u] <= created /\ state[u] \in Nat
      /\ \A u \in Threads : pc[u] \in ClearPCs => state[u] \in PoolIds
      /\ ClearsOnce
  <2>1. \A g \in PoolIds : g \in Nat /\ g # 0
    BY ConstantsAssumption DEF PoolIds
  <2>2. \A u \in Threads : pc[u] \in ClearPCs => state[u] \in PoolIds
    BY DEF LocalsInv, LocalsOK, ClearPCs, DetachedPCs
  <2>. QED  BY <2>1, <2>2 DEF LocalsInv, TypeOK, PendingRetired, NoPool
<1>2. \A u \in Threads \ {t} : pc'[u] = pc[u] /\ state'[u] = state[u]
  BY OthersUntouched DEF LocalsInv
<1>. USE <1>1, <1>2 DEF ClearsOnce, ClearPCs, NoPool, Goto
<1>3. CASE CallClear(t)
  BY <1>3 DEF CallClear
<1>4. CASE GetOrAdd(t)
  BY <1>4 DEF GetOrAdd
<1>5. CASE /\ active' = active
           /\ pc'[t] \in ClearPCs => pc[t] \in ClearPCs /\ state'[t] = state[t]
  BY <1>5
<1>6. \/ CallClear(t) \/ GetOrAdd(t)
      \/ /\ active' = active
         /\ pc'[t] \in ClearPCs => pc[t] \in ClearPCs /\ state'[t] = state[t]
  <2>1. CASE Rent(t)
    BY <2>1
    DEF Rent, CallRent, TryTake, LendPooled, DiscardDead, ReadCount,
        Register, RecheckBeforeWait, TakePermit, Unregister, RecheckAfterWait,
        ReserveSlot, OpenNative, FreeSlot, SignalFreeSlot
  <2>2. CASE CancelWait(t) \/ Return(t) \/ AbandonSession(t)
    BY <2>2
    DEF CancelWait, Return, CallReturn, AddToBag, SignalReturn, AbandonSession
  <2>3. CASE Clear(t)
    BY <2>3 DEF Clear, Drain, ReadWaiters, Broadcast, localVars
  <2>. QED  BY <2>1, <2>2, <2>3 DEF ThreadStep
<1>. HIDE <1>1, <1>2 DEF ClearsOnce, ClearPCs, NoPool, Goto
<1>. QED  BY <1>3, <1>4, <1>5, <1>6

\* A thread about to broadcast keeps the number it has read.
LEMMA BroadcastEntered ==
    ASSUME LocalsInv, NEW t \in Threads, ThreadStep(t), NEW u \in Threads,
           pc'[u] = "broadcast"
    PROVE  \/ u = t /\ ReadWaiters(t)
           \/ u # t /\ pc[u] = "broadcast" /\ current'[u] = current[u]
<1>1. /\ pc \in [Threads -> PCs]
      /\ current \in [Threads -> Int]
  BY DEF LocalsInv, TypeOK
<1>. USE <1>1 DEF Goto
<1>2. CASE Rent(t)
  BY <1>2
  DEF Rent, CallRent, GetOrAdd, TryTake, LendPooled, DiscardDead, ReadCount,
      Register, RecheckBeforeWait, TakePermit, Unregister, RecheckAfterWait,
      ReserveSlot, OpenNative, FreeSlot, SignalFreeSlot, localVars
<1>3. CASE CancelWait(t) \/ Return(t) \/ AbandonSession(t)
  BY <1>3
  DEF CancelWait, Return, CallReturn, AddToBag, SignalReturn, AbandonSession
<1>4. CASE Clear(t)
  BY <1>4 DEF Clear, CallClear, Drain, ReadWaiters, Broadcast, localVars
<1>. QED  BY <1>2, <1>3, <1>4 DEF ThreadStep

\* What Clear reads is enough for everyone in Semaphore.Wait, and counts
\* nobody twice nor the clearing thread itself.
LEMMA WaitersSuffice ==
    ASSUME WaitersInv, NEW t \in Threads, pc[t] = "readWaiters"
    PROVE  /\ Cardinality(Waiting(state[t])) <= waiters[state[t]]
           /\ waiters[state[t]] <= Cardinality(Threads) - 1
<1>. DEFINE g == state[t]
            R == Registered(g)
            N == Nested(g)
<1>1. g \in PoolIds
  BY DEF WaitersInv, LocalsInv, LocalsOK, DetachedPCs
<1>2. IsFiniteSet(R) /\ IsFiniteSet(N) /\ IsFiniteSet(Threads \ {t})
  BY FS_Subset, ConstantsAssumption DEF Registered, Nested, ThreadsAt
<1>3. waiters[g] = Cardinality(R) + Cardinality(N)
  BY <1>1 DEF WaitersInv, WaitersIsExact, Registered, Nested
<1>4. Waiting(g) \subseteq R
  BY DEF Waiting, Registered, ThreadsAt
<1>5. Cardinality(Waiting(g)) <= Cardinality(R)
  BY <1>2, <1>4, FS_Subset
<1>6. R \cap N = {} /\ R \cup N \subseteq Threads \ {t}
  <2>1. R \cap N = {}
    BY DEF Registered, Nested, ThreadsAt, WaitersInv, PendingRetired
  <2>2. t \notin R
    BY DEF Registered, ThreadsAt
  <2>3. t \notin N
    BY DEF Nested, WaitersInv, PendingRetired, RentPCs
  <2>. QED  BY <2>1, <2>2, <2>3 DEF Registered, Nested, ThreadsAt
<1>7. Cardinality(R \cup N) = Cardinality(R) + Cardinality(N)
  <2>1. /\ Cardinality(R \cup N) = Cardinality(R) + Cardinality(N) - Cardinality(R \cap N)
        /\ Cardinality(R) \in Nat /\ Cardinality(N) \in Nat
    BY <1>2, FS_Union, FS_CardinalityType
  <2>2. Cardinality(R \cap N) = 0
    BY <1>6, FS_EmptySet
  <2>. QED  BY <2>1, <2>2
<1>8. Cardinality(R \cup N) <= Cardinality(Threads \ {t})
  BY <1>2, <1>6, FS_Subset
<1>9. Cardinality(Threads \ {t}) = Cardinality(Threads) - 1
  BY FS_RemoveElement, ConstantsAssumption
<1>10. Cardinality(R) \in Nat /\ Cardinality(N) \in Nat /\ Cardinality(Waiting(g)) \in Nat
  BY <1>2, WaitingFinite, FS_CardinalityType
<1>. QED  BY <1>3, <1>5, <1>7, <1>8, <1>9, <1>10

LEMMA BroadcastStep ==
    ASSUME WaitersInv, ClearsOnce, BroadcastSuffices, NEW t \in Threads, ThreadStep(t)
    PROVE  BroadcastSuffices'
<1>. SUFFICES ASSUME NEW u \in Threads, pc'[u] = "broadcast"
              PROVE  /\ Cardinality(Waiting(state[u])') <= current'[u]
                     /\ current'[u] <= Cardinality(Threads) - 1
  BY DEF BroadcastSuffices, Waiting, ThreadsAt
<1>1. LocalsInv /\ TypeOK
  BY DEF WaitersInv, LocalsInv
<1>2. CASE u = t /\ ReadWaiters(t)
  <2>1. /\ pc[t] = "readWaiters"
        /\ state' = state
        /\ current'[t] = waiters[state[t]]
    BY <1>1, <1>2 DEF ReadWaiters, TypeOK
  <2>2. Waiting(state[t])' = Waiting(state[t])
    BY <1>1, <1>2, <2>1 DEF Waiting, ThreadsAt, ReadWaiters, Goto, TypeOK
  <2>. QED  BY <1>2, <2>1, <2>2, WaitersSuffice
<1>3. CASE u # t /\ pc[u] = "broadcast" /\ current'[u] = current[u]
  <2>1. state'[u] = state[u]
    BY <1>1, <1>3, OthersUntouched
  <2>2. state[u] # active /\ state[u] \in PoolIds
    BY <1>1, <1>3 DEF ClearsOnce, ClearPCs, LocalsInv, LocalsOK, DetachedPCs
  <2>3. Waiting(state[u])' \subseteq Waiting(state[u])
    <3>1. \A g \in PoolIds : g # active =>
            {v \in Threads : state'[v] = g /\ pc'[v] = "wait"} \subseteq Waiting(g)
      BY <1>1, WaitingShrinks DEF Waiting, ThreadsAt
    <3>. QED  BY <2>1, <2>2, <3>1 DEF Waiting, ThreadsAt
  <2>4. Cardinality(Waiting(state[u])') <= Cardinality(Waiting(state[u]))
    BY <2>3, WaitingFinite, FS_Subset
  <2>5. /\ Cardinality(Waiting(state[u])) <= current[u]
        /\ current[u] <= Cardinality(Threads) - 1
    BY <1>3 DEF BroadcastSuffices
  <2>6. /\ Cardinality(Waiting(state[u])) \in Nat
        /\ Cardinality(Waiting(state[u])') \in Nat
        /\ current[u] \in Int
    <3>1. IsFiniteSet(Waiting(state[u])')
      BY <2>3, WaitingFinite, FS_Subset
    <3>. QED  BY <1>1, <3>1, WaitingFinite, FS_CardinalityType DEF TypeOK
  <2>. QED  BY <1>3, <2>4, <2>5, <2>6
<1>. QED  BY <1>1, <1>2, <1>3, BroadcastEntered

\* Which steps end a Clear, and which retire a PoolState.
LEMMA ClearEnds ==
    ASSUME LocalsInv, NEW t \in Threads, ThreadStep(t)
    PROVE  /\ pc[t] \in ClearPCs /\ ~Broadcast(t) =>
                pc'[t] \in ClearPCs /\ state'[t] = state[t]
           /\ active' # active =>
                \/ /\ CallClear(t)
                   /\ pc'[t] \in ClearPCs /\ state'[t] = active
                \/ created' = created + 1 /\ active = NoPool /\ active' = created'
           /\ created' # created => created' = created + 1 /\ active' = created'
<1>1. /\ pc \in [Threads -> PCs]
      /\ state \in [Threads -> {NoPool} \cup PoolIds]
      /\ created \in Int
  BY ConstantsAssumption DEF LocalsInv, TypeOK, PoolIds, NoPool
<1>. USE <1>1 DEF Goto, ClearPCs
<1>2. CASE Rent(t)
  BY <1>2
  DEF Rent, CallRent, GetOrAdd, TryTake, LendPooled, DiscardDead, ReadCount,
      Register, RecheckBeforeWait, TakePermit, Unregister, RecheckAfterWait,
      ReserveSlot, OpenNative, FreeSlot, SignalFreeSlot
<1>3. CASE CancelWait(t) \/ Return(t) \/ AbandonSession(t)
  BY <1>3
  DEF CancelWait, Return, CallReturn, AddToBag, SignalReturn, AbandonSession
<1>4. CASE Clear(t)
  BY <1>4 DEF Clear, CallClear, Drain, ReadWaiters, Broadcast, localVars
<1>. QED  BY <1>2, <1>3, <1>4 DEF ThreadStep

\* The broadcast leaves a permit for everyone it found waiting, even when the
\* semaphore is full.
LEMMA BroadcastWakes ==
    ASSUME RoomForBroadcast, LocalsInv, BroadcastSuffices,
           NEW t \in Threads, Broadcast(t)
    PROVE  Cardinality(Waiting(state[t])) <= permits'[state[t]]
<1>1. /\ permits \in [PoolIds -> 0 .. SemaphoreMax]
      /\ current[t] \in Int
      /\ pc[t] = "broadcast"
      /\ state[t] \in PoolIds
      /\ SemaphoreMax \in Nat
  BY ConstantsAssumption
  DEF LocalsInv, TypeOK, LocalsOK, DetachedPCs, Broadcast
<1>2. /\ Cardinality(Waiting(state[t])) <= current[t]
      /\ current[t] <= Cardinality(Threads) - 1
      /\ Cardinality(Waiting(state[t])) \in Nat
      /\ Cardinality(Threads) \in Nat
      /\ 2 * (Cardinality(Threads) - 1) <= SemaphoreMax
  BY <1>1, WaitingFinite, FS_CardinalityType, ConstantsAssumption
  DEF BroadcastSuffices, RoomForBroadcast
<1>3. CASE current[t] <= 0
  BY <1>1, <1>2, <1>3 DEF Broadcast
<1>4. CASE current[t] > 0 /\ permits[state[t]] + current[t] > SemaphoreMax
  BY <1>1, <1>2, <1>4 DEF Broadcast, Release
<1>5. CASE current[t] > 0 /\ permits[state[t]] + current[t] <= SemaphoreMax
  BY <1>1, <1>2, <1>5 DEF Broadcast, Release
<1>. QED  BY <1>1, <1>3, <1>4, <1>5

LEMMA StrandedStep ==
    ASSUME RoomForBroadcast, WaitersInv, ClearsOnce, BroadcastSuffices,
           NoStrandedWaiter, LocalsInv', NEW t \in Threads, ThreadStep(t)
    PROVE  NoStrandedWaiter'
<1>. DEFINE Served(g) == Cardinality(Waiting(g)) <= permits[g]
<1>. SUFFICES ASSUME NEW g \in 1 .. created', g # active', ThreadsAt(g, ClearPCs)' = {}
              PROVE  Cardinality(Waiting(g)') <= permits'[g]
  BY DEF NoStrandedWaiter, Waiting
<1>1. /\ LocalsInv /\ TypeOK /\ TypeOK'
      /\ created \in Int
      /\ g \in PoolIds
  <2>1. LocalsInv /\ TypeOK /\ TypeOK'
    BY DEF WaitersInv, LocalsInv
  <2>2. created \in {0} \cup PoolIds /\ created' \in {0} \cup PoolIds
    BY <2>1 DEF TypeOK, NoPool
  <2>. QED  BY <2>1, <2>2, ConstantsAssumption DEF PoolIds
<1>2. g <= created
  BY <1>1, ClearEnds
<1>3. g # active
  <2>1. CASE active' = active
    BY <2>1
  <2>2. CASE active' # active /\ g = active
    BY <1>1, <2>2, ClearEnds DEF ThreadsAt, NoPool, PoolIds
  <2>. QED  BY <2>1, <2>2
<1>4. Waiting(g)' \subseteq Waiting(g)
  BY <1>1, <1>3, WaitingShrinks
<1>5. /\ Cardinality(Waiting(g)') <= Cardinality(Waiting(g))
      /\ IsFiniteSet(Waiting(g)')
      /\ Cardinality(Waiting(g)) \in Nat /\ Cardinality(Waiting(g)') \in Nat
  BY <1>4, WaitingFinite, FS_Subset, FS_CardinalityType
<1>6. permits[g] \in Int /\ permits'[g] \in Int
  BY <1>1 DEF TypeOK
<1>7. CASE ThreadsAt(g, ClearPCs) = {} /\ TakePermit(t) /\ state[t] = g
  <2>1. Served(g)
    BY <1>2, <1>3, <1>7 DEF NoStrandedWaiter, Waiting
  <2>2. permits'[g] = permits[g] - 1
    BY <1>1, <1>7 DEF TakePermit, TypeOK
  <2>3. t \in Waiting(g) /\ t \notin Waiting(g)'
    BY <1>1, <1>7 DEF TakePermit, Waiting, ThreadsAt, Goto, TypeOK
  <2>4. Waiting(g)' \subseteq Waiting(g) \ {t}
    BY <1>4, <2>3
  <2>5. /\ IsFiniteSet(Waiting(g) \ {t})
        /\ Cardinality(Waiting(g) \ {t}) = Cardinality(Waiting(g)) - 1
    BY <2>3, WaitingFinite, FS_RemoveElement
  <2>6. Cardinality(Waiting(g)') <= Cardinality(Waiting(g)) - 1
    BY <2>4, <2>5, FS_Subset
  <2>. QED  BY <1>5, <1>6, <2>1, <2>2, <2>6
<1>8. CASE ThreadsAt(g, ClearPCs) = {} /\ ~(TakePermit(t) /\ state[t] = g)
  <2>1. Served(g)
    BY <1>2, <1>3, <1>8 DEF NoStrandedWaiter, Waiting
  <2>2. permits[g] <= permits'[g]
    BY <1>1, <1>8, PermitsGrow
  <2>. QED  BY <1>5, <1>6, <2>1, <2>2
<1>9. CASE ThreadsAt(g, ClearPCs) # {}
  <2>1. PICK u \in Threads : state[u] = g /\ pc[u] \in ClearPCs
    BY <1>9 DEF ThreadsAt
  <2>2. u = t
    BY <1>1, <2>1, OthersUntouched DEF ThreadsAt
  <2>3. Broadcast(t)
    BY <1>1, <2>1, <2>2, ClearEnds DEF ThreadsAt
  <2>4. Cardinality(Waiting(g)) <= permits'[g]
    BY <1>1, <2>1, <2>2, <2>3, BroadcastWakes
  <2>. QED  BY <1>5, <1>6, <2>4
<1>. QED  BY <1>7, <1>8, <1>9

LEMMA StrandedInit == Init => StrandedInv
<1>. SUFFICES ASSUME Init
              PROVE  StrandedInv
  OBVIOUS
<1>1. ClearsOnce /\ BroadcastSuffices
  BY DEF Init, ClearsOnce, BroadcastSuffices, ClearPCs
<1>2. NoStrandedWaiter
  BY DEF Init, NoStrandedWaiter
<1>. QED  BY <1>1, <1>2, WaitersInit DEF StrandedInv

LEMMA StrandedInvariance ==
    RoomForBroadcast /\ StrandedInv /\ [Next]_vars => StrandedInv'
<1>1. StrandedInv /\ [Next]_vars => WaitersInv'
  BY WaitersInvariance DEF StrandedInv
<1>2. ASSUME RoomForBroadcast, StrandedInv, WaitersInv', NEW t \in Threads, ThreadStep(t)
      PROVE  StrandedInv'
  <2>1. /\ WaitersInv /\ ClearsOnce /\ BroadcastSuffices /\ NoStrandedWaiter
        /\ LocalsInv /\ PendingRetired /\ LocalsInv'
    BY <1>2 DEF StrandedInv, WaitersInv
  <2>2. ClearsOnce'
    BY <1>2, <2>1, ClearsOnceStep
  <2>3. BroadcastSuffices'
    BY <1>2, <2>1, BroadcastStep
  <2>4. NoStrandedWaiter'
    BY <1>2, <2>1, StrandedStep
  <2>. QED  BY <1>2, <2>2, <2>3, <2>4 DEF StrandedInv
<1>3. ASSUME StrandedInv, WaitersInv', UNCHANGED vars
      PROVE  StrandedInv'
  BY <1>3
  DEF StrandedInv, ClearsOnce, BroadcastSuffices, NoStrandedWaiter, Waiting,
      ThreadsAt, vars
<1>. QED  BY <1>1, <1>2, <1>3 DEF Next, ThreadStep

\* Clear strands nobody.  Once a Clear is done with the PoolState it unlinked,
\* every thread still blocked in Semaphore.Wait on it has a permit to leave
\* with: the number Clear reads after the drain counts everyone, whoever
\* registers, cancels or takes a permit meanwhile, and a thread that registers
\* later sees the PoolState retired and does not block.
THEOREM ClearStrandsNobody == RoomForBroadcast /\ Spec => []NoStrandedWaiter
<1>1. StrandedInv => NoStrandedWaiter
  BY DEF StrandedInv
<1>2. ASSUME RoomForBroadcast
      PROVE  StrandedInv /\ [Next]_vars => StrandedInv'
  BY <1>2, StrandedInvariance
<1>3. ASSUME RoomForBroadcast
      PROVE  Spec => []NoStrandedWaiter
  BY <1>1, <1>2, <1>3, StrandedInit, PTL DEF Spec
<1>. QED  BY <1>3

-----------------------------------------------------------------------------
(* NoLostWakeup. *)

\* A PoolState that no GetOrAdd has created yet is as the constructor leaves it.
FreshUntouched ==
    \A g \in PoolIds : g > created => bag[g] = {} /\ permits[g] = 0 /\ count[g] = 0

\* Every idle session has its signal: a permit, or a thread that has added the
\* session and not released yet, or one woken to look at the bag.  This is
\* what a renter relies on when it finds Count at the maximum and blocks
\* without looking at the bag again.
IdleMatched ==
    active # NoPool =>
        Cardinality(bag[active])
            <= permits[active] + Cardinality(ThreadsAt(active, LooksAtBag))

\* Threads on a retired PoolState that may still open a session, which Return
\* will then put into the bag of the live one.
Late == {t \in Threads : state[t] # active /\ pc[t] \in {"take", "readCount", "cas"}}

\* Count goes below zero when sessions of retired PoolStates turn out dead on
\* the live one; it cannot go lower than there are such sessions.
CountBounded ==
    active # NoPool =>
        Cardinality(open) + Cardinality(Opening) + Cardinality(Late)
            <= count[active] + Cardinality(Sessions) + Cardinality(Threads)

WakeupInv ==
    /\ SessionInv
    /\ WaitersInv
    /\ FreshUntouched
    /\ IdleMatched
    /\ CountBounded
    /\ NoLostWakeup

\* Room for a permit per idle session and per free slot, also when Count has
\* sunk below zero.
RoomForSignals ==
    /\ IsFiniteSet(Sessions)
    /\ MaxPoolSize + Cardinality(Sessions) + Cardinality(Threads) <= SemaphoreMax

One(t, S) == IF t \in S THEN 1 ELSE 0

LEMMA ThreadsAtFinite ==
    ASSUME NEW g, NEW labels
    PROVE  /\ IsFiniteSet(ThreadsAt(g, labels))
           /\ Cardinality(ThreadsAt(g, labels)) \in Nat
BY FS_Subset, FS_CardinalityType, ConstantsAssumption DEF ThreadsAt

\* A step moves its own thread in or out of a place in the code, nobody else.
LEMMA ThreadsAtMove ==
    ASSUME TypeOK, NEW t \in Threads, ThreadStep(t), NEW g, NEW labels
    PROVE  /\ Cardinality(ThreadsAt(g, labels)') \in Nat
           /\ Cardinality(ThreadsAt(g, labels)')
                = Cardinality(ThreadsAt(g, labels))
                    - One(t, ThreadsAt(g, labels)) + One(t, ThreadsAt(g, labels)')
<1>1. IsFiniteSet(ThreadsAt(g, labels)) /\ IsFiniteSet(ThreadsAt(g, labels)')
  BY FS_Subset, ConstantsAssumption DEF ThreadsAt
<1>2. ThreadsAt(g, labels) \ {t} = ThreadsAt(g, labels)' \ {t}
  BY OthersUntouched DEF ThreadsAt
<1>. HIDE DEF ThreadsAt
<1>3. /\ Cardinality(ThreadsAt(g, labels)') \in Nat
      /\ Cardinality(ThreadsAt(g, labels)) \in Nat
      /\ Cardinality(ThreadsAt(g, labels)') - One(t, ThreadsAt(g, labels)')
           = Cardinality(ThreadsAt(g, labels)) - One(t, ThreadsAt(g, labels))
  BY <1>1, <1>2, CardinalityMoves DEF One
<1>. QED  BY <1>3 DEF One

\* Sessions move one at a time: the bag of a PoolState grows by the session
\* of AddToBag and shrinks by the one a TryTake got.
LEMMA BagMove ==
    ASSUME IsFiniteSet(Sessions), SessionInv, NEW t \in Threads, ThreadStep(t),
           NEW g \in PoolIds
    PROVE  /\ IsFiniteSet(bag[g]) /\ IsFiniteSet(bag'[g])
           /\ Cardinality(bag[g]) \in Nat /\ Cardinality(bag'[g]) \in Nat
           /\ \/ Cardinality(bag'[g]) <= Cardinality(bag[g])
              \/ /\ AddToBag(t) /\ state[t] = g
                 /\ Cardinality(bag'[g]) <= Cardinality(bag[g]) + 1
           /\ TryTake(t) /\ state[t] = g /\ bag[g] # {} =>
                Cardinality(bag'[g]) = Cardinality(bag[g]) - 1
<1>1. /\ LocalsInv /\ TypeOK /\ TypeOK'
      /\ bag \in [PoolIds -> SUBSET Sessions]
      /\ bag' \in [PoolIds -> SUBSET Sessions]
  BY TypeStep DEF SessionInv, LocalsInv, TypeOK
<1>2. /\ IsFiniteSet(bag[g]) /\ IsFiniteSet(bag'[g])
      /\ Cardinality(bag[g]) \in Nat /\ Cardinality(bag'[g]) \in Nat
  BY <1>1, FS_Subset, FS_CardinalityType
<1>3. \/ bag'[g] \subseteq bag[g]
      \/ AddToBag(t) /\ state[t] = g /\ bag'[g] = bag[g] \cup {session[t]}
  <2>1. CASE Rent(t)
    <3>1. CASE TryTake(t)
      BY <1>1, <3>1 DEF TryTake
    <3>. QED
      BY <2>1, <3>1
      DEF Rent, CallRent, GetOrAdd, LendPooled, DiscardDead, ReadCount, Register,
          RecheckBeforeWait, TakePermit, Unregister, RecheckAfterWait, ReserveSlot,
          OpenNative, FreeSlot, SignalFreeSlot, poolVars
  <2>2. CASE AddToBag(t)
    BY <1>1, <2>2 DEF AddToBag
  <2>3. CASE CancelWait(t) \/ CallReturn(t) \/ SignalReturn(t) \/ AbandonSession(t)
    BY <2>3 DEF CancelWait, CallReturn, SignalReturn, AbandonSession, poolVars
  <2>4. CASE Clear(t)
    <3>1. CASE Drain(t)
      BY <1>1, <3>1 DEF Drain
    <3>. QED  BY <2>4, <3>1 DEF Clear, CallClear, ReadWaiters, Broadcast, poolVars
  <2>. QED  BY <2>1, <2>2, <2>3, <2>4 DEF ThreadStep, Return
<1>4. bag'[g] \subseteq bag[g] => Cardinality(bag'[g]) <= Cardinality(bag[g])
  BY <1>2, FS_Subset
<1>5. bag'[g] = bag[g] \cup {session[t]} =>
        Cardinality(bag'[g]) <= Cardinality(bag[g]) + 1
  <2>1. Cardinality(bag[g] \cup {session[t]})
          = IF session[t] \in bag[g] THEN Cardinality(bag[g]) ELSE Cardinality(bag[g]) + 1
    BY <1>2, FS_AddElement
  <2>. QED  BY <1>2, <2>1
<1>6. ASSUME TryTake(t), state[t] = g, bag[g] # {}
      PROVE  Cardinality(bag'[g]) = Cardinality(bag[g]) - 1
  <2>1. PICK s \in bag[g] : bag'[g] = bag[g] \ {s}
    BY <1>1, <1>6 DEF TryTake
  <2>. QED  BY <1>2, <2>1, FS_RemoveElement
<1>. QED  BY <1>2, <1>3, <1>4, <1>5, <1>6

LEMMA FreshStep ==
    ASSUME LocalsInv, PendingRetired, FreshUntouched, NEW t \in Threads, ThreadStep(t)
    PROVE  FreshUntouched'
<1>. SUFFICES ASSUME NEW g \in PoolIds, g > created'
              PROVE  bag'[g] = {} /\ permits'[g] = 0 /\ count'[g] = 0
  BY DEF FreshUntouched
<1>1. /\ g \in Int /\ created \in Int /\ state[t] <= created /\ state[t] \in Int
      /\ state \in [Threads -> {NoPool} \cup PoolIds]
      /\ bag \in [PoolIds -> SUBSET Sessions]
      /\ permits \in [PoolIds -> 0 .. SemaphoreMax]
      /\ count \in [PoolIds -> Int]
  <2>1. \A h \in {NoPool} \cup PoolIds : h \in Int
    BY ConstantsAssumption DEF PoolIds, NoPool
  <2>. QED  BY <2>1 DEF LocalsInv, TypeOK, PendingRetired
<1>2. created <= created'
  BY <1>1, ClearEnds
<1>3. state[t] # g /\ bag[g] = {} /\ permits[g] = 0 /\ count[g] = 0
  <2>1. created' \in Int
    BY <1>1, ClearEnds
  <2>. QED  BY <1>1, <1>2, <2>1 DEF FreshUntouched
<1>4. bag'[g] = bag[g] /\ permits'[g] = permits[g] /\ count'[g] = count[g]
  <2>. USE <1>1, <1>3
  <2>1. CASE Rent(t)
    BY <2>1
    DEF Rent, CallRent, GetOrAdd, TryTake, LendPooled, DiscardDead, ReadCount,
        Register, RecheckBeforeWait, TakePermit, Unregister, RecheckAfterWait,
        ReserveSlot, OpenNative, FreeSlot, SignalFreeSlot, Release, poolVars
  <2>2. CASE CancelWait(t) \/ AbandonSession(t)
    BY <2>2 DEF CancelWait, AbandonSession, poolVars
  <2>3. CASE Return(t)
    BY <2>3 DEF Return, CallReturn, AddToBag, SignalReturn, Release, poolVars
  <2>4. CASE Clear(t)
    BY <2>4
    DEF Clear, CallClear, Drain, ReadWaiters, Broadcast, Release, poolVars
  <2>. QED  BY <2>1, <2>2, <2>3, <2>4 DEF ThreadStep
<1>. QED  BY <1>3, <1>4

\* A Release adds its permit, or there are at least as many as it could add.
LEMMA ReleaseOne ==
    ASSUME LocalsInv, NEW g \in PoolIds, Release(g, 1)
    PROVE  permits'[g] = permits[g] + 1 \/ permits'[g] = SemaphoreMax
BY ConstantsAssumption DEF LocalsInv, TypeOK, Release

\* The session that Return adds has its thread to signal it, the permit a
\* waiter takes has the woken thread, and a thread that stops looking takes a
\* session or has seen the bag empty.
LEMMA IdleMatchedStep ==
    ASSUME RoomForSignals, SessionInv, IdleMatched, NEW t \in Threads, ThreadStep(t),
           NEW g \in PoolIds, active = g, active' = g
    PROVE  Cardinality(bag'[g])
             <= permits'[g] + Cardinality(ThreadsAt(g, LooksAtBag)')
<1>. DEFINE L == ThreadsAt(g, LooksAtBag)
<1>1. /\ LocalsInv /\ TypeOK /\ TypeOK'
      /\ permits \in [PoolIds -> 0 .. SemaphoreMax]
      /\ permits' \in [PoolIds -> 0 .. SemaphoreMax]
      /\ pc \in [Threads -> PCs]
      /\ state \in [Threads -> {NoPool} \cup PoolIds]
      /\ pc[t] \notin DetachedPCs => state[t] \in PoolIds
      /\ g # NoPool
      /\ SemaphoreMax \in Nat
  <2>1. LocalsInv /\ TypeOK /\ TypeOK'
    BY TypeStep DEF SessionInv, LocalsInv
  <2>2. g # NoPool /\ SemaphoreMax \in Nat
    BY ConstantsAssumption DEF PoolIds, NoPool
  <2>. QED  BY <2>1, <2>2 DEF LocalsInv, LocalsOK, TypeOK
<1>2. permits[g] \in Nat /\ permits'[g] \in Nat
  BY <1>1
<1>3. /\ Cardinality(L) \in Nat /\ Cardinality(L') \in Nat
      /\ Cardinality(L') = Cardinality(L) - One(t, L) + One(t, L')
  BY <1>1, ThreadsAtFinite, ThreadsAtMove
<1>4. /\ Cardinality(bag[g]) \in Nat /\ Cardinality(bag'[g]) \in Nat
      /\ \/ Cardinality(bag'[g]) <= Cardinality(bag[g])
         \/ /\ AddToBag(t) /\ state[t] = g
            /\ Cardinality(bag'[g]) <= Cardinality(bag[g]) + 1
      /\ TryTake(t) /\ state[t] = g /\ bag[g] # {} =>
           Cardinality(bag'[g]) = Cardinality(bag[g]) - 1
  BY BagMove DEF RoomForSignals
<1>5. Cardinality(bag[g]) <= permits[g] + Cardinality(L)
  BY <1>1 DEF IdleMatched
<1>6. ~(TakePermit(t) /\ state[t] = g) => permits[g] <= permits'[g]
  BY <1>1, PermitsGrow
<1>7. CASE AddToBag(t) /\ state[t] = g
  <2>1. t \notin L /\ t \in L' /\ ~TakePermit(t)
    BY <1>1, <1>7 DEF AddToBag, TakePermit, ThreadsAt, LooksAtBag, Goto
  <2>. QED  BY <1>2, <1>3, <1>4, <1>5, <1>6, <2>1 DEF One
<1>8. CASE TakePermit(t) /\ state[t] = g
  <2>1. t \notin L /\ t \in L' /\ permits'[g] = permits[g] - 1 /\ ~AddToBag(t)
    BY <1>1, <1>8 DEF AddToBag, TakePermit, ThreadsAt, LooksAtBag, Goto, localVars
  <2>. QED  BY <1>2, <1>3, <1>4, <1>5, <2>1 DEF One
<1>9. CASE TryTake(t) /\ state[t] = g
  <2>1. ~TakePermit(t) /\ ~AddToBag(t) /\ permits' = permits
    BY <1>9 DEF AddToBag, TakePermit, TryTake
  <2>2. CASE bag[g] # {}
    BY <1>2, <1>3, <1>4, <1>5, <1>9, <2>1, <2>2 DEF One
  <2>3. CASE bag[g] = {}
    <3>1. Cardinality(bag[g]) = 0
      BY <2>3, FS_EmptySet
    <3>. QED  BY <1>2, <1>3, <1>4, <2>1, <3>1
  <2>. QED  BY <2>2, <2>3
<1>10. CASE SignalReturn(t) /\ state[t] = g
  <2>1. /\ ~AddToBag(t)
        /\ permits'[g] = permits[g] + 1 \/ permits'[g] = SemaphoreMax
    BY <1>1, <1>10, ReleaseOne DEF SignalReturn, AddToBag
  <2>2. Cardinality(bag[g]) <= SemaphoreMax
    <3>1. bag[g] \subseteq Sessions
      BY <1>1 DEF TypeOK
    <3>2. Cardinality(bag[g]) <= Cardinality(Sessions)
      BY <3>1, FS_Subset DEF RoomForSignals
    <3>3. Cardinality(Sessions) \in Nat /\ Cardinality(Threads) \in Nat /\ MaxPoolSize \in Nat
      BY FS_CardinalityType, ConstantsAssumption DEF RoomForSignals
    <3>. QED  BY <1>1, <1>4, <3>2, <3>3 DEF RoomForSignals
  <2>. QED  BY <1>1, <1>2, <1>3, <1>4, <1>5, <2>1, <2>2 DEF One
<1>11. CASE ~(/\ AddToBag(t) \/ TakePermit(t) \/ TryTake(t) \/ SignalReturn(t)
              /\ state[t] = g)
  <2>1. t \in L => t \in L'
    <3>. USE <1>1, <1>11 DEF ThreadsAt, LooksAtBag, Goto, NoPool
    <3>1. CASE Rent(t)
      BY <3>1
      DEF Rent, CallRent, GetOrAdd, LendPooled, DiscardDead, ReadCount,
          Register, RecheckBeforeWait, Unregister, RecheckAfterWait,
          ReserveSlot, OpenNative, FreeSlot, SignalFreeSlot, localVars
    <3>2. CASE CancelWait(t) \/ AbandonSession(t)
      BY <3>2 DEF CancelWait, AbandonSession
    <3>3. CASE Return(t)
      BY <3>3 DEF Return, CallReturn
    <3>4. CASE Clear(t)
      BY <3>4 DEF Clear, CallClear, Drain, ReadWaiters, Broadcast
    <3>. QED  BY <3>1, <3>2, <3>3, <3>4 DEF ThreadStep
  <2>. QED  BY <1>2, <1>3, <1>4, <1>5, <1>6, <1>11, <2>1 DEF One
<1>. QED  BY <1>7, <1>8, <1>9, <1>10, <1>11

\* A set of threads that only the moving thread can enter or leave.
LEMMA SetMove ==
    ASSUME NEW A, NEW B, A \subseteq Threads, B \subseteq Threads,
           NEW t, A \ {t} = B \ {t}
    PROVE  /\ Cardinality(A) \in Nat /\ Cardinality(B) \in Nat
           /\ Cardinality(B) = Cardinality(A) - One(t, A) + One(t, B)
<1>1. IsFiniteSet(A) /\ IsFiniteSet(B)
  BY FS_Subset, ConstantsAssumption
<1>2. /\ Cardinality(A) \in Nat /\ Cardinality(B) \in Nat
      /\ Cardinality(B) - One(t, B) = Cardinality(A) - One(t, A)
  BY <1>1, CardinalityMoves DEF One
<1>. QED  BY <1>2 DEF One

\* Sessions are opened one at a time, and DiscardDead disposes one that is open.
LEMMA OpenMove ==
    ASSUME IsFiniteSet(Sessions), SessionInv, NEW t \in Threads, ThreadStep(t)
    PROVE  /\ Cardinality(open) \in Nat /\ Cardinality(open') \in Nat
           /\ OpenNative(t) => Cardinality(open') <= Cardinality(open) + 1
           /\ ~OpenNative(t) => Cardinality(open') <= Cardinality(open)
           /\ DiscardDead(t) => Cardinality(open') <= Cardinality(open) - 1
<1>1. /\ LocalsInv /\ TypeOK /\ TypeOK'
      /\ open \subseteq Sessions /\ open' \subseteq Sessions
  BY TypeStep DEF SessionInv, LocalsInv, TypeOK
<1>2. /\ IsFiniteSet(open) /\ IsFiniteSet(open')
      /\ Cardinality(open) \in Nat /\ Cardinality(open') \in Nat
  BY <1>1, FS_Subset, FS_CardinalityType
<1>3. OpenNative(t) => Cardinality(open') <= Cardinality(open) + 1
  <2>1. SUFFICES ASSUME OpenNative(t)
                 PROVE  Cardinality(open') <= Cardinality(open) + 1
    OBVIOUS
  <2>2. PICK s \in Sessions : open' = open \cup {s}
    BY <2>1 DEF OpenNative
  <2>3. Cardinality(open \cup {s})
          = IF s \in open THEN Cardinality(open) ELSE Cardinality(open) + 1
    BY <1>2, FS_AddElement
  <2>. QED  BY <1>2, <2>2, <2>3
<1>4. ~OpenNative(t) => open' \subseteq open
  <2>1. CASE Rent(t)
    BY <2>1
    DEF Rent, CallRent, GetOrAdd, TryTake, LendPooled, DiscardDead, ReadCount,
        Register, RecheckBeforeWait, TakePermit, Unregister, RecheckAfterWait,
        ReserveSlot, FreeSlot, SignalFreeSlot
  <2>2. CASE CancelWait(t) \/ Return(t) \/ AbandonSession(t)
    BY <2>2 DEF CancelWait, Return, CallReturn, AddToBag, SignalReturn, AbandonSession
  <2>3. CASE Clear(t)
    BY <2>3 DEF Clear, CallClear, Drain, ReadWaiters, Broadcast
  <2>. QED  BY <2>1, <2>2, <2>3 DEF ThreadStep
<1>5. DiscardDead(t) => Cardinality(open') <= Cardinality(open) - 1
  <2>1. SUFFICES ASSUME DiscardDead(t)
                 PROVE  Cardinality(open') <= Cardinality(open) - 1
    OBVIOUS
  <2>2. session[t] \in open /\ open' = open \ {session[t]}
    BY <1>1, <2>1
    DEF DiscardDead, SessionInv, HeldSessionsAreOpen, LocalsInv, LocalsOK, HolderPCs
  <2>3. Cardinality(open \ {session[t]}) = Cardinality(open) - 1
    BY <1>2, <2>2, FS_RemoveElement
  <2>. QED  BY <1>2, <2>2, <2>3
<1>6. open' \subseteq open => Cardinality(open') <= Cardinality(open)
  BY <1>2, FS_Subset
<1>. QED  BY <1>2, <1>3, <1>4, <1>5, <1>6

\* A step that lowers Count uses up a session or an opening thread, and a
\* session comes from an opening thread, which reserved a slot of the live
\* PoolState or was late.
LEMMA CountBoundedStep ==
    ASSUME RoomForSignals, SessionInv, CountBounded, NEW t \in Threads, ThreadStep(t),
           NEW g \in PoolIds, active = g, active' = g
    PROVE  CountBounded'
<1>1. /\ LocalsInv /\ TypeOK
      /\ pc \in [Threads -> PCs]
      /\ state \in [Threads -> {NoPool} \cup PoolIds]
      /\ count \in [PoolIds -> Int]
      /\ g # NoPool
      /\ pc[t] \notin DetachedPCs => state[t] \in PoolIds
  <2>1. g # NoPool
    BY ConstantsAssumption DEF PoolIds, NoPool
  <2>. QED  BY <2>1 DEF SessionInv, LocalsInv, LocalsOK, TypeOK
<1>2. /\ Cardinality(Opening) \in Nat /\ Cardinality(Opening') \in Nat
      /\ Cardinality(Opening')
           = Cardinality(Opening) - One(t, Opening) + One(t, Opening')
  <2>1. /\ Opening \subseteq Threads /\ Opening' \subseteq Threads
        /\ Opening \ {t} = Opening' \ {t}
    BY <1>1, OthersUntouched DEF Opening
  <2>. QED  BY <2>1, SetMove
<1>3. /\ Cardinality(Late) \in Nat /\ Cardinality(Late') \in Nat
      /\ Cardinality(Late') = Cardinality(Late) - One(t, Late) + One(t, Late')
  <2>1. /\ Late \subseteq Threads /\ Late' \subseteq Threads
        /\ Late \ {t} = Late' \ {t}
    BY <1>1, OthersUntouched DEF Late
  <2>. QED  BY <2>1, SetMove
<1>4. /\ Cardinality(open) \in Nat /\ Cardinality(open') \in Nat
      /\ OpenNative(t) => Cardinality(open') <= Cardinality(open) + 1
      /\ ~OpenNative(t) => Cardinality(open') <= Cardinality(open)
      /\ DiscardDead(t) => Cardinality(open') <= Cardinality(open) - 1
  BY OpenMove DEF RoomForSignals
<1>5. /\ Cardinality(open) + Cardinality(Opening) + Cardinality(Late)
           <= count[g] + Cardinality(Sessions) + Cardinality(Threads)
      /\ Cardinality(Sessions) \in Nat /\ Cardinality(Threads) \in Nat
      /\ count[g] \in Int
  BY <1>1, FS_CardinalityType, ConstantsAssumption DEF CountBounded, RoomForSignals
<1>. SUFFICES Cardinality(open') + Cardinality(Opening') + Cardinality(Late')
                <= count'[g] + Cardinality(Sessions) + Cardinality(Threads)
  BY DEF CountBounded
<1>6. CASE ReserveSlot(t)
  <2>1. /\ t \notin Opening
        /\ t \in Late <=> state[t] # g
        /\ ~OpenNative(t)
    BY <1>6 DEF ReserveSlot, Opening, Late, OpenNative
  <2>2. CASE count[state[t]] = current[t]
    <3>1. /\ t \notin Late'
          /\ count'[g] = IF state[t] = g THEN count[g] + 1 ELSE count[g]
      BY <1>1, <1>6, <2>2 DEF ReserveSlot, Late, Goto
    <3>. QED  BY <1>2, <1>3, <1>4, <1>5, <2>1, <3>1 DEF One
  <2>3. CASE count[state[t]] # current[t]
    <3>1. /\ t \notin Opening'
          /\ t \in Late' <=> state[t] # g
          /\ count'[g] = count[g]
      BY <1>1, <1>6, <2>3 DEF ReserveSlot, Opening, Late, Goto
    <3>. QED  BY <1>2, <1>3, <1>4, <1>5, <2>1, <3>1 DEF One
  <2>. QED  BY <2>2, <2>3
<1>7. CASE DiscardDead(t)
  <2>1. /\ t \notin Opening /\ t \notin Opening' /\ t \notin Late
        /\ t \in Late' <=> state[t] # g
        /\ count'[g] = IF state[t] = g THEN count[g] - 1 ELSE count[g]
    BY <1>1, <1>7 DEF DiscardDead, Opening, Late, Goto
  <2>. QED  BY <1>2, <1>3, <1>4, <1>5, <1>7, <2>1 DEF One
<1>8. CASE OpenNative(t)
  <2>1. /\ t \in Opening /\ t \notin Opening' /\ t \notin Late'
        /\ count'[g] = count[g]
    BY <1>1, <1>8 DEF OpenNative, Opening, Late, Goto
  <2>. QED  BY <1>2, <1>3, <1>4, <1>5, <1>8, <2>1 DEF One
<1>9. CASE FreeSlot(t)
  <2>1. /\ t \in Opening /\ t \notin Opening' /\ t \notin Late'
        /\ count'[g] >= count[g] - 1 /\ count'[g] \in Int
        /\ ~OpenNative(t)
    BY <1>1, <1>9 DEF FreeSlot, OpenNative, Opening, Late, Goto
  <2>. QED  BY <1>2, <1>3, <1>4, <1>5, <2>1 DEF One
<1>10. CASE ~(ReserveSlot(t) \/ DiscardDead(t) \/ OpenNative(t) \/ FreeSlot(t))
  <2>1. /\ t \in Opening' => t \in Opening
        /\ t \in Late' => t \in Late
        /\ count'[g] = count[g]
    <3>. USE <1>1, <1>10 DEF Opening, Late, Goto, poolVars, localVars
    <3>1. CASE Rent(t)
      BY <3>1
      DEF Rent, CallRent, GetOrAdd, TryTake, LendPooled, ReadCount, Register,
          RecheckBeforeWait, TakePermit, Unregister, RecheckAfterWait, SignalFreeSlot
    <3>2. CASE CancelWait(t) \/ AbandonSession(t)
      BY <3>2 DEF CancelWait, AbandonSession
    <3>3. CASE Return(t)
      BY <3>3 DEF Return, CallReturn, AddToBag, SignalReturn
    <3>4. CASE Clear(t)
      BY <3>4 DEF Clear, CallClear, Drain, ReadWaiters, Broadcast
    <3>. QED  BY <3>1, <3>2, <3>3, <3>4 DEF ThreadStep
  <2>. QED  BY <1>2, <1>3, <1>4, <1>5, <1>10, <2>1 DEF One
<1>. QED  BY <1>6, <1>7, <1>8, <1>9, <1>10

Blocking == {"register", "recheck", "wait"}

\* A thread starts to block on the live PoolState when it reads a full Count.
LEMMA BlockingEntered ==
    ASSUME LocalsInv, NEW t \in Threads, ThreadStep(t),
           NEW g \in PoolIds, active = g,
           ThreadsAt(g, Blocking)' # {}
    PROVE  \/ ThreadsAt(g, Blocking) # {}
           \/ ReadCount(t) /\ state[t] = g /\ count[g] >= MaxPoolSize
<1>1. /\ pc \in [Threads -> PCs]
      /\ state \in [Threads -> {NoPool} \cup PoolIds]
      /\ g # NoPool
  BY ConstantsAssumption DEF LocalsInv, TypeOK, PoolIds, NoPool
<1>2. PICK u \in Threads : state'[u] = g /\ pc'[u] \in Blocking
  BY DEF ThreadsAt
<1>3. CASE u # t
  BY <1>1, <1>2, <1>3, OthersUntouched DEF ThreadsAt, LocalsInv
<1>4. CASE u = t /\ ReadCount(t)
  BY <1>1, <1>2, <1>4 DEF ReadCount, ThreadsAt, Goto, Blocking
<1>5. CASE u = t /\ ~ReadCount(t)
  <2>1. state[t] = g /\ pc[t] \in Blocking
    <3>. USE <1>1, <1>2, <1>5 DEF Blocking, Goto, localVars, NoPool
    <3>1. CASE Rent(t)
      BY <3>1
      DEF Rent, CallRent, GetOrAdd, TryTake, LendPooled, DiscardDead, Register,
          RecheckBeforeWait, TakePermit, Unregister, RecheckAfterWait, ReserveSlot,
          OpenNative, FreeSlot, SignalFreeSlot
    <3>2. CASE CancelWait(t) \/ Return(t) \/ AbandonSession(t)
      BY <3>2
      DEF CancelWait, Return, CallReturn, AddToBag, SignalReturn, AbandonSession
    <3>3. CASE Clear(t)
      BY <3>3 DEF Clear, CallClear, Drain, ReadWaiters, Broadcast
    <3>. QED  BY <3>1, <3>2, <3>3 DEF ThreadStep
  <2>. QED  BY <2>1 DEF ThreadsAt
<1>. QED  BY <1>3, <1>4, <1>5

\* A full semaphore has more permits than there can be sessions and slots.
LEMMA FullIsEnough ==
    ASSUME RoomForSignals, SessionInv, CountBounded, NEW g \in PoolIds, active = g
    PROVE  Cardinality(bag[g]) + (MaxPoolSize - count[g]) <= SemaphoreMax
<1>1. /\ g # NoPool
      /\ bag[g] \subseteq open /\ open \subseteq Sessions
      /\ count[g] \in Int
  <2>1. g # NoPool
    BY ConstantsAssumption DEF PoolIds, NoPool
  <2>. QED  BY <2>1 DEF SessionInv, HeldSessionsAreOpen, LocalsInv, TypeOK
<1>2. /\ IsFiniteSet(open)
      /\ Cardinality(open) \in Nat /\ Cardinality(bag[g]) \in Nat
      /\ Cardinality(bag[g]) <= Cardinality(open)
  BY <1>1, FS_Subset, FS_CardinalityType DEF RoomForSignals
<1>3. Cardinality(Opening) \in Nat /\ Cardinality(Late) \in Nat
  BY FS_Subset, FS_CardinalityType, ConstantsAssumption DEF Opening, Late
<1>4. /\ Cardinality(open) + Cardinality(Opening) + Cardinality(Late)
           <= count[g] + Cardinality(Sessions) + Cardinality(Threads)
      /\ MaxPoolSize + Cardinality(Sessions) + Cardinality(Threads) <= SemaphoreMax
      /\ Cardinality(Sessions) \in Nat /\ Cardinality(Threads) \in Nat
      /\ MaxPoolSize \in Nat /\ SemaphoreMax \in Nat
  BY <1>1, FS_CardinalityType, ConstantsAssumption DEF CountBounded, RoomForSignals
<1>. QED  BY <1>1, <1>2, <1>3, <1>4

\* What a thread does to the sum of idle sessions and free slots, it does to
\* the sum of permits and of threads that look; except that a thread about to
\* block stops looking, which IdleMatched allows.
LEMMA LostWakeupStep ==
    ASSUME RoomForSignals, SessionInv, IdleMatched, CountBounded, NoLostWakeup,
           NEW t \in Threads, ThreadStep(t),
           NEW g \in PoolIds, active = g, active' = g,
           ThreadsAt(g, Blocking)' # {}
    PROVE  Cardinality(bag'[g]) + (MaxPoolSize - count'[g])
             <= permits'[g] + Cardinality(ThreadsAt(g, LooksAtPool)')
<1>. DEFINE L == ThreadsAt(g, LooksAtPool)
<1>1. /\ LocalsInv /\ TypeOK /\ TypeOK'
      /\ permits \in [PoolIds -> 0 .. SemaphoreMax]
      /\ permits' \in [PoolIds -> 0 .. SemaphoreMax]
      /\ count \in [PoolIds -> Int] /\ count' \in [PoolIds -> Int]
      /\ pc \in [Threads -> PCs]
      /\ state \in [Threads -> {NoPool} \cup PoolIds]
      /\ pc[t] \notin DetachedPCs => state[t] \in PoolIds
      /\ g # NoPool
      /\ SemaphoreMax \in Nat /\ MaxPoolSize \in Nat
  <2>1. LocalsInv /\ TypeOK /\ TypeOK'
    BY TypeStep DEF SessionInv, LocalsInv
  <2>2. g # NoPool /\ SemaphoreMax \in Nat /\ MaxPoolSize \in Nat
    BY ConstantsAssumption DEF PoolIds, NoPool
  <2>. QED  BY <2>1, <2>2 DEF LocalsInv, LocalsOK, TypeOK
<1>2. /\ permits[g] \in Nat /\ permits'[g] \in Nat
      /\ count[g] \in Int /\ count'[g] \in Int
  BY <1>1
<1>3. /\ Cardinality(L) \in Nat /\ Cardinality(L') \in Nat
      /\ Cardinality(L') = Cardinality(L) - One(t, L) + One(t, L')
  BY <1>1, ThreadsAtFinite, ThreadsAtMove
<1>4. /\ Cardinality(bag[g]) \in Nat /\ Cardinality(bag'[g]) \in Nat
      /\ \/ Cardinality(bag'[g]) <= Cardinality(bag[g])
         \/ /\ AddToBag(t) /\ state[t] = g
            /\ Cardinality(bag'[g]) <= Cardinality(bag[g]) + 1
      /\ TryTake(t) /\ state[t] = g /\ bag[g] # {} =>
           Cardinality(bag'[g]) = Cardinality(bag[g]) - 1
  BY BagMove DEF RoomForSignals
<1>5. ~(TakePermit(t) /\ state[t] = g) => permits[g] <= permits'[g]
  BY <1>1, PermitsGrow
<1>6. CASE ReadCount(t) /\ state[t] = g /\ count[g] >= MaxPoolSize
  <2>1. Cardinality(bag'[g])
          <= permits'[g] + Cardinality(ThreadsAt(g, LooksAtBag)')
    BY IdleMatchedStep
  <2>2. count'[g] = count[g]
    BY <1>6 DEF ReadCount, poolVars
  <2>3. /\ ThreadsAt(g, LooksAtBag)' \subseteq L'
        /\ IsFiniteSet(L')
    BY FS_Subset, ConstantsAssumption DEF ThreadsAt, LooksAtPool
  <2>4. /\ Cardinality(ThreadsAt(g, LooksAtBag)') \in Nat
        /\ Cardinality(ThreadsAt(g, LooksAtBag)') <= Cardinality(L')
    BY <2>3, FS_Subset, FS_CardinalityType
  <2>. QED  BY <1>1, <1>2, <1>3, <1>4, <1>6, <2>1, <2>2, <2>4
<1>7. CASE ~(ReadCount(t) /\ state[t] = g /\ count[g] >= MaxPoolSize)
  <2>0. Cardinality(bag[g]) + (MaxPoolSize - count[g])
          <= permits[g] + Cardinality(L)
    BY <1>1, <1>7, BlockingEntered DEF NoLostWakeup, Blocking
  <2>1. CASE AddToBag(t) /\ state[t] = g
    <3>1. t \notin L /\ t \in L' /\ ~TakePermit(t) /\ count' = count
      BY <1>1, <2>1 DEF AddToBag, TakePermit, ThreadsAt, LooksAtPool, LooksAtBag, Goto
    <3>. QED  BY <1>1, <1>2, <1>3, <1>4, <1>5, <2>0, <3>1 DEF One
  <2>2. CASE TakePermit(t) /\ state[t] = g
    <3>1. /\ t \notin L /\ t \in L' /\ permits'[g] = permits[g] - 1 /\ ~AddToBag(t)
          /\ count' = count
      BY <1>1, <2>2
      DEF AddToBag, TakePermit, ThreadsAt, LooksAtPool, LooksAtBag, Goto, localVars
    <3>. QED  BY <1>1, <1>2, <1>3, <1>4, <2>0, <3>1 DEF One
  <2>3. CASE TryTake(t) /\ state[t] = g
    <3>1. /\ ~TakePermit(t) /\ ~AddToBag(t) /\ permits' = permits /\ count' = count
          /\ t \in L
      BY <2>3 DEF AddToBag, TakePermit, TryTake, ThreadsAt, LooksAtPool, LooksAtBag
    <3>2. CASE bag[g] # {}
      BY <1>1, <1>2, <1>3, <1>4, <2>0, <2>3, <3>1, <3>2 DEF One
    <3>3. CASE bag[g] = {}
      <4>1. t \in L'
        BY <1>1, <2>3, <3>3 DEF TryTake, ThreadsAt, LooksAtPool, Goto
      <4>. QED  BY <1>1, <1>2, <1>3, <1>4, <2>0, <3>1, <4>1 DEF One
    <3>. QED  BY <3>2, <3>3
  <2>4. CASE (SignalReturn(t) \/ SignalFreeSlot(t)) /\ state[t] = g
    <3>1. /\ ~AddToBag(t) /\ ~TakePermit(t) /\ count' = count
          /\ permits'[g] = permits[g] + 1 \/ permits'[g] = SemaphoreMax
          /\ bag'[g] = bag[g]
      BY <1>1, <2>4, ReleaseOne DEF SignalReturn, SignalFreeSlot, AddToBag, TakePermit
    <3>2. Cardinality(bag[g]) + (MaxPoolSize - count[g]) <= SemaphoreMax
      BY FullIsEnough
    <3>. QED  BY <1>1, <1>2, <1>3, <1>4, <2>0, <3>1, <3>2 DEF One
  <2>5. CASE ReserveSlot(t) /\ state[t] = g
    <3>1. /\ ~AddToBag(t) /\ ~TakePermit(t)
          /\ t \in L
          /\ count'[g] = count[g] + 1 \/ (count'[g] = count[g] /\ t \in L')
      BY <1>1, <2>5
      DEF ReserveSlot, AddToBag, TakePermit, ThreadsAt, LooksAtPool, Goto
    <3>. QED  BY <1>1, <1>2, <1>3, <1>4, <1>5, <2>0, <3>1 DEF One
  <2>6. CASE (DiscardDead(t) \/ FreeSlot(t)) /\ state[t] = g
    <3>1. /\ ~AddToBag(t) /\ ~TakePermit(t)
          /\ t \notin L /\ t \in L'
          /\ count'[g] = count[g] - 1
      BY <1>1, <2>6
      DEF DiscardDead, FreeSlot, AddToBag, TakePermit, ThreadsAt, LooksAtPool,
          LooksAtBag, Goto, localVars
    <3>. QED  BY <1>1, <1>2, <1>3, <1>4, <1>5, <2>0, <3>1 DEF One
  <2>7. CASE ~(/\ \/ AddToBag(t) \/ TakePermit(t) \/ TryTake(t) \/ SignalReturn(t)
                  \/ SignalFreeSlot(t) \/ ReserveSlot(t) \/ DiscardDead(t) \/ FreeSlot(t)
               /\ state[t] = g)
    <3>1. /\ t \in L => t \in L'
          /\ count'[g] = count[g]
      <4>. USE <1>1, <1>7, <2>7
           DEF ThreadsAt, LooksAtPool, LooksAtBag, Goto, NoPool, poolVars, localVars
      <4>1. CASE Rent(t)
        BY <4>1
        DEF Rent, CallRent, GetOrAdd, TryTake, LendPooled, DiscardDead, ReadCount,
            Register, RecheckBeforeWait, TakePermit, Unregister, RecheckAfterWait,
            ReserveSlot, OpenNative, FreeSlot, SignalFreeSlot
      <4>2. CASE CancelWait(t) \/ AbandonSession(t)
        BY <4>2 DEF CancelWait, AbandonSession
      <4>3. CASE Return(t)
        BY <4>3 DEF Return, CallReturn, AddToBag, SignalReturn
      <4>4. CASE Clear(t)
        BY <4>4 DEF Clear, CallClear, Drain, ReadWaiters, Broadcast
      <4>. QED  BY <4>1, <4>2, <4>3, <4>4 DEF ThreadStep
    <3>. QED  BY <1>1, <1>2, <1>3, <1>4, <1>5, <2>0, <2>7, <3>1 DEF One
  <2>. QED  BY <2>1, <2>2, <2>3, <2>4, <2>5, <2>6, <2>7
<1>. QED  BY <1>6, <1>7

\* A new PoolState has nothing to signal and nobody who waits.
LEMMA NewPoolStep ==
    ASSUME RoomForSignals, SessionInv, PendingRetired, FreshUntouched,
           NEW t \in Threads, ThreadStep(t), active' # active, active' # NoPool
    PROVE  IdleMatched' /\ CountBounded' /\ NoLostWakeup'
<1>1. /\ LocalsInv /\ LocalsInv' /\ TypeOK /\ TypeOK'
      /\ pc \in [Threads -> PCs]
      /\ state \in [Threads -> {NoPool} \cup PoolIds]
      /\ active' \in PoolIds
      /\ \A g \in {NoPool} \cup PoolIds : g \in Int
  <2>1. LocalsInv /\ LocalsInv' /\ TypeOK /\ TypeOK'
    BY TypeStep, LocalsStep DEF SessionInv, LocalsInv
  <2>2. \A g \in {NoPool} \cup PoolIds : g \in Int
    BY ConstantsAssumption DEF PoolIds, NoPool
  <2>. QED  BY <2>1, <2>2 DEF TypeOK
<1>2. active' = created + 1 /\ active' = created' /\ GetOrAdd(t)
  <2>1. ~CallClear(t)
    BY DEF CallClear
  <2>2. active' = created + 1 /\ active' = created'
    BY <1>1, <2>1, ClearEnds
  <2>3. CASE Rent(t)
    BY <2>2, <2>3
    DEF Rent, CallRent, TryTake, LendPooled, DiscardDead, ReadCount, Register,
        RecheckBeforeWait, TakePermit, Unregister, RecheckAfterWait, ReserveSlot,
        OpenNative, FreeSlot, SignalFreeSlot
  <2>4. CASE CancelWait(t) \/ Return(t) \/ AbandonSession(t)
    BY <2>4
    DEF CancelWait, Return, CallReturn, AddToBag, SignalReturn, AbandonSession
  <2>5. CASE Clear(t)
    BY <2>1, <2>5 DEF Clear, Drain, ReadWaiters, Broadcast
  <2>. QED  BY <2>2, <2>3, <2>4, <2>5 DEF ThreadStep
<1>3. PICK g \in PoolIds : g = active'
  BY <1>1
<1>4. /\ g > created /\ bag' = bag /\ permits' = permits /\ count' = count
      /\ pc'[t] = "take" /\ state'[t] = g
  <2>1. created \in Int
    BY <1>1 DEF TypeOK
  <2>. QED  BY <1>1, <1>2, <1>3, <2>1 DEF GetOrAdd, Goto, poolVars
<1>5. bag'[g] = {} /\ permits'[g] = 0 /\ count'[g] = 0
  BY <1>4 DEF FreshUntouched
<1>6. \A u \in Threads : state'[u] = g => pc'[u] = "take"
  <2>1. \A u \in Threads \ {t} : state'[u] = state[u] /\ state[u] # g
    <3>1. \A u \in Threads : state[u] <= created /\ state[u] \in Int /\ created \in Int /\ g \in Int
      BY <1>1 DEF PendingRetired, TypeOK
    <3>. QED  BY <1>1, <1>4, <3>1, OthersUntouched
  <2>. QED  BY <1>4, <2>1
<1>7. IdleMatched'
  <2>1. Cardinality(bag'[g]) = 0
    BY <1>5, FS_EmptySet
  <2>2. Cardinality(ThreadsAt(g, LooksAtBag)') \in Nat
    BY <1>1, ThreadsAtMove
  <2>3. ThreadsAt(g, LooksAtBag)' = {u \in Threads : state'[u] = active' /\ pc'[u] \in LooksAtBag}
    BY <1>3 DEF ThreadsAt
  <2>. QED  BY <1>3, <1>5, <2>1, <2>2, <2>3 DEF IdleMatched, ThreadsAt
<1>8. CountBounded'
  <2>1. /\ IsFiniteSet(Opening') /\ IsFiniteSet(Late') /\ IsFiniteSet(open')
        /\ Cardinality(open') <= Cardinality(Sessions)
        /\ Cardinality(open') \in Nat /\ Cardinality(Sessions) \in Nat
    <3>1. open' \subseteq Sessions /\ Opening' \subseteq Threads /\ Late' \subseteq Threads
      BY <1>1 DEF TypeOK, Opening, Late
    <3>. QED
      BY <3>1, FS_Subset, FS_CardinalityType, ConstantsAssumption DEF RoomForSignals
  <2>2. Opening' \cap Late' = {} /\ Opening' \cup Late' \subseteq Threads
    BY DEF Opening, Late
  <2>3. /\ Cardinality(Opening' \cup Late')
             = Cardinality(Opening') + Cardinality(Late') - Cardinality(Opening' \cap Late')
        /\ Cardinality(Opening' \cap Late') = 0
        /\ Cardinality(Opening') \in Nat /\ Cardinality(Late') \in Nat
    BY <2>1, <2>2, FS_Union, FS_EmptySet, FS_CardinalityType
  <2>4. /\ Cardinality(Opening' \cup Late') <= Cardinality(Threads)
        /\ Cardinality(Threads) \in Nat
    BY <2>2, FS_Subset, FS_CardinalityType, ConstantsAssumption
  <2>5. Cardinality(Opening') + Cardinality(Late') <= Cardinality(Threads)
    BY <2>3, <2>4
  <2>. QED  BY <1>3, <1>5, <2>1, <2>3, <2>4, <2>5 DEF CountBounded
<1>9. NoLostWakeup'
  BY <1>3, <1>6 DEF NoLostWakeup, ThreadsAt
<1>. QED  BY <1>7, <1>8, <1>9

LEMMA WakeupStep ==
    ASSUME RoomForSignals, WakeupInv, SessionInv', WaitersInv',
           NEW t \in Threads, ThreadStep(t)
    PROVE  WakeupInv'
<1>1. /\ SessionInv /\ FreshUntouched /\ IdleMatched /\ CountBounded /\ NoLostWakeup
      /\ LocalsInv /\ PendingRetired
      /\ active \in {NoPool} \cup PoolIds
  BY DEF WakeupInv, SessionInv, WaitersInv, LocalsInv, TypeOK
<1>2. FreshUntouched'
  BY <1>1, FreshStep
<1>3. CASE active' = NoPool
  BY <1>2, <1>3 DEF WakeupInv, IdleMatched, CountBounded, NoLostWakeup
<1>4. CASE active' # NoPool /\ active' # active
  BY <1>1, <1>2, <1>4, NewPoolStep DEF WakeupInv
<1>5. CASE active' # NoPool /\ active' = active
  <2>1. PICK g \in PoolIds : active = g /\ active' = g
    BY <1>1, <1>5
  <2>2. CountBounded'
    BY <1>1, <2>1, CountBoundedStep
  <2>3. Cardinality(bag'[g])
          <= permits'[g] + Cardinality(ThreadsAt(g, LooksAtBag)')
    BY <1>1, <2>1, IdleMatchedStep
  <2>4. IdleMatched'
    BY <2>1, <2>3 DEF IdleMatched, ThreadsAt
  <2>5. ThreadsAt(g, Blocking)' # {} =>
          Cardinality(bag'[g]) + (MaxPoolSize - count'[g])
            <= permits'[g] + Cardinality(ThreadsAt(g, LooksAtPool)')
    BY <1>1, <2>1, LostWakeupStep
  <2>6. NoLostWakeup'
    BY <2>1, <2>5 DEF NoLostWakeup, ThreadsAt, Blocking
  <2>. QED  BY <1>2, <2>2, <2>4, <2>6 DEF WakeupInv
<1>. QED  BY <1>3, <1>4, <1>5

LEMMA WakeupInit == Init => WakeupInv
<1>. SUFFICES ASSUME Init
              PROVE  WakeupInv
  OBVIOUS
<1>1. FreshUntouched /\ IdleMatched /\ CountBounded /\ NoLostWakeup
  BY DEF Init, FreshUntouched, IdleMatched, CountBounded, NoLostWakeup
<1>. QED  BY <1>1, SessionInit, WaitersInit DEF WakeupInv

LEMMA WakeupInvariance ==
    RoomForSignals /\ WakeupInv /\ [Next]_vars => WakeupInv'
<1>1. WakeupInv /\ [Next]_vars => SessionInv' /\ WaitersInv'
  BY SessionInvariance, WaitersInvariance DEF WakeupInv
<1>2. ASSUME WakeupInv, SessionInv', WaitersInv', UNCHANGED vars
      PROVE  WakeupInv'
  BY <1>2
  DEF WakeupInv, FreshUntouched, IdleMatched, CountBounded, NoLostWakeup, Opening,
      Late, ThreadsAt, vars
<1>. QED  BY <1>1, <1>2, WakeupStep DEF Next, ThreadStep

\* No lost wakeup.  While a thread blocks on the live PoolState, or is about
\* to, every idle session and every free slot has a permit, or a thread that
\* is about to use it or to signal it: no order of Return, failed open, dead
\* session, cancelled wait and Clear leaves capacity that nobody is told of.
THEOREM WakeupsKept == RoomForSignals /\ Spec => []NoLostWakeup
<1>1. WakeupInv => NoLostWakeup
  BY DEF WakeupInv
<1>2. ASSUME RoomForSignals
      PROVE  WakeupInv /\ [Next]_vars => WakeupInv'
  BY <1>2, WakeupInvariance
<1>3. ASSUME RoomForSignals
      PROVE  Spec => []NoLostWakeup
  BY <1>1, <1>2, <1>3, WakeupInit, PTL DEF Spec
<1>. QED  BY <1>3

===============================================================================
