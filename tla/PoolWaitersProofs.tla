--------------------------- MODULE PoolWaitersProofs ---------------------------
(***************************************************************************)
(* PoolState.Waiters counts exactly the threads between its increment and  *)
(* its decrement, for every number of threads and PoolStates: what Clear   *)
(* reads before it broadcasts is right.                                    *)
(*                                                                         *)
(* A step changes what one thread contributes to each counter, by as much  *)
(* as it changes the counter.  A thread contributes at most one to each    *)
(* PoolState because it never returns to a PoolState it left retired:      *)
(* PendingRetired.                                                         *)
(***************************************************************************)
EXTENDS ConnectionPoolProofs, FiniteSetTheorems

Registered(g) == ThreadsAt(g, {"recheck", "wait", "woken"})
Nested(g) == {t \in Threads : g \in pending[t]}

\* A PoolState whose `finally` awaits a nested Rent is out of the dictionary
\* for good, and the thread works on another by now.
PendingRetired ==
    /\ active <= created
    /\ \A t \in Threads :
         /\ state[t] <= created
         /\ state[t] \notin pending[t]
         /\ pc[t] \notin RentPCs => pending[t] = {}
         /\ \A g \in pending[t] : g # active /\ g <= created

WaitersInv == LocalsInv /\ PendingRetired /\ WaitersIsExact

\* What thread t contributes to Waiters of g.
Own(t, g) ==
    (IF state[t] = g /\ pc[t] \in {"recheck", "wait", "woken"} THEN 1 ELSE 0)
      + (IF g \in pending[t] THEN 1 ELSE 0)

-----------------------------------------------------------------------------

\* Two sets that differ in t only.
LEMMA CardinalityMoves ==
    ASSUME NEW A, NEW B, IsFiniteSet(A), IsFiniteSet(B), NEW t, A \ {t} = B \ {t}
    PROVE  /\ Cardinality(A) \in Nat /\ Cardinality(B) \in Nat
           /\ Cardinality(B) - (IF t \in B THEN 1 ELSE 0)
                = Cardinality(A) - (IF t \in A THEN 1 ELSE 0)
<1>1. Cardinality(A) \in Nat /\ Cardinality(B) \in Nat
  BY FS_CardinalityType
<1>2. Cardinality(A \ {t}) = Cardinality(A) - (IF t \in A THEN 1 ELSE 0)
  BY FS_RemoveElement, <1>1
<1>3. Cardinality(B \ {t}) = Cardinality(B) - (IF t \in B THEN 1 ELSE 0)
  BY FS_RemoveElement, <1>1
<1>. QED  BY <1>1, <1>2, <1>3

\* A step of t that changes Waiters by as much as its own contribution.
LEMMA WaitersMove ==
    ASSUME WaitersIsExact, TypeOK, TypeOK', NEW t \in Threads,
           \A u \in Threads \ {t} :
             /\ pc'[u] = pc[u] /\ state'[u] = state[u] /\ pending'[u] = pending[u],
           \A g \in PoolIds : waiters'[g] - Own(t, g)' = waiters[g] - Own(t, g)
    PROVE  WaitersIsExact'
<1>. SUFFICES ASSUME NEW g \in PoolIds
              PROVE  waiters'[g] = Cardinality(Registered(g)') + Cardinality(Nested(g)')
  BY DEF WaitersIsExact, Registered, Nested
<1>1. /\ IsFiniteSet(Registered(g)) /\ IsFiniteSet(Registered(g)')
      /\ IsFiniteSet(Nested(g)) /\ IsFiniteSet(Nested(g)')
  BY FS_Subset, ConstantsAssumption DEF Registered, Nested, ThreadsAt
<1>2. /\ Registered(g) \ {t} = Registered(g)' \ {t}
      /\ Nested(g) \ {t} = Nested(g)' \ {t}
  BY DEF Registered, Nested, ThreadsAt
<1>3. /\ Cardinality(Registered(g)') - (IF t \in Registered(g)' THEN 1 ELSE 0)
           = Cardinality(Registered(g)) - (IF t \in Registered(g) THEN 1 ELSE 0)
      /\ Cardinality(Registered(g)) \in Nat /\ Cardinality(Registered(g)') \in Nat
  BY <1>1, <1>2, CardinalityMoves
<1>4. /\ Cardinality(Nested(g)') - (IF t \in Nested(g)' THEN 1 ELSE 0)
           = Cardinality(Nested(g)) - (IF t \in Nested(g) THEN 1 ELSE 0)
      /\ Cardinality(Nested(g)) \in Nat /\ Cardinality(Nested(g)') \in Nat
  BY <1>1, <1>2, CardinalityMoves
<1>5. /\ Own(t, g) = (IF t \in Registered(g) THEN 1 ELSE 0)
                       + (IF t \in Nested(g) THEN 1 ELSE 0)
      /\ Own(t, g)' = (IF t \in Registered(g)' THEN 1 ELSE 0)
                       + (IF t \in Nested(g)' THEN 1 ELSE 0)
  BY DEF Own, Registered, Nested, ThreadsAt
<1>6. waiters[g] = Cardinality(Registered(g)) + Cardinality(Nested(g))
  BY DEF WaitersIsExact, Registered, Nested
<1>7. waiters[g] \in Int /\ waiters'[g] \in Int
  BY DEF TypeOK
<1>8. waiters'[g] - Own(t, g)' = waiters[g] - Own(t, g)
  OBVIOUS
<1>9. Cardinality(Registered(g)') + Cardinality(Nested(g)') - Own(t, g)'
        = Cardinality(Registered(g)) + Cardinality(Nested(g)) - Own(t, g)
  BY <1>3, <1>4, <1>5
<1>10. Own(t, g) \in Int /\ Own(t, g)' \in Int
  BY <1>5
<1>. QED  BY <1>3, <1>4, <1>6, <1>7, <1>8, <1>9, <1>10

\* Each action disturbs the locals of its own thread only.
LEMMA OthersUntouched ==
    ASSUME TypeOK, NEW t \in Threads, ThreadStep(t), NEW u \in Threads \ {t}
    PROVE  /\ pc'[u] = pc[u]
           /\ state'[u] = state[u]
           /\ pending'[u] = pending[u]
<1>1. /\ pc \in [Threads -> PCs]
      /\ state \in [Threads -> {NoPool} \cup PoolIds]
      /\ pending \in [Threads -> SUBSET PoolIds]
  BY DEF TypeOK
<1>. USE <1>1 DEF Goto, localVars
<1>2. CASE Rent(t)
  BY <1>2
  DEF Rent, LeaveRent, CallRent, GetOrAdd, TryTake, LendPooled, DiscardDead,
      ReadCount, Register, RecheckBeforeWait, TakePermit, Unregister,
      RecheckAfterWait, ReserveSlot, OpenNative, FreeSlot, SignalFreeSlot
<1>3. CASE CancelWait(t) \/ AbandonSession(t)
  BY <1>3 DEF CancelWait, AbandonSession
<1>4. CASE Return(t)
  BY <1>4 DEF Return, CallReturn, AddToBag, SignalReturn
<1>5. CASE Clear(t)
  BY <1>5 DEF Clear, CallClear, Drain, ReadWaiters, Broadcast
<1>. QED  BY <1>2, <1>3, <1>4, <1>5 DEF ThreadStep

LEMMA PendingStep ==
    ASSUME LocalsInv, LocalsInv', PendingRetired, NEW t \in Threads, ThreadStep(t)
    PROVE  PendingRetired'
<1>1. /\ pc \in [Threads -> PCs]
      /\ state \in [Threads -> {0} \cup PoolIds]
      /\ pending \in [Threads -> SUBSET PoolIds]
      /\ active \in Nat /\ created \in Nat
      /\ active # 0 => active \in PoolIds
      /\ pc[t] \notin DetachedPCs => state[t] \in PoolIds
      /\ \A g \in PoolIds : g \in Nat /\ g # 0
      /\ PendingRetired
  <2>1. \A g \in PoolIds : g \in Nat /\ g # 0
    BY ConstantsAssumption DEF PoolIds
  <2>2. /\ pc \in [Threads -> PCs]
        /\ state \in [Threads -> {0} \cup PoolIds]
        /\ pending \in [Threads -> SUBSET PoolIds]
        /\ active \in {0} \cup PoolIds /\ created \in {0} \cup PoolIds
    BY DEF LocalsInv, TypeOK, NoPool
  <2>3. pc[t] \notin DetachedPCs => state[t] \in PoolIds
    BY DEF LocalsInv, LocalsOK
  <2>. QED  BY <2>1, <2>2, <2>3
<1>. USE <1>1 DEF PendingRetired, NoPool, RentPCs, DetachedPCs, Goto
<1>2. CASE CallRent(t)
  BY <1>2 DEF CallRent, poolVars, localVars
<1>3. CASE GetOrAdd(t)
  BY <1>3 DEF GetOrAdd, poolVars, localVars
<1>4. CASE TryTake(t)
  BY <1>4 DEF TryTake, poolVars, localVars
<1>5. CASE LendPooled(t)
  BY <1>5 DEF LendPooled, LeaveRent, poolVars, localVars
<1>6. CASE DiscardDead(t)
  BY <1>6 DEF DiscardDead, poolVars, localVars
<1>7. CASE ReadCount(t)
  BY <1>7 DEF ReadCount, poolVars, localVars
<1>8. CASE Register(t)
  BY <1>8 DEF Register, poolVars, localVars
<1>9. CASE RecheckBeforeWait(t)
  BY <1>9 DEF RecheckBeforeWait, poolVars, localVars
<1>10. CASE TakePermit(t)
  BY <1>10 DEF TakePermit, poolVars, localVars
<1>11. CASE Unregister(t)
  BY <1>11 DEF Unregister, poolVars, localVars
<1>12. CASE RecheckAfterWait(t)
  BY <1>12 DEF RecheckAfterWait, poolVars, localVars
<1>13. CASE ReserveSlot(t)
  BY <1>13 DEF ReserveSlot, poolVars, localVars
<1>14. CASE OpenNative(t)
  BY <1>14 DEF OpenNative, LeaveRent, poolVars, localVars
<1>15. CASE FreeSlot(t)
  BY <1>15 DEF FreeSlot, poolVars, localVars
<1>16. CASE SignalFreeSlot(t)
  BY <1>16 DEF SignalFreeSlot, LeaveRent, poolVars, localVars
<1>17. CASE CancelWait(t)
  BY <1>17 DEF CancelWait, poolVars, localVars
<1>18. CASE CallReturn(t)
  BY <1>18 DEF CallReturn, poolVars, localVars
<1>19. CASE AddToBag(t)
  BY <1>19 DEF AddToBag, poolVars, localVars
<1>20. CASE SignalReturn(t)
  BY <1>20 DEF SignalReturn, poolVars, localVars
<1>21. CASE AbandonSession(t)
  BY <1>21 DEF AbandonSession, poolVars, localVars
<1>22. CASE CallClear(t)
  BY <1>22 DEF CallClear, poolVars, localVars
<1>23. CASE Drain(t)
  BY <1>23 DEF Drain, poolVars, localVars
<1>24. CASE ReadWaiters(t)
  BY <1>24 DEF ReadWaiters, poolVars, localVars
<1>25. CASE Broadcast(t)
  BY <1>25 DEF Broadcast, poolVars, localVars
<1>. HIDE <1>1 DEF PendingRetired, NoPool, RentPCs, DetachedPCs, Goto
<1>. QED
  BY <1>2, <1>3, <1>4, <1>5, <1>6, <1>7, <1>8, <1>9, <1>10, <1>11, <1>12, <1>13,
     <1>14, <1>15, <1>16, <1>17, <1>18, <1>19, <1>20, <1>21, <1>22, <1>23, <1>24, <1>25
  DEF ThreadStep, Rent, Return, Clear

LEMMA OwnStep ==
    ASSUME LocalsInv, PendingRetired, NEW t \in Threads, ThreadStep(t)
    PROVE  \A g \in PoolIds : waiters'[g] - Own(t, g)' = waiters[g] - Own(t, g)
<1>. SUFFICES ASSUME NEW g \in PoolIds
              PROVE  waiters'[g] - Own(t, g)' = waiters[g] - Own(t, g)
  OBVIOUS
<1>1. /\ pc \in [Threads -> PCs]
      /\ state \in [Threads -> {NoPool} \cup PoolIds]
      /\ pending \in [Threads -> SUBSET PoolIds]
      /\ waiters \in [PoolIds -> Int]
      /\ state[t] \notin pending[t]
      /\ pc[t] \notin RentPCs => pending[t] = {}
  BY DEF LocalsInv, TypeOK, PendingRetired
<1>. USE <1>1 DEF Own, Goto
<1>2. CASE CallRent(t)
  BY <1>2 DEF CallRent, poolVars, localVars
<1>3. CASE GetOrAdd(t)
  BY <1>3 DEF GetOrAdd, poolVars, localVars
<1>4. CASE TryTake(t)
  BY <1>4 DEF TryTake, poolVars, localVars
<1>5. CASE DiscardDead(t)
  BY <1>5 DEF DiscardDead, poolVars, localVars
<1>6. CASE ReadCount(t)
  BY <1>6 DEF ReadCount, poolVars, localVars
<1>7. CASE TakePermit(t)
  BY <1>7 DEF TakePermit, poolVars, localVars
<1>8. CASE RecheckAfterWait(t)
  BY <1>8 DEF RecheckAfterWait, poolVars, localVars
<1>9. CASE ReserveSlot(t)
  BY <1>9 DEF ReserveSlot, poolVars, localVars
<1>10. CASE FreeSlot(t)
  BY <1>10 DEF FreeSlot, poolVars, localVars
<1>11. CASE CallReturn(t)
  BY <1>11 DEF CallReturn, poolVars, localVars
<1>12. CASE AddToBag(t)
  BY <1>12 DEF AddToBag, poolVars, localVars
<1>13. CASE SignalReturn(t)
  BY <1>13 DEF SignalReturn, poolVars, localVars
<1>14. CASE AbandonSession(t)
  BY <1>14 DEF AbandonSession, poolVars, localVars
<1>15. CASE CallClear(t)
  BY <1>15 DEF CallClear, poolVars, localVars
<1>16. CASE Drain(t)
  BY <1>16 DEF Drain, poolVars, localVars
<1>17. CASE ReadWaiters(t)
  BY <1>17 DEF ReadWaiters, poolVars, localVars
<1>18. CASE Broadcast(t)
  BY <1>18 DEF Broadcast, poolVars, localVars
<1>19. CASE Register(t)
  BY <1>19 DEF Register, poolVars, localVars
<1>20. CASE Unregister(t)
  BY <1>20 DEF Unregister, poolVars, localVars
<1>21. CASE RecheckBeforeWait(t)
  BY <1>21 DEF RecheckBeforeWait, poolVars, localVars
<1>22. CASE LendPooled(t)
  BY <1>22 DEF LendPooled, LeaveRent, poolVars, localVars
<1>23. CASE OpenNative(t)
  BY <1>23 DEF OpenNative, LeaveRent, poolVars, localVars
<1>24. CASE SignalFreeSlot(t)
  BY <1>24 DEF SignalFreeSlot, LeaveRent, poolVars, localVars
<1>25. CASE CancelWait(t)
  BY <1>25 DEF CancelWait, poolVars, localVars
<1>. HIDE <1>1 DEF Own, Goto
<1>. QED
  BY <1>2, <1>3, <1>4, <1>5, <1>6, <1>7, <1>8, <1>9, <1>10, <1>11, <1>12, <1>13,
     <1>14, <1>15, <1>16, <1>17, <1>18, <1>19, <1>20, <1>21, <1>22, <1>23, <1>24, <1>25
  DEF ThreadStep, Rent, Return, Clear

-----------------------------------------------------------------------------

LEMMA WaitersInit == Init => WaitersInv
<1>. SUFFICES ASSUME Init
              PROVE  WaitersInv
  OBVIOUS
<1>1. PendingRetired
  BY DEF Init, PendingRetired, NoPool
<1>2. ASSUME NEW g \in PoolIds
      PROVE  waiters[g] = Cardinality(Registered(g)) + Cardinality(Nested(g))
  <2>1. waiters[g] = 0 /\ Registered(g) = {} /\ Nested(g) = {}
    BY DEF Init, Registered, Nested, ThreadsAt
  <2>. QED  BY <2>1, FS_EmptySet
<1>. QED
  BY <1>1, <1>2, LocalsInit DEF WaitersInv, WaitersIsExact, Registered, Nested

LEMMA WaitersInvariance == WaitersInv /\ [Next]_vars => WaitersInv'
<1>1. WaitersInv /\ [Next]_vars => LocalsInv'
  BY LocalsInvariance DEF WaitersInv
<1>2. ASSUME WaitersInv, LocalsInv', NEW t \in Threads, ThreadStep(t)
      PROVE  WaitersInv'
  <2>1. LocalsInv /\ PendingRetired /\ WaitersIsExact /\ TypeOK /\ TypeOK'
    BY <1>2 DEF WaitersInv, LocalsInv
  <2>2. PendingRetired'
    BY <1>2, <2>1, PendingStep
  <2>3. WaitersIsExact'
    BY <1>2, <2>1, OwnStep, OthersUntouched, WaitersMove
  <2>. QED  BY <1>2, <2>2, <2>3 DEF WaitersInv
<1>3. ASSUME WaitersInv, LocalsInv', UNCHANGED vars
      PROVE  WaitersInv'
  BY <1>3 DEF WaitersInv, PendingRetired, WaitersIsExact, ThreadsAt, vars
<1>. QED  BY <1>1, <1>2, <1>3 DEF Next, ThreadStep

\* PoolState.Waiters is the number of threads between its increment and the
\* `finally` that decrements it, nested calls of Rent included, however often
\* the pool is cleared and whichever waits are cancelled.
THEOREM WaitersCorrect == Spec => []WaitersIsExact
<1>1. WaitersInv => WaitersIsExact
  BY DEF WaitersInv
<1>. QED  BY <1>1, WaitersInit, WaitersInvariance, PTL DEF Spec

================================================================================
