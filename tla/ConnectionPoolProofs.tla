------------------------- MODULE ConnectionPoolProofs -------------------------
(***************************************************************************)
(* ConnectionPool for every number of threads, sessions, PoolStates and    *)
(* every MaxPoolSize: a session never has two holders and a session that   *)
(* can still be lent is never disposed.                                    *)
(*                                                                         *)
(* Neither is inductive: a step that stores a session somewhere keeps it   *)
(* exclusive only because the thread really holds one, and works on a      *)
(* PoolState that exists.  LocalsInv says so for each place in the code.   *)
(***************************************************************************)
EXTENDS ConnectionPool, TLAPS

\* Where the local variable `session` (later the field _session) is not null.
HolderPCs == {"validate", "lent", "add"}

\* Where the thread has no PoolState in hand.
DetachedPCs == {"idle", "rent", "lent"}

\* What a thread's local variables hold, at each place in the code.
LocalsOK ==
    \A t \in Threads :
        /\ pc[t] \in HolderPCs <=> session[t] # NoSession
        /\ pc[t] \notin DetachedPCs => state[t] \in PoolIds

ThreadStep(t) ==
    Rent(t) \/ CancelWait(t) \/ Return(t) \/ AbandonSession(t) \/ Clear(t)

LocalsInv == TypeOK /\ LocalsOK

\* An abandoned session stays open: its handle is not released.
AbandonedAreOpen == abandoned \subseteq open

SessionInv ==
    LocalsInv /\ SessionHasOneHolder /\ HeldSessionsAreOpen /\ AbandonedAreOpen

-----------------------------------------------------------------------------
(* The helpers shared by the actions. *)

\* Release keeps the semaphore between zero and its maximum.
LEMMA ReleaseType ==
    ASSUME permits \in [PoolIds -> 0 .. SemaphoreMax],
           NEW g \in PoolIds, NEW n \in Nat, Release(g, n)
    PROVE  permits' \in [PoolIds -> 0 .. SemaphoreMax]
BY ConstantsAssumption DEF Release, PoolIds

\* The `finally` blocks keep Waiters an integer, and forget the PoolState.
LEMMA LeaveRentType ==
    ASSUME TypeOK, NEW t \in Threads, LeaveRent(t)
    PROVE  /\ waiters' \in [PoolIds -> Int]
           /\ pending' \in [Threads -> SUBSET PoolIds]
           /\ state' \in [Threads -> {NoPool} \cup PoolIds]
           /\ \A u \in Threads : u # t => state'[u] = state[u]
<1>1. waiters' \in [PoolIds -> Int]
  <2>1. \A g \in PoolIds : waiters[g] \in Int  BY DEF TypeOK
  <2>. QED  BY <2>1 DEF LeaveRent
<1>2. pending' \in [Threads -> SUBSET PoolIds]
  BY DEF TypeOK, LeaveRent
<1>3. /\ state' \in [Threads -> {NoPool} \cup PoolIds]
      /\ \A u \in Threads : u # t => state'[u] = state[u]
  BY DEF TypeOK, LeaveRent
<1>. QED  BY <1>1, <1>2, <1>3

\* A bag loses a session to TryTake.
LEMMA BagType ==
    ASSUME TypeOK, NEW g \in PoolIds, NEW s, bag' = [bag EXCEPT ![g] = @ \ {s}]
    PROVE  bag' \in [PoolIds -> SUBSET Sessions]
<1>1. bag \in [PoolIds -> SUBSET Sessions]
  BY DEF TypeOK
<1>2. bag[g] \ {s} \in SUBSET Sessions
  BY <1>1
<1>. QED  BY <1>1, <1>2

\* A nested Rent leaves one more `finally` to run.
LEMMA PendingType ==
    ASSUME TypeOK, NEW t \in Threads, NEW g \in PoolIds,
           pending' = [pending EXCEPT ![t] = @ \cup {g}]
    PROVE  pending' \in [Threads -> SUBSET PoolIds]
<1>1. pending \in [Threads -> SUBSET PoolIds]
  BY DEF TypeOK
<1>2. pending[t] \cup {g} \in SUBSET PoolIds
  BY <1>1
<1>. QED  BY <1>1, <1>2

-----------------------------------------------------------------------------
(* What the threads' local variables hold. *)

LEMMA LocalsInit == Init => LocalsInv
BY ConstantsAssumption
   DEF Init, LocalsInv, TypeOK, LocalsOK, PCs, HolderPCs, DetachedPCs, PoolIds, NoPool

LEMMA TypeStep ==
    ASSUME LocalsInv, NEW t \in Threads, ThreadStep(t)
    PROVE  TypeOK'
<1>. USE ConstantsAssumption
     DEF LocalsInv, TypeOK, LocalsOK, PCs, RentPCs, ReturnPCs, ClearPCs,
         HolderPCs, DetachedPCs, PoolIds, NoPool, Goto, poolVars, localVars
<1>1. CASE CallRent(t)
  BY <1>1 DEF CallRent
<1>2. CASE GetOrAdd(t)
  <2>1. CASE active = NoPool
    <3>1. created + 1 \in PoolIds /\ created' = created + 1 /\ active' = created + 1
      BY <1>2, <2>1 DEF GetOrAdd
    <3>. QED  BY <1>2, <3>1 DEF GetOrAdd
  <2>2. CASE active # NoPool
    BY <1>2, <2>2 DEF GetOrAdd
  <2>. QED  BY <2>1, <2>2
<1>3. CASE TryTake(t)
  <2>0. state[t] \in PoolIds
    BY <1>3 DEF TryTake
  <2>1. bag' \in [PoolIds -> SUBSET Sessions]
    BY <1>3, <2>0, BagType DEF TryTake
  <2>2. session' \in [Threads -> Sessions \cup {NoSession}]
    <3>1. \A s \in bag[state[t]] : s \in Sessions
      BY <2>0
    <3>. QED  BY <1>3, <3>1 DEF TryTake
  <2>3. pc' \in [Threads -> PCs]
    BY <1>3 DEF TryTake
  <2>. QED
    BY <1>3, <2>1, <2>2, <2>3 DEF TryTake
<1>4. CASE LendPooled(t)
  BY <1>4, LeaveRentType DEF LendPooled
<1>5. CASE DiscardDead(t)
  <2>0. state[t] \in PoolIds
    BY <1>5 DEF DiscardDead
  <2>1. count' \in [PoolIds -> Int]
    BY <1>5, <2>0 DEF DiscardDead
  <2>2. open' \subseteq Sessions
    BY <1>5, <2>0 DEF DiscardDead
  <2>3. session' \in [Threads -> Sessions \cup {NoSession}]
    BY <1>5, <2>0 DEF DiscardDead
  <2>4. pc' \in [Threads -> PCs]
    BY <1>5 DEF DiscardDead
  <2>. QED
    BY <1>5, <2>1, <2>2, <2>3, <2>4 DEF DiscardDead
<1>6. CASE ReadCount(t)
  BY <1>6 DEF ReadCount
<1>7. CASE Register(t)
  <2>0. state[t] \in PoolIds
    BY <1>7 DEF Register
  <2>1. waiters' \in [PoolIds -> Int]
    BY <1>7, <2>0 DEF Register
  <2>2. current' \in [Threads -> Int]
    BY <1>7, <2>0 DEF Register
  <2>3. pc' \in [Threads -> PCs]
    BY <1>7 DEF Register
  <2>. QED
    BY <1>7, <2>1, <2>2, <2>3 DEF Register
<1>8. CASE RecheckBeforeWait(t)
  <2>0. state[t] \in PoolIds
    BY <1>8 DEF RecheckBeforeWait
  <2>1. state' \in [Threads -> {NoPool} \cup PoolIds]
    BY <1>8, <2>0 DEF RecheckBeforeWait
  <2>2. pending' \in [Threads -> SUBSET PoolIds]
    BY <1>8, <2>0, PendingType DEF RecheckBeforeWait
  <2>3. pc' \in [Threads -> PCs]
    BY <1>8 DEF RecheckBeforeWait
  <2>. QED
    BY <1>8, <2>1, <2>2, <2>3 DEF RecheckBeforeWait
<1>9. CASE TakePermit(t)
  <2>0. state[t] \in PoolIds
    BY <1>9 DEF TakePermit
  <2>1. permits' \in [PoolIds -> 0 .. SemaphoreMax]
    BY <1>9, <2>0 DEF TakePermit
  <2>2. pc' \in [Threads -> PCs]
    BY <1>9 DEF TakePermit
  <2>. QED
    BY <1>9, <2>1, <2>2 DEF TakePermit
<1>10. CASE Unregister(t)
  <2>0. state[t] \in PoolIds
    BY <1>10 DEF Unregister
  <2>1. waiters' \in [PoolIds -> Int]
    BY <1>10, <2>0 DEF Unregister
  <2>2. pc' \in [Threads -> PCs]
    BY <1>10 DEF Unregister
  <2>. QED
    BY <1>10, <2>1, <2>2 DEF Unregister
<1>11. CASE RecheckAfterWait(t)
  BY <1>11 DEF RecheckAfterWait
<1>12. CASE ReserveSlot(t)
  <2>0. state[t] \in PoolIds
    BY <1>12 DEF ReserveSlot
  <2>1. count' \in [PoolIds -> Int]
    BY <1>12, <2>0 DEF ReserveSlot
  <2>2. current' \in [Threads -> Int]
    BY <1>12, <2>0 DEF ReserveSlot
  <2>3. pc' \in [Threads -> PCs]
    BY <1>12 DEF ReserveSlot
  <2>. QED
    BY <1>12, <2>1, <2>2, <2>3 DEF ReserveSlot
<1>13. CASE OpenNative(t)
  BY <1>13, LeaveRentType DEF OpenNative
<1>14. CASE FreeSlot(t)
  <2>0. state[t] \in PoolIds
    BY <1>14 DEF FreeSlot
  <2>1. count' \in [PoolIds -> Int]
    BY <1>14, <2>0 DEF FreeSlot
  <2>2. pc' \in [Threads -> PCs]
    BY <1>14 DEF FreeSlot
  <2>. QED
    BY <1>14, <2>1, <2>2 DEF FreeSlot
<1>15. CASE SignalFreeSlot(t)
  BY <1>15, LeaveRentType, ReleaseType DEF SignalFreeSlot
<1>16. CASE CancelWait(t)
  BY <1>16 DEF CancelWait
<1>17. CASE CallReturn(t)
  BY <1>17 DEF CallReturn
<1>18. CASE AddToBag(t)
  BY <1>18 DEF AddToBag
<1>19. CASE SignalReturn(t)
  BY <1>19, ReleaseType DEF SignalReturn
<1>20. CASE AbandonSession(t)
  BY <1>20 DEF AbandonSession
<1>21. CASE CallClear(t)
  BY <1>21 DEF CallClear
<1>22. CASE Drain(t)
  <2>0. state[t] \in PoolIds
    BY <1>22 DEF Drain
  <2>1. bag' \in [PoolIds -> SUBSET Sessions]
    BY <1>22, <2>0, BagType DEF Drain
  <2>2. open' \subseteq Sessions
    BY <1>22 DEF Drain
  <2>3. pc' \in [Threads -> PCs]
    BY <1>22 DEF Drain
  <2>. QED
    BY <1>22, <2>1, <2>2, <2>3 DEF Drain
<1>23. CASE ReadWaiters(t)
  BY <1>23 DEF ReadWaiters
<1>24. CASE Broadcast(t)
  <2>0. state[t] \in PoolIds /\ current[t] \in Int
    BY <1>24 DEF Broadcast
  <2>1. permits' \in [PoolIds -> 0 .. SemaphoreMax]
    <3>1. CASE current[t] > 0
      <4>1. current[t] \in Nat /\ Release(state[t], current[t])
        BY <1>24, <2>0, <3>1 DEF Broadcast
      <4>. QED  BY <4>1, <2>0, ReleaseType
    <3>2. CASE ~(current[t] > 0)
      BY <1>24, <3>2 DEF Broadcast
    <3>. QED  BY <3>1, <3>2
  <2>2. current' \in [Threads -> Int]
    BY <1>24 DEF Broadcast
  <2>3. state' \in [Threads -> {NoPool} \cup PoolIds]
    BY <1>24 DEF Broadcast
  <2>4. pc' \in [Threads -> PCs]
    BY <1>24 DEF Broadcast
  <2>. QED
    BY <1>24, <2>1, <2>2, <2>3, <2>4 DEF Broadcast
<1>. HIDE ConstantsAssumption
     DEF LocalsInv, TypeOK, LocalsOK, PCs, RentPCs, ReturnPCs, ClearPCs,
         HolderPCs, DetachedPCs, PoolIds, NoPool, Goto, poolVars, localVars
<1>. QED
  BY <1>1, <1>2, <1>3, <1>4, <1>5, <1>6, <1>7, <1>8, <1>9, <1>10, <1>11, <1>12,
     <1>13, <1>14, <1>15, <1>16, <1>17, <1>18, <1>19, <1>20, <1>21, <1>22, <1>23, <1>24
     DEF ThreadStep, Rent, Return, Clear

LEMMA LocalsStep ==
    ASSUME LocalsInv, NEW t \in Threads, ThreadStep(t)
    PROVE  LocalsOK'
<1>0. /\ pc \in [Threads -> PCs]
      /\ session \in [Threads -> Sessions \cup {NoSession}]
      /\ state \in [Threads -> {NoPool} \cup PoolIds]
      /\ active \in {NoPool} \cup PoolIds
      /\ \A g \in PoolIds : bag[g] \subseteq Sessions
      /\ NoSession \notin Sessions
      /\ LocalsOK
  BY ConstantsAssumption DEF LocalsInv, TypeOK, PoolIds, NoPool
<1>. USE <1>0 DEF LocalsOK, HolderPCs, DetachedPCs, NoPool, Goto, localVars
<1>1. CASE CallRent(t)
  BY <1>1 DEF CallRent
<1>2. CASE GetOrAdd(t)
  <2>1. active' \in PoolIds
    BY <1>2, ConstantsAssumption DEF GetOrAdd, LocalsInv, TypeOK, PoolIds
  <2>. QED
    BY <1>2, <2>1 DEF GetOrAdd
<1>3. CASE TryTake(t)
  BY <1>3 DEF TryTake
<1>4. CASE LendPooled(t)
  BY <1>4 DEF LendPooled, LeaveRent
<1>5. CASE DiscardDead(t)
  BY <1>5 DEF DiscardDead
<1>6. CASE ReadCount(t)
  BY <1>6 DEF ReadCount
<1>7. CASE Register(t)
  BY <1>7 DEF Register
<1>8. CASE RecheckBeforeWait(t)
  BY <1>8 DEF RecheckBeforeWait
<1>9. CASE TakePermit(t)
  BY <1>9 DEF TakePermit
<1>10. CASE Unregister(t)
  BY <1>10 DEF Unregister
<1>11. CASE RecheckAfterWait(t)
  BY <1>11 DEF RecheckAfterWait
<1>12. CASE ReserveSlot(t)
  BY <1>12 DEF ReserveSlot
<1>13. CASE OpenNative(t)
  BY <1>13 DEF OpenNative, LeaveRent
<1>14. CASE FreeSlot(t)
  BY <1>14 DEF FreeSlot
<1>15. CASE SignalFreeSlot(t)
  BY <1>15 DEF SignalFreeSlot, LeaveRent
<1>16. CASE CancelWait(t)
  BY <1>16 DEF CancelWait
<1>17. CASE CallReturn(t)
  BY <1>17 DEF CallReturn
<1>18. CASE AddToBag(t)
  BY <1>18 DEF AddToBag
<1>19. CASE SignalReturn(t)
  BY <1>19 DEF SignalReturn
<1>20. CASE AbandonSession(t)
  BY <1>20 DEF AbandonSession
<1>21. CASE CallClear(t)
  BY <1>21 DEF CallClear
<1>22. CASE Drain(t)
  BY <1>22 DEF Drain
<1>23. CASE ReadWaiters(t)
  BY <1>23 DEF ReadWaiters
<1>24. CASE Broadcast(t)
  BY <1>24 DEF Broadcast
<1>. HIDE <1>0 DEF LocalsOK, HolderPCs, DetachedPCs, NoPool, Goto, localVars
<1>. QED
  BY <1>1, <1>2, <1>3, <1>4, <1>5, <1>6, <1>7, <1>8, <1>9, <1>10, <1>11, <1>12,
     <1>13, <1>14, <1>15, <1>16, <1>17, <1>18, <1>19, <1>20, <1>21, <1>22, <1>23, <1>24
     DEF ThreadStep, Rent, Return, Clear

LEMMA LocalsInvariance == LocalsInv /\ [Next]_vars => LocalsInv'
<1>1. ASSUME LocalsInv, NEW t \in Threads, ThreadStep(t)
      PROVE  LocalsInv'
  BY <1>1, TypeStep, LocalsStep DEF LocalsInv
<1>2. ASSUME LocalsInv, UNCHANGED vars
      PROVE  LocalsInv'
  BY <1>2 DEF LocalsInv, LocalsOK, TypeOK, vars
<1>. QED  BY <1>1, <1>2 DEF Next, ThreadStep

\* Every variable of the pool keeps its type: no PoolState is used that does
\* not exist, no semaphore leaves 0 .. SemaphoreMax, and a thread stores in a
\* bag only a session, never null.
THEOREM TypeCorrect == Spec => []TypeOK
<1>1. LocalsInv => TypeOK
  BY DEF LocalsInv
<1>. QED  BY <1>1, LocalsInit, LocalsInvariance, PTL DEF Spec

-----------------------------------------------------------------------------
(* Where the sessions are. *)

LEMMA SessionInit == Init => SessionInv
BY LocalsInit, ConstantsAssumption
   DEF Init, SessionInv, SessionHasOneHolder, HeldSessionsAreOpen, AbandonedAreOpen

LEMMA SessionStep ==
    ASSUME SessionInv, LocalsInv', NEW t \in Threads, ThreadStep(t)
    PROVE  /\ SessionHasOneHolder'
           /\ HeldSessionsAreOpen'
           /\ AbandonedAreOpen'
<1>1. /\ session \in [Threads -> Sessions \cup {NoSession}]
      /\ bag \in [PoolIds -> SUBSET Sessions]
      /\ open \subseteq Sessions /\ abandoned \subseteq Sessions
      /\ NoSession \notin Sessions
      /\ pc[t] \in HolderPCs <=> session[t] # NoSession
      /\ pc[t] \notin DetachedPCs => state[t] \in PoolIds
      /\ SessionHasOneHolder /\ HeldSessionsAreOpen /\ AbandonedAreOpen
  BY ConstantsAssumption DEF SessionInv, LocalsInv, LocalsOK, TypeOK
<1>. USE <1>1
     DEF SessionHasOneHolder, HeldSessionsAreOpen, AbandonedAreOpen, HolderPCs, DetachedPCs
<1>2. CASE UNCHANGED <<session, bag, open, abandoned>>
  BY <1>2
<1>3. CASE TryTake(t)
  BY <1>3 DEF TryTake
<1>4. CASE DiscardDead(t)
  BY <1>4 DEF DiscardDead
<1>5. CASE OpenNative(t)
  BY <1>5 DEF OpenNative
<1>6. CASE CallReturn(t)
  BY <1>6 DEF CallReturn, poolVars
<1>7. CASE AddToBag(t)
  BY <1>7 DEF AddToBag
<1>8. CASE AbandonSession(t)
  BY <1>8 DEF AbandonSession, poolVars
<1>9. CASE Drain(t)
  BY <1>9 DEF Drain, localVars
<1>. HIDE <1>1 DEF SessionHasOneHolder, HeldSessionsAreOpen, AbandonedAreOpen
<1>. QED
  BY <1>2, <1>3, <1>4, <1>5, <1>6, <1>7, <1>8, <1>9
  DEF ThreadStep, Rent, Return, Clear, poolVars, localVars, CallRent, GetOrAdd,
      LendPooled, ReadCount, Register, RecheckBeforeWait, TakePermit,
      Unregister, RecheckAfterWait, ReserveSlot, FreeSlot, SignalFreeSlot,
      CancelWait, SignalReturn, CallClear, ReadWaiters, Broadcast

LEMMA SessionInvariance == SessionInv /\ [Next]_vars => SessionInv'
<1>1. SessionInv /\ [Next]_vars => LocalsInv'
  BY LocalsInvariance DEF SessionInv
<1>2. ASSUME SessionInv, NEW t \in Threads, ThreadStep(t), LocalsInv'
      PROVE  SessionInv'
  BY <1>2, SessionStep DEF SessionInv
<1>3. ASSUME SessionInv, UNCHANGED vars, LocalsInv'
      PROVE  SessionInv'
  BY <1>3
  DEF SessionInv, SessionHasOneHolder, HeldSessionsAreOpen, AbandonedAreOpen, vars
<1>. QED  BY <1>1, <1>2, <1>3 DEF Next, ThreadStep

THEOREM SessionsCorrect == Spec => []SessionInv
BY SessionInit, SessionInvariance, PTL DEF Spec

\* No two connections ever share a pooled session, and no idle session is
\* held, in two bags, or lost as well: Rent, Return, Clear, the cancelled
\* RentAsync and the failing Open, in every interleaving.
THEOREM ExclusiveSessions == Spec => []SessionHasOneHolder
<1>1. SessionInv => SessionHasOneHolder
  BY DEF SessionInv
<1>. QED  BY <1>1, SessionsCorrect, PTL

\* The pool never lends, and a connection never returns, a session that
\* Clear, Return or the health check has disposed.
THEOREM LiveSessions == Spec => []HeldSessionsAreOpen
<1>1. SessionInv => HeldSessionsAreOpen
  BY DEF SessionInv
<1>. QED  BY <1>1, SessionsCorrect, PTL

===============================================================================
