---------------------------- MODULE BoundedPoolProofs ---------------------------
(***************************************************************************)
(* Until the first Clear (MaxPools = 1), ConnectionPool implements         *)
(* BoundedPool, for every number of threads and sessions and every         *)
(* MaxPoolSize.                                                            *)
(*                                                                         *)
(* The step to justify is ReserveSlot: it compares Count with the value    *)
(* read before, the abstract pool counts the sessions that exist.          *)
(* CountInv says that the two are the same number, and that a thread       *)
(* about to compare has read a value below the maximum.                    *)
(***************************************************************************)
EXTENDS ConnectionPoolProofs, FiniteSetTheorems

\* With one PoolState there is no Clear: the pool stays in the dictionary.
OnePool ==
    /\ active = created
    /\ \A t \in Threads :
         /\ pc[t] \notin ClearPCs
         /\ pc[t] \notin {"idle", "rent"} => active = 1

\* Every open session is idle, lent or abandoned: none is lost on the way.
OpenAccounted ==
    \A s \in open : \/ s \in bag[1]
                    \/ s \in abandoned
                    \/ \E t \in Threads : session[t] = s

CountInv ==
    /\ SessionInv
    /\ OnePool
    /\ OpenAccounted
    /\ IsFiniteSet(open)
    /\ CountIsExact
    /\ \A t \in Threads : pc[t] = "cas" => current[t] < MaxPoolSize

-----------------------------------------------------------------------------

LEMMA CountInit == MaxPools = 1 /\ Init => CountInv
<1>. SUFFICES ASSUME MaxPools = 1, Init
              PROVE  CountInv
  OBVIOUS
<1>1. open = {} /\ Opening = {} /\ count[1] = 0
  BY DEF Init, Opening, PoolIds
<1>2. CountIsExact /\ IsFiniteSet(open)
  BY <1>1, FS_EmptySet, ConstantsAssumption DEF CountIsExact
<1>3. OnePool /\ OpenAccounted
  BY DEF Init, OnePool, OpenAccounted, NoPool, ClearPCs
<1>. QED  BY <1>2, <1>3, SessionInit DEF CountInv, Init

LEMMA OnePoolStep ==
    ASSUME MaxPools = 1, LocalsInv, OnePool, NEW t \in Threads, ThreadStep(t)
    PROVE  OnePool'
<1>1. /\ pc \in [Threads -> PCs]
      /\ active \in {0, 1} /\ created = active
      /\ OnePool
  BY DEF LocalsInv, TypeOK, OnePool, PoolIds, NoPool
<1>. USE <1>1 DEF OnePool, NoPool, ClearPCs, Goto
<1>2. CASE CallRent(t)
  BY <1>2 DEF CallRent
<1>3. CASE GetOrAdd(t)
  BY <1>3 DEF GetOrAdd
<1>4. CASE TryTake(t)
  BY <1>4 DEF TryTake
<1>5. CASE LendPooled(t)
  BY <1>5 DEF LendPooled
<1>6. CASE DiscardDead(t)
  BY <1>6 DEF DiscardDead
<1>7. CASE ReadCount(t)
  BY <1>7 DEF ReadCount
<1>8. CASE Register(t)
  BY <1>8 DEF Register
<1>9. CASE RecheckBeforeWait(t)
  BY <1>9 DEF RecheckBeforeWait
<1>10. CASE TakePermit(t)
  BY <1>10 DEF TakePermit
<1>11. CASE Unregister(t)
  BY <1>11 DEF Unregister
<1>12. CASE RecheckAfterWait(t)
  BY <1>12 DEF RecheckAfterWait
<1>13. CASE ReserveSlot(t)
  BY <1>13 DEF ReserveSlot
<1>14. CASE OpenNative(t)
  BY <1>14 DEF OpenNative
<1>15. CASE FreeSlot(t)
  BY <1>15 DEF FreeSlot
<1>16. CASE SignalFreeSlot(t)
  BY <1>16 DEF SignalFreeSlot
<1>17. CASE CancelWait(t)
  BY <1>17 DEF CancelWait
<1>18. CASE CallReturn(t)
  BY <1>18 DEF CallReturn
<1>19. CASE AddToBag(t)
  BY <1>19 DEF AddToBag
<1>20. CASE SignalReturn(t)
  BY <1>20 DEF SignalReturn
<1>21. CASE AbandonSession(t)
  BY <1>21 DEF AbandonSession
<1>22. CASE CallClear(t)
  BY <1>22 DEF CallClear
<1>23. CASE Drain(t)
  BY <1>23 DEF Drain
<1>24. CASE ReadWaiters(t)
  BY <1>24 DEF ReadWaiters
<1>25. CASE Broadcast(t)
  BY <1>25 DEF Broadcast
<1>. HIDE <1>1 DEF OnePool, NoPool, ClearPCs, Goto
<1>. QED
  BY <1>2, <1>3, <1>4, <1>5, <1>6, <1>7, <1>8, <1>9, <1>10, <1>11, <1>12, <1>13,
     <1>14, <1>15, <1>16, <1>17, <1>18, <1>19, <1>20, <1>21, <1>22, <1>23, <1>24, <1>25
  DEF ThreadStep, Rent, Return, Clear

LEMMA AccountedStep ==
    ASSUME MaxPools = 1, SessionInv, OnePool, OpenAccounted, NEW t \in Threads,
           ThreadStep(t)
    PROVE  OpenAccounted'
<1>1. /\ session \in [Threads -> Sessions \cup {NoSession}]
      /\ bag \in [PoolIds -> SUBSET Sessions]
      /\ 1 \in PoolIds /\ \A g \in PoolIds : g = 1
      /\ NoSession \notin open
      /\ pc[t] \in HolderPCs <=> session[t] # NoSession
      /\ pc[t] \notin DetachedPCs => state[t] = 1
      /\ pc[t] \notin ClearPCs
      /\ pc[t] = "lent" => active # NoPool
      /\ OpenAccounted
  BY ConstantsAssumption
  DEF SessionInv, LocalsInv, LocalsOK, TypeOK, OnePool, PoolIds, NoPool
<1>. USE <1>1 DEF OpenAccounted, HolderPCs, DetachedPCs, ClearPCs
<1>2. CASE UNCHANGED <<session, bag, open, abandoned>>
  BY <1>2
<1>3. CASE TryTake(t)
  BY <1>3 DEF TryTake
<1>4. CASE DiscardDead(t)
  BY <1>4 DEF DiscardDead
<1>5. CASE OpenNative(t)
  BY <1>5 DEF OpenNative
<1>6. CASE CallReturn(t)
  BY <1>6 DEF CallReturn, poolVars
<1>7. CASE AddToBag(t)
  BY <1>7 DEF AddToBag
<1>8. CASE AbandonSession(t)
  BY <1>8 DEF AbandonSession, poolVars
<1>9. CASE Drain(t)
  BY <1>9 DEF Drain
<1>. HIDE <1>1 DEF OpenAccounted, HolderPCs, DetachedPCs, ClearPCs
<1>. QED
  BY <1>2, <1>3, <1>4, <1>5, <1>6, <1>7, <1>8, <1>9
  DEF ThreadStep, Rent, Return, Clear, poolVars, localVars, CallRent, GetOrAdd,
      LendPooled, ReadCount, Register, RecheckBeforeWait, TakePermit,
      Unregister, RecheckAfterWait, ReserveSlot, FreeSlot, SignalFreeSlot,
      CancelWait, SignalReturn, CallClear, ReadWaiters, Broadcast

\* What each action does to Count, the open sessions and the threads opening.
LEMMA CountStep ==
    ASSUME MaxPools = 1, SessionInv, TypeOK', OnePool, IsFiniteSet(open),
           CountIsExact, NEW t \in Threads, ThreadStep(t),
           pc[t] = "cas" => current[t] < MaxPoolSize
    PROVE  IsFiniteSet(open') /\ CountIsExact'
<1>1. /\ pc \in [Threads -> PCs]
      /\ count \in [PoolIds -> Int]
      /\ 1 \in PoolIds
      /\ pc[t] \notin DetachedPCs => state[t] = 1
      /\ pc[t] \notin ClearPCs
      /\ pc[t] = "lent" => active # NoPool
      /\ pc[t] \in HolderPCs => session[t] \in open
      /\ MaxPoolSize \in Nat
  BY ConstantsAssumption
  DEF SessionInv, LocalsInv, LocalsOK, TypeOK, OnePool, PoolIds, NoPool,
      HeldSessionsAreOpen
<1>2. /\ IsFiniteSet(Opening) /\ IsFiniteSet(Opening')
      /\ Cardinality(Opening) \in Nat /\ Cardinality(open) \in Nat
  BY FS_Subset, FS_CardinalityType, ConstantsAssumption DEF Opening
<1>3. count[1] = Cardinality(open) + Cardinality(Opening) /\ count[1] <= MaxPoolSize
  BY DEF CountIsExact
<1>. DEFINE Exact == /\ IsFiniteSet(open')
                     /\ count'[1] = Cardinality(open') + Cardinality(Opening')
                     /\ count'[1] <= MaxPoolSize
<1>4. SUFFICES Exact
  BY DEF CountIsExact
<1>5. CASE UNCHANGED <<count, open>> /\ pc[t] # "opening" /\ pc'[t] # "opening"
                /\ \A u \in Threads \ {t} : pc'[u] = pc[u]
  <2>1. Opening' = Opening
    BY <1>5 DEF Opening
  <2>. QED  BY <1>2, <1>3, <1>5, <2>1
<1>6. CASE DiscardDead(t)
  <2>1. /\ Opening' = Opening
        /\ open' = open \ {session[t]} /\ session[t] \in open
        /\ count'[1] = count[1] - 1
    BY <1>1, <1>6 DEF DiscardDead, Opening, Goto, HolderPCs, DetachedPCs
  <2>2. IsFiniteSet(open') /\ Cardinality(open') = Cardinality(open) - 1
    BY <2>1, FS_RemoveElement
  <2>. QED  BY <1>1, <1>2, <1>3, <2>1, <2>2
<1>7. CASE ReserveSlot(t)
  <2>1. CASE count[1] = current[t]
    <3>1. /\ Opening' = Opening \cup {t} /\ t \notin Opening
          /\ open' = open
          /\ count'[1] = count[1] + 1
      BY <1>1, <1>7, <2>1 DEF ReserveSlot, Opening, Goto, DetachedPCs
    <3>2. Cardinality(Opening') = Cardinality(Opening) + 1
      BY <1>2, <3>1, FS_AddElement
    <3>3. count[1] < MaxPoolSize
      BY <1>7, <2>1 DEF ReserveSlot
    <3>. QED  BY <1>1, <1>2, <1>3, <3>1, <3>2, <3>3
  <2>2. CASE count[1] # current[t]
    <3>1. Opening' = Opening /\ open' = open /\ count' = count
      BY <1>1, <1>7, <2>2 DEF ReserveSlot, Opening, Goto, DetachedPCs
    <3>. QED  BY <1>2, <1>3, <3>1
  <2>. QED  BY <2>1, <2>2
<1>8. CASE OpenNative(t)
  <2>1. PICK s \in Sessions \ open : open' = open \cup {s}
    BY <1>8 DEF OpenNative
  <2>2. Opening' = Opening \ {t} /\ t \in Opening /\ count' = count
    BY <1>1, <1>8 DEF OpenNative, Opening, Goto
  <2>3. IsFiniteSet(open') /\ Cardinality(open') = Cardinality(open) + 1
    BY <2>1, FS_AddElement
  <2>4. Cardinality(Opening') = Cardinality(Opening) - 1
    BY <1>2, <2>2, FS_RemoveElement
  <2>. QED  BY <1>2, <1>3, <2>2, <2>3, <2>4
<1>9. CASE FreeSlot(t)
  <2>1. /\ Opening' = Opening \ {t} /\ t \in Opening
        /\ open' = open /\ count'[1] = count[1] - 1
    BY <1>1, <1>9 DEF FreeSlot, Opening, Goto, DetachedPCs
  <2>2. Cardinality(Opening') = Cardinality(Opening) - 1
    BY <1>2, <2>1, FS_RemoveElement
  <2>. QED  BY <1>1, <1>2, <1>3, <2>1, <2>2
<1>10. CASE CallReturn(t)
  BY <1>1, <1>5, <1>10 DEF CallReturn, Goto, poolVars
<1>11. CASE Clear(t)
  BY <1>1, <1>5, <1>11
  DEF Clear, CallClear, Drain, ReadWaiters, Broadcast, ClearPCs, Goto, poolVars
<1>. HIDE DEF Exact
<1>12. CASE \/ CallRent(t) \/ GetOrAdd(t) \/ TryTake(t) \/ LendPooled(t)
            \/ ReadCount(t) \/ Register(t) \/ RecheckBeforeWait(t)
  BY <1>1, <1>5, <1>12
  DEF CallRent, GetOrAdd, TryTake, LendPooled, ReadCount, Register,
      RecheckBeforeWait, Goto, poolVars
<1>13. CASE \/ TakePermit(t) \/ Unregister(t) \/ RecheckAfterWait(t)
            \/ SignalFreeSlot(t) \/ CancelWait(t)
  BY <1>1, <1>5, <1>13
  DEF TakePermit, Unregister, RecheckAfterWait, SignalFreeSlot, CancelWait,
      Goto, poolVars
<1>14. CASE AddToBag(t) \/ SignalReturn(t) \/ AbandonSession(t)
  BY <1>1, <1>5, <1>14 DEF AddToBag, SignalReturn, AbandonSession, Goto, poolVars
<1>. QED
  BY <1>6, <1>7, <1>8, <1>9, <1>10, <1>11, <1>12, <1>13, <1>14
  DEF ThreadStep, Rent, Return

\* A thread about to compare has read a Count below the maximum.
LEMMA CasStep ==
    ASSUME LocalsInv, NEW t \in Threads, ThreadStep(t),
           \A u \in Threads : pc[u] = "cas" => current[u] < MaxPoolSize
    PROVE  \A u \in Threads : pc'[u] = "cas" => current'[u] < MaxPoolSize
<1>1. /\ pc \in [Threads -> PCs]
      /\ current \in [Threads -> Int]
      /\ state \in [Threads -> {NoPool} \cup PoolIds]
      /\ count \in [PoolIds -> Int]
      /\ pc[t] \notin DetachedPCs => state[t] \in PoolIds
      /\ MaxPoolSize \in Nat
  BY ConstantsAssumption DEF LocalsInv, LocalsOK, TypeOK
<1>. USE <1>1 DEF Goto, localVars, DetachedPCs
<1>2. CASE Rent(t)
  <2>1. CASE ReadCount(t)
    BY <2>1 DEF ReadCount
  <2>2. CASE pc'[t] # "cas" /\ \A u \in Threads \ {t} : pc'[u] = pc[u] /\ current'[u] = current[u]
    BY <2>2
  <2>. QED
    BY <1>2, <2>1, <2>2
    DEF Rent, CallRent, GetOrAdd, TryTake, LendPooled, DiscardDead, Register,
        RecheckBeforeWait, TakePermit, Unregister, RecheckAfterWait,
        ReserveSlot, OpenNative, FreeSlot, SignalFreeSlot
<1>3. CASE CancelWait(t) \/ AbandonSession(t)
  BY <1>3 DEF CancelWait, AbandonSession
<1>4. CASE Return(t)
  BY <1>4 DEF Return, CallReturn, AddToBag, SignalReturn
<1>5. CASE Clear(t)
  BY <1>5 DEF Clear, CallClear, Drain, ReadWaiters, Broadcast
<1>. QED  BY <1>2, <1>3, <1>4, <1>5 DEF ThreadStep

LEMMA CountInvariance ==
    ASSUME MaxPools = 1
    PROVE  CountInv /\ [Next]_vars => CountInv'
<1>1. CountInv /\ [Next]_vars => SessionInv'
  BY SessionInvariance DEF CountInv
<1>2. ASSUME CountInv, SessionInv', NEW t \in Threads, ThreadStep(t)
      PROVE  CountInv'
  <2>1. /\ SessionInv /\ LocalsInv /\ TypeOK' /\ OnePool /\ OpenAccounted
        /\ IsFiniteSet(open) /\ CountIsExact
        /\ \A u \in Threads : pc[u] = "cas" => current[u] < MaxPoolSize
    BY <1>2 DEF CountInv, SessionInv, LocalsInv
  <2>2. OnePool'
    BY <1>2, <2>1, OnePoolStep
  <2>3. OpenAccounted'
    BY <1>2, <2>1, AccountedStep
  <2>4. IsFiniteSet(open') /\ CountIsExact'
    BY <1>2, <2>1, CountStep
  <2>5. \A u \in Threads : pc'[u] = "cas" => current'[u] < MaxPoolSize
    BY <1>2, <2>1, CasStep
  <2>. QED  BY <1>2, <2>2, <2>3, <2>4, <2>5 DEF CountInv
<1>3. ASSUME CountInv, SessionInv', UNCHANGED vars
      PROVE  CountInv'
  BY <1>3 DEF CountInv, OnePool, OpenAccounted, CountIsExact, Opening, vars
<1>. QED  BY <1>1, <1>2, <1>3 DEF Next, ThreadStep

\* Until the first Clear, Count is the number of open sessions plus that of
\* the connections being opened, and never exceeds Max Pool Size.
THEOREM CountCorrect == Spec => []CountIsExact
<1>1. CASE MaxPools = 1
  <2>1. CountInv => CountIsExact
    BY DEF CountInv
  <2>2. Init => CountInv
    BY <1>1, CountInit
  <2>3. CountInv /\ [Next]_vars => CountInv'
    BY <1>1, CountInvariance
  <2>. QED  BY <2>1, <2>2, <2>3, PTL DEF Spec
<1>2. CASE MaxPools # 1
  <2>1. CountIsExact
    BY <1>2 DEF CountIsExact
  <2>. QED  BY <2>1, PTL
<1>. QED  BY <1>1, <1>2

-----------------------------------------------------------------------------
(* The refinement. *)

\* The sessions that exist for BoundedPool are the open ones.
LEMMA ExistingIsOpen ==
    ASSUME MaxPools = 1, CountInv
    PROVE  Bounded!Existing = open
<1>1. \A s \in open : s # NoSession
  BY ConstantsAssumption DEF CountInv, SessionInv, LocalsInv, TypeOK
<1>2. 1 \in PoolIds
  BY DEF PoolIds
<1>. QED
  BY <1>1, <1>2
  DEF Bounded!Existing, CountInv, OpenAccounted, SessionInv,
      HeldSessionsAreOpen, AbandonedAreOpen

\* BoundedPool counts with its own instance of FiniteSets.
LEMMA SameCardinality == \A S : Bounded!Cardinality(S) = Cardinality(S)
BY DEF Bounded!Cardinality, Cardinality, Bounded!IsFiniteSet, IsFiniteSet

LEMMA BoundedStep ==
    ASSUME MaxPools = 1, CountInv, NEW t \in Threads, ThreadStep(t)
    PROVE  [Bounded!Next]_(Bounded!vars)
<1>1. /\ pc \in [Threads -> PCs]
      /\ session \in [Threads -> Sessions \cup {NoSession}]
      /\ bag \in [PoolIds -> SUBSET Sessions]
      /\ 1 \in PoolIds
      /\ NoSession \notin Sessions
      /\ pc[t] \in HolderPCs <=> session[t] # NoSession
      /\ pc[t] \notin DetachedPCs => state[t] = 1
      /\ pc[t] \notin ClearPCs
      /\ pc[t] = "lent" => active # NoPool
      /\ pc[t] = "cas" => current[t] < MaxPoolSize
  BY ConstantsAssumption
  DEF CountInv, SessionInv, LocalsInv, LocalsOK, TypeOK, OnePool, PoolIds, NoPool
<1>2. ASSUME pc[t] # "opening", pc'[t] # "opening",
             \A u \in Threads \ {t} : pc'[u] = pc[u]
      PROVE  Opening' = Opening
  BY <1>2 DEF Opening
<1>3. CASE /\ UNCHANGED <<session, bag, abandoned>>
           /\ pc[t] # "opening" /\ pc'[t] # "opening"
           /\ \A u \in Threads \ {t} : pc'[u] = pc[u]
  BY <1>2, <1>3 DEF Bounded!vars
<1>4. CASE TryTake(t)
  <2>1. Opening' = Opening
    BY <1>1, <1>2, <1>4 DEF TryTake, Goto
  <2>2. CASE bag[1] = {}
    BY <1>1, <1>3, <1>4, <2>2 DEF TryTake, Goto, DetachedPCs
  <2>3. ASSUME NEW s \in bag[1], bag' = [bag EXCEPT ![1] = @ \ {s}],
               session' = [session EXCEPT ![t] = s]
        PROVE  Bounded!TakeIdle(t, s) /\ s \in Sessions
    BY <1>1, <1>4, <2>1, <2>3 DEF TryTake, Bounded!TakeIdle, HolderPCs
  <2>. QED
    BY <1>1, <1>4, <2>2, <2>3 DEF TryTake, DetachedPCs, Bounded!Next
<1>5. CASE ReserveSlot(t)
  <2>1. CASE count[1] = current[t]
    <3>1. Cardinality(Bounded!Existing) + Cardinality(Opening) < MaxPoolSize
      BY <1>1, <1>5, <2>1, ExistingIsOpen DEF ReserveSlot, CountInv, CountIsExact
    <3>2. Opening' = Opening \cup {t} /\ t \notin Opening
      BY <1>1, <1>5, <2>1 DEF ReserveSlot, Opening, Goto, DetachedPCs
    <3>3. session[t] = NoSession /\ UNCHANGED <<session, bag, abandoned>>
      BY <1>1, <1>5 DEF ReserveSlot, HolderPCs
    <3>4. Bounded!StartCreating(t)
      BY <3>1, <3>2, <3>3, SameCardinality DEF Bounded!StartCreating
    <3>. QED  BY <3>4 DEF Bounded!Next
  <2>2. CASE count[1] # current[t]
    BY <1>1, <1>3, <1>5, <2>2 DEF ReserveSlot, Goto, DetachedPCs
  <2>. QED  BY <2>1, <2>2
<1>6. CASE OpenNative(t)
  <2>1. PICK s \in Sessions \ open :
          session' = [session EXCEPT ![t] = s] /\ UNCHANGED <<bag, abandoned>>
    BY <1>6 DEF OpenNative
  <2>2. Opening' = Opening \ {t} /\ t \in Opening
    BY <1>1, <1>6 DEF OpenNative, Opening, Goto
  <2>3. Bounded!FinishCreating(t, s)
    BY <2>1, <2>2, ExistingIsOpen DEF Bounded!FinishCreating
  <2>. QED  BY <2>3 DEF Bounded!Next
<1>7. CASE FreeSlot(t)
  <2>1. Opening' = Opening \ {t} /\ t \in Opening
    BY <1>1, <1>7 DEF FreeSlot, Opening, Goto
  <2>2. Bounded!FailCreating(t)
    BY <1>7, <2>1 DEF FreeSlot, localVars, Bounded!FailCreating
  <2>. QED  BY <2>2 DEF Bounded!Next
<1>8. CASE DiscardDead(t) \/ AddToBag(t) \/ AbandonSession(t)
  <2>1. Opening' = Opening
    BY <1>1, <1>2, <1>8 DEF DiscardDead, AddToBag, AbandonSession, Goto
  <2>2. session[t] # NoSession /\ session' = [session EXCEPT ![t] = NoSession]
    BY <1>1, <1>8 DEF DiscardDead, AddToBag, AbandonSession, HolderPCs
  <2>3. \/ bag'[1] = bag[1] \cup {session[t]} /\ UNCHANGED abandoned
        \/ UNCHANGED <<bag, abandoned>>
        \/ abandoned' = abandoned \cup {session[t]} /\ UNCHANGED bag
    BY <1>1, <1>8 DEF DiscardDead, AddToBag, AbandonSession, poolVars, DetachedPCs
  <2>4. Bounded!Relinquish(t)
    BY <2>1, <2>2, <2>3 DEF Bounded!Relinquish
  <2>. QED  BY <2>4 DEF Bounded!Next
<1>9. CASE CallReturn(t)
  BY <1>1, <1>3, <1>9 DEF CallReturn, Goto, poolVars
<1>10. CASE Clear(t)
  BY <1>1, <1>3, <1>10
  DEF Clear, CallClear, Drain, ReadWaiters, Broadcast, ClearPCs, Goto, poolVars
<1>11. CASE \/ CallRent(t) \/ GetOrAdd(t) \/ LendPooled(t) \/ ReadCount(t)
            \/ Register(t) \/ RecheckBeforeWait(t) \/ TakePermit(t)
  BY <1>1, <1>3, <1>11
  DEF CallRent, GetOrAdd, LendPooled, ReadCount, Register, RecheckBeforeWait,
      TakePermit, Goto, poolVars, localVars
<1>12. CASE \/ Unregister(t) \/ RecheckAfterWait(t) \/ SignalFreeSlot(t)
            \/ CancelWait(t) \/ SignalReturn(t)
  BY <1>1, <1>3, <1>12
  DEF Unregister, RecheckAfterWait, SignalFreeSlot, CancelWait, SignalReturn,
      Goto, poolVars, localVars
<1>. QED
  BY <1>4, <1>5, <1>6, <1>7, <1>8, <1>9, <1>10, <1>11, <1>12
  DEF ThreadStep, Rent, Return

\* Until the first Clear, no interleaving of the lock-free steps shows a
\* client more than a pool that checks its capacity and hands out a session
\* in one step: "Hard (guaranteed <= maxPoolSize)" as the documentation has it.
THEOREM Refinement == MaxPools = 1 /\ Spec => ImplementsBoundedPool
<1>. SUFFICES ASSUME MaxPools = 1
              PROVE  Spec => Bounded!Spec
  BY DEF ImplementsBoundedPool
<1>1. Init => CountInv
  BY CountInit
<1>2. CountInv /\ [Next]_vars => CountInv'
  BY CountInvariance
<1>3. Init => Bounded!Init
  BY DEF Init, Bounded!Init, Opening, PoolIds
<1>4. CountInv /\ [Next]_vars => [Bounded!Next]_(Bounded!vars)
  <2>1. ASSUME CountInv, UNCHANGED vars
        PROVE  UNCHANGED Bounded!vars
    BY <2>1 DEF vars, Bounded!vars, Opening
  <2>. QED  BY <2>1, BoundedStep DEF Next, ThreadStep
<1>. QED  BY <1>1, <1>2, <1>3, <1>4, PTL DEF Spec, Bounded!Spec

=================================================================================
