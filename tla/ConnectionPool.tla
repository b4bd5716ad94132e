---------------------------- MODULE ConnectionPool ----------------------------
(***************************************************************************)
(* SqliteConnectionPool: the static pool of sessions of ONE connection     *)
(* string.  (The dictionary Pools keeps the pools of different strings     *)
(* apart; they share nothing.)                                             *)
(*                                                                         *)
(* A PoolState is a lock-free object: a ConcurrentBag of idle sessions, a  *)
(* SemaphoreSlim that starts at 0, the Count of sessions it has created    *)
(* and the number of Waiters that Clear must wake.  Clear unlinks the      *)
(* PoolState from the dictionary while other threads still work on it, and *)
(* the next Rent creates another; PoolStates are numbered in the order of  *)
(* their creation.                                                         *)
(*                                                                         *)
(* Every action is one atomic step of the code: one operation of the       *)
(* dictionary, the bag, the semaphore or an Interlocked field.  What a     *)
(* thread does to a session only it can reach (SELECT 1, Dispose) is       *)
(* joined to the neighbouring step.                                        *)
(***************************************************************************)
EXTENDS Integers, FiniteSets

CONSTANTS
    Threads,       \* threads (or async flows) that rent, return and clear
    AsyncThreads,  \* those that call RentAsync, whose wait can be cancelled
    Sessions,      \* names for SqliteSession objects
    NoSession,     \* null
    MaxPoolSize,   \* "Max Pool Size" of the connection string
    SemaphoreMax,  \* maximum count of the semaphore, int.MaxValue in the code
    MaxPools,      \* bound on the PoolStates ever created (on calls to Clear)
    MaxAbandoned   \* bound on the sessions lost by a failing Open

ASSUME ConstantsAssumption ==
    /\ IsFiniteSet(Threads)
    /\ AsyncThreads \subseteq Threads
    /\ NoSession \notin Sessions
    /\ MaxPoolSize \in Nat \ {0}
    /\ SemaphoreMax \in Nat \ {0}
    /\ MaxPools \in Nat \ {0}
    /\ MaxAbandoned \in Nat

VARIABLES
    active,     \* Pools[connectionString], or NoPool
    created,    \* number of PoolStates created so far
    bag,        \* PoolState.Bag
    permits,    \* PoolState.Semaphore.CurrentCount
    count,      \* PoolState.Count
    waiters,    \* PoolState.Waiters
    open,       \* sessions whose native connection is open
    abandoned,  \* open sessions no one refers to any more
    pc,         \* where each thread is
    state,      \* local variable `state`: the PoolState the thread works on
    current,    \* local variables `current` and `waiters`
    session,    \* local variable `session`, then the connection's _session
    pending     \* PoolStates whose `finally { Waiters-- }` awaits a nested Rent

poolVars == <<bag, permits, count, waiters>>
localVars == <<state, current, session, pending>>
vars == <<active, created, bag, permits, count, waiters, open, abandoned, pc,
          state, current, session, pending>>

PoolIds == 1 .. MaxPools
NoPool == 0

RentPCs == {"rent", "take", "validate", "readCount", "register", "recheck",
            "wait", "woken", "verify", "cas", "opening", "openFailed"}
ReturnPCs == {"add", "signal"}
ClearPCs == {"drain", "readWaiters", "broadcast"}
PCs == {"idle", "lent"} \cup RentPCs \cup ReturnPCs \cup ClearPCs

TypeOK ==
    /\ active \in {NoPool} \cup PoolIds
    /\ created \in {NoPool} \cup PoolIds
    /\ bag \in [PoolIds -> SUBSET Sessions]
    /\ permits \in [PoolIds -> 0 .. SemaphoreMax]
    /\ count \in [PoolIds -> Int]
    /\ waiters \in [PoolIds -> Int]
    /\ open \subseteq Sessions
    /\ abandoned \subseteq Sessions
    /\ pc \in [Threads -> PCs]
    /\ state \in [Threads -> {NoPool} \cup PoolIds]
    /\ current \in [Threads -> Int]
    /\ session \in [Threads -> Sessions \cup {NoSession}]
    /\ pending \in [Threads -> SUBSET PoolIds]

Init ==
    /\ active = NoPool
    /\ created = 0
    /\ bag = [g \in PoolIds |-> {}]
    /\ permits = [g \in PoolIds |-> 0]
    /\ count = [g \in PoolIds |-> 0]
    /\ waiters = [g \in PoolIds |-> 0]
    /\ open = {}
    /\ abandoned = {}
    /\ pc = [t \in Threads |-> "idle"]
    /\ state = [t \in Threads |-> NoPool]
    /\ current = [t \in Threads |-> 0]
    /\ session = [t \in Threads |-> NoSession]
    /\ pending = [t \in Threads |-> {}]

-----------------------------------------------------------------------------
(* Steps shared by the operations. *)

Goto(t, label) == pc' = [pc EXCEPT ![t] = label]

\* SemaphoreSlim.Release(n): past the maximum it throws and adds nothing.
Release(g, n) ==
    permits' = IF permits[g] + n > SemaphoreMax
               THEN permits
               ELSE [permits EXCEPT ![g] = @ + n]

\* The thread leaves Rent: the `finally` of every enclosing call runs.
LeaveRent(t) ==
    /\ waiters' = [g \in PoolIds |-> IF g \in pending[t] THEN waiters[g] - 1
                                                        ELSE waiters[g]]
    /\ pending' = [pending EXCEPT ![t] = {}]
    /\ state' = [state EXCEPT ![t] = NoPool]

-----------------------------------------------------------------------------
(* Rent and RentAsync. *)

CallRent(t) ==
    /\ pc[t] = "idle"
    /\ Goto(t, "rent")
    /\ UNCHANGED <<active, created, poolVars, open, abandoned, localVars>>

\* Pools.GetOrAdd(connectionString, _ => new PoolState())
GetOrAdd(t) ==
    /\ pc[t] = "rent"
    /\ IF active = NoPool
       THEN /\ created < MaxPools
            /\ created' = created + 1
            /\ active' = created + 1
       ELSE UNCHANGED <<active, created>>
    /\ state' = [state EXCEPT ![t] = active']
    /\ Goto(t, "take")
    /\ UNCHANGED <<poolVars, open, abandoned, current, session, pending>>

\* Mutant: TryPeek instead of TryTake.
TryPeek(t) ==
    /\ pc[t] = "take"
    /\ \/ \E s \in bag[state[t]] :
            /\ session' = [session EXCEPT ![t] = s]
            /\ Goto(t, "validate")
       \/ /\ bag[state[t]] = {}
          /\ Goto(t, "readCount")
          /\ UNCHANGED session
    /\ UNCHANGED <<active, created, poolVars, open, abandoned, state, current,
                   pending>>

\* state.Bag.TryTake, on the fast path and after a wait.
TryTake(t) ==
    /\ pc[t] = "take"
    /\ LET g == state[t] IN
       \/ \E s \in bag[g] :
            /\ bag' = [bag EXCEPT ![g] = @ \ {s}]
            /\ session' = [session EXCEPT ![t] = s]
            /\ Goto(t, "validate")
       \/ /\ bag[g] = {}
          /\ Goto(t, "readCount")
          /\ UNCHANGED <<bag, session>>
    /\ UNCHANGED <<active, created, permits, count, waiters, open, abandoned,
                   state, current, pending>>

\* session.IsValid() returned true: the session is lent.
LendPooled(t) ==
    /\ pc[t] = "validate"
    /\ session[t] \in open
    /\ LeaveRent(t)
    /\ Goto(t, "lent")
    /\ UNCHANGED <<active, created, bag, permits, count, open, abandoned,
                   current, session>>

\* Mutant: the dead session is disposed, and returned all the same.
LendDead(t) ==
    /\ pc[t] = "validate"
    /\ open' = open \ {session[t]}
    /\ LeaveRent(t)
    /\ Goto(t, "lent")
    /\ UNCHANGED <<active, created, bag, permits, count, abandoned, current,
                   session>>

\* session.IsValid() returned false: Dispose, Interlocked.Decrement(Count).
DiscardDead(t) ==
    /\ pc[t] = "validate"
    /\ open' = open \ {session[t]}
    /\ count' = [count EXCEPT ![state[t]] = @ - 1]
    /\ session' = [session EXCEPT ![t] = NoSession]
    /\ Goto(t, "readCount")
    /\ UNCHANGED <<active, created, bag, permits, waiters, abandoned, state,
                   current, pending>>

\* Mutant: current > maxPoolSize.
ReadCountOffByOne(t) ==
    /\ pc[t] = "readCount"
    /\ current' = [current EXCEPT ![t] = count[state[t]]]
    /\ Goto(t, IF count[state[t]] > MaxPoolSize THEN "register" ELSE "cas")
    /\ UNCHANGED <<active, created, poolVars, open, abandoned, state, session,
                   pending>>

\* int current = Volatile.Read(ref state.Count)
ReadCount(t) ==
    /\ pc[t] = "readCount"
    /\ current' = [current EXCEPT ![t] = count[state[t]]]
    /\ Goto(t, IF count[state[t]] >= MaxPoolSize THEN "register" ELSE "cas")
    /\ UNCHANGED <<active, created, poolVars, open, abandoned, state, session,
                   pending>>

\* Interlocked.Increment(ref state.Waiters)
Register(t) ==
    /\ pc[t] = "register"
    /\ waiters' = [waiters EXCEPT ![state[t]] = @ + 1]
    /\ current' = [current EXCEPT ![t] = 0]
    /\ Goto(t, "recheck")
    /\ UNCHANGED <<active, created, bag, permits, count, open, abandoned,
                   state, session, pending>>

\* Mutant: blocks without looking whether the PoolState was retired.
WaitUnchecked(t) ==
    /\ pc[t] = "recheck"
    /\ Goto(t, "wait")
    /\ UNCHANGED <<active, created, poolVars, open, abandoned, localVars>>

\* The retirement check before blocking.  A retired PoolState is left by a
\* nested call of Rent inside the `try`, so Waiters-- comes after that call.
RecheckBeforeWait(t) ==
    /\ pc[t] = "recheck"
    /\ IF active = state[t]
       THEN /\ Goto(t, "wait")
            /\ UNCHANGED <<state, pending>>
       ELSE /\ Goto(t, "rent")
            /\ pending' = [pending EXCEPT ![t] = @ \cup {state[t]}]
            /\ state' = [state EXCEPT ![t] = NoPool]
    /\ UNCHANGED <<active, created, poolVars, open, abandoned, current, session>>

\* state.Semaphore.Wait() blocks until there is a permit and takes it.
TakePermit(t) ==
    /\ pc[t] = "wait"
    /\ permits[state[t]] > 0
    /\ permits' = [permits EXCEPT ![state[t]] = @ - 1]
    /\ Goto(t, "woken")
    /\ UNCHANGED <<active, created, bag, count, waiters, open, abandoned,
                   localVars>>

\* finally { Interlocked.Decrement(ref state.Waiters) }
Unregister(t) ==
    /\ pc[t] = "woken"
    /\ waiters' = [waiters EXCEPT ![state[t]] = @ - 1]
    /\ Goto(t, "verify")
    /\ UNCHANGED <<active, created, bag, permits, count, open, abandoned,
                   localVars>>

\* The retirement check after the wait.
RecheckAfterWait(t) ==
    /\ pc[t] = "verify"
    /\ IF active = state[t]
       THEN /\ Goto(t, "take")
            /\ UNCHANGED state
       ELSE /\ Goto(t, "rent")
            /\ state' = [state EXCEPT ![t] = NoPool]
    /\ UNCHANGED <<active, created, poolVars, open, abandoned, current, session,
                   pending>>

\* Mutant: Interlocked.Increment instead of CompareExchange.
ReserveUncompared(t) ==
    /\ pc[t] = "cas"
    /\ count' = [count EXCEPT ![state[t]] = @ + 1]
    /\ Goto(t, "opening")
    /\ current' = [current EXCEPT ![t] = 0]
    /\ UNCHANGED <<active, created, bag, permits, waiters, open, abandoned,
                   state, session, pending>>

\* Interlocked.CompareExchange(ref state.Count, current + 1, current)
ReserveSlot(t) ==
    /\ pc[t] = "cas"
    /\ IF count[state[t]] = current[t]
       THEN /\ count' = [count EXCEPT ![state[t]] = @ + 1]
            /\ Goto(t, "opening")
       ELSE /\ Goto(t, "readCount")
            /\ UNCHANGED count
    /\ current' = [current EXCEPT ![t] = 0]
    /\ UNCHANGED <<active, created, bag, permits, waiters, open, abandoned,
                   state, session, pending>>

\* new SqliteSession(Connection.Open(dataSource, openFlags))
OpenNative(t) ==
    /\ pc[t] = "opening"
    /\ \E s \in Sessions \ open :
         /\ open' = open \cup {s}
         /\ session' = [session EXCEPT ![t] = s]
    /\ LeaveRent(t)
    /\ Goto(t, "lent")
    /\ UNCHANGED <<active, created, bag, permits, count, abandoned, current>>

\* Connection.Open threw: the catch block gives the slot back ...
FreeSlot(t) ==
    /\ pc[t] = "opening"
    /\ count' = [count EXCEPT ![state[t]] = @ - 1]
    /\ Goto(t, "openFailed")
    /\ UNCHANGED <<active, created, bag, permits, waiters, open, abandoned,
                   localVars>>

\* Mutant: the catch block without Semaphore.Release().
FreeSlotSilently(t) ==
    /\ pc[t] = "openFailed"
    /\ LeaveRent(t)
    /\ Goto(t, "idle")
    /\ UNCHANGED <<active, created, bag, permits, count, open, abandoned,
                   current, session>>

\* ... and wakes a waiter, before the exception leaves Rent.
SignalFreeSlot(t) ==
    /\ pc[t] = "openFailed"
    /\ Release(state[t], 1)
    /\ LeaveRent(t)
    /\ Goto(t, "idle")
    /\ UNCHANGED <<active, created, bag, count, open, abandoned, current, session>>

Rent(t) ==
    \/ CallRent(t) \/ GetOrAdd(t) \/ TryTake(t) \/ LendPooled(t)
    \/ DiscardDead(t) \/ ReadCount(t) \/ Register(t) \/ RecheckBeforeWait(t)
    \/ TakePermit(t) \/ Unregister(t) \/ RecheckAfterWait(t) \/ ReserveSlot(t)
    \/ OpenNative(t) \/ FreeSlot(t) \/ SignalFreeSlot(t)

\* Mutant: Waiters is decremented after the wait, not in a `finally`.
CancelWithoutFinally(t) ==
    /\ t \in AsyncThreads
    /\ pc[t] = "wait"
    /\ LeaveRent(t)
    /\ Goto(t, "idle")
    /\ UNCHANGED <<active, created, bag, permits, count, open, abandoned,
                   current, session>>

\* RentAsync is Rent with a cancellable wait: OperationCanceledException
\* unwinds through the `finally` without having taken a permit.
CancelWait(t) ==
    /\ t \in AsyncThreads
    /\ pc[t] = "wait"
    /\ LET left == pending[t] \cup {state[t]} IN
         waiters' = [g \in PoolIds |-> IF g \in left THEN waiters[g] - 1
                                                     ELSE waiters[g]]
    /\ pending' = [pending EXCEPT ![t] = {}]
    /\ state' = [state EXCEPT ![t] = NoPool]
    /\ Goto(t, "idle")
    /\ UNCHANGED <<active, created, bag, permits, count, open, abandoned,
                   current, session>>

-----------------------------------------------------------------------------
(* Return, called by SqliteConnection.Close. *)

\* Mutant: _session is already null when Close passes it to Return.
ReturnNull(t) ==
    /\ pc[t] = "lent"
    /\ active # NoPool
    /\ state' = [state EXCEPT ![t] = active]
    /\ session' = [session EXCEPT ![t] = NoSession]
    /\ Goto(t, "add")
    /\ UNCHANGED <<active, created, poolVars, open, abandoned, current, pending>>

\* Pools.TryGetValue: without a pool the session is disposed.
CallReturn(t) ==
    /\ pc[t] = "lent"
    /\ IF active # NoPool
       THEN /\ state' = [state EXCEPT ![t] = active]
            /\ Goto(t, "add")
            /\ UNCHANGED <<open, session>>
       ELSE /\ open' = open \ {session[t]}
            /\ session' = [session EXCEPT ![t] = NoSession]
            /\ Goto(t, "idle")
            /\ UNCHANGED state
    /\ UNCHANGED <<active, created, poolVars, abandoned, current, pending>>

\* Mutant: the closed connection keeps its reference to the session.
AddToBagAndKeep(t) ==
    /\ pc[t] = "add"
    /\ bag' = [bag EXCEPT ![state[t]] = @ \cup {session[t]}]
    /\ Goto(t, "signal")
    /\ UNCHANGED <<active, created, permits, count, waiters, open, abandoned,
                   localVars>>

\* state.Bag.Add(session)
AddToBag(t) ==
    /\ pc[t] = "add"
    /\ bag' = [bag EXCEPT ![state[t]] = @ \cup {session[t]}]
    /\ session' = [session EXCEPT ![t] = NoSession]
    /\ Goto(t, "signal")
    /\ UNCHANGED <<active, created, permits, count, waiters, open, abandoned,
                   state, current, pending>>

\* Mutant: Return without Semaphore.Release().
ReturnSilently(t) ==
    /\ pc[t] = "signal"
    /\ state' = [state EXCEPT ![t] = NoPool]
    /\ Goto(t, "idle")
    /\ UNCHANGED <<active, created, poolVars, open, abandoned, current, session,
                   pending>>

\* state.Semaphore.Release()
SignalReturn(t) ==
    /\ pc[t] = "signal"
    /\ Release(state[t], 1)
    /\ state' = [state EXCEPT ![t] = NoPool]
    /\ Goto(t, "idle")
    /\ UNCHANGED <<active, created, bag, count, waiters, open, abandoned,
                   current, session, pending>>

Return(t) == CallReturn(t) \/ AddToBag(t) \/ SignalReturn(t)

\* SqliteConnection.Open: Rent succeeded but ApplyConnectionSettings threw.
\* The session is in no field yet; it is neither returned nor disposed.
AbandonSession(t) ==
    /\ pc[t] = "lent"
    /\ Cardinality(abandoned) < MaxAbandoned
    /\ abandoned' = abandoned \cup {session[t]}
    /\ session' = [session EXCEPT ![t] = NoSession]
    /\ Goto(t, "idle")
    /\ UNCHANGED <<active, created, poolVars, open, state, current, pending>>

-----------------------------------------------------------------------------
(* Clear. *)

\* Pools.TryRemove.  The bound: a PoolState must be left for the next Rent.
CallClear(t) ==
    /\ pc[t] = "idle"
    /\ active # NoPool
    /\ created < MaxPools
    /\ active' = NoPool
    /\ state' = [state EXCEPT ![t] = active]
    /\ Goto(t, "drain")
    /\ UNCHANGED <<created, poolVars, open, abandoned, current, session, pending>>

\* Mutant: the idle sessions are disposed where they are.
DisposeInBag(t) ==
    /\ pc[t] = "drain"
    /\ open' = open \ bag[state[t]]
    /\ Goto(t, "readWaiters")
    /\ UNCHANGED <<active, created, poolVars, abandoned, localVars>>

\* while (state.Bag.TryTake(out session)) session.Dispose()
Drain(t) ==
    /\ pc[t] = "drain"
    /\ LET g == state[t] IN
       \/ \E s \in bag[g] :
            /\ bag' = [bag EXCEPT ![g] = @ \ {s}]
            /\ open' = open \ {s}
            /\ UNCHANGED pc
       \/ /\ bag[g] = {}
          /\ Goto(t, "readWaiters")
          /\ UNCHANGED <<bag, open>>
    /\ UNCHANGED <<active, created, permits, count, waiters, abandoned, localVars>>

\* int waiters = Volatile.Read(ref state.Waiters)
ReadWaiters(t) ==
    /\ pc[t] = "readWaiters"
    /\ current' = [current EXCEPT ![t] = waiters[state[t]]]
    /\ Goto(t, "broadcast")
    /\ UNCHANGED <<active, created, poolVars, open, abandoned, state, session,
                   pending>>

\* if (waiters > 0) state.Semaphore.Release(waiters)
Broadcast(t) ==
    /\ pc[t] = "broadcast"
    /\ IF current[t] > 0 THEN Release(state[t], current[t]) ELSE UNCHANGED permits
    /\ current' = [current EXCEPT ![t] = 0]
    /\ state' = [state EXCEPT ![t] = NoPool]
    /\ Goto(t, "idle")
    /\ UNCHANGED <<active, created, bag, count, waiters, open, abandoned,
                   session, pending>>

Clear(t) == CallClear(t) \/ Drain(t) \/ ReadWaiters(t) \/ Broadcast(t)

-----------------------------------------------------------------------------

Next ==
    \E t \in Threads :
        Rent(t) \/ CancelWait(t) \/ Return(t) \/ AbandonSession(t) \/ Clear(t)

\* A thread inside an operation is scheduled again, and a connection that
\* was opened is closed; whether a thread starts an operation is its choice.
Continue(t) ==
    \/ GetOrAdd(t) \/ TryTake(t) \/ LendPooled(t) \/ DiscardDead(t)
    \/ ReadCount(t) \/ Register(t) \/ RecheckBeforeWait(t) \/ TakePermit(t)
    \/ Unregister(t) \/ RecheckAfterWait(t) \/ ReserveSlot(t) \/ OpenNative(t)
    \/ FreeSlot(t) \/ SignalFreeSlot(t) \/ Return(t)
    \/ Drain(t) \/ ReadWaiters(t) \/ Broadcast(t)

Fairness == \A t \in Threads : WF_vars(Continue(t))

Spec == Init /\ [][Next]_vars

FairSpec == Spec /\ Fairness

-----------------------------------------------------------------------------
(* Properties. *)

ThreadsAt(g, labels) == {t \in Threads : state[t] = g /\ pc[t] \in labels}

\* A session is in one place: in the hands of one thread, or in one bag, or
\* nowhere.  Two connections sharing a session would run their transactions
\* on one native connection.  (Rent, Return and Clear pass sessions between
\* threads with no lock.)
SessionHasOneHolder ==
    /\ \A t, u \in Threads :
         t # u /\ session[t] # NoSession => session[t] # session[u]
    /\ \A t \in Threads, g \in PoolIds : session[t] \notin bag[g]
    /\ \A g, h \in PoolIds : g # h => bag[g] \cap bag[h] = {}
    /\ \A t \in Threads : session[t] \notin abandoned
    /\ \A g \in PoolIds : abandoned \cap bag[g] = {}

\* Nothing that can still be lent has been disposed, whoever raced with the
\* Dispose of Clear, of Return without a pool, or of a failed health check.
HeldSessionsAreOpen ==
    /\ \A t \in Threads : session[t] # NoSession => session[t] \in open
    /\ \A g \in PoolIds : bag[g] \subseteq open

Opening == {t \in Threads : pc[t] = "opening"}

\* Until the first Clear, Count is the number of open sessions and of
\* connections being opened, and never more than MaxPoolSize: no interleaving
\* of reservations, failed opens and dead sessions makes it drift.
CountIsExact ==
    MaxPools = 1 =>
        /\ count[1] = Cardinality(open) + Cardinality(Opening)
        /\ count[1] <= MaxPoolSize

\* Until the first Clear, the lock-free protocol on Bag and Count implements
\* a pool that compares the sessions that really exist with its capacity in
\* one step, and hands each of them to one client.
Bounded == INSTANCE BoundedPool WITH
    Clients  <- Threads,
    Capacity <- MaxPoolSize,
    idle     <- bag[1],
    held     <- session,
    creating <- Opening,
    lost     <- abandoned

ImplementsBoundedPool == Bounded!Spec

\* Threads that will look at the bag or at Count again, or wake one that will.
LooksAtBag == {"signal", "woken", "verify", "take"}
LooksAtPool == LooksAtBag \cup {"readCount", "cas", "openFailed"}

\* No lost wakeup.  While a thread waits on the live pool, every idle session
\* and every free slot is matched by a permit or by a thread that is about to
\* use it or to signal it.  This is what the Release in the catch block of
\* Rent is for, and the window the tests say they cannot reach.
NoLostWakeup ==
    active # NoPool /\ ThreadsAt(active, {"register", "recheck", "wait"}) # {} =>
        Cardinality(bag[active]) + (MaxPoolSize - count[active])
            <= permits[active] + Cardinality(ThreadsAt(active, LooksAtPool))

\* Waiters counts the threads between its increment and the `finally`,
\* nested calls of Rent included: what Clear reads is exact.
WaitersIsExact ==
    \A g \in PoolIds :
        waiters[g] = Cardinality(ThreadsAt(g, {"recheck", "wait", "woken"}))
                       + Cardinality({t \in Threads : g \in pending[t]})

\* Clear misses no waiter: once it is done with a PoolState, every thread
\* still in Semaphore.Wait on it has a permit to leave with.
NoStrandedWaiter ==
    \A g \in 1 .. created :
        g # active /\ ThreadsAt(g, ClearPCs) = {} =>
            Cardinality(ThreadsAt(g, {"wait"})) <= permits[g]

\* While a thread waits, some thread keeps getting a session (or an exception
\* from the native open), with one exception that the code does not handle:
\* when as many calls of Open have failed after their Rent as the pool may
\* hold sessions, every slot is lost and everybody waits for ever.  Until
\* the last slot is lost the pool never sleeps with capacity to spare.  Which
\* thread is served is not determined: a renter may take from the bag what a
\* waiter was woken for.
SomeoneIsServed ==
    \A t \in Threads :
        pc[t] = "wait" ~> \/ pc[t] # "wait"
                          \/ \E u \in Threads : pc[u] \in {"lent", "openFailed"}
                          \/ Cardinality(abandoned) >= MaxPoolSize

\* What CONNECTION_POOL_COMPARISON.md promises ("Size Limit Type: Hard
\* (guaranteed <= maxPoolSize)"): a pool never keeps more sessions than that.
IdleWithinLimit ==
    \A g \in PoolIds : Cardinality(bag[g]) <= MaxPoolSize

\* What the comment in Return promises ("disposed rather than silently
\* leaked"): a retired PoolState nobody works on holds no open session.
RetiredPoolIsEmpty ==
    \A g \in 1 .. created :
        g # active /\ (\A t \in Threads : state[t] # g) => bag[g] = {}
===============================================================================
