# TLA+ verification of CiccioSoft.Data.Sqlite

This directory holds the formal models of the ADO.NET provider
`CiccioSoft.Data.Sqlite` and of the native wrapper `CiccioSoft.Sqlite` it is
built on: TLA+ modules, TLC configurations that check them on small instances,
and theorems about them that TLAPS proves for every value of the constants.
Every definition is a translation of the C# source; `PROJECT.json` maps each one
to its lines.

## 1. Inventory

### The parts and how they interact

```
 application threads
   |  SqliteCommand --> SqliteDataReader --> SqliteSession.Gate --> SQLite
   |        |                |
   |        |                +--(statement that writes)--> SqliteConnection.AcquireWriterGate
   |        |                                                       |
   |  SqliteTransaction --BEGIN/COMMIT--> SQLite          SingleWriterCoordinator
   |        |                                             (one permit per writer key)
   |  SqliteConnection --Open--> SqliteConnectionPool.Rent
   |                   --Close-> SqliteConnectionPool.Return
   |  ClearPool ---------------> SqliteConnectionPool.Clear
```

| Component | State | Operations | What is hard | What makes it correct |
|---|---|---|---|---|
| `SqliteConnectionPool` | static dictionary of `PoolState`s: bag of idle sessions, semaphore, `Count`, `Waiters` | `Rent`, `RentAsync`, `Return`, `Clear` | lock-free: every field is changed by any thread at any time; `Clear` unlinks a `PoolState` others still use; cancellation; failing opens; dead sessions | a session has one holder and is open; `Count` = what exists and never exceeds the maximum; no lost wakeup; no stranded waiter; somebody is served while capacity is left |
| `SqliteSession` | native connection, `Gate`, dirty flag | `IsValid`, `Dispose` | shared by connection, commands, readers, timers | disposed once, never used after |
| `SingleWriterCoordinator` | static dictionary of semaphores (1 permit) | `Acquire`, `Releaser.Dispose` | the releaser lives in a field of the connection, released by many operations | one permit, given back once |
| `SqliteConnection` | `_session`, `_writerGate`, `_activeTransaction`, `_hasActiveTransaction` | `Open`, `Close`, `BeginTransaction`, `Checkpoint`, `Optimize`, `BackupDatabase`, `GetSchema` | order of the calls; exceptions in the middle; pooled close | no native transaction survives its connection (but in a session that `sqlite3_close_v2` must keep); the gate is given back |
| `SqliteTransaction` | `_connection`, `_completed` | `Commit`, `Rollback`, `Dispose` | objects that outlive their transaction; automatic rollback by SQLite; failing COMMIT | ends exactly its own transaction |
| `SqliteCommand` | text, cached statements, `_prepared` | `Prepare`, `Execute*`, `Cancel` | cursor moved before the bind; cache invalidated under an open reader; timer and cancellation racing with the answer | each statement of a batch runs once, in order |
| `SqliteDataReader` | current statement, `_prefetched`, `_hasRow`, `RecordsAffected` | `Read`, `NextResult`, `Close` | lazy first step, silent drain at close, SQLite's automatic reset of a finished statement | each row once, each statement to its end once, unless the application steps it again itself |
| `SqliteParameter(Collection)` | list of parameters | `Add`, `IndexOf`, binding | names with or without prefix, anonymous parameters | every parameter of the statement gets its value |
| connection string builders, `SqliteConnectionSettings` | dictionary of options | indexer, `Remove`, properties | synonyms, coercion, derived in-memory mode | a property and its synonyms agree |
| native wrapper (`Connection`, `Statement`, `Blob`, `Backup`) | `SafeHandle`s | open, prepare, step, close | lifetime of statements against `close_v2` | no handle freed twice |
| UTF-8 helpers, exceptions, factory, resolver, generated declarations, `ThreadingGuard` | none | conversions, constructors | none for a model checker | left to unit tests |

`PROJECT.json` lists every component with its status, and under `hazards` each
place in the code where something hard to test can go wrong, with the property
that would catch it.

### The behaviours chosen

The program's own core logic is in four places, and each has its model: the
lock-free **pool**, the **writer gate together with transactions**, the **batch
reader** with the statement cache and the binding of parameters, and the **execution of
commands side by side** (timer, cancellation, `SqliteSession.Gate`, the locks of
`SqliteConnection`, sessions that pass from one connection to the next).

## 2. Plan

1. **done** `BoundedPool` (abstract), `ConnectionPool` (detailed), `ConnectionPoolProofs`,
   `PoolWaitersProofs`, `PoolWakeupProofs`, `BoundedPoolProofs`.
2. **done** `WriterTransactions`, `WriterTransactionsProofs`.
3. **done** `ParameterBinding` (pure), `BatchExecution` (abstract) and `BatchReader`, which uses
   the first and implements the second; `BatchReaderProofs`, `BatchExecutionProofs`.
4. **done** `CommandExecution`, with what used to be planned as a module of its own, the
   lifecycle of connections over pooled sessions; `CommandExecutionProofs`.
5. **done** theorems for `NoStrandedWaiter`, `NoLostWakeup`, `RecordsAffectedIsExact` and the
   refinement of `BatchExecution`: every invariant a passing run checks is proved.
6. **open** `Prepare` and `CommandText` while a reader is open: two more actions of
   `BatchReader`, enabled at `pc = "open"`, in a run of their own.

Not planned any more: the connection string classes and the handles of the native
wrapper. Both are sequential code that one call runs through without a step in
which anything else may happen.

No module declares a recursive operator.

## 3. The modules

### ConnectionPool

One connection string. Pools of different strings share only the
dictionary, whose operations are atomic, so nothing is lost by taking one. A
`PoolState` is a number: the dictionary's entry is `active`, and `created`
numbers the `PoolState`s that `GetOrAdd` has made. `bag`, `permits`, `count` and
`waiters` are its four fields. The other variables are threads' locals, named as
in the code; `pc` names the place.

One action is one atomic step: one operation on the dictionary, the bag, the
semaphore, or an `Interlocked` field. `SELECT 1` of the health check and `Dispose` of a
session only one thread can reach are joined to a neighbouring step.

| Code | Actions |
|---|---|
| `Rent`, `RentAsync` | `CallRent`, `GetOrAdd`, `TryTake`, `LendPooled`, `DiscardDead`, `ReadCount`, `Register`, `RecheckBeforeWait`, `TakePermit`, `Unregister`, `RecheckAfterWait`, `ReserveSlot`, `OpenNative`, `FreeSlot`, `SignalFreeSlot` |
| cancellation of `RentAsync` | `CancelWait` |
| `Return` | `CallReturn`, `AddToBag`, `SignalReturn` |
| `Clear` | `CallClear`, `Drain` (once per session), `ReadWaiters`, `Broadcast` |
| `SqliteConnection.Open` failing after `Rent` | `AbandonSession` |

The recursion of `Rent` (a waiter that finds its `PoolState` retired calls `Rent`
inside the `try`) is the variable `pending`: the set of `PoolState`s whose
`finally { Waiters-- }` runs only when the nested call has returned. The
`ConcurrentBag` is a set, because the code relies on no order. `RentAsync` is the
same code with an asynchronous wait; the provider itself never calls it (`OpenAsync` runs
`Open`), the tests do.
The health check may fail for any session at any time, and so may the native open.

### BoundedPool

What the documentation promises of a pool: a session is idle or with one client,
and a new one is created only when those that exist and those being opened leave
room, decided in one step. `ConnectionPool` refines it until the first `Clear`
(`ImplementsBoundedPool`), with `idle <- bag[1]`, `held <- session`,
`creating <-` the threads in the native open, `lost <- abandoned`. After a `Clear`
it does not (see section 4, `pool_overfull`).

### WriterTransactions

Connections that write to one database under one writer key. The variables are the
fields of the C# objects (`writerGate`, `session`, `activeTx`, `owner`, `completed`)
and what SQLite keeps (`inTx`, `writeLock`, `unfinalized`). A native call is one step with
the outcomes SQLite allows; waiting for another session's lock is the step not
being taken yet, and the end of `busy_timeout` is the failing outcome.

Statements outlive calls. `unfinalized` are the sessions on which an open reader or a prepared
command still has one. Left at a row of RETURNING it keeps the write lock outside a
transaction too, and it makes COMMIT fail. `Close` finalizes no statement: without
pooling it calls `sqlite3_close_v2`, which leaves such a session as a `Zombie`, with its
transaction and its lock, until the last statement is finalized (`sqlite3.h:335-346`).

| Code | Actions |
|---|---|
| `ExecuteCurrentStatementStep` of a writing statement, with or without rows | `Start(c, "write")`, `AcquireWriterGate`, `StepWrite`, `DisposeWriterGate` |
| `Prepare` of a command, reset and finalization by a reader or a command | `PrepareStatement`, `ResetStatement`, `FinalizeStatements` |
| `Checkpoint`, `Optimize` | `Start(c, "maintenance")`, `AcquireWriterGate`, `StepMaintenance`, `DisposeWriterGate` |
| `Open`, `Close` | `Open`, `Close` (without pooling `DisposeSession`, then `DisposeWriterGate`) |
| `BeginTransaction`, getter `Transaction` | `BeginTransaction`, `ReadTransaction` |
| `SqliteTransaction.Commit`, `Rollback`, `Dispose`, `EnsureActive` | `Commit`, `Rollback`, `DisposeEnded`, `NoticeEnded` (and `DisposeWriterGate`) |
| a ROLLBACK executed as a command | `RollbackBySql` |

A connection is used by one thread at a time, as the provider's README advises, so
the connection is the actor. `Dispose` of a transaction that is still active is `Rollback`;
COMMIT and ROLLBACK may fail and leave SQLite in the transaction. `_hasActiveTransaction` is
always `_activeTransaction # null` here and is not kept apart.
The pool appears as the set `idle`; its own behaviour is `ConnectionPool`'s.

### ParameterBinding

`SqliteCommand.BindParameters` and `ResolveParameterIndex` as operators: the placeholders of
a statement and the parameters of a command are sequences, a name is its prefix and its core.
Numbered placeholders (`?NNN`) are left out.
`Means` is the reference: what a name may stand for, said without the search.

### BatchReader

One command and its reader, over and over. The cursors `sqlNext` and `cacheNext` count
statements where the code counts bytes and list entries; `bindings` is what is bound in the
statement objects. Under the reader is a statement of SQLite, `vm` and `row`: a
statement stepped after its end starts again (`sqlite3.h:5285-5296`), one that is reset
between two rows has its writes take effect, one that fails changes nothing. A statement is of one
of six kinds, which tell apart what the code asks SQLite (`sqlite3_stmt_readonly`,
`sqlite3_column_count`) and whether it sets `sqlite3_changes`: `select`, `explain` (of a query; it
exempts its batch from missing parameters), `control` (BEGIN, COMMIT: read-only without columns), `write`,
`returning`, and `other`, what writes and counts no changes (DDL, `PRAGMA user_version = 1`,
BEGIN IMMEDIATE, VACUUM).

| Code | Actions |
|---|---|
| `CommandText`, `Parameters`, `Prepare` | `SetCommandText`, `SetParameters`, `Prepare` |
| `SqliteDataReader.Create` | `ExecuteReader`, then `Advance` and `ToEnd`; its `catch` is `Throw` going to `Drain` |
| `NextResult`, `NextResultCore` | `NextResult`, `Advance` (one turn of the loop), `ToEnd` |
| `PrepareAndBindNext`, `PrepareAndBindFromCache` | `Found`, `NoNext`, `NextThrows` |
| `HasRows`, `Read`, `ReadAsync` | `HasRows`, `Read` |
| `Close`, `Dispose`, `DrainRemainingStatements` | `Close`, `Drain`, `DrainNext`, `Release` |

An action goes from one native call to the next. The application calls what it likes: `Read` and
`HasRows` past the end of a result or after a failure, `NextResult` and `Close` over a RETURNING
that is finished, under way or not begun. `applied`, `seen`, `failed`, `readOut` (statements that
write and that the application itself read to their end) and `blurred` (it read a write on after its
end or failure, or left a RETURNING by `NextResult`) are history, for the properties;
`again` counts the steps `Read` and `HasRows` make after an end or a failure, and `MaxAgain` bounds them for
one reader. `StepsMayFail` says whether prepare and step may fail. `Prepare` and `CommandText` are called
between readers only.

### BatchExecution

What a command keeps of its text, whatever is read, skipped or fails: the statements that write take
effect in order, only while a reader is open, and none is lost. They take effect at most once, *except*
those that were read to their end; and the closed reader reports what they changed, *except* when the
reading was blurred or a statement counts no changes. The exceptions are the code's, and they are in
`TakeEffect` and `End`, not in an assumption about the application. Seven variables, five actions,
no cursor and no SQLite. `BatchReader` refines it (`ImplementsBatchExecution`) with
`running <- pc # "closed"`, `effects <- applied`, `changed <- Changed`, at rest
`reported <- affected`, and `readOut` and `blurred` as they are; every step of the reader is `TakeEffect` of
the current statement, `Begin`, `Blur`, `End`, `SetText`, or a stutter.

### CommandExecution

Commands of several connections, concurrently. The command is the actor: several threads use one
connection, one thread at a time a command. The statements of a batch are
`BatchReader`'s; a reader here steps one statement. `SqliteSession.Gate` is around
`sqlite3_step` and the calls that prepare. The code resets and finalizes statements, and reads
`sqlite3_changes` and `sqlite3_get_autocommit`, outside the Gate: a reset or finalization is one step
here (SQLite's own mutex makes it one), the two queries change nothing. What the
properties say of the Gate is said of steps.

| Code | Actions |
|---|---|
| `Open`, `Close` over a pool | `Open`, `CloseBegin` (up to `Gate.Wait`), `CloseEnd` |
| `SqliteCommand.Connection`, `Prepare`, `ExecuteReader`, `Cancel` | `SetConnection`, `Prepare`, `ExecuteReader`, `Cancel` |
| `CommandExecutionScope`: timer, token, `Execute`, `Dispose` | `TimerFires`, `CancelToken`, `Enter` and `ReturnFromStep` or `ThrowFromStep`, `CloseReader`, `StrayTimerFires` |
| `ExecuteCurrentStatementStep` outside a transaction | `Read`, `Write` |
| `AcquireWriterGate` | `Write` (its test for null), `LockForGate` (lock and `EnsureOpen`), `AcquirePermit` |
| `DisposeWriterGate` | `TestDisposed` and `ReleasePermit` (`Releaser.Dispose`: the test, then the release), `ClearWriterGate` |

`syncRoot` is held across steps only where a thread waits inside it; elsewhere a step needs it
free. SQLite is the set of statements under way per session and the interrupts in effect, with the
connection each came from, so that a property can say whom an interrupt hit. When the last step of a
prepared statement failed, `CloseReader` leaves the timer of the scope armed (finding 6): its session is
then in `stray`, and `StrayTimerFires` interrupts whoever has it. `stale` marks a thread
between the test and the release of `Releaser.Dispose` whose `Releaser` is no longer in `_writerGate`.

Two constants describe the application, not the code: `SharedWrites`, whether two commands of a
connection may write at once, and `OrderlyClose`, whether a connection is closed only when its readers are
closed and its commands no longer prepared (`IsOrderly`).

### MC modules

`MCConnectionPool` and `MCCommandExecution` add the symmetry sets, `MCBatchReader` the batches,
parameters and behaviors; `MCWriterTransactions` adds nothing and
exists so that the runs of each component have a module of their own. Definitions
commented "Mutant" are wrong variants of the definition that follows them; each
property has one that violates it.

## 4. The runs

| Run | Question | Result |
|---|---|---|
| `pool_steady` | Without `Clear`: types, one holder, `Count` exact, no lost wakeup, refinement of `BoundedPool`, and progress until `Open` has lost Max Pool Size sessions | holds |
| `pool_clear` | With `Clear` racing everything: one holder, open sessions, no lost wakeup, `Waiters` exact, no stranded waiter | holds |
| `pool_overfull` | "Hard limit" of the documentation across a `Clear` | violated |
| `pool_leak` | "disposed rather than silently leaked" of the comment in `Return` | violated |
| `writer_unpooled` | Without pooling: one permit behind a connection that can release it, exclusion, a transaction is orphaned only in a session kept for an unfinalized statement, the write lock has an owner, gate wait ends, write lock freed | holds |
| `writer_deadlock` | "Deadlock-free transactions" with pooling, no failing statements | violated |
| `writer_orphan` | no orphaned transaction, with pooling | violated |
| `batch_reader` | Batches executed again and again, prepared or not, with failing steps and `Read`, `HasRows`, `NextResult`, `Close` in any order: writes in order and repeated only if read to their end, `RecordsAffected` with its exceptions, rows forward, bindings, every call ends and each of its steps leaves less to do, refinement of `BatchExecution` | holds |
| `batch_rerun` | "intentional for trailing batch statements": the drain runs no finished statement again | violated |
| `batch_close` | a closed reader has disposed its execution scope, when statements fail | violated |
| `execution_orderly` | Concurrent commands, timeouts, cancellation, sessions that change connections: the steps on a session are serialized, statements stay on their connection, only a stray timer interrupts another connection, a step gives back the Gate, the permit stays behind exactly one connection | holds |
| `execution_shared` | "thread safety across concurrent method calls": two commands of a connection write at once | violated |

### Bounds

* `pool_steady`: three threads, `MaxPoolSize` 2. The protocol's races need a waiter,
  a thread that gives capacity back and a renter on the fast path; with two sessions
  a free slot and an idle session exist at the same time. Up to `MaxAbandoned` = 2
  sessions are abandoned (`Open` lost them, `AbandonSession`): as many as `MaxPoolSize`, so that the run reaches
  the pool in which every slot is lost. From there on every `Open` blocks for ever. `SomeoneIsServed` excepts
  exactly those states, in its formula, and the run does not check for deadlock. One thread is async, so that waits with and without cancellation meet.
* `pool_clear`: three threads, `MaxPoolSize` 1, two `PoolState`s: a retired
  one with threads at every place of the code and its successor. `created < MaxPools` in
  `CallClear` and `GetOrAdd` is the bound, and keeps a `PoolState` for the `Rent` that
  follows the last `Clear`. Three sessions: one per `PoolState` and one in the hands of
  the thread that opened before `Clear`.
* `SemaphoreMax` stands for `int.MaxValue` (`new SemaphoreSlim(0, int.MaxValue)`,
  `SqliteConnectionPool.cs:20`). In `pool_steady` it is 7 = 2 + 2 + 3, the smallest value for which
  `RoomForSignals` holds (section 5), so that the run is an instance of the theorem. In `pool_clear` it is
  4 = 2 * (3 - 1), which satisfies `RoomForBroadcast` but not `RoomForSignals`: permits pile up to the
  maximum there (the fast path takes none), `Release` throws, and the invariants hold across it.
* `writer_*`: two connections; a third adds only another waiter. Two sessions, so that a connection
  can be opened again while its old session is a zombie. One transaction
  for the deadlock, two elsewhere, so that a stale object meets a newer transaction.
* `batch_*`: seven batches of two or three statements cover every kind of statement before and
  after every other that matters: a query between writes, a write that returns a row and one
  that finds none, one that counts no changes (after which `sqlite3_changes` is stale), BEGIN and COMMIT around
  a write, an EXPLAIN, two spellings of a name, an anonymous
  placeholder. Two rows are enough for a first, a next and a last. Six lists of
  parameters hold every outcome of the search. The command is used without limit. `MaxAgain` = 1
  bounds the steps after an end or a failure: one is enough to start a finished
  statement again, and what it returns is then read freely.
* `execution_orderly`: two commands on two connections and two sessions (416,054 states up to symmetry).
  The two commands may be on one connection or on two (`SetConnection` moves them), so every pair of
  sites meets, and a session can return to
  the pool and come back through either connection. A third command adds a bystander, and takes the run beyond
  five minutes; the theorems have any number. Nothing else is bounded.
  `execution_shared` needs two commands of one connection.

Symmetry is used in the runs without temporal properties only, and only where all
threads have the same role; the commands, connections and sessions of `CommandExecution` have.

`CHECK_DEADLOCK` is off in `pool_steady` only, where everybody may really block (above).

### Fairness

* `ConnectionPool`: weak fairness of each thread's next step *inside* an operation,
  and of `Return`: the operating system runs threads, and a connection that was opened is
  closed. Nothing obliges a thread to call `Rent` or `Clear`, or a wait to be cancelled.
  `TakePermit` needs no strong fairness for `SomeoneIsServed`, which says that somebody
  keeps being served (while fewer than `MaxPoolSize` sessions are lost), not who: a renter on the fast path can overtake a waiter for
  ever, so a property for each waiter would be false of the code.
* `WriterTransactions`: weak fairness of native calls and of the steps between them
  (`busy_timeout` ends a native wait); strong fairness of `AcquireWriterGate`
  (`SemaphoreSlim` does not pass over a waiter for ever) and of `Close` (the
  application closes what it opened, whenever it may do so); weak fairness of `FinalizeStatements` (a reader or
  a prepared command is disposed in the end, or its statement's `SafeHandle` is collected), without which
  a zombie keeps the write lock. Without pooling this suffices for
  `GateWaitEnds` and `WriteLockIsFreed`; with pooling it does not, which is the finding of `writer_deadlock`.
* `BatchReader`: weak fairness of the reader's own steps inside a call (a thread that called `Read` or
  `Close` runs on, a native step returns). What the application calls, and when, is free.
  `CallsEnd` needs no fairness about failures: the drain ends whether they happen or not.
* `CommandExecution`: none; its properties are safety.

### Findings

1. `pool_overfull` — a session rented before `Clear` is returned to the successor pool,
   beyond its `Max Pool Size`.
2. `pool_leak` — `Return` adds to the bag of a `PoolState` that `Clear` has already
   emptied: the session is neither lent nor disposed.
3. `writer_deadlock` — BEGIN IMMEDIATE bypasses the writer gate. A transaction holding SQLite's
   lock waits for the gate; the gate's holder fails with SQLITE_BUSY, keeps the gate
   (the exception skips `DisposeWriterGate`), and a pooled `Close` keeps it too.
4. `writer_orphan` — a pooled `Close` puts a session back with its transaction open. (Without pooling
   the same property fails for another reason, the zombie of `sqlite3_close_v2`; how far, is
   `OrphanHasStatement`.)
5. `batch_rerun` — after `Read` has returned false the reader keeps its finished statement, and the
   drain of `Close` steps it again: `INSERT ... RETURNING` inserts twice. After `HasRows` on a
   statement that returns nothing, `Close` executes it a second time too.
6. `batch_close` — a prepared statement that failed makes `ReleaseStatement` throw out of
   `Close`, after `_closed` is set and before the execution scope is disposed.
7. `execution_shared` — `DisposeWriterGate` overwrites a `_writerGate` acquired since its
   `Dispose`: the permit of the writer key is lost for good. (`Releaser.Dispose` tests and sets `_disposed`
   without synchronization, so the same two commands can also give the permit back twice.)

Met while modelling, without a run:

* With `OrderlyClose = FALSE`, `OneStepPerSession`, `OnlyStrayTimersCross` and `StatementRunsOnItsConnection` all
  fail, because a reader, a timer or a prepared statement outlives the connection's hold on its session.
* A timer that fires while no statement runs is spent without effect.
* `NextResult` after an `INSERT ... RETURNING` read to its end adds `sqlite3_changes` a second time
  (`SqliteDataReader.cs:807` and `646`); left before its first step, the statement is never executed and
  what is added is of the statement before. `blurred` marks these readers, and those that step a write on after its end.
* A statement that writes but counts no changes (DDL, `PRAGMA user_version = 1`, BEGIN IMMEDIATE, VACUUM) adds the
  changes of the statement before once more (`SqliteDataReader.cs:966`); batches with one are excepted from
  `RecordsAffectedIsExact`. `sqlite3_changes` is read after the Gate was given back (`SqliteDataReader.cs:967`), so
  that another command of the connection may write in between; `BatchReader` has one command.
* The third `Read` past the end of a result starts the statement again, and returns its first row.
* Unpooled `Close` over a statement that is not finalized leaves SQLite's transaction and write lock to a zombie
  (`SqliteConnection.cs:169`) until the statement is finalized.
* A `Dispose` of a transaction completed long ago clears `_activeTransaction` of a newer one (`SqliteTransaction.cs:116`),
  and `DisposeWriterGate` then takes the newer one's gate (`SqliteConnection.cs:234` is another way). `GateHasOneHolder` and
  `OneWriterInNative` show that the permit is not duplicated and that native writes do not overlap, not that the
  newer transaction keeps its gate: it does not, and takes it again at its next write.
* The drain binds trailing statements without asking for missing parameters.

## 5. The proofs

Eight modules hold theorems, all checked by `tlapm`. The only
assumptions are `ConstantsAssumption` of each module (the constants have their types, the set of
threads is finite, null is not an object, maxima are positive) and, in `BatchReader`, that batches,
parameters and behaviors have their types. What a theorem needs beyond them is written in its
statement. The numbers of threads, sessions,
connections, commands, transactions, `PoolState`s, statements and rows are arbitrary.

| Theorem | Statement |
|---|---|
| `ConnectionPoolProofs!TypeCorrect` | `Spec => []TypeOK` |
| `ConnectionPoolProofs!ExclusiveSessions` | `Spec => []SessionHasOneHolder` |
| `ConnectionPoolProofs!LiveSessions` | `Spec => []HeldSessionsAreOpen` |
| `PoolWaitersProofs!WaitersCorrect` | `Spec => []WaitersIsExact` |
| `PoolWakeupProofs!ClearStrandsNobody` | `RoomForBroadcast /\ Spec => []NoStrandedWaiter` |
| `PoolWakeupProofs!WakeupsKept` | `RoomForSignals /\ Spec => []NoLostWakeup` |
| `BoundedPoolProofs!CountCorrect` | `Spec => []CountIsExact` |
| `BoundedPoolProofs!Refinement` | `MaxPools = 1 /\ Spec => ImplementsBoundedPool` |
| `WriterTransactionsProofs!TypeCorrect` | `Spec => []TypeOK` |
| `WriterTransactionsProofs!GateCorrect` | `Spec => []GateHasOneHolder` |
| `WriterTransactionsProofs!GateExcludes` | `Spec => []OneWriterInNative` |
| `WriterTransactionsProofs!OrphansHaveStatements` | `~Pooling /\ Spec => []OrphanHasStatement` |
| `WriterTransactionsProofs!PermitRecoverable` | `~Pooling /\ Spec => []HolderCanRelease` |
| `WriterTransactionsProofs!WriteLockOwned` | `~Pooling /\ Spec => []WriteLockHasHolder` |
| `BatchReaderProofs!TypeCorrect` | `Spec => []TypeOK` |
| `BatchReaderProofs!BindingsCorrect` | `Spec => []BindingsMatch` |
| `BatchReaderProofs!WritesInOrder` | `Spec => []WritesOnceInOrder` |
| `BatchReaderProofs!RowsForward` | `Spec => []ForwardOnly` |
| `BatchReaderProofs!CallsAreFinite` | `Spec => CallsShorten` |
| `BatchExecutionProofs!RecordsExact` | `Spec => []RecordsAffectedIsExact` |
| `BatchExecutionProofs!Refinement` | `Spec => ImplementsBatchExecution` |
| `CommandExecutionProofs!TypeCorrect` | `Spec => []TypeOK` |
| `CommandExecutionProofs!GateReleased` | `Spec => []GateHeldOnlyInNative` |
| `CommandExecutionProofs!PermitKept` | `~SharedWrites /\ Spec => []PermitHasHolder` |
| `CommandExecutionProofs!NoSelfWait` | `~SharedWrites /\ Spec => []NoWaitForOwnPermit` |
| `CommandExecutionProofs!StepsSerialized` | `OrderlyClose /\ Spec => []OneStepPerSession` |
| `CommandExecutionProofs!StatementOnItsSession` | `OrderlyClose /\ Spec => []StatementRunsOnItsConnection` |
| `CommandExecutionProofs!InterruptsStay` | `OrderlyClose /\ Spec => []OnlyStrayTimersCross` |

**Pool.** `TypeOK` is not inductive: a thread at `add` puts its local `session` in a
bag, and one at `take` indexes with its local `state`. `LocalsOK` says at which places
the local holds a session and at which a `PoolState`; `LocalsInv`, both together, is
inductive. `SessionInv` adds the two session properties and `AbandonedAreOpen`,
without which a newly opened session might be one that was abandoned. A step moves a session only
from the thread, bag or void where it was to one other place, so exclusion is kept
whatever the other threads do.

**Waiters.** A step changes `Waiters` by as much as it changes what its own thread
contributes (`Own`), and leaves the contributions of the others alone (`WaitersMove`). A
thread in a nested `Rent` would be counted twice if it came back to a `PoolState` it had left:
`PendingRetired` says that such a `PoolState` is out of the dictionary for good.

**Stranded waiters.** Under `RoomForBroadcast`, `2 * (Cardinality(Threads) - 1) <= SemaphoreMax`. Nobody
begins to wait on a retired `PoolState` (`WaitingShrinks`; the second look at the dictionary is what
makes this true), and only the thread that unlinked it clears it (`ClearsOnce`). So the number that thread reads
from `Waiters` covers everybody who waits, until it releases (`BroadcastSuffices`, from `WaitersIsExact`),
and the release is not refused.

**Lost wakeups.** `NoLostWakeup` bounds the idle sessions and free slots, while somebody blocks, by permits and threads
that will look. It is not inductive, because a renter that finds `Count` at the maximum blocks without
looking at the bag again. `IdleMatched` is what it relies on: at all times every idle
session has a permit or a thread of its own that will look at the bag. No step then adds
more to take than it adds permits and threads that look (`LostWakeupStep`). The semaphore must not refuse a release; how much room that
needs is subtle, because after a `Clear` `Count` can sink *below zero* (a dead session of a retired
`PoolState` gives up a slot of the live one) and the free slots exceed `MaxPoolSize`. `CountBounded` says how far: by
at most the sessions and threads there are. Hence `RoomForSignals`,
`MaxPoolSize + Cardinality(Sessions) + Cardinality(Threads) <= SemaphoreMax`. Both hypotheses
are justified by `int.MaxValue` in the constructor: they fail only for a process with about 2^31 of these.

**Count and the refinement.** Stated until the first `Clear` (`MaxPools = 1`), because after it they are
false of the code. `CountInv` adds to `SessionInv` that the one `PoolState` stays in the
dictionary, that every open session is in the bag, in a hand or abandoned (`OpenAccounted`; so
the sessions that exist for `BoundedPool` are exactly the open ones), that `Count` is exact, and that a thread
at `cas` has read a value below the maximum. The compare-and-swap then succeeds only when
`BoundedPool` has room. Every other step is one of `BoundedPool`'s or a stutter.

**Gate.** `GateHasOneHolder` together with the types is inductive by itself (the types need it:
`DisposeWriterGate` adds a permit only when its connection holds the gate, so the
semaphore has none). Exclusion follows from the addition that a connection inside a native
write has its `_writerGate` set.

**Orphans.** `SessionsApart` (open connections do not share a session) and `NativeIsBegun`
(SQLite's transaction has a `SqliteTransaction`). Without pooling a `Close` that finds no unfinalized statement ends the native
transaction, and one that finds some leaves a `Zombie`, which no connection gets again and only
`FinalizeStatements` ends. With pooling that step fails, and `writer_orphan` shows how.

**Permit and lock without pooling.** `HolderCanRelease` needs that a connection waits for the gate, and steps,
with its session (`SteppersOpen`). `WriteLockHasHolder` follows from `LockInv` (the lock is held
between calls only inside a transaction or over an unfinalized statement; pooled or not) and the orphan invariant. They are the safety
halves of `GateWaitEnds` and `WriteLockIsFreed`.

**Bindings.** `ResolveSound` is the heart: a number that `ResolveParameterIndex` returns is that of a
placeholder the name means, and of the only one unless it is written exactly so. It needs that the
set of spellings found has one element, hence the cardinality theorems. The rest is that bindings are cleared or
replaced before a statement becomes current, also when the bind throws half way.

**Writes in order.** `OnceInv`: every effect is of a statement behind the cursor
(`AppliedIsPassed`); a current write that is not at its end has no effect yet, and one at its end is
left at once, unless the application read it to its end itself (`CurrentIsPending`, where `readOut` is the exception of
the property); a statement that is left is not at a row (`StatementsEnd`). So whatever is called, a step that writes finds the
current statement in a state in which it may take effect (`MayTakeEffect`), and appends to `applied` only it.

**RecordsAffected.** `Changed` is a recursive function. What it computes is found by taking the least length at which
it would be wrong (`LeastElement`, from the library's theorem that `<` is well-founded on the naturals), which
gives that it exists (`TotalsExist`), does not depend on what comes later (`TotalsAgree`) and grows by the size of what is
appended (`ChangedGrows`). The invariant `AffectedInv` adds to `OnceInv` that, for a batch and a reading the property
does not except (`Counting`), `_recordsAffected` equals `Changed`, except between the end of a
write and the next turn of the loop of `NextResultCore`, where `sqlite3_changes` is what is missing (`AllRecorded`,
`EndRecorded` for the steps that reach an end, the drain's second run of a finished RETURNING among them),
and that wherever the reader asks `sqlite3_changes` the answer is of the current statement or zero
(`ChangesAreCurrent`). Leaving a RETURNING by `NextResult` breaks the latter, and sets `blurred`.

**The abstract batch.** Every native step inside a call gives effect to the current statement,
which is greater than all that had one or was read to its end, or to none (`NativeStepEffect`; `BatchInsideCall` says
which step of `BatchExecution` it is, `Blur` where only the history moves). `Release` ends with a right report by
`AffectedInv`, or with any under `End`'s exceptions.

**Calls are finite.** From the types alone: a step that stays inside a call finds another statement, or comes to a later
station of the walk, or takes a row (`StatementTaken`, `RowTaken`).

**Rows forward.** `FlagsTellRow` says what `_prefetched`, `_readStarted` and `_hasRow` imply for
SQLite's row until the statement is begun again (`again = 0`); nothing is asked of the application.

**Commands.** For `PermitHasHolder`: the writing commands of a connection are apart
(`WritersApart`), so nobody stores a new `Releaser` between `Dispose` and the assignment of null, and nobody else passes the
test of `_disposed` before the release: a thread at `ReleasePermit` has the `Releaser` of its connection, which
is held, and none is `stale` (`GateFollowsWriter`). The holder may be a closed connection, since a pooled `Close`
keeps the gate after a failed write; `writer_deadlock` is about what follows. For the
properties about sessions: under `OrderlyClose` everything a command keeps
(reader, statement, prepared statements, timer) names the session its connection has
(`CommandsFollowSession`), and an interrupt in effect has a running statement of the connection that
caused it, or came from a stray timer (`InterruptsFollowSession`), so a session goes back to the pool with none but those.

**Only model-checked.** Liveness: `SomeoneIsServed`, `GateWaitEnds`, `WriteLockIsFreed`, `CallsEnd`. It
is outside the prover's reach, as is `ENABLED`. What of each is safety is proved: `NoLostWakeup` and
`NoStrandedWaiter`, `HolderCanRelease`, `WriteLockHasHolder`, `CallsShorten`. Every invariant and
both refinements that the passing runs check are theorems.

## 6. What is not modelled

* `Prepare` and `CommandText` while a reader is open (section 2, item 6), and `AcquireCachedStatement`, which
  has no caller.
* Numbered placeholders (`?NNN`), `CommandBehavior.CloseConnection`, an EXPLAIN of a statement that writes, and what BEGIN
  and COMMIT of a batch do to the writes around them (an effect is the statement's, not the commit's).
* In `CommandExecution`, native calls outside the Gate as steps that could overlap: a reset or finalization is one step,
  `sqlite3_changes` and `sqlite3_get_autocommit` are not there.
* The column accessors, `GetSchemaTable`, and the conversions of values: they read the current row.
* Editing a `SqliteParameterCollection`, the connection string classes: sequential, without steps to interleave.
* Blob, Backup, user functions and the other handles of the native wrapper: one handle each, used inside one call.
* A command inside a transaction *and* concurrent with others of its connection: `WriterTransactions` has
  the transaction and one thread per connection, `CommandExecution` the threads and no transaction.
* Network, disk and the WAL file of SQLite itself: external. SQLite appears by what its calls do to
  transactions, locks, statements and interrupts. `src/CiccioSoft.Sqlite/Generate/sqlite3.h`, the
  largest file of the repository, is SQLite's own header, from which the P/Invoke declarations are generated.
* UTF-8 conversion, exceptions, the factory, the resolver, generated declarations, and
  `ThreadingGuard`, which nothing uses: no state worth exploring.
* Finalizers: a leaked session's `SafeHandle` may be released by one at an unspecified time.
