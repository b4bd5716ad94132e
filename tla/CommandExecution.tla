--------------------------- MODULE CommandExecution ---------------------------
(***************************************************************************)
(* Commands of several connections running their statements at once:       *)
(* CommandExecutionScope (the timer, the interrupt, SqliteSession.Gate),   *)
(* the writer gate a write takes around its step, with the locks of        *)
(* SqliteConnection one by one, the statements Prepare keeps, and pooled   *)
(* sessions that pass from one connection to the next.                     *)
(*                                                                         *)
(* A command is the actor: it is called by one thread at a time, and the   *)
(* commands of one connection by several.  lock(_syncRoot) is kept only    *)
(* where a thread waits inside it; every other use is one step that needs  *)
(* it free.  Transactions are WriterTransactions', the statements of a     *)
(* batch BatchReader's: here a reader steps one statement, and the drain   *)
(* of its Close is such steps.                                             *)
(*                                                                         *)
(* The Gate is around sqlite3_step and the calls that prepare.  The reset  *)
(* or finalization of a statement is made without it; SQLite's own mutex   *)
(* (the FullMutex flag) makes each such call one step.  sqlite3_changes    *)
(* and sqlite3_get_autocommit, read without it too, change nothing here.   *)
(***************************************************************************)
EXTENDS Integers, FiniteSets

CONSTANTS
    Commands,       \* SqliteCommand objects
    Connections,    \* SqliteConnection objects of one pooled connection string
    Sessions,       \* SqliteSession objects the pool lends
    NoSession, Nobody, \* null, no owner
    SharedWrites,   \* two commands of one connection may write at once
    OrderlyClose    \* a connection is closed after its readers, and its
                    \* commands are then no longer prepared

ASSUME ConstantsAssumption ==
    /\ NoSession \notin Sessions
    /\ Nobody \notin Commands \cup Connections
    /\ {SharedWrites, OrderlyClose} \subseteq BOOLEAN

VARIABLES
    session,     \* SqliteConnection._session
    closing,     \* local of Close: the session it took and waits for
    syncRoot,    \* who waits inside lock(_syncRoot)
    writerGate,  \* _writerGate: "null", a Releaser that "held", or "disposed"
    permits,     \* SingleWriterCoordinator: CurrentCount of the key's gate
    gate,        \* who holds SqliteSession.Gate
    connection,  \* SqliteCommand._connection
    preparedOn,  \* the session of _preparedStatements; NoSession without any
    reader,      \* SqliteDataReader._session; NoSession when none is open
    target,      \* the session the reader's statement was prepared on
    timerOn,     \* the session the timer of the scope is going to interrupt
    failed,      \* the last step of the reader's prepared statement threw
    stray,       \* sessions with a timer that no open reader has any more
    canceled,    \* the token given to ReadAsync is canceled
    pc,          \* where the command's thread is
    writes,      \* local: the statement is not read-only
    stale,       \* local: the Releaser in hand is not in _writerGate any more
    running,     \* SQLite: the commands whose statement is under way
    interrupted  \* SQLite: whose interrupt is in effect, as connections;
                 \* Nobody for that of a stray timer

connectionVars == <<session, closing>>
lockVars == <<syncRoot, writerGate, permits, stale>>
commandVars == <<connection, preparedOn>>
readerVars == <<reader, target, timerOn, failed, stray>>
engineVars == <<running, interrupted>>
vars == <<session, closing, syncRoot, writerGate, permits, gate, connection,
          preparedOn, reader, target, timerOn, failed, stray, canceled, pc,
          writes, stale, running, interrupted>>

SessionOrNone == Sessions \cup {NoSession}

TypeOK ==
    /\ session \in [Connections -> SessionOrNone]
    /\ closing \in [Connections -> SessionOrNone]
    /\ syncRoot \in [Connections -> Commands \cup {Nobody}]
    /\ writerGate \in [Connections -> {"null", "held", "disposed"}]
    /\ permits \in {0, 1}
    /\ gate \in [Sessions -> Commands \cup {Nobody}]
    /\ connection \in [Commands -> Connections]
    /\ preparedOn \in [Commands -> SessionOrNone]
    /\ reader \in [Commands -> SessionOrNone]
    /\ target \in [Commands -> SessionOrNone]
    /\ timerOn \in [Commands -> SessionOrNone]
    /\ failed \in [Commands -> BOOLEAN]
    /\ stray \subseteq Sessions
    /\ canceled \in [Commands -> BOOLEAN]
    /\ pc \in [Commands -> {"ready", "lock", "acquire", "gate", "native",
                            "dispose", "release", "null"}]
    /\ stale \subseteq Commands
    /\ writes \in [Commands -> BOOLEAN]
    /\ running \in [Sessions -> SUBSET Commands]
    /\ interrupted \in [Sessions -> SUBSET (Connections \cup {Nobody})]

Init ==
    /\ session = [c \in Connections |-> NoSession]
    /\ closing = [c \in Connections |-> NoSession]
    /\ syncRoot = [c \in Connections |-> Nobody]
    /\ writerGate = [c \in Connections |-> "null"]
    /\ permits = 1
    /\ gate = [s \in Sessions |-> Nobody]
    /\ connection \in [Commands -> Connections]
    /\ preparedOn = [k \in Commands |-> NoSession]
    /\ reader = [k \in Commands |-> NoSession]
    /\ target = [k \in Commands |-> NoSession]
    /\ timerOn = [k \in Commands |-> NoSession]
    /\ failed = [k \in Commands |-> FALSE]
    /\ stray = {}
    /\ canceled = [k \in Commands |-> FALSE]
    /\ pc = [k \in Commands |-> "ready"]
    /\ writes = [k \in Commands |-> FALSE]
    /\ stale = {}
    /\ running = [s \in Sessions |-> {}]
    /\ interrupted = [s \in Sessions |-> {}]

CommandsOf(c) == {k \in Commands : connection[k] = c}
IsOpen(c) == session[c] # NoSession
Goto(k, label) == pc' = [pc EXCEPT ![k] = label]
Finish(k) == Goto(k, "ready") /\ writes' = [writes EXCEPT ![k] = FALSE]

-----------------------------------------------------------------------------
(* SQLite: statements under way and sqlite3_interrupt. *)

\* An interrupt without a running statement does nothing, otherwise it stays
\* until none runs.
Interrupt(s, c) ==
    interrupted' = IF running[s] = {} THEN interrupted
                   ELSE [interrupted EXCEPT ![s] = @ \cup {c}]

StartStatement(k, s) ==
    /\ running' = [running EXCEPT ![s] = @ \cup {k}]
    /\ UNCHANGED interrupted

EndStatement(k, s) ==
    /\ running' = [running EXCEPT ![s] = @ \ {k}]
    /\ interrupted' = IF running[s] \subseteq {k}
                      THEN [interrupted EXCEPT ![s] = {}] ELSE interrupted

-----------------------------------------------------------------------------
(* SqliteConnection: Open and Close over a pool. *)

Lent == {session[c] : c \in Connections} \cup {closing[c] : c \in Connections}

Open(c) ==
    /\ syncRoot[c] = Nobody
    /\ ~IsOpen(c) /\ closing[c] = NoSession
    /\ \E s \in Sessions \ Lent : session' = [session EXCEPT ![c] = s]
    /\ UNCHANGED <<closing, lockVars, gate, commandVars, readerVars, canceled,
                   pc, writes, engineVars>>

\* An assumption about the application, not a test of the code: readers are
\* closed and commands no longer prepared before their connection is closed.
IsOrderly(c) ==
    \A k \in CommandsOf(c) : reader[k] = NoSession /\ preparedOn[k] = NoSession

\* Close, to the point where it waits for the Gate of the session.
CloseBegin(c) ==
    /\ syncRoot[c] = Nobody
    /\ IsOpen(c)
    /\ OrderlyClose => IsOrderly(c)
    /\ session' = [session EXCEPT ![c] = NoSession]
    /\ closing' = [closing EXCEPT ![c] = session[c]]
    /\ UNCHANGED <<lockVars, gate, commandVars, readerVars, canceled, pc, writes,
                   engineVars>>

\* ... has it, gives it back, and the session to the pool.
CloseEnd(c) ==
    /\ closing[c] # NoSession
    /\ gate[closing[c]] = Nobody
    /\ closing' = [closing EXCEPT ![c] = NoSession]
    /\ UNCHANGED <<session, lockVars, gate, commandVars, readerVars, canceled,
                   pc, writes, engineVars>>

-----------------------------------------------------------------------------
(* SqliteCommand. *)

\* Mutant: the prepared statements stay with the command.
SetConnectionOnly(k, c) ==
    /\ pc[k] = "ready" /\ reader[k] = NoSession
    /\ connection' = [connection EXCEPT ![k] = c]
    /\ UNCHANGED <<connectionVars, lockVars, gate, preparedOn, readerVars,
                   canceled, pc, writes, engineVars>>

\* Connection (set), and with c the connection it has, CommandText (set):
\* InvalidateStatementCache.
SetConnection(k, c) ==
    /\ pc[k] = "ready" /\ reader[k] = NoSession
    /\ connection' = [connection EXCEPT ![k] = c]
    /\ preparedOn' = [preparedOn EXCEPT ![k] = NoSession]
    /\ UNCHANGED <<connectionVars, lockVars, gate, readerVars, canceled, pc,
                   writes, engineVars>>

\* A short call under the Gate of the connection's session.
MayCall(k) ==
    LET c == connection[k] IN
    /\ pc[k] = "ready" /\ syncRoot[c] = Nobody
    /\ IsOpen(c) /\ gate[session[c]] = Nobody

Prepare(k) ==
    /\ MayCall(k)
    /\ reader[k] = NoSession /\ preparedOn[k] = NoSession
    /\ preparedOn' = [preparedOn EXCEPT ![k] = session[connection[k]]]
    /\ UNCHANGED <<connectionVars, lockVars, gate, connection, readerVars,
                   canceled, pc, writes, engineVars>>

\* ExecuteReader: the scope is created, its timer started, the statement
\* prepared or taken from those Prepare left.
ExecuteReader(k) ==
    LET s == session[connection[k]] IN
    /\ MayCall(k)
    /\ reader[k] = NoSession
    /\ reader' = [reader EXCEPT ![k] = s]
    /\ target' = [target EXCEPT ![k] =
                     IF preparedOn[k] = NoSession THEN s ELSE preparedOn[k]]
    /\ timerOn' = [timerOn EXCEPT ![k] = s]
    /\ canceled' = [canceled EXCEPT ![k] = FALSE]
    /\ UNCHANGED <<connectionVars, lockVars, gate, commandVars, failed, stray, pc,
                   writes, engineVars>>

\* Mutant: the registrations of the scope are not disposed.
CloseReaderOnly(k) ==
    /\ pc[k] = "ready" /\ reader[k] # NoSession
    /\ reader' = [reader EXCEPT ![k] = NoSession]
    /\ target' = [target EXCEPT ![k] = NoSession]
    /\ EndStatement(k, target[k])
    /\ UNCHANGED <<connectionVars, lockVars, gate, commandVars, timerOn, failed,
                   stray, canceled, pc, writes>>

\* Close of the reader, after the steps of its drain: the statement is reset
\* or finalized, without the Gate, and the scope is disposed.  But
\* sqlite3_reset reports the error of the last step, Statement.Reset throws
\* it, and the timer of the scope is left to fire on its own.
CloseReader(k) ==
    /\ pc[k] = "ready" /\ reader[k] # NoSession
    /\ reader' = [reader EXCEPT ![k] = NoSession]
    /\ target' = [target EXCEPT ![k] = NoSession]
    /\ EndStatement(k, target[k])
    /\ timerOn' = [timerOn EXCEPT ![k] = NoSession]
    /\ stray' = IF failed[k] THEN stray \cup ({timerOn[k]} \ {NoSession}) ELSE stray
    /\ failed' = [failed EXCEPT ![k] = FALSE]
    /\ UNCHANGED <<connectionVars, lockVars, gate, commandVars, canceled, pc, writes>>

\* A stray timer fires, whoever has the session by then.  Two of them on one
\* session are not told apart: the first may leave the second.
StrayTimerFires(s) ==
    /\ s \in stray
    /\ Interrupt(s, Nobody)
    /\ stray' \in {stray, stray \ {s}}
    /\ UNCHANGED <<connectionVars, lockVars, gate, commandVars, reader, target,
                   timerOn, failed, canceled, pc, writes, running>>

\* The timer, on its own thread, whatever the command is doing; once.
TimerFires(k) ==
    /\ timerOn[k] # NoSession
    /\ Interrupt(timerOn[k], connection[k])
    /\ timerOn' = [timerOn EXCEPT ![k] = NoSession]
    /\ UNCHANGED <<connectionVars, lockVars, gate, commandVars, reader, target,
                   failed, stray, canceled, pc, writes, running>>

\* The token of ReadAsync, registered while Execute runs.
CancelToken(k) ==
    /\ pc[k] \in {"gate", "native"} /\ ~canceled[k]
    /\ canceled' = [canceled EXCEPT ![k] = TRUE]
    /\ Interrupt(reader[k], connection[k])
    /\ UNCHANGED <<connectionVars, lockVars, gate, commandVars, readerVars, pc,
                   writes, running>>

\* SqliteCommand.Cancel.
Cancel(k) ==
    LET c == connection[k] IN
    /\ syncRoot[c] = Nobody /\ IsOpen(c)
    /\ running[session[c]] # {}
    /\ Interrupt(session[c], c)
    /\ UNCHANGED <<connectionVars, lockVars, gate, commandVars, readerVars,
                   canceled, pc, writes, running>>

-----------------------------------------------------------------------------
(* SqliteDataReader.ExecuteCurrentStatementStep, outside a transaction. *)

Read(k) ==
    /\ pc[k] = "ready" /\ reader[k] # NoSession
    /\ writes' = [writes EXCEPT ![k] = FALSE]
    /\ Goto(k, "gate")
    /\ UNCHANGED <<connectionVars, lockVars, gate, commandVars, readerVars,
                   canceled, engineVars>>

\* Mutant: HasWriteLock and the null check of AcquireWriterGate are dropped.
WriteAcquiring(k) ==
    LET c == connection[k] IN
    /\ pc[k] = "ready" /\ reader[k] # NoSession
    /\ syncRoot[c] = Nobody
    /\ writes' = [writes EXCEPT ![k] = TRUE]
    /\ Goto(k, "lock")
    /\ UNCHANGED <<connectionVars, lockVars, gate, commandVars, readerVars,
                   canceled, engineVars>>

\* HasActiveTransaction takes the lock; then HasWriteLock is read without it.
\* Its second reading in AcquireWriterGate is not told apart from the first.
Write(k) ==
    LET c == connection[k] IN
    /\ pc[k] = "ready" /\ reader[k] # NoSession
    /\ syncRoot[c] = Nobody
    /\ \/ SharedWrites
       \/ \A j \in CommandsOf(c) \ {k} : pc[j] = "ready" \/ ~writes[j]
    /\ writes' = [writes EXCEPT ![k] = TRUE]
    /\ Goto(k, IF writerGate[c] = "null" THEN "lock" ELSE "gate")
    /\ UNCHANGED <<connectionVars, lockVars, gate, commandVars, readerVars,
                   canceled, engineVars>>

\* AcquireWriterGate: the lock is taken; EnsureOpen throws on a closed
\* connection.
LockForGate(k) ==
    LET c == connection[k] IN
    /\ pc[k] = "lock"
    /\ syncRoot[c] = Nobody
    /\ IF IsOpen(c)
       THEN /\ syncRoot' = [syncRoot EXCEPT ![c] = k]
            /\ Goto(k, "acquire") /\ UNCHANGED writes
       ELSE Finish(k) /\ UNCHANGED syncRoot
    /\ UNCHANGED <<connectionVars, writerGate, permits, stale, gate, commandVars,
                   readerVars, canceled, engineVars>>

\* Other commands of k's connection that hold the Releaser _writerGate has now.
Disposing(k) == {j \in CommandsOf(connection[k]) \ {k} : pc[j] = "release"}

\* Mutant: the permit is taken without waiting for it.
AcquireAtOnce(k) ==
    LET c == connection[k] IN
    /\ pc[k] = "acquire"
    /\ permits' = permits - 1
    /\ writerGate' = [writerGate EXCEPT ![c] = "held"]
    /\ syncRoot' = [syncRoot EXCEPT ![c] = Nobody]
    /\ stale' = stale \cup Disposing(k)
    /\ Goto(k, "gate")
    /\ UNCHANGED <<connectionVars, gate, commandVars, readerVars, canceled, writes,
                   engineVars>>

\* SingleWriterCoordinator.Acquire, inside the lock.
AcquirePermit(k) ==
    LET c == connection[k] IN
    /\ pc[k] = "acquire"
    /\ permits > 0
    /\ permits' = permits - 1
    /\ writerGate' = [writerGate EXCEPT ![c] = "held"]
    /\ syncRoot' = [syncRoot EXCEPT ![c] = Nobody]
    /\ stale' = stale \cup Disposing(k)
    /\ Goto(k, "gate")
    /\ UNCHANGED <<connectionVars, gate, commandVars, readerVars, canceled, writes,
                   engineVars>>

\* Mutant: Execute goes on without the Gate.
EnterUngated(k) ==
    /\ pc[k] = "gate"
    /\ Goto(k, "native")
    /\ gate' = [gate EXCEPT ![reader[k]] = k]
    /\ StartStatement(k, target[k])
    /\ UNCHANGED <<connectionVars, lockVars, commandVars, readerVars, canceled,
                   writes>>

\* CommandExecutionScope.Execute: Gate.Wait; a token canceled meanwhile throws
\* and the Gate is given back, otherwise sqlite3_step is called.
Enter(k) ==
    /\ pc[k] = "gate"
    /\ gate[reader[k]] = Nobody
    /\ IF canceled[k]
       THEN /\ Finish(k)
            /\ canceled' = [canceled EXCEPT ![k] = FALSE]
            /\ UNCHANGED <<gate, engineVars>>
       ELSE /\ Goto(k, "native")
            /\ gate' = [gate EXCEPT ![reader[k]] = k]
            /\ StartStatement(k, target[k])
            /\ UNCHANGED <<canceled, writes>>
    /\ UNCHANGED <<connectionVars, lockVars, commandVars, readerVars>>

\* Execute returns: `finally` gives back the Gate, and a write goes on to
\* DisposeWriterGate.
ReturnFromStep(k) ==
    /\ pc[k] = "native"
    /\ \/ EndStatement(k, target[k])   \* SQLITE_DONE
       \/ UNCHANGED engineVars         \* SQLITE_ROW
    /\ gate' = [gate EXCEPT ![reader[k]] = Nobody]
    /\ failed' = [failed EXCEPT ![k] = FALSE]
    /\ canceled' = [canceled EXCEPT ![k] = FALSE]
    /\ Goto(k, IF writes[k] THEN "dispose" ELSE "ready")
    /\ UNCHANGED <<connectionVars, lockVars, commandVars, reader, target, timerOn,
                   stray, writes>>

\* Mutant: the Gate is given back only when the operation returns.
ThrowHoldingGate(k) ==
    /\ pc[k] = "native"
    /\ EndStatement(k, target[k])
    /\ failed' = [failed EXCEPT ![k] = preparedOn[k] # NoSession]
    /\ canceled' = [canceled EXCEPT ![k] = FALSE]
    /\ Finish(k)
    /\ UNCHANGED <<connectionVars, lockVars, gate, commandVars, reader, target,
                   timerOn, stray>>

\* SQLITE_INTERRUPT, or any other error: the exception passes `finally` and
\* leaves the writer gate where it is.
ThrowFromStep(k) ==
    /\ pc[k] = "native"
    /\ EndStatement(k, target[k])
    /\ gate' = [gate EXCEPT ![reader[k]] = Nobody]
    /\ failed' = [failed EXCEPT ![k] = preparedOn[k] # NoSession]
    /\ canceled' = [canceled EXCEPT ![k] = FALSE]
    /\ Finish(k)
    /\ UNCHANGED <<connectionVars, lockVars, commandVars, reader, target, timerOn,
                   stray>>

\* DisposeWriterGate: _writerGate?.Dispose().  Dispose tests _disposed ...
TestDisposed(k) ==
    /\ pc[k] = "dispose"
    /\ Goto(k, IF writerGate[connection[k]] = "held" THEN "release" ELSE "null")
    /\ UNCHANGED <<connectionVars, lockVars, gate, commandVars, readerVars, canceled,
                   writes, engineVars>>

\* Mutant: the Releaser is marked and its permit forgotten.
ForgetPermit(k) ==
    LET c == connection[k] IN
    /\ pc[k] = "release"
    /\ writerGate' = IF k \in stale THEN writerGate
                     ELSE [writerGate EXCEPT ![c] = "disposed"]
    /\ Goto(k, "null")
    /\ stale' = stale \ {k}
    /\ UNCHANGED <<connectionVars, syncRoot, permits, gate, commandVars, readerVars,
                   canceled, writes, engineVars>>

\* ... and, in a step of its own, sets it and releases the semaphore: two
\* threads that both passed the test release twice.  SemaphoreSlim(1, 1) that
\* has its permit already throws, and the field is then not set to null.
ReleasePermit(k) ==
    LET c == connection[k] IN
    /\ pc[k] = "release"
    /\ permits' = 1
    /\ writerGate' = IF k \in stale THEN writerGate
                     ELSE [writerGate EXCEPT ![c] = "disposed"]
    /\ IF permits = 0 THEN Goto(k, "null") /\ UNCHANGED writes ELSE Finish(k)
    /\ stale' = stale \ {k}
    /\ UNCHANGED <<connectionVars, syncRoot, gate, commandVars, readerVars, canceled,
                   engineVars>>

\* _writerGate = null; no part of DisposeWriterGate is under the lock.
ClearWriterGate(k) ==
    LET c == connection[k] IN
    /\ pc[k] = "null"
    /\ writerGate' = [writerGate EXCEPT ![c] = "null"]
    /\ stale' = stale \cup Disposing(k)
    /\ Finish(k)
    /\ UNCHANGED <<connectionVars, syncRoot, permits, gate, commandVars, readerVars,
                   canceled, engineVars>>

-----------------------------------------------------------------------------

CommandStep(k) ==
    \/ \E c \in Connections : SetConnection(k, c)
    \/ Prepare(k) \/ ExecuteReader(k) \/ CloseReader(k)
    \/ TimerFires(k) \/ CancelToken(k) \/ Cancel(k)
    \/ Read(k) \/ Write(k) \/ LockForGate(k) \/ AcquirePermit(k)
    \/ Enter(k) \/ ReturnFromStep(k) \/ ThrowFromStep(k)
    \/ TestDisposed(k) \/ ReleasePermit(k) \/ ClearWriterGate(k)

Next ==
    \/ \E k \in Commands : CommandStep(k)
    \/ \E c \in Connections : Open(c) \/ CloseBegin(c) \/ CloseEnd(c)
    \/ \E s \in Sessions : StrayTimerFires(s)

Spec == Init /\ [][Next]_vars

-----------------------------------------------------------------------------
(* Properties. *)

\* What SqliteSession.Gate does serialize: no two calls of sqlite3_step are
\* inside one session, whichever connections and commands hold it.  The
\* resets and finalizations of CloseReader are not behind the Gate.
OneStepPerSession ==
    \A k, j \in Commands :
        pc[k] = "native" /\ pc[j] = "native" /\ target[k] = target[j] => k = j

\* The session a timer, a token or a Cancel names goes through the pool, but
\* what interrupts a statement is of its own connection, with one exception:
\* a timer that outlived its reader because Close threw.
OnlyStrayTimersCross ==
    \A k \in Commands :
        pc[k] = "native" => interrupted[target[k]] \subseteq {connection[k], Nobody}

\* A command runs its statement on the session its connection has now, not on
\* the one it was prepared on before.
StatementRunsOnItsConnection ==
    \A k \in Commands :
        pc[k] = "native" => target[k] = session[connection[k]]

\* The permit of the writer key is in the semaphore or behind the _writerGate
\* of exactly one connection, which may be a closed one: DisposeWriterGate
\* neither drops the permit nor gives it back twice.
PermitHasHolder ==
    /\ permits = 0 <=> \E c \in Connections : writerGate[c] = "held"
    /\ \A c, d \in Connections : writerGate[c] = "held" /\ writerGate[d] = "held" => c = d

\* A thread that waits for the permit inside lock(_syncRoot) never waits for
\* one its own connection has: the thread that would give that back needs the
\* same lock.
NoWaitForOwnPermit ==
    \A k \in Commands :
        pc[k] = "acquire" => writerGate[connection[k]] # "held"

\* Every way out of a step, returning, throwing or canceled before it began,
\* gives back the Gate: only a command inside a step has it, and Close, which
\* waits for it, is not kept waiting by a command at rest.
GateHeldOnlyInNative ==
    \A s \in Sessions, k \in Commands :
        gate[s] = k => pc[k] = "native" /\ reader[k] = s
===============================================================================
