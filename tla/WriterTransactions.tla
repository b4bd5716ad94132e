-------------------------- MODULE WriterTransactions --------------------------
(***************************************************************************)
(* The connections of one connection string writing to one database:       *)
(* SingleWriterCoordinator (a semaphore of one permit per writer key), the *)
(* _writerGate and _activeTransaction fields of SqliteConnection, and      *)
(* SqliteTransaction, over SQLite's own write lock.                        *)
(*                                                                         *)
(* A connection is used by one thread at a time ("Prefer one operation at  *)
(* a time", README of the provider), so a connection is also the actor;    *)
(* _hasActiveTransaction then always equals _activeTransaction # null and  *)
(* is not kept apart.  A native call is one step: it holds SqliteSession's *)
(* Gate and ends in the outcomes SQLite allows.  Waiting out busy_timeout  *)
(* on another session's write lock is the step not being taken yet;        *)
(* its end is the failure.                                                 *)
(*                                                                         *)
(* Statements outlive calls: an open reader or a prepared command leaves   *)
(* one unfinalized on the session.  A statement with RETURNING that is     *)
(* left at a row keeps the write lock outside a transaction too, and       *)
(* sqlite3_close_v2 leaves a session with an unfinalized statement as a    *)
(* zombie, with its transaction and its lock, until the last is finalized. *)
(***************************************************************************)
EXTENDS Integers, FiniteSets

CONSTANTS
    Connections,        \* SqliteConnection objects
    Sessions,           \* SqliteSession objects
    Transactions,       \* SqliteTransaction objects; a bound on BeginTransaction
    NoSession, NoTx,    \* null
    Pooling,            \* "Pooling" of the connection string
    StatementsMayFail   \* whether statements fail for other reasons than BUSY

ASSUME ConstantsAssumption ==
    /\ NoSession \notin Sessions
    /\ NoTx \notin Transactions
    /\ Pooling \in BOOLEAN
    /\ StatementsMayFail \in BOOLEAN

VARIABLES
    gatePermits,  \* CurrentCount of the gate, a SemaphoreSlim(1, 1)
    writerGate,   \* SqliteConnection._writerGate # null
    session,      \* SqliteConnection._session; NoSession when closed
    activeTx,     \* SqliteConnection._activeTransaction
    owner,        \* SqliteTransaction._connection, for those that exist
    completed,    \* SqliteTransaction._completed
    idle,         \* sessions in the pool
    inTx,         \* the transaction SQLite has open on a session
    writeLock,    \* the session that holds the database's write lock
    unfinalized,  \* sessions with a statement that is not finalized yet
    pc,           \* where the connection's thread is
    op,           \* what it is doing
    keepGate      \* local: the step runs inside a transaction

gateVars == <<gatePermits, writerGate>>
nativeVars == <<inTx, writeLock, unfinalized>>
txVars == <<activeTx, owner, completed>>
flowVars == <<pc, op, keepGate>>
vars == <<gatePermits, writerGate, session, activeTx, owner, completed, idle,
          inTx, writeLock, unfinalized, pc, op, keepGate>>

Begun == DOMAIN owner
IsOpen(c) == session[c] # NoSession
AutoCommit(c) == inTx[session[c]] = NoTx

TypeOK ==
    /\ gatePermits \in {0, 1}
    /\ writerGate \in [Connections -> BOOLEAN]
    /\ session \in [Connections -> Sessions \cup {NoSession}]
    /\ activeTx \in [Connections -> Transactions \cup {NoTx}]
    /\ Begun \subseteq Transactions /\ owner \in [Begun -> Connections]
    /\ completed \subseteq Begun
    /\ idle \subseteq Sessions
    /\ inTx \in [Sessions -> Transactions \cup {NoTx}]
    /\ writeLock \in Sessions \cup {NoSession}
    /\ unfinalized \subseteq Sessions
    /\ pc \in [Connections -> {"ready", "acquire", "step", "release"}]
    /\ op \in [Connections -> {"none", "write", "maintenance"}]
    /\ keepGate \in [Connections -> BOOLEAN]

Init ==
    /\ gatePermits = 1
    /\ writerGate = [c \in Connections |-> FALSE]
    /\ session = [c \in Connections |-> NoSession]
    /\ activeTx = [c \in Connections |-> NoTx]
    /\ owner = [x \in {} |-> NoTx]
    /\ completed = {}
    /\ idle = {}
    /\ inTx = [s \in Sessions |-> NoTx]
    /\ writeLock = NoSession
    /\ unfinalized = {}
    /\ pc = [c \in Connections |-> "ready"]
    /\ op = [c \in Connections |-> "none"]
    /\ keepGate = [c \in Connections |-> FALSE]

-----------------------------------------------------------------------------
(* The engine: what one native call does to a session. *)

CanWrite(s) == writeLock \in {NoSession, s}

Attached == {session[c] : c \in Connections}

\* What sqlite3_close_v2 leaves of a session that still has statements.
Zombie(s) == ~Pooling /\ s \notin Attached /\ s \in unfinalized

\* COMMIT, ROLLBACK, an automatic rollback, or the end of the handle.
EndNative(s) ==
    /\ inTx' = [inTx EXCEPT ![s] = NoTx]
    /\ writeLock' = IF writeLock = s THEN NoSession ELSE writeLock

\* A statement that writes.  Inside a transaction the lock stays until the
\* end.  Alone it frees the lock when it is done, unless another statement
\* of the session is still at a row of its RETURNING clause.
WriteNative(s) ==
    /\ CanWrite(s)
    /\ IF inTx[s] = NoTx THEN writeLock' \in {writeLock, NoSession}
                         ELSE writeLock' = s
    /\ UNCHANGED <<inTx, unfinalized>>

\* The step of a statement with RETURNING that comes to a row.
WriteReturningRow(s) ==
    /\ CanWrite(s)
    /\ writeLock' = s
    /\ unfinalized' = unfinalized \cup {s}
    /\ UNCHANGED inTx

\* A reader over a prepared command is closed: its statement is reset, which
\* ends a write that is not in a transaction.
ResetStatement(s) ==
    /\ s \in unfinalized
    /\ writeLock' = IF writeLock = s /\ inTx[s] = NoTx THEN NoSession ELSE writeLock
    /\ UNCHANGED <<inTx, unfinalized, gateVars, session, txVars, idle, flowVars>>

\* The last statement of a session is finalized, when its reader or its
\* command is disposed or collected; SQLite then ends a zombie.
FinalizeStatements(s) ==
    /\ s \in unfinalized
    /\ unfinalized' = unfinalized \ {s}
    /\ IF Zombie(s) \/ inTx[s] = NoTx THEN EndNative(s) ELSE UNCHANGED <<inTx, writeLock>>
    /\ UNCHANGED <<gateVars, session, txVars, idle, flowVars>>

-----------------------------------------------------------------------------
(* SqliteConnection: the gate. *)

Goto(c, label) == pc' = [pc EXCEPT ![c] = label]

\* Mutant: releases the semaphore whether or not it holds it.
ReleaseAlways(c) ==
    /\ pc[c] = "release"
    /\ gatePermits' = gatePermits + 1
    /\ writerGate' = [writerGate EXCEPT ![c] = FALSE]
    /\ Goto(c, "ready")
    /\ UNCHANGED <<session, txVars, idle, nativeVars, op, keepGate>>

\* Mutant: _writerGate is not set to null.
DisposeAndKeep(c) ==
    /\ pc[c] = "release"
    /\ gatePermits' = IF writerGate[c] THEN 1 ELSE gatePermits
    /\ Goto(c, "ready")
    /\ UNCHANGED <<writerGate, session, txVars, idle, nativeVars, op, keepGate>>

\* DisposeWriterGate: _writerGate?.Dispose(); _writerGate = null
DisposeWriterGate(c) ==
    /\ pc[c] = "release"
    /\ gatePermits' = IF writerGate[c] THEN gatePermits + 1 ELSE gatePermits
    /\ writerGate' = [writerGate EXCEPT ![c] = FALSE]
    /\ Goto(c, "ready")
    /\ UNCHANGED <<session, txVars, idle, nativeVars, op, keepGate>>

\* AcquireWriterGate: SingleWriterCoordinator.Acquire blocks for the permit.
AcquireWriterGate(c) ==
    /\ pc[c] = "acquire"
    /\ gatePermits > 0
    /\ gatePermits' = gatePermits - 1
    /\ writerGate' = [writerGate EXCEPT ![c] = TRUE]
    /\ Goto(c, "step")
    /\ UNCHANGED <<session, txVars, idle, nativeVars, op, keepGate>>

\* Mutant: BEGIN IMMEDIATE is thought to make the gate needless.
StartWithoutGate(c, what) ==
    /\ pc[c] = "ready"
    /\ IsOpen(c)
    /\ op' = [op EXCEPT ![c] = what]
    /\ keepGate' = [keepGate EXCEPT ![c] = what = "write" /\ activeTx[c] # NoTx]
    /\ Goto(c, IF writerGate[c] \/ activeTx[c] # NoTx THEN "step" ELSE "acquire")
    /\ UNCHANGED <<gateVars, session, txVars, idle, nativeVars>>

\* ExecuteCurrentStatementStep of a statement that is not read-only, and
\* Checkpoint or Optimize: both take the gate unless _writerGate is set.
Start(c, what) ==
    /\ pc[c] = "ready"
    /\ IsOpen(c)
    /\ op' = [op EXCEPT ![c] = what]
    /\ keepGate' = [keepGate EXCEPT ![c] = what = "write" /\ activeTx[c] # NoTx]
    /\ Goto(c, IF writerGate[c] THEN "step" ELSE "acquire")
    /\ UNCHANGED <<gateVars, session, txVars, idle, nativeVars>>

\* The native call returns: outside a transaction the gate is given back.
Leave(c) ==
    /\ Goto(c, IF keepGate[c] THEN "ready" ELSE "release")
    /\ op' = [op EXCEPT ![c] = "none"]
    /\ keepGate' = [keepGate EXCEPT ![c] = FALSE]

\* The native call throws: no `finally` gives the gate back.
LeaveByException(c) ==
    /\ Goto(c, "ready")
    /\ op' = [op EXCEPT ![c] = "none"]
    /\ keepGate' = [keepGate EXCEPT ![c] = FALSE]

StepWrite(c) ==
    /\ pc[c] = "step" /\ op[c] = "write"
    /\ \/ WriteNative(session[c]) /\ Leave(c)
       \/ WriteReturningRow(session[c]) /\ Leave(c)
       \/ /\ StatementsMayFail \/ ~CanWrite(session[c])
          /\ LeaveByException(c)
          /\ UNCHANGED nativeVars
       \/ /\ StatementsMayFail \* e.g. ON CONFLICT ROLLBACK
          /\ EndNative(session[c])
          /\ LeaveByException(c)
          /\ UNCHANGED unfinalized
    /\ UNCHANGED <<gateVars, session, txVars, idle>>

\* ExecuteSessionPragma of Checkpoint and Optimize.
StepMaintenance(c) ==
    /\ pc[c] = "step" /\ op[c] = "maintenance"
    /\ \/ Leave(c)
       \/ /\ StatementsMayFail \/ writeLock # NoSession
          /\ LeaveByException(c)
    /\ UNCHANGED <<gateVars, session, txVars, idle, nativeVars>>

-----------------------------------------------------------------------------
(* SqliteConnection: Open and Close. *)

Open(c) ==
    /\ pc[c] = "ready"
    /\ ~IsOpen(c)
    /\ \E s \in Sessions \ Attached :
         /\ ~Zombie(s)
         /\ Pooling /\ idle # {} => s \in idle
         /\ session' = [session EXCEPT ![c] = s]
         /\ idle' = idle \ {s}
    /\ UNCHANGED <<gateVars, txVars, nativeVars, flowVars>>

\* OpenReader, or Prepare: a statement stays unfinalized after the call.
PrepareStatement(c) ==
    /\ pc[c] = "ready"
    /\ IsOpen(c)
    /\ unfinalized' = unfinalized \cup {session[c]}
    /\ UNCHANGED <<gateVars, session, txVars, idle, inTx, writeLock, flowVars>>

\* SqliteSession.Dispose: sqlite3_close_v2 ends what the session has open
\* only if all its statements are finalized.
DisposeSession(s) ==
    /\ IF s \in unfinalized THEN UNCHANGED <<inTx, writeLock>> ELSE EndNative(s)
    /\ UNCHANGED unfinalized

\* Mutant: Close returns early without pooling too.
CloseKeepingGate(c) ==
    /\ pc[c] = "ready"
    /\ IsOpen(c)
    /\ session' = [session EXCEPT ![c] = NoSession]
    /\ activeTx' = [activeTx EXCEPT ![c] = NoTx]
    /\ DisposeSession(session[c])
    /\ UNCHANGED <<gateVars, owner, completed, idle, flowVars>>

\* Mutant: the session is forgotten, not disposed.
CloseWithoutDispose(c) ==
    /\ pc[c] = "ready"
    /\ IsOpen(c)
    /\ session' = [session EXCEPT ![c] = NoSession]
    /\ activeTx' = [activeTx EXCEPT ![c] = NoTx]
    /\ Goto(c, "release")
    /\ UNCHANGED <<gateVars, owner, completed, idle, nativeVars, op, keepGate>>

\* Pooled, the session goes back as it is and Close returns before its last
\* line; otherwise the session is disposed and the gate given back.
Close(c) ==
    /\ pc[c] = "ready"
    /\ IsOpen(c)
    /\ session' = [session EXCEPT ![c] = NoSession]
    /\ activeTx' = [activeTx EXCEPT ![c] = NoTx]
    /\ IF Pooling
       THEN idle' = idle \cup {session[c]} /\ UNCHANGED <<nativeVars, pc>>
       ELSE DisposeSession(session[c]) /\ Goto(c, "release") /\ UNCHANGED idle
    /\ UNCHANGED <<gateVars, owner, completed, op, keepGate>>

-----------------------------------------------------------------------------
(* Transactions. *)

\* BeginTransaction.  BEGIN fails while the session is in a transaction, and
\* BEGIN IMMEDIATE while another session writes: then nothing remains.
BeginTransaction(c) ==
    /\ pc[c] = "ready"
    /\ IsOpen(c)
    /\ activeTx[c] = NoTx
    /\ AutoCommit(c)
    /\ \E x \in Transactions \ Begun, immediate \in BOOLEAN :
         /\ immediate => CanWrite(session[c])
         /\ inTx' = [inTx EXCEPT ![session[c]] = x]
         /\ writeLock' = IF immediate THEN session[c] ELSE writeLock
         /\ owner' = [y \in Begun \cup {x} |-> IF y = x THEN c ELSE owner[y]]
         /\ activeTx' = [activeTx EXCEPT ![c] = x]
    /\ UNCHANGED <<gateVars, session, completed, idle, unfinalized, flowVars>>

\* ClearActiveTransaction() and, where the flag is set, _completed = true.
Complete(x) ==
    /\ completed' = completed \cup {x}
    /\ activeTx' = [activeTx EXCEPT ![owner[x]] = NoTx]

\* EnsureActive throws before the `try`, without giving the gate back; the
\* getter DbConnection does the same without throwing.
NoticeEnded(x) ==
    LET c == owner[x] IN
    /\ pc[c] = "ready"
    /\ x \notin completed /\ IsOpen(c) /\ AutoCommit(c)
    /\ Complete(x)
    /\ UNCHANGED <<gateVars, session, owner, idle, nativeVars, flowVars>>

\* SqliteConnection.Transaction (getter).
ReadTransaction(c) ==
    /\ pc[c] = "ready"
    /\ activeTx[c] # NoTx /\ AutoCommit(c)
    /\ activeTx' = [activeTx EXCEPT ![c] = NoTx]
    /\ UNCHANGED <<gateVars, session, owner, completed, idle, nativeVars, flowVars>>

Active(x) == x \notin completed /\ IsOpen(owner[x]) /\ ~AutoCommit(owner[x])

\* Commit.  COMMIT can fail (a deferred constraint, a statement that is
\* still writing) and leave SQLite in the transaction; the gate is given
\* back either way.
Commit(x) ==
    LET c == owner[x] IN
    /\ pc[c] = "ready"
    /\ Active(x)
    /\ \/ EndNative(session[c]) /\ Complete(x)
       \/ /\ StatementsMayFail \/ session[c] \in unfinalized
          /\ UNCHANGED <<inTx, writeLock, completed, activeTx>>
    /\ Goto(c, "release")
    /\ UNCHANGED <<gateVars, session, owner, idle, unfinalized, op, keepGate>>

\* Mutant: the transaction counts as completed although ROLLBACK failed.
RollbackRegardless(x) ==
    LET c == owner[x] IN
    /\ pc[c] = "ready"
    /\ Active(x)
    /\ Complete(x)
    /\ \/ EndNative(session[c])
       \/ StatementsMayFail /\ UNCHANGED <<inTx, writeLock>>
    /\ Goto(c, "release")
    /\ UNCHANGED <<gateVars, session, owner, idle, unfinalized, op, keepGate>>

\* Rollback, and Dispose of a transaction that is active.  When ROLLBACK
\* fails SQLite stays in the transaction; Dispose swallows the exception and
\* clears the connection's transaction, Rollback leaves it.
Rollback(x) ==
    LET c == owner[x] IN
    /\ pc[c] = "ready"
    /\ Active(x)
    /\ \/ EndNative(session[c]) /\ Complete(x)
       \/ /\ StatementsMayFail
          /\ activeTx' \in {activeTx, [activeTx EXCEPT ![c] = NoTx]}
          /\ UNCHANGED <<inTx, writeLock, completed>>
    /\ Goto(c, "release")
    /\ UNCHANGED <<gateVars, session, owner, idle, unfinalized, op, keepGate>>

\* Dispose of a transaction with nothing to roll back, in particular one
\* that was completed long ago: it clears whatever transaction the
\* connection has now, and gives back its gate.
DisposeEnded(x) ==
    LET c == owner[x] IN
    /\ pc[c] = "ready"
    /\ ~Active(x)
    /\ completed' = IF IsOpen(c) THEN completed \cup {x} ELSE completed
    /\ activeTx' = [activeTx EXCEPT ![c] = NoTx]
    /\ Goto(c, "release")
    /\ UNCHANGED <<gateVars, session, owner, idle, nativeVars, op, keepGate>>

\* The application executes ROLLBACK as a command; it is a read-only
\* statement and takes no gate.
RollbackBySql(c) ==
    /\ pc[c] = "ready"
    /\ IsOpen(c) /\ ~AutoCommit(c)
    /\ EndNative(session[c])
    /\ UNCHANGED <<gateVars, session, txVars, idle, unfinalized, flowVars>>

-----------------------------------------------------------------------------

ConnectionStep(c) ==
    \/ DisposeWriterGate(c) \/ AcquireWriterGate(c)
    \/ Start(c, "write") \/ Start(c, "maintenance")
    \/ StepWrite(c) \/ StepMaintenance(c)
    \/ Open(c) \/ Close(c) \/ BeginTransaction(c) \/ ReadTransaction(c)
    \/ RollbackBySql(c) \/ PrepareStatement(c)

SessionStep(s) == ResetStatement(s) \/ FinalizeStatements(s)

TransactionStep(x) ==
    NoticeEnded(x) \/ Commit(x) \/ Rollback(x) \/ DisposeEnded(x)

Next ==
    \/ \E c \in Connections : ConnectionStep(c)
    \/ \E x \in Begun : TransactionStep(x)
    \/ \E s \in Sessions : SessionStep(s)

Spec == Init /\ [][Next]_vars

\* A thread in a native call or between two steps goes on (busy_timeout ends
\* a wait for the write lock); a SemaphoreSlim given back again and again
\* reaches every waiter; the application closes what it opened; statements
\* are finalized by their reader or command, or by the collector.
Fairness ==
    /\ \A c \in Connections :
        /\ WF_vars(DisposeWriterGate(c) \/ StepWrite(c) \/ StepMaintenance(c))
        /\ SF_vars(AcquireWriterGate(c))
        /\ SF_vars(Close(c))
    /\ \A s \in Sessions : WF_vars(FinalizeStatements(s))

FairSpec == Spec /\ Fairness

-----------------------------------------------------------------------------
(* Properties. *)

\* The permit is in the semaphore or behind exactly one _writerGate: it is
\* never given back twice (stale Dispose, Checkpoint inside a transaction,
\* failed commits) and never lost without a connection to blame.
GateHasOneHolder ==
    /\ gatePermits = 1 => \A c \in Connections : ~writerGate[c]
    /\ gatePermits = 0 => \E c \in Connections : writerGate[c]
    /\ \A c, d \in Connections : writerGate[c] /\ writerGate[d] => c = d

\* Whoever has the permit can still give it back: it is never behind a
\* connection that was closed, however its statements, its transaction and
\* its Close ended.
HolderCanRelease ==
    \A c \in Connections : writerGate[c] => IsOpen(c) \/ pc[c] = "release"

\* What the gate is for: one connection at a time is inside a native write,
\* also when a transaction reuses the gate it kept from an earlier write.
OneWriterInNative ==
    \A c, d \in Connections : pc[c] = "step" /\ pc[d] = "step" => c = d

\* A transaction open in SQLite belongs to the session its connection still
\* has, and its SqliteTransaction can still end it: closing or disposing in
\* any order leaves no orphan ("Dispose does not leave orphaned transaction").
NoOrphanedTransaction ==
    \A s \in Sessions :
        inTx[s] # NoTx => /\ session[owner[inTx[s]]] = s
                          /\ inTx[s] \notin completed

\* What sqlite3_close_v2 does allow without pooling: the one way to orphan a
\* transaction is to close its connection while a reader or a prepared
\* command still has a statement, and that statement's finalization ends it.
OrphanHasStatement ==
    \A s \in Sessions :
        inTx[s] # NoTx =>
            \/ session[owner[inTx[s]]] = s /\ inTx[s] \notin completed
            \/ Zombie(s)

\* Between calls the database's write lock belongs to a transaction that a
\* connection is still in and can still end, or to a session with a
\* statement whose reset or finalization frees it: a finished write, a
\* failed one, a failed ROLLBACK or an automatic one leaves none behind.
WriteLockHasHolder ==
    \A s \in Sessions :
        writeLock = s =>
            \/ s \in unfinalized
            \/ \E x \in Begun : inTx[s] = x /\ session[owner[x]] = s /\ x \notin completed

\* A writer that waits for the gate gets it, if every connection is closed
\* again and again: nobody keeps the permit for ever.
GateWaitEnds ==
    \A c \in Connections : pc[c] = "acquire" ~> pc[c] # "acquire"

\* The database's write lock is given back by whoever holds it: a connection
\* that is closed, or the last statement that kept a closed session alive.
WriteLockIsFreed ==
    \A s \in Sessions : writeLock = s ~> writeLock # s
===============================================================================
