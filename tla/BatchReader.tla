----------------------------- MODULE BatchReader -----------------------------
(***************************************************************************)
(* One SqliteCommand and its SqliteDataReader walking a batch of SQL       *)
(* statements: the cursors of BatchExecutionState, the statements that     *)
(* Prepare keeps, the flags _hasRow, _prefetched and _readStarted, the     *)
(* drain of Close, and under them a prepared statement of SQLite, which    *)
(* starts again when it is stepped after its end.                          *)
(*                                                                         *)
(* A statement of the batch is a record [kind, size, holes]: a "select",   *)
(* and an "explain" of one, returns size rows, a "write" changes size      *)
(* rows, a "returning" does both.  "other" stands for what SQLite does not *)
(* call read-only although it counts no changes (DDL, BEGIN IMMEDIATE,     *)
(* VACUUM, PRAGMA user_version = 1), "control" for what it calls read-only *)
(* although it has no columns (BEGIN, COMMIT); holes are the placeholders. *)
(* Every action runs from one native call to the next; "open" and "closed" *)
(* are where the application calls the reader and the command, in any      *)
(* order.  Gate, timer and writer gate are CommandExecution's.             *)
(***************************************************************************)
EXTENDS ParameterBinding

CONSTANTS
    Batches,             \* the values of CommandText
    ParameterLists,      \* the values of Parameters
    Behaviors,           \* sets of flags of CommandBehavior
    StepsMayFail,        \* whether prepare and step can throw
    MaxAgain             \* bound: steps of Read and HasRows after the end of a
                         \* result or after a failure, for one reader

ASSUME OptionsAssumption == StepsMayFail \in BOOLEAN /\ MaxAgain \in Nat

Kinds == {"select", "explain", "control", "write", "returning", "other"}
Flags == {"SingleRow", "SingleResult"}

ASSUME BatchesAssumption ==
    /\ \A b \in Batches : b \in Seq([kind : Kinds, size : Nat, holes : Seq(
           (Prefixes \X STRING) \cup {Anonymous})])
    /\ Behaviors \subseteq SUBSET Flags

ASSUME ParametersAssumption ==
    \A p \in ParameterLists : p \in Seq([
        name : ({""} \cup Prefixes) \X STRING, isSet : BOOLEAN])

VARIABLES
    text,        \* SqliteCommand.CommandText
    parameters,  \* SqliteCommand.Parameters
    prepared,    \* SqliteCommand._prepared
    bindings,    \* what is bound in the statement objects
    pc,          \* where the reader is; "open" and "closed" are at rest
    creating,    \* the reader is still inside SqliteDataReader.Create
    behavior,    \* _behavior
    sqlNext,     \* BatchExecutionState.SqlByteOffset, counted in statements
    cacheNext,   \* BatchExecutionState.PreparedStatementIndex, from 1
    stmt,        \* _stmt, as its place in the batch; 0 for null
    hasRow, prefetched, readStarted, affected,  \* _hasRow, ..., _recordsAffected
    scope,       \* the execution scope (timer) is not disposed yet
    vm, row,     \* SQLite: state of the current statement, rows it returned
    changes,     \* SQLite: sqlite3_changes
    applied,     \* history: statements whose writes took effect
    seen,        \* history: rows of this result the application was given
    failed,      \* history: a call threw, since the last statement was found
    readOut,     \* history: statements that write, stepped to their end by
                 \* Read or HasRows
    blurred,     \* history: a statement that writes was read on after its end
                 \* or a failure or, returning rows, left by NextResult
    again        \* history: steps counted by MaxAgain

usageVars == <<readOut, blurred, again>>
commandVars == <<text, parameters, prepared>>
flagVars == <<hasRow, prefetched, readStarted>>
cursorVars == <<sqlNext, cacheNext>>
engineVars == <<vm, row, changes, applied>>
readerVars == <<pc, creating, behavior, cursorVars, stmt, flagVars, affected,
                scope, seen, failed, usageVars>>
vars == <<commandVars, bindings, readerVars, engineVars>>

Kind(i) == text[i].kind
IsReadOnly(i) == Kind(i) \in {"select", "explain", "control"}
HasColumns(i) == Kind(i) \in {"select", "explain", "returning"}
CountsChanges(i) == Kind(i) \in {"write", "returning"}
RowsOf(i) == IF HasColumns(i) THEN text[i].size ELSE 0

TypeOK ==
    /\ text \in Batches /\ parameters \in ParameterLists
    /\ prepared \in BOOLEAN
    /\ DOMAIN bindings = DOMAIN text
    /\ pc \in {"closed", "open", "advance", "toEnd", "drain", "drainNext", "release"}
    /\ creating \in BOOLEAN
    /\ behavior \in SUBSET Flags
    /\ sqlNext \in 1..Len(text) + 1 /\ cacheNext \in 1..Len(text) + 1
    /\ stmt \in 0..Len(text)
    /\ {hasRow, prefetched, readStarted, scope, failed} \subseteq BOOLEAN
    /\ affected \in Nat \cup {-1}
    /\ vm \in {"reset", "row", "done", "failed"} /\ row \in Nat
    /\ changes \in Nat /\ seen \in Nat
    /\ applied \in Seq(1..Len(text))
    /\ readOut \subseteq 1..Len(text) /\ blurred \in BOOLEAN
    /\ again \in 0..MaxAgain

Unbound(b) == [i \in DOMAIN b |-> {}]

Init ==
    /\ text \in Batches /\ parameters \in ParameterLists
    /\ prepared = FALSE
    /\ bindings = Unbound(text)
    /\ pc = "closed" /\ creating = FALSE /\ behavior = {}
    /\ sqlNext = 1 /\ cacheNext = 1 /\ stmt = 0
    /\ hasRow = FALSE /\ prefetched = FALSE /\ readStarted = FALSE
    /\ affected = -1 /\ scope = FALSE
    /\ vm = "reset" /\ row = 0 /\ changes = 0
    /\ applied = <<>> /\ seen = 0 /\ failed = FALSE
    /\ readOut = {} /\ blurred = FALSE /\ again = 0

-----------------------------------------------------------------------------
(* SQLite: the statement object behind _stmt. *)

\* A statement that ends without an error: its writes take effect.
Halt ==
    /\ changes' = IF CountsChanges(stmt) THEN text[stmt].size ELSE changes
    /\ applied' = IF IsReadOnly(stmt) THEN applied ELSE Append(applied, stmt)

\* Rows returned before this step: a statement at its end starts again.
Returned == IF vm = "row" THEN row ELSE 0

StepRow ==
    /\ Returned < RowsOf(stmt)
    /\ vm' = "row" /\ row' = Returned + 1
    /\ UNCHANGED <<changes, applied>>

StepDone ==
    /\ Returned = RowsOf(stmt)
    /\ vm' = "done" /\ row' = Returned
    /\ Halt

\* The statement is rolled back, so it changed no rows.
StepFails ==
    /\ StepsMayFail
    /\ vm' = "failed"
    /\ changes' = IF CountsChanges(stmt) THEN 0 ELSE changes
    /\ UNCHANGED <<row, applied>>

\* sqlite3_reset and sqlite3_finalize end a statement that is not at its end.
EndStatement ==
    /\ vm' = "reset" /\ row' = 0
    /\ IF stmt # 0 /\ vm = "row" THEN Halt ELSE UNCHANGED <<changes, applied>>

-----------------------------------------------------------------------------
(* SqliteCommand. *)

\* CommandText (set): InvalidateStatementCache.
SetCommandText ==
    /\ pc = "closed"
    /\ text' \in Batches \ {text}
    /\ prepared' = FALSE
    /\ bindings' = Unbound(text')
    /\ applied' = <<>>
    \* The reader that was closed is forgotten.
    /\ sqlNext' = 1 /\ cacheNext' = 1 /\ stmt' = 0 /\ affected' = -1
    /\ readOut' = {} /\ blurred' = FALSE
    /\ UNCHANGED <<parameters, pc, creating, behavior, flagVars, scope, seen,
                   failed, again, vm, row, changes>>

SetParameters ==
    /\ pc = "closed"
    /\ parameters' \in ParameterLists \ {parameters}
    /\ UNCHANGED <<text, prepared, bindings, readerVars, engineVars>>

\* Prepare: the statements of before are disposed first; sqlite3_prepare_v3
\* may throw at any of the new ones.
Prepare ==
    /\ pc = "closed"
    /\ ~prepared
    /\ prepared' \in IF StepsMayFail THEN BOOLEAN ELSE {TRUE}
    /\ bindings' = Unbound(text)
    /\ UNCHANGED <<text, parameters, readerVars, engineVars>>

\* ReleaseStatement: Reset throws what the last step threw.
ReleaseThrows == stmt # 0 /\ prepared /\ vm = "failed"

Released ==
    IF stmt = 0 \/ ReleaseThrows THEN bindings
    ELSE [bindings EXCEPT ![stmt] = {}]

Cursor == IF prepared THEN cacheNext ELSE sqlNext

\* Mutant: the cache is read without moving its index.
MoveSqlCursorOnly ==
    /\ sqlNext' = IF prepared THEN sqlNext ELSE sqlNext + 1
    /\ UNCHANGED cacheNext

MoveCursor ==
    /\ sqlNext' = IF prepared THEN sqlNext ELSE sqlNext + 1
    /\ cacheNext' = IF prepared THEN cacheNext + 1 ELSE cacheNext

\* Mutant: PrepareAndBindFromCache without its ClearBindings.
BindOver(b, i) ==
    LET old == IF prepared THEN b[i] ELSE {}
    IN [b EXCEPT ![i] = Overwrite(old, BoundPairs(text[i].holes, parameters))]

\* BindParameters on a statement that is new or cleared; an exception leaves
\* what was bound before it.
Bind(b, i) ==
    [b EXCEPT ![i] = Overwrite({}, BoundPairs(text[i].holes, parameters))]

IsExplainCommandText == text # <<>> /\ Kind(1) = "explain"

BindFails(i, throwOnMissing) ==
    \/ BindThrows(text[i].holes, parameters)
    \/ /\ throwOnMissing /\ ~IsExplainCommandText
       /\ ~NothingMissing(text[i].holes, parameters)

\* Mutant: the offset moves although nothing was left to prepare.
NoNextMoves(b) ==
    /\ Cursor > Len(text)
    /\ bindings' = b
    /\ MoveCursor

\* PrepareAndBindNext, after a release that left b: the three ways it ends.
\* The cursor moves before the parameters are bound.
NoNext(b) ==
    /\ Cursor > Len(text)
    /\ bindings' = b
    /\ UNCHANGED cursorVars

Found(b, throwOnMissing) ==
    /\ Cursor <= Len(text)
    /\ ~BindFails(Cursor, throwOnMissing)
    /\ bindings' = Bind(b, Cursor)
    /\ MoveCursor

NextThrows(b, throwOnMissing) ==
    /\ Cursor <= Len(text)
    /\ \/ /\ BindFails(Cursor, throwOnMissing)
          /\ bindings' = Bind(b, Cursor)
          /\ MoveCursor
       \/ /\ StepsMayFail /\ ~prepared  \* sqlite3_prepare_v3
          /\ bindings' = b
          /\ UNCHANGED cursorVars

-----------------------------------------------------------------------------
(* SqliteDataReader. *)

\* An exception reaches the application, or the `catch` of Create.
Throw ==
    /\ failed' = TRUE
    /\ pc' = IF creating THEN "drain" ELSE "open"

\* Mutant: adds sqlite3_changes for queries too.
AddChangesAlways(now) ==
    affected' = IF stmt # 0 /\ now > 0
                THEN (IF affected < 0 THEN now ELSE affected + now)
                ELSE affected

\* Mutant: a statement's changes replace those of the statements before it.
SetChanges(now) ==
    affected' = IF stmt # 0 /\ ~IsReadOnly(stmt) /\ now > 0 THEN now ELSE affected

\* AddChangesFromCurrentStatement, sqlite3_changes returning now.
AddChanges(now) ==
    affected' = IF stmt # 0 /\ ~IsReadOnly(stmt) /\ now > 0
                THEN (IF affected < 0 THEN now ELSE affected + now)
                ELSE affected

ExecuteReader ==
    /\ pc = "closed"
    /\ behavior' \in Behaviors
    /\ pc' = "advance" /\ creating' = TRUE
    /\ sqlNext' = 1 /\ cacheNext' = 1 /\ stmt' = 0
    /\ hasRow' = FALSE /\ prefetched' = FALSE /\ readStarted' = FALSE
    /\ affected' = -1 /\ scope' = TRUE
    /\ vm' = "reset" /\ row' = 0
    /\ applied' = <<>> /\ seen' = 0 /\ failed' = FALSE
    /\ readOut' = {} /\ blurred' = FALSE /\ again' = 0
    /\ UNCHANGED <<commandVars, bindings, changes>>

\* NextResult; with SingleResult it returns false at once.
NextResult ==
    /\ pc = "open"
    /\ "SingleResult" \notin behavior
    /\ pc' = "advance"
    /\ blurred' = (blurred \/ (stmt # 0 /\ Kind(stmt) = "returning"))
    /\ UNCHANGED <<commandVars, bindings, creating, behavior, cursorVars, stmt,
                   flagVars, affected, scope, seen, failed, readOut, again,
                   engineVars>>

\* One turn of the loop of NextResultCore, up to the step of a statement
\* without columns.
Advance ==
    /\ pc = "advance"
    /\ AddChanges(changes)
    /\ EndStatement
    /\ IF ReleaseThrows
       THEN /\ Throw
            /\ UNCHANGED <<bindings, creating, cursorVars, stmt, flagVars, seen>>
       ELSE /\ hasRow' = FALSE /\ prefetched' = FALSE /\ readStarted' = FALSE
            /\ seen' = 0
            /\ \/ /\ NoNext(Released)
                  /\ stmt' = 0 /\ pc' = "open" /\ creating' = FALSE
                  /\ UNCHANGED failed
               \/ /\ NextThrows(Released, TRUE)
                  /\ stmt' = 0 /\ Throw /\ UNCHANGED creating
               \/ /\ Found(Released, TRUE)
                  /\ stmt' = Cursor
                  /\ IF HasColumns(Cursor)
                     THEN pc' = "open" /\ creating' = FALSE
                     ELSE pc' = "toEnd" /\ UNCHANGED creating
                  /\ failed' = FALSE
    /\ UNCHANGED <<commandVars, behavior, scope, usageVars>>

\* ExecuteCurrentStatementToEnd of a statement without columns.
ToEnd ==
    /\ pc = "toEnd"
    /\ \/ StepDone /\ pc' = "advance" /\ UNCHANGED failed
       \/ StepFails /\ Throw
    /\ UNCHANGED <<commandVars, bindings, creating, behavior, cursorVars, stmt,
                   flagVars, affected, scope, seen, usageVars>>

\* History: the application reads on after the end of the result or a failure.
ReadsOn == failed \/ (readStarted /\ ~hasRow)

NoteReadOn ==
    blurred' = (blurred \/ (ReadsOn /\ stmt # 0 /\ ~IsReadOnly(stmt)))

\* History: what a step of Read or HasRows does to the statement.
NoteStep ==
    /\ IF ReadsOn /\ vm # "row"
       THEN again < MaxAgain /\ again' = again + 1
       ELSE UNCHANGED again
    /\ readOut' = IF vm' = "done" /\ ~IsReadOnly(stmt)
                  THEN readOut \cup {stmt} ELSE readOut

\* Mutant: the row HasRows stepped to is not remembered.
PrefetchAndForget ==
    /\ pc = "open"
    /\ ~prefetched /\ ~readStarted /\ ~failed
    /\ stmt # 0
    /\ \/ StepRow /\ hasRow' = TRUE
       \/ StepDone /\ hasRow' = FALSE
    /\ NoteStep /\ NoteReadOn
    /\ UNCHANGED <<commandVars, bindings, pc, creating, behavior, cursorVars,
                   stmt, prefetched, readStarted, affected, scope, seen,
                   failed>>

\* HasRows: EnsurePrefetched.
HasRows ==
    /\ pc = "open"
    /\ ~prefetched /\ ~readStarted
    /\ \/ /\ stmt = 0
          /\ hasRow' = FALSE /\ prefetched' = TRUE
          /\ UNCHANGED <<failed, engineVars, readOut, again>>
       \/ /\ stmt # 0
          /\ \/ StepRow /\ hasRow' = TRUE /\ prefetched' = TRUE /\ UNCHANGED failed
             \/ StepDone /\ hasRow' = FALSE /\ prefetched' = TRUE /\ UNCHANGED failed
             \/ StepFails /\ failed' = TRUE /\ UNCHANGED <<hasRow, prefetched>>
          /\ NoteStep
    /\ NoteReadOn
    /\ UNCHANGED <<commandVars, bindings, pc, creating, behavior, cursorVars,
                   stmt, readStarted, affected, scope, seen>>

\* The end of Read when it returns: a row, or no row and then the changes are
\* added and SingleRow closes the reader.
ReadReturns(hasRowNow, changesNow) ==
    /\ hasRow' = hasRowNow
    /\ readStarted' = TRUE
    /\ UNCHANGED failed
    /\ IF hasRowNow
       THEN seen' = seen + 1 /\ UNCHANGED <<affected, pc>>
       ELSE /\ AddChanges(changesNow)
            /\ pc' = IF "SingleRow" \in behavior THEN "drain" ELSE "open"
            /\ UNCHANGED seen

\* Read and ReadAsync, also after the end.
Read ==
    /\ pc = "open"
    /\ \/ /\ prefetched
          /\ prefetched' = FALSE
          /\ ReadReturns(hasRow, changes)
          /\ UNCHANGED <<engineVars, readOut, again>>
       \/ /\ ~prefetched /\ stmt = 0
          /\ prefetched' = TRUE
          /\ ReadReturns(FALSE, changes)
          /\ UNCHANGED <<engineVars, readOut, again>>
       \/ /\ ~prefetched /\ stmt # 0
          /\ \/ StepRow /\ ReadReturns(TRUE, changes) /\ UNCHANGED prefetched
             \/ /\ StepDone
                /\ prefetched' = TRUE
                /\ ReadReturns(FALSE, changes')
             \/ /\ StepFails
                /\ readStarted' = TRUE /\ failed' = TRUE
                /\ UNCHANGED <<pc, hasRow, prefetched, affected, seen>>
          /\ NoteStep
    /\ NoteReadOn
    /\ UNCHANGED <<commandVars, bindings, creating, behavior, cursorVars, stmt,
                   scope>>

Close ==
    /\ pc = "open"
    /\ pc' = "drain"
    /\ UNCHANGED <<commandVars, bindings, creating, behavior, cursorVars, stmt,
                   flagVars, affected, scope, seen, failed, usageVars, engineVars>>

\* Mutant: an exception is swallowed inside the loop, which tries again.
DrainRetrying ==
    /\ pc = "drain"
    /\ IF stmt = 0
       THEN pc' = "drainNext" /\ UNCHANGED <<affected, engineVars>>
       ELSE \/ StepRow /\ UNCHANGED <<pc, affected>>
            \/ StepDone /\ AddChanges(changes') /\ pc' = "drainNext"
            \/ StepFails /\ UNCHANGED <<pc, affected>>
    /\ UNCHANGED <<commandVars, bindings, creating, behavior, cursorVars, stmt,
                   flagVars, scope, seen, failed, usageVars>>

\* DrainRemainingStatements: a step of the current statement, whatever its
\* state; an exception ends the drain.
Drain ==
    /\ pc = "drain"
    /\ IF stmt = 0
       THEN pc' = "drainNext" /\ UNCHANGED <<affected, engineVars>>
       ELSE \/ StepRow /\ UNCHANGED <<pc, affected>>
            \/ StepDone /\ AddChanges(changes') /\ pc' = "drainNext"
            \/ StepFails /\ pc' = "release" /\ UNCHANGED affected
    /\ UNCHANGED <<commandVars, bindings, creating, behavior, cursorVars, stmt,
                   flagVars, scope, seen, failed, usageVars>>

\* ... and the statement after it; missing parameters stay unbound.
DrainNext ==
    /\ pc = "drainNext"
    /\ EndStatement
    /\ \/ NoNext(Released) /\ stmt' = 0 /\ pc' = "release"
       \/ NextThrows(Released, FALSE) /\ UNCHANGED stmt /\ pc' = "release"
       \/ Found(Released, FALSE) /\ stmt' = Cursor /\ pc' = "drain"
    /\ UNCHANGED <<commandVars, creating, behavior, flagVars, affected, scope,
                   seen, failed, usageVars>>

\* The rest of Close: ReleaseStatement comes before the scope.  That the
\* connection may be closed as well is CommandExecution's.
Release ==
    /\ pc = "release"
    /\ EndStatement
    /\ bindings' = Released
    /\ pc' = "closed" /\ creating' = FALSE
    /\ IF ReleaseThrows
       THEN UNCHANGED <<stmt, scope>>
       ELSE stmt' = 0 /\ scope' = FALSE
    /\ UNCHANGED <<commandVars, behavior, cursorVars, flagVars, affected, seen,
                   failed, usageVars>>

-----------------------------------------------------------------------------

ReaderStep == Advance \/ ToEnd \/ Drain \/ DrainNext \/ Release

Next ==
    \/ SetCommandText \/ SetParameters \/ Prepare
    \/ ExecuteReader \/ NextResult \/ HasRows \/ Read \/ Close
    \/ ReaderStep

Spec == Init /\ [][Next]_vars

\* A call that was made goes on to its end.
FairSpec == Spec /\ WF_vars(ReaderStep)

-----------------------------------------------------------------------------
(* Properties. *)

\* The writes of a batch take effect in the order of the batch, whatever the
\* application reads, skips or leaves and whatever fails; and none takes
\* effect twice, through NextResult, the drain of Close and the retry that the
\* drain makes of a statement that failed, but those the application has
\* itself read to their end (which batch_rerun is about).
WritesOnceInOrder ==
    \A i, j \in DOMAIN applied : i < j =>
        \/ applied[i] < applied[j]
        \/ applied[i] = applied[j] /\ applied[i] \in readOut

Changed ==
    LET counted == {i \in DOMAIN applied : CountsChanges(applied[i])}
        sum[n \in 0..Len(applied)] ==
            IF n = 0 THEN 0
            ELSE sum[n - 1] + (IF n \in counted THEN text[applied[n]].size ELSE 0)
    IN sum[Len(applied)]

\* A closed reader's RecordsAffected is what its statements changed, -1 for
\* none, also when some failed, ran in the drain, or ran there again after they
\* had been read to their end.  Two uses are excepted, in which the code counts
\* sqlite3_changes twice or for another statement: statements that write but
\* count no changes, and a write whose rows the application left by NextResult
\* (finished, under way or not begun) or which it read on after its end.
RecordsAffectedIsExact ==
    pc = "closed" /\ ~blurred /\ (\A i \in DOMAIN text : Kind(i) # "other")
        => affected = IF Changed = 0 THEN -1 ELSE Changed

\* The reader shows each row of a result once and in order: the row HasRows
\* stepped to is the first that Read returns, and no row follows the end, the
\* second Read after it included.  The Read after that begins the statement
\* again; only what it shows is excepted.
ForwardOnly ==
    pc = "open" /\ ~failed /\ again = 0 /\ readStarted /\ hasRow => row = seen

\* A value reaches a placeholder only under its name, and only if no other
\* placeholder answers to that name as well (or this one does exactly), and
\* no value of an earlier execution is left in a statement that runs.
BindingsMatch ==
    stmt # 0 /\ pc # "closed" => \A pair \in bindings[stmt] :
        LET hole == text[stmt].holes[pair[1]]
            name == pair[2].name
        IN /\ \E i \in DOMAIN parameters : parameters[i] = pair[2]
           /\ Means(name, hole)
           /\ \/ name = hole
              \/ \A h \in DOMAIN text[stmt].holes :
                     Means(name, text[stmt].holes[h]) => h = pair[1]

InCall == pc \notin {"open", "closed"}

\* Every call returns: no batch, failure or flag keeps the reader looping,
\* and Close reaches its end.
CallsEnd == InCall ~> ~InCall

\* What is left of the call the reader is in.
StatementsLeft == Len(text) + 1 - Cursor
StationsLeft ==
    CASE pc = "toEnd" -> 4 [] pc = "advance" -> 3 [] pc = "drain" -> 2
      [] pc = "drainNext" -> 1 [] OTHER -> 0
RowsLeft == IF stmt = 0 THEN 0 ELSE RowsOf(stmt) - Returned

\* Why every call returns: a step that stays inside it leaves fewer statements,
\* or as many and fewer stations of the walk, or else fewer rows.  The retry
\* that the drain makes of a finished or failed statement happens once.
CallsShorten ==
    [][InCall /\ InCall' =>
        \/ 0 <= StatementsLeft' /\ StatementsLeft' < StatementsLeft
        \/ /\ StatementsLeft' = StatementsLeft
           /\ \/ StationsLeft' < StationsLeft
              \/ /\ StationsLeft' = StationsLeft
                 /\ 0 <= RowsLeft' /\ RowsLeft' < RowsLeft]_vars

\* A reader that was closed has stopped its timer.
ClosedReaderHasNoScope == pc = "closed" => ~scope

\* What the drain is for, and all it is for, are trailing statements: none
\* that reached its end is executed again.
NoStatementRunsTwice ==
    \A i, j \in DOMAIN applied : i # j => applied[i] # applied[j]

\* What a batch is for its application while the code walks it.
Batch == INSTANCE BatchExecution WITH
    running <- pc # "closed",
    effects <- applied,
    changed <- Changed,
    reported <- IF pc = "closed" THEN affected ELSE -1

\* Every step of command, reader and drain is one of BatchExecution's or
\* changes nothing there: no effect outside an open reader, none lost or out
\* of order, none repeated but of a statement that was read to its end, and
\* what is reported is what took effect with the exceptions of
\* RecordsAffectedIsExact.
ImplementsBatchExecution == Batch!Spec
===============================================================================
