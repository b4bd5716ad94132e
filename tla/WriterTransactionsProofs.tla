----------------------- MODULE WriterTransactionsProofs -----------------------
(***************************************************************************)
(* WriterTransactions for every number of connections, sessions and        *)
(* transactions: the permit of the gate is never duplicated or lost, the   *)
(* gate excludes, and without pooling only an unfinalized statement keeps  *)
(* a transaction or the write lock behind a closed connection.             *)
(*                                                                         *)
(* GateHasOneHolder needs the types only.  OneWriterInNative is not        *)
(* inductive: it follows because a connection enters a native write only   *)
(* with _writerGate set, and gives the gate back only outside of it.       *)
(* OrphanHasStatement needs that open connections have sessions of         *)
(* their own, and that a SqliteTransaction object stands behind every      *)
(* transaction SQLite has open.                                            *)
(***************************************************************************)
EXTENDS WriterTransactions, TLAPS

\* A connection that waits for the gate, or steps, has a session.
SteppersOpen == \A c \in Connections : pc[c] \in {"acquire", "step"} => IsOpen(c)

GateInv ==
    /\ TypeOK
    /\ SteppersOpen
    /\ GateHasOneHolder
    /\ \A c \in Connections : pc[c] = "step" => writerGate[c]

\* Two open connections have different sessions.
SessionsApart ==
    \A c, d \in Connections : c # d /\ IsOpen(c) => session[c] # session[d]

\* What is open in SQLite was begun by a SqliteTransaction.
NativeIsBegun == \A s \in Sessions : inTx[s] # NoTx => inTx[s] \in Begun

OrphanInv == GateInv /\ SessionsApart /\ NativeIsBegun /\ OrphanHasStatement

-----------------------------------------------------------------------------
(* Types. *)

LEMMA TypeInit == Init => TypeOK
BY DEF Init, TypeOK, Begun

\* What ending a native transaction does to the session and to the lock.
LEMMA EndNativeType ==
    ASSUME TypeOK, NEW s, EndNative(s)
    PROVE  /\ inTx' \in [Sessions -> Transactions \cup {NoTx}]
           /\ writeLock' \in Sessions \cup {NoSession}
BY DEF TypeOK, EndNative

\* What any native call of a session does to the three.
LEMMA NativeType ==
    ASSUME TypeOK, NEW s \in Sessions,
           \/ WriteNative(s) \/ WriteReturningRow(s) \/ DisposeSession(s)
           \/ EndNative(s) /\ UNCHANGED unfinalized
    PROVE  /\ inTx' \in [Sessions -> Transactions \cup {NoTx}]
           /\ writeLock' \in Sessions \cup {NoSession}
           /\ unfinalized' \subseteq Sessions
<1>1. CASE WriteNative(s) \/ WriteReturningRow(s)
  BY <1>1 DEF TypeOK, WriteNative, WriteReturningRow, CanWrite
<1>2. CASE DisposeSession(s) \/ (EndNative(s) /\ UNCHANGED unfinalized)
  BY <1>2, EndNativeType DEF TypeOK, DisposeSession
<1>. QED  BY <1>1, <1>2

LEMMA SteppersInit == Init => SteppersOpen
BY DEF Init, SteppersOpen

LEMMA SteppersStep ==
    ASSUME TypeOK, SteppersOpen, [Next]_vars
    PROVE  SteppersOpen'
<1>. USE DEF SteppersOpen, IsOpen, Goto, flowVars, gateVars
<1>1. /\ session \in [Connections -> Sessions \cup {NoSession}]
      /\ pc \in [Connections -> {"ready", "acquire", "step", "release"}]
      /\ NoSession \notin Sessions
      /\ owner \in [Begun -> Connections]
  BY ConstantsAssumption DEF TypeOK
<1>2. ASSUME NEW c \in Connections, Open(c)
      PROVE  SteppersOpen'
  BY <1>1, <1>2 DEF Open
<1>3. ASSUME NEW c \in Connections, Close(c)
      PROVE  SteppersOpen'
  BY <1>1, <1>3 DEF Close
<1>4. ASSUME NEW c \in Connections, UNCHANGED session,
             \/ UNCHANGED pc
             \/ \E label \in {"ready", "acquire", "step", "release"} :
                    /\ pc' = [pc EXCEPT ![c] = label]
                    /\ label \in {"acquire", "step"} => IsOpen(c)
      PROVE  SteppersOpen'
  BY <1>1, <1>4
<1>5. CASE UNCHANGED <<session, pc>>
  BY <1>5
<1>6. ASSUME NEW c \in Connections, DisposeWriterGate(c) \/ AcquireWriterGate(c)
      PROVE  SteppersOpen'
  BY <1>1, <1>4, <1>6 DEF DisposeWriterGate, AcquireWriterGate
<1>. HIDE DEF SteppersOpen
<1>7. ASSUME NEW c \in Connections, ConnectionStep(c)
      PROVE  SteppersOpen'
  BY <1>2, <1>3, <1>4, <1>6, <1>7
  DEF ConnectionStep, Start, StepWrite, StepMaintenance, Leave, LeaveByException,
      BeginTransaction, ReadTransaction, RollbackBySql, PrepareStatement
<1>8. ASSUME NEW x \in Begun, TransactionStep(x)
      PROVE  SteppersOpen'
  <2>1. owner[x] \in Connections
    BY <1>1
  <2>. QED
    BY <1>4, <1>8, <2>1
    DEF TransactionStep, NoticeEnded, Commit, Rollback, DisposeEnded
<1>9. ASSUME NEW s \in Sessions, SessionStep(s)
      PROVE  SteppersOpen'
  BY <1>5, <1>9 DEF SessionStep, ResetStatement, FinalizeStatements
<1>. QED  BY <1>5, <1>7, <1>8, <1>9 DEF Next, vars

LEMMA TypeStep ==
    ASSUME TypeOK, SteppersOpen, GateHasOneHolder, [Next]_vars
    PROVE  TypeOK'
<1>. USE ConstantsAssumption
     DEF TypeOK, Begun, Goto, gateVars, nativeVars, txVars, flowVars
<1>1. ASSUME NEW c \in Connections, ConnectionStep(c)
      PROVE  TypeOK'
  <2>1. CASE DisposeWriterGate(c)
    BY <2>1 DEF DisposeWriterGate, GateHasOneHolder
  <2>2. CASE AcquireWriterGate(c)
    BY <2>2 DEF AcquireWriterGate
  <2>3. CASE \E what \in {"write", "maintenance"} : Start(c, what)
    BY <2>3 DEF Start
  <2>4. CASE StepWrite(c)
    <3>0. session[c] \in Sessions
      BY <2>4 DEF StepWrite, SteppersOpen, IsOpen
    <3>1. /\ inTx' \in [Sessions -> Transactions \cup {NoTx}]
          /\ writeLock' \in Sessions \cup {NoSession}
          /\ unfinalized' \subseteq Sessions
      BY <2>4, <3>0, NativeType DEF StepWrite
    <3>2. Leave(c) \/ LeaveByException(c)
      BY <2>4 DEF StepWrite
    <3>. QED  BY <2>4, <3>1, <3>2 DEF StepWrite, Leave, LeaveByException
  <2>5. CASE StepMaintenance(c)
    BY <2>5 DEF StepMaintenance, Leave, LeaveByException
  <2>6. CASE Open(c)
    BY <2>6 DEF Open
  <2>7. CASE Close(c)
    BY <2>7, NativeType DEF Close, IsOpen
  <2>8. CASE BeginTransaction(c)
    BY <2>8 DEF BeginTransaction, IsOpen
  <2>9. CASE ReadTransaction(c)
    BY <2>9 DEF ReadTransaction
  <2>10. CASE RollbackBySql(c)
    BY <2>10, EndNativeType DEF RollbackBySql, IsOpen
  <2>11. CASE PrepareStatement(c)
    BY <2>11 DEF PrepareStatement, IsOpen
  <2>. QED
    BY <1>1, <2>1, <2>2, <2>3, <2>4, <2>5, <2>6, <2>7, <2>8, <2>9, <2>10, <2>11
    DEF ConnectionStep
<1>2. ASSUME NEW x \in Begun, TransactionStep(x)
      PROVE  TypeOK'
  <2>1. CASE NoticeEnded(x)
    BY <2>1 DEF NoticeEnded, Complete
  <2>2. CASE Commit(x)
    BY <2>2, EndNativeType DEF Commit, Complete, Active, IsOpen
  <2>3. CASE Rollback(x)
    BY <2>3, EndNativeType DEF Rollback, Complete, Active, IsOpen
  <2>4. CASE DisposeEnded(x)
    BY <2>4 DEF DisposeEnded
  <2>. QED  BY <1>2, <2>1, <2>2, <2>3, <2>4 DEF TransactionStep
<1>3. ASSUME NEW s \in Sessions, SessionStep(s)
      PROVE  TypeOK'
  BY <1>3, EndNativeType DEF SessionStep, ResetStatement, FinalizeStatements
<1>4. CASE UNCHANGED vars
  BY <1>4 DEF vars
<1>. QED  BY <1>1, <1>2, <1>3, <1>4 DEF Next

-----------------------------------------------------------------------------
(* The gate. *)

\* Every step but two leaves the gate alone, and enters "step" only with it.
LEMMA GateUntouched ==
    ASSUME TypeOK, NEW c \in Connections,
           \/ \E what \in {"write", "maintenance"} : Start(c, what)
           \/ StepWrite(c) \/ StepMaintenance(c) \/ Open(c) \/ Close(c)
           \/ BeginTransaction(c) \/ ReadTransaction(c) \/ RollbackBySql(c)
           \/ PrepareStatement(c)
           \/ \E x \in Begun : owner[x] = c /\ TransactionStep(x)
    PROVE  /\ UNCHANGED gateVars
           /\ \A d \in Connections \ {c} : pc'[d] = pc[d]
           /\ pc'[c] = "step" => writerGate[c] \/ pc[c] = "step"
<1>. USE DEF TypeOK, Goto, gateVars, flowVars
<1>1. CASE \E what \in {"write", "maintenance"} : Start(c, what)
  BY <1>1 DEF Start
<1>2. CASE StepWrite(c)
  BY <1>2 DEF StepWrite, Leave, LeaveByException
<1>3. CASE StepMaintenance(c)
  BY <1>3 DEF StepMaintenance, Leave, LeaveByException
<1>4. CASE Open(c)
  BY <1>4 DEF Open
<1>5. CASE Close(c)
  BY <1>5 DEF Close
<1>6. CASE BeginTransaction(c)
  BY <1>6 DEF BeginTransaction
<1>7. CASE ReadTransaction(c) \/ RollbackBySql(c) \/ PrepareStatement(c)
  BY <1>7 DEF ReadTransaction, RollbackBySql, PrepareStatement
<1>8. CASE \E x \in Begun : owner[x] = c /\ TransactionStep(x)
  <2>1. PICK x \in Begun : owner[x] = c /\ TransactionStep(x)
    BY <1>8
  <2>. QED
    BY <2>1 DEF TransactionStep, NoticeEnded, Commit, Rollback, DisposeEnded
<1>. QED  BY <1>1, <1>2, <1>3, <1>4, <1>5, <1>6, <1>7, <1>8

LEMMA GateInit == Init => GateInv
BY TypeInit, SteppersInit DEF Init, GateInv, GateHasOneHolder

LEMMA GateInvariance == GateInv /\ [Next]_vars => GateInv'
<1>. SUFFICES ASSUME GateInv, [Next]_vars
              PROVE  GateInv'
  OBVIOUS
<1>1. TypeOK' /\ SteppersOpen'
  BY TypeStep, SteppersStep DEF GateInv
<1>2. TypeOK /\ GateHasOneHolder /\ \A c \in Connections : pc[c] = "step" => writerGate[c]
  BY DEF GateInv
<1>3. ASSUME NEW c \in Connections, DisposeWriterGate(c)
      PROVE  GateInv'
  BY <1>1, <1>2, <1>3 DEF DisposeWriterGate, Goto, GateInv, GateHasOneHolder, TypeOK
<1>4. ASSUME NEW c \in Connections, AcquireWriterGate(c)
      PROVE  GateInv'
  BY <1>1, <1>2, <1>4 DEF AcquireWriterGate, Goto, GateInv, GateHasOneHolder, TypeOK
<1>5. ASSUME NEW c \in Connections, UNCHANGED gateVars,
             \A d \in Connections \ {c} : pc'[d] = pc[d],
             pc'[c] = "step" => writerGate[c] \/ pc[c] = "step"
      PROVE  GateInv'
  BY <1>1, <1>2, <1>5 DEF gateVars, GateInv, GateHasOneHolder
<1>6. ASSUME NEW c \in Connections, ConnectionStep(c)
      PROVE  GateInv'
  BY <1>2, <1>3, <1>4, <1>5, <1>6, GateUntouched DEF ConnectionStep
<1>7. ASSUME NEW x \in Begun, TransactionStep(x)
      PROVE  GateInv'
  <2>1. owner[x] \in Connections
    BY <1>2 DEF TypeOK
  <2>. QED  BY <1>2, <1>5, <1>7, <2>1, GateUntouched
<1>8. ASSUME NEW s \in Sessions, SessionStep(s)
      PROVE  GateInv'
  BY <1>1, <1>2, <1>8
  DEF SessionStep, ResetStatement, FinalizeStatements, gateVars, flowVars,
      GateInv, GateHasOneHolder
<1>9. CASE UNCHANGED vars
  BY <1>1, <1>2, <1>9 DEF vars, GateInv, GateHasOneHolder
<1>. QED  BY <1>6, <1>7, <1>8, <1>9 DEF Next

\* Every variable keeps its type: in particular SemaphoreSlim(1, 1) is never
\* released beyond its maximum.
THEOREM TypeCorrect == Spec => []TypeOK
<1>1. GateInv => TypeOK
  BY DEF GateInv
<1>. QED  BY <1>1, GateInit, GateInvariance, PTL DEF Spec

\* The permit of the gate is in the semaphore or behind exactly one
\* _writerGate, whatever Commit, Rollback, a stale Dispose, Checkpoint,
\* Optimize and failing statements do to it.
THEOREM GateCorrect == Spec => []GateHasOneHolder
<1>1. GateInv => GateHasOneHolder
  BY DEF GateInv
<1>. QED  BY <1>1, GateInit, GateInvariance, PTL DEF Spec

\* SingleWriterCoordinator keeps its promise: native writes and maintenance
\* of two connections never overlap.
THEOREM GateExcludes == Spec => []OneWriterInNative
<1>1. GateInv => OneWriterInNative
  BY DEF GateInv, GateHasOneHolder, OneWriterInNative
<1>. QED  BY <1>1, GateInit, GateInvariance, PTL DEF Spec

-----------------------------------------------------------------------------
(* The gate without pooling. *)

LEMMA ReleaseStep ==
    ASSUME ~Pooling, TypeOK, SteppersOpen, HolderCanRelease, [Next]_vars
    PROVE  HolderCanRelease'
<1>. USE DEF SteppersOpen, HolderCanRelease, IsOpen, Goto, flowVars, gateVars
<1>1. /\ session \in [Connections -> Sessions \cup {NoSession}]
      /\ writerGate \in [Connections -> BOOLEAN]
      /\ pc \in [Connections -> {"ready", "acquire", "step", "release"}]
      /\ NoSession \notin Sessions
      /\ owner \in [Begun -> Connections]
  BY ConstantsAssumption DEF TypeOK
<1>2. ASSUME NEW c \in Connections, DisposeWriterGate(c) \/ AcquireWriterGate(c)
      PROVE  HolderCanRelease'
  BY <1>1, <1>2 DEF DisposeWriterGate, AcquireWriterGate
<1>3. ASSUME NEW c \in Connections, Open(c)
      PROVE  HolderCanRelease'
  BY <1>1, <1>3 DEF Open
<1>4. ASSUME NEW c \in Connections, Close(c)
      PROVE  HolderCanRelease'
  BY <1>1, <1>4 DEF Close
<1>5. ASSUME NEW c \in Connections, UNCHANGED <<writerGate, session>>,
             \/ UNCHANGED pc
             \/ \E label \in {"ready", "acquire", "step", "release"} :
                    /\ pc' = [pc EXCEPT ![c] = label]
                    /\ pc[c] # "release"
      PROVE  HolderCanRelease'
  BY <1>1, <1>5
<1>6. CASE UNCHANGED <<writerGate, session, pc>>
  BY <1>6
<1>. HIDE DEF SteppersOpen, HolderCanRelease
<1>7. ASSUME NEW c \in Connections, ConnectionStep(c)
      PROVE  HolderCanRelease'
  BY <1>2, <1>3, <1>4, <1>5, <1>7
  DEF ConnectionStep, Start, StepWrite, StepMaintenance, Leave, LeaveByException,
      BeginTransaction, ReadTransaction, RollbackBySql, PrepareStatement
<1>8. ASSUME NEW x \in Begun, TransactionStep(x)
      PROVE  HolderCanRelease'
  <2>1. owner[x] \in Connections
    BY <1>1
  <2>. QED
    BY <1>5, <1>8, <2>1
    DEF TransactionStep, NoticeEnded, Commit, Rollback, DisposeEnded
<1>9. ASSUME NEW s \in Sessions, SessionStep(s)
      PROVE  HolderCanRelease'
  BY <1>6, <1>9 DEF SessionStep, ResetStatement, FinalizeStatements
<1>. QED  BY <1>6, <1>7, <1>8, <1>9 DEF Next, vars

\* Without pooling the permit of the writer key is never behind a closed
\* connection, so an application that closes what it opened gives every
\* permit back; pooled, Close leaves it there.
THEOREM PermitRecoverable == ~Pooling /\ Spec => []HolderCanRelease
<1>1. Init => HolderCanRelease
  BY DEF Init, HolderCanRelease
<1>2. GateInv => TypeOK /\ SteppersOpen
  BY DEF GateInv
<1>3. ASSUME ~Pooling
      PROVE  TypeOK /\ SteppersOpen /\ HolderCanRelease /\ [Next]_vars => HolderCanRelease'
  BY <1>3, ReleaseStep
<1>4. ASSUME ~Pooling
      PROVE  Spec => []HolderCanRelease
  BY <1>1, <1>2, <1>3, <1>4, GateInit, GateInvariance, PTL DEF Spec
<1>. QED  BY <1>4

-----------------------------------------------------------------------------
(* Transactions without pooling. *)

LEMMA OrphanInit == Init => OrphanInv
BY GateInit
   DEF Init, OrphanInv, SessionsApart, IsOpen, NativeIsBegun, OrphanHasStatement

LEMMA OrphanStep ==
    ASSUME ~Pooling, OrphanInv, [Next]_vars
    PROVE  SessionsApart' /\ NativeIsBegun' /\ OrphanHasStatement'
<1>1. /\ session \in [Connections -> Sessions \cup {NoSession}]
      /\ inTx \in [Sessions -> Transactions \cup {NoTx}]
      /\ owner \in [Begun -> Connections]
      /\ completed \subseteq Begun
      /\ NoSession \notin Sessions
      /\ NoTx \notin Begun
      /\ SessionsApart /\ NativeIsBegun /\ OrphanHasStatement
      /\ ~Pooling
  BY ConstantsAssumption DEF OrphanInv, GateInv, TypeOK
<1>. DEFINE Goal == SessionsApart' /\ NativeIsBegun' /\ OrphanHasStatement'
<1>. USE <1>1
     DEF SessionsApart, NativeIsBegun, OrphanHasStatement, IsOpen, Begun, nativeVars,
         txVars, Zombie, Attached
<1>2. CASE UNCHANGED <<session, inTx, owner, completed, unfinalized>>
  BY <1>2
<1>3. ASSUME NEW s, EndNative(s), UNCHANGED <<session, owner, completed, unfinalized>>
      PROVE  Goal
  BY <1>3 DEF EndNative
<1>4. ASSUME NEW c \in Connections, Open(c)
      PROVE  Goal
  BY <1>4 DEF Open
<1>5. ASSUME NEW c \in Connections, Close(c)
      PROVE  Goal
  <2>1. session[c] \in Sessions
    BY <1>5 DEF Close
  <2>2. /\ session' = [session EXCEPT ![c] = NoSession]
        /\ UNCHANGED <<owner, completed, unfinalized>>
        /\ \A s \in Sessions \ {session[c]} : inTx'[s] = inTx[s]
        /\ inTx'[session[c]] \in {inTx[session[c]], NoTx}
        /\ session[c] \notin unfinalized => inTx'[session[c]] = NoTx
    BY <1>5, <2>1 DEF Close, DisposeSession, EndNative
  <2>3. \A d \in Connections \ {c} : session'[d] = session[d] /\ session'[d] # session[c]
    BY <2>1, <2>2
  <2>4. SessionsApart' /\ NativeIsBegun'
    BY <2>1, <2>2, <2>3
  <2>5. ASSUME NEW s \in Sessions, inTx'[s] # NoTx
        PROVE  \/ session'[owner'[inTx'[s]]] = s /\ inTx'[s] \notin completed'
               \/ Zombie(s)'
    <3>1. inTx'[s] = inTx[s] /\ inTx[s] \in Begun /\ owner[inTx[s]] \in Connections
      BY <2>2, <2>5
    <3>2. CASE s = session[c]
      BY <2>1, <2>2, <2>3, <2>5, <3>2
    <3>3. CASE s # session[c]
      BY <2>1, <2>2, <2>3, <2>5, <3>1, <3>3
    <3>. QED  BY <3>2, <3>3
  <2>. QED  BY <2>4, <2>5
<1>6. ASSUME NEW c \in Connections, BeginTransaction(c)
      PROVE  Goal
  BY <1>6 DEF BeginTransaction, AutoCommit
<1>7. ASSUME NEW x \in Begun, NoticeEnded(x)
      PROVE  Goal
  BY <1>7 DEF NoticeEnded, Complete, AutoCommit
<1>8. ASSUME NEW x \in Begun, Active(x), EndNative(session[owner[x]]), Complete(x),
             UNCHANGED <<session, owner, unfinalized>>
      PROVE  Goal
  BY <1>8 DEF EndNative, Complete, Active
<1>9. ASSUME NEW x \in Begun, DisposeEnded(x)
      PROVE  Goal
  BY <1>9 DEF DisposeEnded, Active, AutoCommit
<1>10. ASSUME NEW s, unfinalized' = unfinalized \cup {s},
              UNCHANGED <<session, inTx, owner, completed>>
       PROVE  Goal
  BY <1>10
<1>11. ASSUME NEW s \in Sessions, FinalizeStatements(s)
       PROVE  Goal
  BY <1>11 DEF FinalizeStatements, EndNative
<1>. HIDE <1>1 DEF SessionsApart, NativeIsBegun, OrphanHasStatement, IsOpen, Begun,
                   Zombie, Attached
<1>12. ASSUME NEW c \in Connections, ConnectionStep(c)
       PROVE  Goal
  <2>1. CASE StepWrite(c)
    BY <1>2, <1>3, <1>10, <2>1 DEF StepWrite, WriteNative, WriteReturningRow
  <2>. QED
    BY <1>2, <1>3, <1>4, <1>5, <1>6, <1>10, <1>12, <2>1
    DEF ConnectionStep, DisposeWriterGate, AcquireWriterGate, Start,
        StepMaintenance, ReadTransaction, RollbackBySql, PrepareStatement
<1>13. ASSUME NEW x \in Begun, TransactionStep(x)
       PROVE  Goal
  BY <1>2, <1>7, <1>8, <1>9, <1>13 DEF TransactionStep, Commit, Rollback
<1>14. ASSUME NEW s \in Sessions, SessionStep(s)
       PROVE  Goal
  BY <1>2, <1>11, <1>14 DEF SessionStep, ResetStatement
<1>. QED  BY <1>2, <1>12, <1>13, <1>14 DEF Next, vars

\* Without pooling, a transaction SQLite has open belongs to a connection
\* that is open and to a SqliteTransaction that can still end it, unless the
\* connection was closed over a reader or a prepared command; then their
\* last statement keeps it.  No other order of Commit, Rollback, ROLLBACK as
\* SQL, Close, Dispose, failing calls and reads of Transaction orphans one.
THEOREM OrphansHaveStatements == ~Pooling /\ Spec => []OrphanHasStatement
<1>1. ASSUME ~Pooling
      PROVE  OrphanInv /\ [Next]_vars => OrphanInv'
  BY <1>1, GateInvariance, OrphanStep DEF OrphanInv
<1>2. OrphanInv => OrphanHasStatement
  BY DEF OrphanInv
<1>3. ASSUME ~Pooling
      PROVE  Spec => []OrphanHasStatement
  BY <1>1, <1>2, <1>3, OrphanInit, PTL DEF Spec
<1>. QED  BY <1>3

-----------------------------------------------------------------------------
(* SQLite's write lock. *)

LockInv ==
    \A s \in Sessions : writeLock = s => inTx[s] # NoTx \/ s \in unfinalized

LEMMA LockStep ==
    ASSUME TypeOK, LockInv, [Next]_vars
    PROVE  LockInv'
<1>. USE DEF LockInv, nativeVars
<1>1. /\ session \in [Connections -> Sessions \cup {NoSession}]
      /\ inTx \in [Sessions -> Transactions \cup {NoTx}]
      /\ NoSession \notin Sessions /\ NoTx \notin Transactions
  BY ConstantsAssumption DEF TypeOK
<1>2. CASE UNCHANGED nativeVars
  BY <1>2
<1>3. ASSUME NEW s, EndNative(s), UNCHANGED unfinalized
      PROVE  LockInv'
  BY <1>1, <1>3 DEF EndNative
<1>4. ASSUME NEW s \in Sessions \cup {NoSession}, WriteNative(s) \/ WriteReturningRow(s)
      PROVE  LockInv'
  BY <1>1, <1>4 DEF WriteNative, WriteReturningRow, CanWrite
<1>5. ASSUME NEW c \in Connections, BeginTransaction(c)
      PROVE  LockInv'
  BY <1>1, <1>5 DEF BeginTransaction, IsOpen
<1>6. ASSUME NEW s, unfinalized' = unfinalized \cup {s}, UNCHANGED <<inTx, writeLock>>
      PROVE  LockInv'
  BY <1>6
<1>7. ASSUME NEW s \in Sessions, SessionStep(s)
      PROVE  LockInv'
  BY <1>1, <1>7 DEF SessionStep, ResetStatement, FinalizeStatements, EndNative
<1>. HIDE DEF LockInv
<1>8. ASSUME NEW c \in Connections, ConnectionStep(c)
      PROVE  LockInv'
  <2>1. session[c] \in Sessions \cup {NoSession}
    BY <1>1
  <2>2. CASE StepWrite(c)
    BY <1>2, <1>3, <1>4, <2>1, <2>2 DEF StepWrite
  <2>3. CASE Close(c)
    BY <1>2, <1>3, <2>3 DEF Close, DisposeSession
  <2>. QED
    BY <1>2, <1>3, <1>5, <1>6, <1>8, <2>2, <2>3
    DEF ConnectionStep, DisposeWriterGate, AcquireWriterGate, Start,
        StepMaintenance, Open, ReadTransaction, RollbackBySql, PrepareStatement
<1>9. ASSUME NEW x \in Begun, TransactionStep(x)
      PROVE  LockInv'
  BY <1>2, <1>3, <1>9
  DEF TransactionStep, NoticeEnded, Commit, Rollback, DisposeEnded
<1>. QED  BY <1>2, <1>7, <1>8, <1>9 DEF Next, vars

\* Without pooling, whoever holds the database's write lock between two calls
\* is a transaction that its connection can still commit or roll back, or a
\* session, open or not, with a statement to reset or finalize: no failing
\* statement, COMMIT or ROLLBACK and no order of Close and Dispose leaves the
\* lock with nobody.
THEOREM WriteLockOwned == ~Pooling /\ Spec => []WriteLockHasHolder
<1>1. Init => LockInv
  BY ConstantsAssumption DEF Init, LockInv
<1>2. GateInv => TypeOK
  BY DEF GateInv
<1>3. ASSUME ~Pooling
      PROVE  OrphanInv /\ [Next]_vars => OrphanInv'
  BY <1>3, GateInvariance, OrphanStep DEF OrphanInv
<1>4. OrphanInv /\ LockInv => WriteLockHasHolder
  BY DEF OrphanInv, LockInv, WriteLockHasHolder, NativeIsBegun, OrphanHasStatement,
         Zombie
<1>5. ASSUME ~Pooling
      PROVE  Spec => []WriteLockHasHolder
  BY <1>1, <1>2, <1>3, <1>4, <1>5, OrphanInit, GateInit, GateInvariance, LockStep,
     PTL DEF Spec
<1>. QED  BY <1>5

===============================================================================
