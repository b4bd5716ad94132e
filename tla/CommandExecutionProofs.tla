------------------------ MODULE CommandExecutionProofs ------------------------
(***************************************************************************)
(* CommandExecution for every number of commands, connections and          *)
(* sessions.                                                               *)
(*                                                                         *)
(* The types and SqliteSession.Gate are kept whatever the application does.*)
(* Where at most one command of a connection writes at a time the permit   *)
(* of the writer key is never lost or given back twice (WritersInv); where *)
(* connections are closed in order a command's reader, its statement and   *)
(* the interrupts it caused never outlive its hold on the session, and a   *)
(* timer does only when the Close of its reader threw (InterruptInv).      *)
(***************************************************************************)
EXTENDS CommandExecution, TLAPS

-----------------------------------------------------------------------------
(* Types. *)

LEMMA TypeInit == Init => TypeOK
BY ConstantsAssumption DEF Init, TypeOK, SessionOrNone

\* What the engine's operators do to the types.
LEMMA InterruptType ==
    ASSUME TypeOK, NEW s, NEW c \in Connections \cup {Nobody}, Interrupt(s, c)
    PROVE  interrupted' \in [Sessions -> SUBSET (Connections \cup {Nobody})]
BY DEF TypeOK, Interrupt

LEMMA EngineTypes ==
    ASSUME TypeOK, NEW k \in Commands, NEW s,
           StartStatement(k, s) \/ EndStatement(k, s)
    PROVE  /\ running' \in [Sessions -> SUBSET Commands]
           /\ interrupted' \in [Sessions -> SUBSET (Connections \cup {Nobody})]
BY DEF TypeOK, StartStatement, EndStatement

LEMMA TypeStep ==
    ASSUME TypeOK, [Next]_vars
    PROVE  TypeOK'
<1>. USE ConstantsAssumption
     DEF TypeOK, SessionOrNone, Goto, Finish, connectionVars, lockVars,
         commandVars, readerVars, engineVars
<1>1. ASSUME NEW k \in Commands, CommandStep(k)
      PROVE  TypeOK'
  <2>. connection[k] \in Connections
    OBVIOUS
  <2>1. CASE \E c \in Connections : SetConnection(k, c)
    BY <2>1 DEF SetConnection
  <2>2. CASE Prepare(k)
    BY <2>2 DEF Prepare, MayCall
  <2>3. CASE ExecuteReader(k)
    BY <2>3 DEF ExecuteReader, MayCall
  <2>4. CASE CloseReader(k)
    <3>1. stray' \subseteq Sessions
      BY <2>4 DEF CloseReader
    <3>. QED  BY <2>4, <3>1, EngineTypes DEF CloseReader
  <2>5. CASE TimerFires(k)
    BY <2>5, InterruptType DEF TimerFires
  <2>6. CASE CancelToken(k)
    BY <2>6, InterruptType DEF CancelToken
  <2>7. CASE Cancel(k)
    BY <2>7, InterruptType DEF Cancel
  <2>8. CASE Read(k)
    BY <2>8 DEF Read
  <2>9. CASE Write(k)
    BY <2>9 DEF Write
  <2>10. CASE LockForGate(k)
    <3>1. CASE IsOpen(connection[k])
      BY <2>10, <3>1 DEF LockForGate
    <3>2. CASE ~IsOpen(connection[k])
      BY <2>10, <3>2 DEF LockForGate
    <3>. QED  BY <3>1, <3>2
  <2>11. CASE AcquirePermit(k)
    BY <2>11 DEF AcquirePermit, Disposing, CommandsOf
  <2>12. CASE Enter(k)
    <3>1. CASE canceled[k]
      <4>1. /\ pc' = [pc EXCEPT ![k] = "ready"]
            /\ writes' = [writes EXCEPT ![k] = FALSE]
            /\ canceled' = [canceled EXCEPT ![k] = FALSE]
        BY <2>12, <3>1 DEF Enter
      <4>2. UNCHANGED <<connectionVars, lockVars, commandVars, readerVars, gate,
                        engineVars>>
        BY <2>12, <3>1 DEF Enter
      <4>. QED  BY <4>1, <4>2
    <3>2. CASE ~canceled[k]
      <4>1. /\ running' \in [Sessions -> SUBSET Commands]
            /\ interrupted' \in [Sessions -> SUBSET (Connections \cup {Nobody})]
        BY <2>12, <3>2, EngineTypes DEF Enter
      <4>2. /\ gate' \in [Sessions -> Commands \cup {Nobody}]
            /\ pc' \in [Commands -> {"ready", "lock", "acquire", "gate", "native",
                                    "dispose", "release", "null"}]
        BY <2>12, <3>2 DEF Enter
      <4>3. UNCHANGED <<connectionVars, lockVars, commandVars, readerVars,
                        canceled, writes>>
        BY <2>12, <3>2 DEF Enter
      <4>. QED  BY <4>1, <4>2, <4>3
    <3>. QED  BY <3>1, <3>2
  <2>13. CASE ReturnFromStep(k)
    BY <2>13, EngineTypes DEF ReturnFromStep
  <2>14. CASE ThrowFromStep(k)
    BY <2>14, EngineTypes DEF ThrowFromStep
  <2>15. CASE TestDisposed(k)
    BY <2>15 DEF TestDisposed
  <2>16. CASE ReleasePermit(k)
    BY <2>16 DEF ReleasePermit
  <2>17. CASE ClearWriterGate(k)
    BY <2>17 DEF ClearWriterGate, Disposing, CommandsOf
  <2>. QED
    BY <1>1, <2>1, <2>2, <2>3, <2>4, <2>5, <2>6, <2>7, <2>8, <2>9, <2>10, <2>11,
       <2>12, <2>13, <2>14, <2>15, <2>16, <2>17 DEF CommandStep
<1>2. ASSUME NEW c \in Connections, Open(c) \/ CloseBegin(c) \/ CloseEnd(c)
      PROVE  TypeOK'
  BY <1>2 DEF Open, CloseBegin, CloseEnd
<1>3. ASSUME NEW s \in Sessions, StrayTimerFires(s)
      PROVE  TypeOK'
  BY <1>3, InterruptType DEF StrayTimerFires
<1>4. CASE UNCHANGED vars
  BY <1>4 DEF vars
<1>. QED  BY <1>1, <1>2, <1>3, <1>4 DEF Next

\* Every variable keeps its type, however commands of one connection
\* interleave: a Releaser disposed twice meets the maximum of SemaphoreSlim.
THEOREM TypeCorrect == Spec => []TypeOK
BY TypeInit, TypeStep, PTL DEF Spec

-----------------------------------------------------------------------------
(* SqliteSession.Gate. *)

GateInv == TypeOK /\ GateHeldOnlyInNative

LEMMA GateInit == Init => GateHeldOnlyInNative
BY ConstantsAssumption DEF Init, GateHeldOnlyInNative

LEMMA GateStep ==
    ASSUME GateInv, [Next]_vars
    PROVE  GateHeldOnlyInNative'
<1>. USE ConstantsAssumption
     DEF GateInv, TypeOK, GateHeldOnlyInNative, Goto, Finish, readerVars
<1>1. ASSUME NEW k \in Commands, CommandStep(k)
      PROVE  GateHeldOnlyInNative'
  <2>1. CASE (\E c \in Connections : SetConnection(k, c)) \/ Prepare(k)
    BY <2>1 DEF SetConnection, Prepare
  <2>2. CASE ExecuteReader(k)
    BY <2>2 DEF ExecuteReader, MayCall
  <2>3. CASE CloseReader(k)
    BY <2>3 DEF CloseReader
  <2>4. CASE TimerFires(k) \/ CancelToken(k) \/ Cancel(k)
    BY <2>4 DEF TimerFires, CancelToken, Cancel
  <2>5. CASE Read(k) \/ Write(k)
    BY <2>5 DEF Read, Write
  <2>6. CASE LockForGate(k) \/ AcquirePermit(k)
    BY <2>6 DEF LockForGate, AcquirePermit
  <2>7. CASE Enter(k)
    BY <2>7 DEF Enter
  <2>8. CASE ReturnFromStep(k)
    BY <2>8 DEF ReturnFromStep
  <2>9. CASE ThrowFromStep(k)
    BY <2>9 DEF ThrowFromStep
  <2>10. CASE TestDisposed(k) \/ ReleasePermit(k) \/ ClearWriterGate(k)
    BY <2>10 DEF TestDisposed, ReleasePermit, ClearWriterGate
  <2>. QED
    BY <1>1, <2>1, <2>2, <2>3, <2>4, <2>5, <2>6, <2>7, <2>8, <2>9, <2>10
    DEF CommandStep
<1>2. ASSUME NEW c \in Connections, Open(c) \/ CloseBegin(c) \/ CloseEnd(c)
      PROVE  GateHeldOnlyInNative'
  BY <1>2 DEF Open, CloseBegin, CloseEnd
<1>3. ASSUME NEW s \in Sessions, StrayTimerFires(s)
      PROVE  GateHeldOnlyInNative'
  BY <1>3 DEF StrayTimerFires
<1>4. CASE UNCHANGED vars
  BY <1>4 DEF vars
<1>. QED  BY <1>1, <1>2, <1>3, <1>4 DEF Next

\* Every way out of a step gives back the Gate of its session, and only a
\* command inside a step on a session has it: no application, orderly or not,
\* can leave a Gate held.
THEOREM GateReleased == Spec => []GateHeldOnlyInNative
<1>1. GateInv /\ [Next]_vars => GateHeldOnlyInNative'
  BY GateStep
<1>. QED
  BY <1>1, GateInit, TypeCorrect, PTL DEF Spec, GateInv

-----------------------------------------------------------------------------
(* The writer gate, when a connection has one writing command at a time. *)

Writing(k) == pc[k] # "ready" /\ writes[k]
AroundGate == {"lock", "acquire", "dispose", "release", "null"}

WritersApart ==
    \A k, j \in Commands :
        connection[k] = connection[j] /\ Writing(k) /\ Writing(j) => k = j

\* Only a writing command is around the writer gate; before it has taken the
\* permit, and after it has given it back, its connection has none, and while
\* it gives it back the Releaser is the one of its connection.
GateFollowsWriter ==
    /\ stale = {}
    /\ \A k \in Commands :
        /\ pc[k] \in AroundGate => writes[k]
        /\ pc[k] = "release" => writerGate[connection[k]] = "held"
        /\ pc[k] \in {"lock", "acquire", "null"}
           => writerGate[connection[k]] # "held"

WritersInv == TypeOK /\ PermitHasHolder /\ WritersApart /\ GateFollowsWriter

LEMMA WritersInit == Init => WritersInv
BY TypeInit
DEF Init, WritersInv, PermitHasHolder, WritersApart, GateFollowsWriter, Writing,
    AroundGate

LEMMA WritersApartStep ==
    ASSUME ~SharedWrites, WritersInv, [Next]_vars
    PROVE  WritersApart'
<1>. USE DEF WritersInv, TypeOK, WritersApart, Writing, Goto, Finish
<1>1. ASSUME NEW k \in Commands, CommandStep(k)
      PROVE  WritersApart'
  <2>1. CASE \E c \in Connections : SetConnection(k, c)
    BY <2>1 DEF SetConnection
  <2>2. CASE Write(k)
    BY <2>2 DEF Write, CommandsOf, commandVars
  <2>3. CASE Read(k)
    BY <2>3 DEF Read, commandVars
  <2>4. CASE Prepare(k) \/ ExecuteReader(k) \/ CloseReader(k) \/ TimerFires(k)
             \/ CancelToken(k) \/ Cancel(k)
    BY <2>4 DEF Prepare, ExecuteReader, CloseReader, TimerFires, CancelToken,
                Cancel, commandVars
  <2>5. CASE LockForGate(k)
    BY <2>5, <1>1 DEF LockForGate, commandVars
  <2>6. CASE AcquirePermit(k)
    BY <2>6 DEF AcquirePermit, commandVars
  <2>7. CASE TestDisposed(k) \/ ReleasePermit(k) \/ ClearWriterGate(k)
    BY <2>7 DEF TestDisposed, ReleasePermit, ClearWriterGate, commandVars
  <2>8. CASE Enter(k)
    BY <2>8 DEF Enter, commandVars
  <2>9. CASE ReturnFromStep(k) \/ ThrowFromStep(k)
    BY <2>9 DEF ReturnFromStep, ThrowFromStep, commandVars
  <2>. QED
    BY <1>1, <2>1, <2>2, <2>3, <2>4, <2>5, <2>6, <2>7, <2>8, <2>9 DEF CommandStep
<1>2. ASSUME NEW c \in Connections, Open(c) \/ CloseBegin(c) \/ CloseEnd(c)
      PROVE  WritersApart'
  BY <1>2 DEF Open, CloseBegin, CloseEnd, commandVars
<1>3. ASSUME NEW s \in Sessions, StrayTimerFires(s)
      PROVE  WritersApart'
  BY <1>3 DEF StrayTimerFires, commandVars
<1>4. CASE UNCHANGED vars
  BY <1>4 DEF vars
<1>. QED  BY <1>1, <1>2, <1>3, <1>4 DEF Next

\* A step of another kind leaves its connection's gate as it is and brings its
\* command to a place where GateFollowsWriter asks nothing new.
LEMMA PlacesMove ==
    ASSUME TypeOK, NEW k \in Commands, CommandStep(k),
           ~(AcquirePermit(k) \/ ReleasePermit(k) \/ ClearWriterGate(k))
    PROVE  /\ UNCHANGED <<writerGate, permits, stale>>
           /\ \A j \in Commands \ {k} :
                  pc'[j] = pc[j] /\ writes'[j] = writes[j]
                  /\ connection'[j] = connection[j]
           /\ pc'[k] \in AroundGate => connection'[k] = connection[k]
           /\ pc'[k] \in AroundGate /\ ~writes'[k]
              => pc[k] \in AroundGate /\ ~writes[k]
           /\ pc'[k] = "release"
              => pc[k] = "release" \/ writerGate[connection[k]] = "held"
           /\ pc'[k] \in {"lock", "acquire", "null"}
              => \/ pc[k] \in {"lock", "acquire", "null"}
                 \/ writerGate[connection[k]] # "held"
<1>. USE DEF TypeOK, Goto, Finish, AroundGate, commandVars, lockVars
<1>1. CASE \E c \in Connections : SetConnection(k, c)
  BY <1>1 DEF SetConnection
<1>2. CASE Prepare(k) \/ ExecuteReader(k) \/ CloseReader(k) \/ TimerFires(k)
           \/ CancelToken(k) \/ Cancel(k)
  BY <1>2 DEF Prepare, ExecuteReader, CloseReader, TimerFires, CancelToken, Cancel
<1>3. CASE Read(k)
  BY <1>3 DEF Read
<1>4. CASE Write(k)
  BY <1>4 DEF Write
<1>5. CASE LockForGate(k)
  BY <1>5 DEF LockForGate
<1>6. CASE Enter(k)
  BY <1>6 DEF Enter
<1>7. CASE ReturnFromStep(k)
  BY <1>7 DEF ReturnFromStep
<1>8. CASE ThrowFromStep(k)
  BY <1>8 DEF ThrowFromStep
<1>9. CASE TestDisposed(k)
  BY <1>9 DEF TestDisposed
<1>. QED
  BY <1>1, <1>2, <1>3, <1>4, <1>5, <1>6, <1>7, <1>8, <1>9 DEF CommandStep

LEMMA PlacesStep ==
    ASSUME ~SharedWrites, WritersInv, [Next]_vars
    PROVE  GateFollowsWriter' /\ PermitHasHolder'
<1>. USE DEF WritersInv, TypeOK, GateFollowsWriter, PermitHasHolder
<1>1. ASSUME NEW k \in Commands, CommandStep(k)
      PROVE  GateFollowsWriter' /\ PermitHasHolder'
  <2>1. CASE AcquirePermit(k)
    <3>1. \A j \in Commands \ {k} :
              pc[j] \in AroundGate => connection[j] # connection[k]
      BY <2>1 DEF AcquirePermit, WritersApart, Writing, AroundGate
    <3>2. Disposing(k) = {}
      BY <3>1 DEF Disposing, CommandsOf, AroundGate
    <3>. QED
      BY <2>1, <3>1, <3>2 DEF AcquirePermit, AroundGate, Goto, commandVars
  <2>2. CASE ReleasePermit(k)
    <3>1. \A j \in Commands \ {k} :
              pc[j] \in AroundGate => connection[j] # connection[k]
      BY <2>2 DEF ReleasePermit, WritersApart, Writing, AroundGate
    <3>2. permits = 0 /\ writerGate[connection[k]] = "held"
      BY <2>2 DEF ReleasePermit
    <3>3. /\ permits' = 1 /\ stale' = {}
          /\ writerGate' = [writerGate EXCEPT ![connection[k]] = "disposed"]
          /\ pc' = [pc EXCEPT ![k] = "null"]
          /\ UNCHANGED <<writes, connection>>
      BY <2>2, <3>2 DEF ReleasePermit, Goto, commandVars
    <3>4. \A d \in Connections : writerGate'[d] # "held"
      BY <3>2, <3>3
    <3>. QED
      BY <2>2, <3>1, <3>2, <3>3, <3>4 DEF ReleasePermit, AroundGate
  <2>3. CASE ClearWriterGate(k)
    <3>1. Disposing(k) = {}
      BY <2>3 DEF ClearWriterGate, Disposing, CommandsOf
    <3>2. writerGate[connection[k]] # "held"
      BY <2>3 DEF ClearWriterGate
    <3>. QED
      BY <2>3, <3>1, <3>2 DEF ClearWriterGate, AroundGate, Goto, Finish, commandVars
  <2>4. CASE ~(AcquirePermit(k) \/ ReleasePermit(k) \/ ClearWriterGate(k))
    <3>1. UNCHANGED <<writerGate, permits, stale>>
      BY <1>1, <2>4, PlacesMove
    <3>2. ASSUME NEW j \in Commands
          PROVE  /\ pc'[j] \in AroundGate => writes'[j]
                 /\ pc'[j] = "release" => writerGate'[connection'[j]] = "held"
                 /\ pc'[j] \in {"lock", "acquire", "null"}
                    => writerGate'[connection'[j]] # "held"
      <4>1. CASE j = k
        BY <1>1, <2>4, <3>1, <4>1, PlacesMove DEF AroundGate
      <4>2. CASE j # k
        BY <1>1, <2>4, <3>1, <4>2, PlacesMove
      <4>. QED  BY <4>1, <4>2
    <3>. QED  BY <3>1, <3>2
  <2>. QED  BY <2>1, <2>2, <2>3, <2>4
<1>2. ASSUME NEW c \in Connections, Open(c) \/ CloseBegin(c) \/ CloseEnd(c)
      PROVE  GateFollowsWriter' /\ PermitHasHolder'
  BY <1>2 DEF Open, CloseBegin, CloseEnd, commandVars, lockVars
<1>3. ASSUME NEW s \in Sessions, StrayTimerFires(s)
      PROVE  GateFollowsWriter' /\ PermitHasHolder'
  BY <1>3 DEF StrayTimerFires, commandVars, lockVars
<1>4. CASE UNCHANGED vars
  BY <1>4 DEF vars
<1>. QED  BY <1>1, <1>2, <1>3, <1>4 DEF Next

LEMMA WritersAlways == ~SharedWrites /\ Spec => []WritersInv
<1>1. ASSUME ~SharedWrites
      PROVE  WritersInv /\ [Next]_vars => WritersInv'
  <2>. SUFFICES ASSUME WritersInv, [Next]_vars
                PROVE  WritersInv'
    OBVIOUS
  <2>1. TypeOK'
    BY TypeStep DEF WritersInv
  <2>. QED  BY <1>1, <2>1, WritersApartStep, PlacesStep DEF WritersInv
<1>2. ASSUME ~SharedWrites
      PROVE  Spec => []WritersInv
  BY <1>1, <1>2, WritersInit, PTL DEF Spec
<1>. QED  BY <1>2

\* As long as the commands of a connection do not write at the same time, the
\* permit of a writer key is in the semaphore or behind the _writerGate of
\* exactly one connection, open or closed: the unsynchronised test of
\* _disposed and the assignment of null lose and double nothing then.
THEOREM PermitKept == ~SharedWrites /\ Spec => []PermitHasHolder
<1>1. WritersInv => PermitHasHolder
  BY DEF WritersInv
<1>. QED  BY <1>1, WritersAlways, PTL

\* Nor does a thread wait inside _syncRoot for a permit its own connection has.
THEOREM NoSelfWait == ~SharedWrites /\ Spec => []NoWaitForOwnPermit
<1>1. WritersInv => NoWaitForOwnPermit
  BY DEF WritersInv, GateFollowsWriter, NoWaitForOwnPermit
<1>. QED  BY <1>1, WritersAlways, PTL

-----------------------------------------------------------------------------
(* Sessions, when connections are closed after their readers. *)

SessionsApart ==
    \A c, d \in Connections : IsOpen(c) /\ session[c] = session[d] => c = d

\* What a command keeps of a session is of the one its connection has.
CommandsFollowSession ==
    \A k \in Commands :
        /\ reader[k] # NoSession
           => reader[k] = session[connection[k]] /\ target[k] = reader[k]
        /\ preparedOn[k] # NoSession => preparedOn[k] = session[connection[k]]
        /\ timerOn[k] # NoSession => timerOn[k] = reader[k]
        /\ pc[k] # "ready" => reader[k] # NoSession

NativeHoldsGate == \A k \in Commands : pc[k] = "native" => gate[reader[k]] = k

SessionInv ==
    /\ TypeOK
    /\ SessionsApart
    /\ CommandsFollowSession
    /\ NativeHoldsGate

\* An interrupt in effect has a statement of its own connection to hit, unless
\* a stray timer made it.
InterruptsFollowSession ==
    \A s \in Sessions :
        /\ \A k \in running[s] : reader[k] = s
        /\ interrupted[s] # {} => running[s] # {}
        /\ \A c \in interrupted[s] \ {Nobody} : session[c] = s

InterruptInv == SessionInv /\ InterruptsFollowSession

LEMMA InterruptInit == Init => InterruptInv
BY TypeInit
DEF Init, InterruptInv, SessionInv, SessionsApart,
    CommandsFollowSession, NativeHoldsGate, InterruptsFollowSession, IsOpen

LEMMA SessionStep ==
    ASSUME OrderlyClose, SessionInv, [Next]_vars
    PROVE  SessionsApart' /\ CommandsFollowSession' /\ NativeHoldsGate'
<1>. USE ConstantsAssumption
     DEF SessionInv, TypeOK, SessionOrNone, SessionsApart, CommandsFollowSession,
         NativeHoldsGate, IsOpen, Goto, Finish, connectionVars, commandVars, readerVars
<1>1. ASSUME NEW k \in Commands, CommandStep(k)
      PROVE  SessionsApart' /\ CommandsFollowSession' /\ NativeHoldsGate'
  <2>1. CASE \E c \in Connections : SetConnection(k, c)
    BY <2>1 DEF SetConnection
  <2>2. CASE Prepare(k)
    BY <2>2 DEF Prepare, MayCall
  <2>3. CASE ExecuteReader(k)
    BY <2>3 DEF ExecuteReader, MayCall
  <2>4. CASE CloseReader(k)
    BY <2>4 DEF CloseReader
  <2>5. CASE TimerFires(k)
    BY <2>5 DEF TimerFires
  <2>6. CASE CancelToken(k) \/ Cancel(k)
    BY <2>6 DEF CancelToken, Cancel
  <2>7. CASE Read(k) \/ Write(k)
    BY <2>7 DEF Read, Write
  <2>8. CASE LockForGate(k)
    BY <2>8 DEF LockForGate
  <2>9. CASE AcquirePermit(k)
    BY <2>9 DEF AcquirePermit
  <2>10. CASE Enter(k)
    BY <2>10 DEF Enter
  <2>11. CASE ReturnFromStep(k) \/ ThrowFromStep(k)
    BY <2>11 DEF ReturnFromStep, ThrowFromStep
  <2>12. CASE TestDisposed(k) \/ ReleasePermit(k) \/ ClearWriterGate(k)
    BY <2>12 DEF TestDisposed, ReleasePermit, ClearWriterGate
  <2>. QED
    BY <1>1, <2>1, <2>2, <2>3, <2>4, <2>5, <2>6, <2>7, <2>8, <2>9, <2>10, <2>11,
       <2>12 DEF CommandStep
<1>2. ASSUME NEW c \in Connections
      PROVE  /\ Open(c) => SessionsApart' /\ CommandsFollowSession'
             /\ CloseBegin(c) => SessionsApart' /\ CommandsFollowSession'
             /\ CloseEnd(c) => SessionsApart' /\ CommandsFollowSession'
             /\ Open(c) \/ CloseBegin(c) \/ CloseEnd(c) => NativeHoldsGate'
  <2>1. ASSUME Open(c)
        PROVE  SessionsApart' /\ CommandsFollowSession'
    BY <2>1 DEF Open, Lent
  <2>2. ASSUME CloseBegin(c)
        PROVE  SessionsApart' /\ CommandsFollowSession'
    BY <2>2 DEF CloseBegin, IsOrderly, CommandsOf
  <2>3. ASSUME CloseEnd(c)
        PROVE  SessionsApart' /\ CommandsFollowSession'
    BY <2>3 DEF CloseEnd
  <2>4. ASSUME Open(c) \/ CloseBegin(c) \/ CloseEnd(c)
        PROVE  NativeHoldsGate'
    BY <2>4 DEF Open, CloseBegin, CloseEnd
  <2>. QED  BY <2>1, <2>2, <2>3, <2>4
<1>3. ASSUME NEW s \in Sessions, StrayTimerFires(s)
      PROVE  SessionsApart' /\ CommandsFollowSession' /\ NativeHoldsGate'
  BY <1>3 DEF StrayTimerFires
<1>4. CASE UNCHANGED vars
  BY <1>4 DEF vars
<1>. QED  BY <1>1, <1>2, <1>3, <1>4 DEF Next

LEMMA InterruptStep ==
    ASSUME OrderlyClose, InterruptInv, [Next]_vars
    PROVE  InterruptsFollowSession'
<1>. USE ConstantsAssumption
     DEF InterruptInv, SessionInv, TypeOK, SessionOrNone, CommandsFollowSession,
         InterruptsFollowSession, Goto, Finish, connectionVars, readerVars, engineVars
<1>1. ASSUME NEW k \in Commands, NEW s \in Sessions, Interrupt(s, connection[k]),
             s = session[connection[k]], UNCHANGED <<session, reader, running>>
      PROVE  InterruptsFollowSession'
  BY <1>1 DEF Interrupt
<1>2. ASSUME NEW k \in Commands, reader[k] # NoSession, EndStatement(k, target[k]),
             UNCHANGED session, \A j \in Commands \ {k} : reader'[j] = reader[j],
             reader'[k] \in {reader[k], NoSession}
      PROVE  InterruptsFollowSession'
  BY <1>2 DEF EndStatement
<1>3. ASSUME NEW k \in Commands, CommandStep(k)
      PROVE  InterruptsFollowSession'
  <2>1. CASE (\E c \in Connections : SetConnection(k, c)) \/ Prepare(k)
    BY <2>1 DEF SetConnection, Prepare
  <2>2. CASE ExecuteReader(k)
    BY <2>2 DEF ExecuteReader, MayCall
  <2>3. CASE CloseReader(k)
    BY <2>3, <1>2 DEF CloseReader
  <2>4. CASE TimerFires(k)
    BY <2>4, <1>1 DEF TimerFires
  <2>5. CASE CancelToken(k)
    <3>1. reader[k] \in Sessions /\ reader[k] = session[connection[k]]
      BY <2>5 DEF CancelToken
    <3>. QED  BY <2>5, <3>1, <1>1 DEF CancelToken
  <2>6. CASE Cancel(k)
    BY <2>6, <1>1 DEF Cancel, IsOpen
  <2>7. CASE Read(k) \/ Write(k) \/ LockForGate(k) \/ AcquirePermit(k)
    BY <2>7 DEF Read, Write, LockForGate, AcquirePermit
  <2>8. CASE Enter(k)
    BY <2>8 DEF Enter, StartStatement
  <2>9. CASE ReturnFromStep(k)
    BY <2>9, <1>2 DEF ReturnFromStep
  <2>10. CASE ThrowFromStep(k)
    BY <2>10, <1>2 DEF ThrowFromStep
  <2>11. CASE TestDisposed(k) \/ ReleasePermit(k) \/ ClearWriterGate(k)
    BY <2>11 DEF TestDisposed, ReleasePermit, ClearWriterGate
  <2>. QED
    BY <1>3, <2>1, <2>2, <2>3, <2>4, <2>5, <2>6, <2>7, <2>8, <2>9, <2>10, <2>11
    DEF CommandStep
<1>4. ASSUME NEW c \in Connections, Open(c)
      PROVE  InterruptsFollowSession'
  BY <1>4 DEF Open, IsOpen
<1>5. ASSUME NEW c \in Connections, CloseBegin(c)
      PROVE  InterruptsFollowSession'
  <2>1. \A s \in Sessions : c \notin interrupted[s]
    BY <1>5 DEF CloseBegin, IsOrderly, CommandsOf, IsOpen, SessionsApart
  <2>. QED  BY <1>5, <2>1 DEF CloseBegin
<1>6. ASSUME NEW c \in Connections, CloseEnd(c)
      PROVE  InterruptsFollowSession'
  BY <1>6 DEF CloseEnd
<1>7. ASSUME NEW s \in Sessions, StrayTimerFires(s)
      PROVE  InterruptsFollowSession'
  BY <1>7 DEF StrayTimerFires, Interrupt
<1>8. CASE UNCHANGED vars
  BY <1>8 DEF vars
<1>. QED  BY <1>3, <1>4, <1>5, <1>6, <1>7, <1>8 DEF Next

LEMMA InterruptAlways == OrderlyClose /\ Spec => []InterruptInv
<1>1. ASSUME OrderlyClose
      PROVE  InterruptInv /\ [Next]_vars => InterruptInv'
  BY <1>1, SessionStep, InterruptStep, TypeStep DEF InterruptInv, SessionInv
<1>2. ASSUME OrderlyClose
      PROVE  Spec => []InterruptInv
  BY <1>1, <1>2, InterruptInit, PTL DEF Spec
<1>. QED  BY <1>2

\* Calls of sqlite3_step on one session never overlap, whichever commands make
\* them and through however many connections the session has gone.
THEOREM StepsSerialized == OrderlyClose /\ Spec => []OneStepPerSession
<1>1. InterruptInv => OneStepPerSession
  BY DEF InterruptInv, SessionInv, CommandsFollowSession, NativeHoldsGate,
         OneStepPerSession
<1>2. ASSUME OrderlyClose
      PROVE  Spec => []OneStepPerSession
  BY <1>1, <1>2, InterruptAlways, PTL
<1>. QED  BY <1>2

\* A command's statement runs on the session its connection has.
THEOREM StatementOnItsSession ==
    OrderlyClose /\ Spec => []StatementRunsOnItsConnection
<1>1. InterruptInv => StatementRunsOnItsConnection
  BY DEF InterruptInv, SessionInv, CommandsFollowSession,
         StatementRunsOnItsConnection
<1>2. ASSUME OrderlyClose
      PROVE  Spec => []StatementRunsOnItsConnection
  BY <1>1, <1>2, InterruptAlways, PTL
<1>. QED  BY <1>2

\* What interrupts a statement is a timer, a token or a Cancel of its own
\* connection, or a timer whose reader's Close threw: nothing else crosses to
\* the next owner of a session.
THEOREM InterruptsStay == OrderlyClose /\ Spec => []OnlyStrayTimersCross
<1>1. InterruptInv => OnlyStrayTimersCross
  <2>. SUFFICES ASSUME InterruptInv, NEW k \in Commands, pc[k] = "native",
                       NEW c \in interrupted[target[k]], c # Nobody
                PROVE  c = connection[k]
    BY DEF OnlyStrayTimersCross
  <2>1. target[k] \in Sessions /\ target[k] = session[connection[k]]
    BY DEF InterruptInv, SessionInv, TypeOK, SessionOrNone, CommandsFollowSession
  <2>2. c \in Connections /\ session[c] = target[k]
    BY <2>1 DEF InterruptInv, SessionInv, TypeOK, InterruptsFollowSession
  <2>. QED
    BY <2>1, <2>2, ConstantsAssumption
    DEF InterruptInv, SessionInv, TypeOK, SessionsApart, IsOpen
<1>2. ASSUME OrderlyClose
      PROVE  Spec => []OnlyStrayTimersCross
  BY <1>1, <1>2, InterruptAlways, PTL
<1>. QED  BY <1>2
===============================================================================
