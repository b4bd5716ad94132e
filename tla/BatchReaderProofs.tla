-------------------------- MODULE BatchReaderProofs --------------------------
(***************************************************************************)
(* BatchReader for every set of batches, parameters and behaviors.         *)
(*                                                                         *)
(* BindingsMatch rests on what ResolveParameterIndex computes              *)
(* (ResolveSound) and on bindings never outliving the statement they were  *)
(* made for.  WritesOnceInOrder needs to know where in its life the        *)
(* current statement is, and whether the application has read it to its    *)
(* end (OnceInv).                                                          *)
(***************************************************************************)
EXTENDS BatchReader, FiniteSetTheorems, TLAPS

-----------------------------------------------------------------------------
(* SqliteCommand.BindParameters. *)

Holes == Seq((Prefixes \X STRING) \cup {Anonymous})
Names == ({""} \cup Prefixes) \X STRING

\* Some number of the statement's placeholders is the one SQLite gives a name.
LEMMA IndexOfNameSound ==
    ASSUME NEW holes \in Holes, NEW name
    PROVE  /\ IndexOfName(holes, name) \in DOMAIN holes \cup {0}
           /\ IndexOfName(holes, name) # 0 => holes[IndexOfName(holes, name)] = name
           /\ IndexOfName(holes, name) = 0 =>
                  ~ \E h \in DOMAIN holes : holes[h] = name /\ name[1] \in Prefixes
BY DEF IndexOfName, Holes

\* ResolveParameterIndex names a placeholder that means what the name says,
\* and the only one that does unless it is written exactly like the name.
LEMMA ResolveSound ==
    ASSUME NEW holes \in Holes, NEW name \in Names, NEW ordinal \in Nat \ {0},
           Resolve(holes, name, ordinal) > 0
    PROVE  LET r == Resolve(holes, name, ordinal) IN
           /\ r \in DOMAIN holes
           /\ Means(name, holes[r])
           /\ \/ name = holes[r]
              \/ \A h \in DOMAIN holes : Means(name, holes[h]) => h = r
<1>. DEFINE r == Resolve(holes, name, ordinal)
            spelled == Spellings(holes, name[2])
<1>0. \A h \in DOMAIN holes : holes[h] \in (Prefixes \X STRING) \cup {Anonymous}
  BY DEF Holes
<1>1. CASE name = Anonymous
  <2>1. r = ordinal /\ ordinal <= Len(holes) /\ holes[ordinal] = Anonymous
    BY <1>1 DEF Resolve, Unresolvable
  <2>. QED  BY <1>1, <2>1 DEF Means, Holes
<1>2. CASE name # Anonymous /\ IndexOfName(holes, name) > 0
  <2>1. r = IndexOfName(holes, name)
    BY <1>2 DEF Resolve
  <2>. QED  BY <1>2, <2>1, IndexOfNameSound DEF Means
<1>3. CASE name # Anonymous /\ ~(IndexOfName(holes, name) > 0)
  <2>1. IndexOfName(holes, name) = 0
    BY <1>3, IndexOfNameSound DEF Holes
  <2>2. Cardinality(spelled) = 1 /\ r = CHOOSE h \in spelled : TRUE
    BY <1>3 DEF Resolve, Unresolvable
  <2>3. PICK only : spelled = {only}
    <3>1. IsFiniteSet(DOMAIN holes)
      BY FS_Interval DEF Holes
    <3>2. IsFiniteSet(spelled)
      BY <3>1, FS_Subset DEF Spellings
    <3>. QED  BY <2>2, <3>2, FS_Singleton
  <2>4. r = only /\ r \in DOMAIN holes /\ holes[r][2] = name[2]
                 /\ holes[r][1] \in Prefixes
    BY <2>2, <2>3 DEF Spellings
  <2>5. holes[r] # Anonymous
    <3>1. Anonymous[1] = "" /\ "" \notin Prefixes
      BY DEF Anonymous, Prefixes
    <3>. QED  BY <2>4, <3>1
  <2>6. ASSUME NEW h \in DOMAIN holes, Means(name, holes[h])
        PROVE  h = r
    <3>1. holes[h] # name
      <4>. SUFFICES ASSUME holes[h] = name
                    PROVE  FALSE
        OBVIOUS
      <4>1. name[1] \in Prefixes
        BY <1>0, <1>3
      <4>. QED  BY <4>1, <2>1, IndexOfNameSound
    <3>2. holes[h] # Anonymous /\ holes[h][2] = name[2]
      BY <2>6, <3>1 DEF Means
    <3>3. holes[h][1] \in Prefixes
      BY <1>0, <3>2
    <3>. QED  BY <2>3, <2>4, <3>2, <3>3 DEF Spellings
  <2>. QED  BY <1>3, <2>4, <2>5, <2>6 DEF Means
<1>. QED  BY <1>1, <1>2, <1>3

LEMMA ElementOfSeq ==
    ASSUME NEW S, NEW q \in Seq(S), NEW i \in DOMAIN q
    PROVE  q[i] \in S /\ i \in Nat \ {0}
OBVIOUS

LEMMA AppendToSeq ==
    ASSUME NEW S, NEW q \in Seq(S), NEW e \in S
    PROVE  /\ Append(q, e) \in Seq(S)
           /\ DOMAIN Append(q, e) = DOMAIN q \cup {Len(q) + 1}
           /\ \A i \in DOMAIN q : Append(q, e)[i] = q[i]
           /\ Append(q, e)[Len(q) + 1] = e
OBVIOUS

\* A value bound in a statement is a parameter of the list, under a name that
\* means its placeholder and no other.
PairSound(holes, list, pair) ==
    LET hole == holes[pair[1]]
        name == pair[2].name
    IN /\ \E i \in DOMAIN list : list[i] = pair[2]
       /\ Means(name, hole)
       /\ \/ name = hole
          \/ \A h \in DOMAIN holes : Means(name, holes[h]) => h = pair[1]

\* BindParameters leaves in a statement such values only.
LEMMA BoundPairsSound ==
    ASSUME NEW holes \in Holes,
           NEW list \in Seq([name : Names, isSet : BOOLEAN])
    PROVE  \A pair \in BoundPairs(holes, list) : PairSound(holes, list, pair)
<1>. SUFFICES ASSUME NEW pair \in BoundPairs(holes, list)
              PROVE  PairSound(holes, list, pair)
  OBVIOUS
<1>1. PICK i \in DOMAIN list :
          /\ pair = <<Resolve(holes, list[i].name, i), list[i]>>
          /\ Resolve(holes, list[i].name, i) > 0
  BY DEF BoundPairs
<1>2. i \in Nat \ {0} /\ list[i] \in [name : Names, isSet : BOOLEAN]
  BY ElementOfSeq
<1>3. list[i].name \in Names
  BY <1>2
<1>. QED  BY <1>1, <1>2, <1>3, ResolveSound DEF PairSound

-----------------------------------------------------------------------------
(* Types. *)

TypeInv == TypeOK /\ (pc = "toEnd" => stmt # 0)

LEMMA TextType ==
    ASSUME NEW t \in Batches
    PROVE  /\ Len(t) \in Nat /\ DOMAIN t = 1..Len(t)
           /\ \A i \in DOMAIN t : /\ t[i].kind \in Kinds
                                  /\ t[i].size \in Nat
                                  /\ t[i].holes \in Holes
<1>. DEFINE Statements == [kind : Kinds, size : Nat, holes : Holes]
<1>1. t \in Seq(Statements)
  BY BatchesAssumption DEF Holes
<1>2. \A i \in DOMAIN t : t[i] \in Statements
  <2>. HIDE DEF Statements
  <2>. QED  BY <1>1, ElementOfSeq
<1>3. Len(t) \in Nat /\ DOMAIN t = 1..Len(t)
  <2>. HIDE DEF Statements
  <2>. QED  BY <1>1
<1>. QED  BY <1>2, <1>3

\* What a native step may leave.
EngineOK ==
    /\ vm \in {"reset", "row", "done", "failed"}
    /\ row \in Nat /\ changes \in Nat
    /\ applied \in Seq(1..Len(text))

LEMMA StepTypes ==
    ASSUME TypeOK, text' = text,
           \/ stmt # 0 /\ (StepRow \/ StepDone \/ StepFails)
           \/ EndStatement \/ UNCHANGED engineVars
    PROVE  EngineOK'
<1>. USE DEF EngineOK, TypeOK
<1>1. stmt # 0 => RowsOf(stmt) \in Nat /\ text[stmt].size \in Nat
                  /\ stmt \in 1..Len(text)
  BY TextType DEF RowsOf
<1>2. stmt # 0 /\ Halt => changes' \in Nat /\ applied' \in Seq(1..Len(text))
  <2>. SUFFICES ASSUME stmt # 0, Halt
                PROVE  changes' \in Nat /\ applied' \in Seq(1..Len(text))
    OBVIOUS
  <2>1. changes' \in Nat
    BY <1>1 DEF Halt
  <2>2. applied' = applied \/ applied' = Append(applied, stmt)
    BY DEF Halt
  <2>3. Append(applied, stmt) \in Seq(1..Len(text))
    BY <1>1, AppendToSeq
  <2>. QED  BY <2>1, <2>2, <2>3
<1>3. CASE stmt # 0 /\ StepRow
  BY <1>1, <1>3 DEF StepRow, Returned
<1>4. CASE stmt # 0 /\ StepDone
  BY <1>1, <1>2, <1>4 DEF StepDone, Returned
<1>5. CASE stmt # 0 /\ StepFails
  BY <1>5 DEF StepFails
<1>6. CASE EndStatement
  BY <1>2, <1>6 DEF EndStatement
<1>7. CASE UNCHANGED engineVars
  BY <1>7 DEF engineVars
<1>. QED  BY <1>3, <1>4, <1>5, <1>6, <1>7

LEMMA AffectedType ==
    ASSUME TypeOK, NEW now \in Nat, AddChanges(now)
    PROVE  affected' \in Nat \cup {-1}
BY DEF TypeOK, AddChanges

\* The three ways PrepareAndBindNext ends.
LEMMA NextTypes ==
    ASSUME TypeOK, NEW b, DOMAIN b = DOMAIN text, NEW throwOnMissing,
           \/ NoNext(b) \/ NextThrows(b, throwOnMissing) \/ Found(b, throwOnMissing)
    PROVE  /\ DOMAIN bindings' = DOMAIN text
           /\ sqlNext' \in 1..Len(text) + 1 /\ cacheNext' \in 1..Len(text) + 1
           /\ Found(b, throwOnMissing) => Cursor \in 1..Len(text)
<1>. USE DEF TypeOK, Cursor, cursorVars
<1>1. Len(text) \in Nat
  BY TextType
<1>2. \A j : DOMAIN Bind(b, j) = DOMAIN text
  BY DEF Bind
<1>3. CASE NoNext(b)
  BY <1>3, <1>1 DEF NoNext, Found
<1>4. CASE NextThrows(b, throwOnMissing)
  BY <1>1, <1>2, <1>4 DEF NextThrows, MoveCursor, Found
<1>5. CASE Found(b, throwOnMissing)
  BY <1>1, <1>2, <1>5 DEF Found, MoveCursor
<1>. QED  BY <1>3, <1>4, <1>5

\* The history of what the application does with the reader.
UsageOK ==
    readOut \subseteq 1..Len(text) /\ blurred \in BOOLEAN /\ again \in 0..MaxAgain

LEMMA NoteTypes ==
    ASSUME TypeOK, text' = text, NoteReadOn,
           (stmt # 0 /\ NoteStep) \/ UNCHANGED <<readOut, again>>
    PROVE  UsageOK'
<1>1. blurred' \in BOOLEAN
  BY DEF NoteReadOn, TypeOK
<1>2. again' \in 0..MaxAgain
  BY OptionsAssumption DEF NoteStep, TypeOK
<1>3. readOut' \subseteq 1..Len(text)
  <2>1. stmt # 0 => stmt \in 1..Len(text)
    BY TextType DEF TypeOK
  <2>2. readOut \subseteq 1..Len(text)
    BY DEF TypeOK
  <2>3. readOut' = readOut \/ (stmt # 0 /\ readOut' = readOut \cup {stmt})
    BY DEF NoteStep
  <2>. QED  BY <2>1, <2>2, <2>3
<1>. QED  BY <1>1, <1>2, <1>3 DEF UsageOK

LEMMA ReleasedDomain == DOMAIN Released = DOMAIN bindings
BY DEF Released

LEMMA TypeInit == Init => TypeInv
<1>. SUFFICES ASSUME Init PROVE TypeInv
  OBVIOUS
<1>1. Len(text) \in Nat
  BY TextType DEF Init
<1>2. applied \in Seq(1..Len(text)) /\ DOMAIN bindings = DOMAIN text
  BY DEF Init, Unbound
<1>3. /\ sqlNext \in 1..Len(text) + 1 /\ cacheNext \in 1..Len(text) + 1
      /\ stmt \in 0..Len(text)
  BY <1>1 DEF Init
<1>4. 0 \in 0..MaxAgain
  BY OptionsAssumption
<1>. QED  BY <1>2, <1>3, <1>4 DEF Init, TypeInv, TypeOK

LEMMA PlaceInBatch ==
    ASSUME NEW n \in Nat
    PROVE  0 \in 0..n /\ \A i \in 1..n : i \in 0..n /\ i # 0
OBVIOUS

LEMMA ReaderStepTypes ==
    ASSUME TypeInv, ReaderStep
    PROVE  TypeInv'
<1>0. /\ Len(text) \in Nat /\ stmt \in 0..Len(text)
      /\ creating \in BOOLEAN /\ failed \in BOOLEAN /\ scope \in BOOLEAN
  BY TextType DEF TypeInv, TypeOK
<1>00. 0 \in 0..Len(text) /\ \A i \in 1..Len(text) : i \in 0..Len(text) /\ i # 0
  BY <1>0, PlaceInBatch
<1>1. CASE Advance
  <2>1. EngineOK' /\ affected' \in Nat \cup {-1}
    BY <1>1, StepTypes, AffectedType DEF Advance, TypeInv, TypeOK, commandVars
  <2>2. CASE ReleaseThrows
    BY <1>1, <2>1, <2>2 DEF Advance, Throw, TypeInv, TypeOK, EngineOK, commandVars,
                           flagVars, cursorVars, usageVars
  <2>3. CASE ~ReleaseThrows
    <3>1. \/ /\ NoNext(Released)
             /\ stmt' = 0 /\ pc' = "open" /\ creating' = FALSE
             /\ UNCHANGED failed
          \/ /\ NextThrows(Released, TRUE)
             /\ stmt' = 0 /\ Throw /\ UNCHANGED creating
          \/ /\ Found(Released, TRUE)
             /\ stmt' = Cursor
             /\ \/ pc' = "open" /\ creating' = FALSE
                \/ pc' = "toEnd" /\ UNCHANGED creating
             /\ failed' = FALSE
      BY <1>1, <2>3 DEF Advance
    <3>2. /\ DOMAIN bindings' = DOMAIN text
          /\ sqlNext' \in 1..Len(text) + 1 /\ cacheNext' \in 1..Len(text) + 1
          /\ Found(Released, TRUE) => Cursor \in 1..Len(text)
      BY <3>1, NextTypes, ReleasedDomain DEF TypeInv, TypeOK
    <3>3. stmt' \in 0..Len(text) /\ (pc' = "toEnd" => stmt' # 0)
      BY <1>00, <3>1, <3>2 DEF Throw
    <3>4. pc' \in {"open", "drain", "toEnd"} /\ creating' \in BOOLEAN
          /\ failed' \in BOOLEAN
      BY <1>0, <3>1 DEF Throw
    <3>5. /\ hasRow' = FALSE /\ prefetched' = FALSE /\ readStarted' = FALSE
          /\ seen' = 0 /\ UNCHANGED <<text, parameters, prepared, behavior, scope,
                       readOut, blurred, again>>
      BY <1>1, <2>3 DEF Advance, commandVars, usageVars
    <3>. HIDE DEF ReleaseThrows
    <3>. QED
      BY <2>1, <3>2, <3>3, <3>4, <3>5 DEF TypeInv, TypeOK, EngineOK
  <2>. QED  BY <2>2, <2>3
<1>2. CASE ToEnd
  <2>1. EngineOK'
    BY <1>2, StepTypes DEF ToEnd, TypeInv, TypeOK, commandVars
  <2>. QED
    BY <1>2, <2>1 DEF ToEnd, Throw, TypeInv, TypeOK, EngineOK, commandVars,
                      flagVars, cursorVars, usageVars
<1>3. CASE Drain
  <2>1. EngineOK'
    BY <1>3, StepTypes DEF Drain, TypeInv, TypeOK, commandVars
  <2>2. affected' \in Nat \cup {-1}
    BY <1>3, <2>1, AffectedType DEF Drain, TypeInv, TypeOK, EngineOK
  <2>3. pc' \in {"drain", "drainNext", "release"}
    BY <1>3 DEF Drain
  <2>. QED
    BY <1>3, <2>1, <2>2, <2>3 DEF Drain, TypeInv, TypeOK, EngineOK, commandVars,
                                  flagVars, cursorVars, usageVars
<1>4. CASE DrainNext
  <2>1. EngineOK'
    BY <1>4, StepTypes DEF DrainNext, TypeInv, TypeOK, commandVars
  <2>2. \/ NoNext(Released) /\ stmt' = 0 /\ pc' = "release"
        \/ NextThrows(Released, FALSE) /\ UNCHANGED stmt /\ pc' = "release"
        \/ Found(Released, FALSE) /\ stmt' = Cursor /\ pc' = "drain"
    BY <1>4 DEF DrainNext
  <2>3. /\ DOMAIN bindings' = DOMAIN text
        /\ sqlNext' \in 1..Len(text) + 1 /\ cacheNext' \in 1..Len(text) + 1
        /\ Found(Released, FALSE) => Cursor \in 1..Len(text)
    BY <2>2, NextTypes, ReleasedDomain DEF TypeInv, TypeOK
  <2>4. stmt' \in 0..Len(text) /\ pc' \in {"release", "drain"}
    BY <1>0, <1>00, <2>2, <2>3
  <2>. QED
    BY <1>4, <2>1, <2>3, <2>4 DEF DrainNext, TypeInv, TypeOK, EngineOK,
                                  commandVars, flagVars, usageVars
<1>5. CASE Release
  <2>1. EngineOK'
    BY <1>5, StepTypes DEF Release, TypeInv, TypeOK, commandVars
  <2>2. stmt' \in 0..Len(text) /\ scope' \in BOOLEAN
    BY <1>0, <1>00, <1>5 DEF Release
  <2>3. DOMAIN bindings' = DOMAIN text
    BY <1>5, ReleasedDomain DEF Release, TypeInv, TypeOK
  <2>. QED
    BY <1>5, <2>1, <2>2, <2>3 DEF Release, TypeInv, TypeOK, EngineOK, commandVars,
                                  flagVars, cursorVars, usageVars
<1>. QED  BY <1>1, <1>2, <1>3, <1>4, <1>5 DEF ReaderStep

LEMMA ReadTypes ==
    ASSUME TypeInv, Read
    PROVE  TypeInv'
<1>1. \/ stmt # 0 /\ (StepRow \/ StepDone \/ StepFails)
      \/ UNCHANGED engineVars
  BY DEF Read
<1>2. EngineOK'
  BY <1>1, StepTypes DEF Read, TypeInv, TypeOK, commandVars
<1>3. ASSUME NEW h \in BOOLEAN, NEW n \in Nat, ReadReturns(h, n)
      PROVE  /\ hasRow' \in BOOLEAN /\ readStarted' \in BOOLEAN
             /\ failed' \in BOOLEAN /\ seen' \in Nat
             /\ affected' \in Nat \cup {-1} /\ pc' \in {"drain", "open"}
  BY <1>3, AffectedType DEF ReadReturns, Read, TypeInv, TypeOK
<1>4. /\ hasRow' \in BOOLEAN /\ readStarted' \in BOOLEAN
      /\ failed' \in BOOLEAN /\ seen' \in Nat
      /\ affected' \in Nat \cup {-1} /\ pc' \in {"drain", "open"}
  <2>1. changes \in Nat /\ changes' \in Nat /\ hasRow \in BOOLEAN
    BY <1>2 DEF TypeInv, TypeOK, EngineOK
  <2>2. \/ \E h \in BOOLEAN, n \in Nat : ReadReturns(h, n)
        \/ readStarted' = TRUE /\ failed' = TRUE
           /\ UNCHANGED <<pc, hasRow, affected, seen>>
    BY <2>1 DEF Read
  <2>. QED  BY <1>3, <2>2 DEF Read, TypeInv, TypeOK
<1>5. prefetched' \in BOOLEAN
  BY DEF Read, TypeInv, TypeOK
<1>6. UsageOK'
  BY NoteTypes DEF Read, TypeInv, commandVars
<1>. QED
  BY <1>2, <1>4, <1>5, <1>6
  DEF Read, TypeInv, TypeOK, EngineOK, UsageOK, commandVars, cursorVars

LEMMA TypeStep ==
    ASSUME TypeInv, [Next]_vars
    PROVE  TypeInv'
<1>. USE DEF commandVars, flagVars, cursorVars, engineVars, readerVars, usageVars
<1>1. CASE SetCommandText
  <2>1. /\ DOMAIN bindings' = DOMAIN text'
        /\ applied' \in Seq(1..Len(text'))
    BY <1>1 DEF SetCommandText, Unbound
  <2>2. /\ sqlNext' \in 1..Len(text') + 1 /\ cacheNext' \in 1..Len(text') + 1
        /\ stmt' \in 0..Len(text')
    BY <1>1, TextType DEF SetCommandText
  <2>. QED  BY <1>1, <2>1, <2>2 DEF SetCommandText, TypeInv, TypeOK
<1>2. CASE SetParameters
  BY <1>2 DEF SetParameters, TypeInv, TypeOK
<1>3. CASE Prepare
  BY <1>3 DEF Prepare, Unbound, TypeInv, TypeOK
<1>4. CASE ExecuteReader
  <2>1. /\ sqlNext' \in 1..Len(text) + 1 /\ cacheNext' \in 1..Len(text) + 1
        /\ stmt' \in 0..Len(text) /\ applied' \in Seq(1..Len(text))
        /\ behavior' \in SUBSET Flags /\ again' \in 0..MaxAgain
    BY <1>4, TextType, BatchesAssumption, OptionsAssumption
    DEF ExecuteReader, TypeInv, TypeOK
  <2>. QED  BY <1>4, <2>1 DEF ExecuteReader, TypeInv, TypeOK
<1>5. CASE NextResult \/ Close
  BY <1>5 DEF NextResult, Close, TypeInv, TypeOK
<1>6. CASE HasRows
  <2>1. \/ stmt # 0 /\ (StepRow \/ StepDone \/ StepFails)
        \/ UNCHANGED engineVars
    BY <1>6 DEF HasRows
  <2>2. EngineOK'
    BY <1>6, <2>1, StepTypes DEF HasRows, TypeInv, TypeOK
  <2>3. hasRow' \in BOOLEAN /\ prefetched' \in BOOLEAN /\ failed' \in BOOLEAN
    BY <1>6 DEF HasRows, TypeInv, TypeOK
  <2>4. UsageOK'
    BY <1>6, NoteTypes DEF HasRows, TypeInv
  <2>. QED
    BY <1>6, <2>2, <2>3, <2>4 DEF HasRows, TypeInv, TypeOK, EngineOK, UsageOK
<1>7. CASE UNCHANGED vars
  BY <1>7 DEF vars, TypeInv, TypeOK
<1>. QED
  BY <1>1, <1>2, <1>3, <1>4, <1>5, <1>6, <1>7, ReadTypes, ReaderStepTypes DEF Next

LEMMA TypeAlways == Spec => []TypeInv
<1>. QED  BY TypeInit, TypeStep, PTL DEF Spec

\* Every variable keeps its type; in particular neither cursor ever runs past
\* the batch, on any path through NextResult, an exception or the drain.
THEOREM TypeCorrect == Spec => []TypeOK
<1>1. TypeInv => TypeOK
  BY DEF TypeInv
<1>. QED  BY <1>1, TypeAlways, PTL

-----------------------------------------------------------------------------
(* Bindings. *)

\* What BindingsMatch says of one value bound in statement i.
Sound(i, pair) == PairSound(text[i].holes, parameters, pair)

LEMMA BindSound ==
    ASSUME TypeOK, NEW b, DOMAIN b = DOMAIN text, NEW i \in DOMAIN text
    PROVE  /\ \A pair \in Bind(b, i)[i] : Sound(i, pair)
           /\ \A j \in DOMAIN text \ {i} : Bind(b, i)[j] = b[j]
<1>1. parameters \in Seq([name : Names, isSet : BOOLEAN])
  BY ParametersAssumption DEF TypeOK, Names
<1>2. text[i].holes \in Holes
  BY TextType DEF TypeOK
<1>3. Bind(b, i)[i] = BoundPairs(text[i].holes, parameters)
  BY DEF Bind, Overwrite
<1>4. \A pair \in BoundPairs(text[i].holes, parameters) : Sound(i, pair)
  BY <1>1, <1>2, BoundPairsSound DEF Sound
<1>5. \A j \in DOMAIN text \ {i} : Bind(b, i)[j] = b[j]
  BY DEF Bind
<1>. QED  BY <1>3, <1>4, <1>5

LEMMA BindingsStep ==
    ASSUME TypeInv, BindingsMatch, [Next]_vars
    PROVE  BindingsMatch'
<1>0. /\ DOMAIN bindings = DOMAIN text /\ DOMAIN text = 1..Len(text)
      /\ stmt \in 0..Len(text) /\ Len(text) \in Nat
      /\ TypeOK
  BY TextType DEF TypeInv, TypeOK
<1>00. stmt # 0 => stmt \in DOMAIN text
  BY <1>0
<1>1. BindingsMatch <=>
          (stmt # 0 /\ pc # "closed" => \A pair \in bindings[stmt] : Sound(stmt, pair))
  BY DEF BindingsMatch, Sound, PairSound
<1>2. UNCHANGED <<text, parameters>> =>
          (BindingsMatch' <=>
              (stmt' # 0 /\ pc' # "closed" =>
                  \A pair \in bindings'[stmt'] : Sound(stmt', pair)))
  BY DEF BindingsMatch, Sound, PairSound
<1>3. stmt # 0 /\ pc # "closed" =>
          /\ stmt \in DOMAIN text
          /\ \A pair \in Released[stmt] : Sound(stmt, pair)
  BY <1>0, <1>00, <1>1 DEF Released
<1>4. CASE Advance
  <2>1. UNCHANGED <<text, parameters>> /\ pc # "closed"
    BY <1>4 DEF Advance, commandVars
  <2>2. CASE ReleaseThrows
    BY <1>1, <1>2, <1>4, <2>1, <2>2 DEF Advance
  <2>3. CASE ~ReleaseThrows
    <3>1. \/ stmt' = 0
          \/ Found(Released, TRUE) /\ stmt' = Cursor
      BY <1>4, <2>3 DEF Advance
    <3>2. CASE Found(Released, TRUE) /\ stmt' = Cursor
      <4>1. Cursor \in DOMAIN text
        BY <1>0, <3>2, NextTypes, ReleasedDomain
      <4>2. bindings' = Bind(Released, Cursor)
        BY <3>2 DEF Found
      <4>. QED
        BY <1>0, <1>2, <2>1, <3>2, <4>1, <4>2, BindSound, ReleasedDomain
    <3>. QED  BY <1>2, <2>1, <3>1, <3>2
  <2>. QED  BY <2>2, <2>3
<1>5. CASE DrainNext
  <2>1. UNCHANGED <<text, parameters>> /\ pc # "closed"
    BY <1>5 DEF DrainNext, commandVars
  <2>2. \/ stmt' = 0
        \/ NextThrows(Released, FALSE) /\ UNCHANGED stmt
        \/ Found(Released, FALSE) /\ stmt' = Cursor
    BY <1>5 DEF DrainNext
  <2>3. CASE NextThrows(Released, FALSE) /\ UNCHANGED stmt /\ stmt # 0
    <3>1. \/ bindings' = Released
          \/ bindings' = Bind(Released, Cursor) /\ Cursor <= Len(text)
      BY <2>3 DEF NextThrows
    <3>2. Cursor \in Nat \ {0}
      BY DEF Cursor, TypeInv, TypeOK
    <3>3. CASE bindings' = Released
      BY <1>2, <1>3, <2>1, <2>3, <3>3
    <3>4. CASE bindings' = Bind(Released, Cursor) /\ Cursor \in DOMAIN text
      <4>1. CASE Cursor = stmt
        BY <1>0, <1>2, <2>1, <2>3, <3>4, <4>1, BindSound, ReleasedDomain
      <4>2. CASE Cursor # stmt
        <5>1. bindings'[stmt] = Released[stmt]
          BY <1>0, <1>00, <2>3, <3>4, <4>2, BindSound, ReleasedDomain
        <5>. QED  BY <1>2, <1>3, <2>1, <2>3, <5>1
      <4>. QED  BY <4>1, <4>2
    <3>. QED  BY <1>0, <3>1, <3>2, <3>3, <3>4
  <2>4. CASE Found(Released, FALSE) /\ stmt' = Cursor
    <3>1. Cursor \in DOMAIN text
      BY <1>0, <2>4, NextTypes, ReleasedDomain
    <3>2. bindings' = Bind(Released, Cursor)
      BY <2>4 DEF Found
    <3>. QED
      BY <1>0, <1>2, <2>1, <2>4, <3>1, <3>2, BindSound, ReleasedDomain
  <2>. QED  BY <1>2, <2>1, <2>2, <2>3, <2>4
<1>6. CASE SetCommandText \/ SetParameters \/ Prepare \/ ExecuteReader \/ Release
  <2>1. stmt' = 0 \/ pc' = "closed"
    BY <1>6 DEF SetCommandText, SetParameters, Prepare, ExecuteReader, Release,
                readerVars
  <2>. QED  BY <2>1 DEF BindingsMatch
<1>7. CASE \/ NextResult \/ HasRows \/ Read \/ Close \/ ToEnd \/ Drain
           \/ UNCHANGED vars
  <2>1. UNCHANGED <<text, parameters, bindings, stmt>>
        /\ (pc' # "closed" => pc # "closed")
    BY <1>7 DEF NextResult, HasRows, Read, ReadReturns, Close, ToEnd, Drain, vars,
                commandVars, readerVars
  <2>. QED  BY <1>1, <1>2, <2>1
<1>. QED  BY <1>4, <1>5, <1>6, <1>7 DEF Next, ReaderStep

\* For every batch and list of parameters, in whatever order reader and
\* command are used: the values bound in the current statement are parameters
\* the command has, each under a name that means its placeholder and no other.
THEOREM BindingsCorrect == Spec => []BindingsMatch
<1>1. Init => BindingsMatch
  BY DEF Init, BindingsMatch
<1>2. TypeInv /\ BindingsMatch /\ [Next]_vars => BindingsMatch'
  BY BindingsStep
<1>. QED  BY <1>1, <1>2, TypeAlways, PTL DEF Spec

-----------------------------------------------------------------------------
(* The writes of a batch. *)

\* Every effect is of a statement the cursor has passed.
AppliedIsPassed ==
    pc # "closed" =>
        /\ stmt < Cursor
        /\ \A n \in DOMAIN applied : applied[n] < Cursor

\* A write that is current and not at its end has not taken effect, and at its
\* end it is left at once, before anything may step it again; unless the
\* application has read it to its end.
CurrentIsPending ==
    stmt # 0 /\ ~IsReadOnly(stmt) /\ pc # "closed" =>
        \/ stmt \in readOut /\ \A n \in DOMAIN applied : applied[n] <= stmt
        \/ /\ vm # "done" /\ pc # "release"
              => \A n \in DOMAIN applied : applied[n] < stmt
           /\ vm = "done" => pc \in {"advance", "drainNext"}

StatementsEnd ==
    /\ pc = "release" => vm # "row"
    /\ pc = "toEnd" => ~HasColumns(stmt) /\ vm # "row"

OnceInv ==
    /\ TypeInv
    /\ WritesOnceInOrder
    /\ AppliedIsPassed
    /\ CurrentIsPending
    /\ StatementsEnd

\* The current statement may take effect now.
MayTakeEffect ==
    IsReadOnly(stmt) \/ \A n \in DOMAIN applied :
        applied[n] < stmt \/ (applied[n] = stmt /\ stmt \in readOut)

\* The effects after a native step on the current statement.
LEMMA Effects ==
    ASSUME TypeInv, WritesOnceInOrder, stmt # 0, MayTakeEffect,
           readOut \subseteq readOut',
           StepRow \/ StepDone \/ StepFails \/ EndStatement
    PROVE  /\ WritesOnceInOrder'
           /\ \A n \in DOMAIN applied' :
                  applied'[n] = stmt \/ \E m \in DOMAIN applied : applied[m] = applied'[n]
           /\ applied' # applied => ~IsReadOnly(stmt) /\ vm' # "row"
<1>. USE DEF WritesOnceInOrder
<1>1. applied \in Seq(1..Len(text)) /\ stmt \in 1..Len(text)
      /\ DOMAIN applied = 1..Len(applied) /\ Len(applied) \in Nat
  BY TextType DEF TypeInv, TypeOK
<1>2. \/ applied' = applied
      \/ applied' = Append(applied, stmt) /\ ~IsReadOnly(stmt) /\ vm' # "row"
  BY DEF StepRow, StepDone, StepFails, EndStatement, Halt
<1>3. CASE applied' = applied
  BY <1>3
<1>4. CASE applied' = Append(applied, stmt) /\ ~IsReadOnly(stmt) /\ vm' # "row"
  <2>1. /\ DOMAIN applied' = 1..Len(applied) \cup {Len(applied) + 1}
        /\ \A n \in 1..Len(applied) : applied'[n] = applied[n]
        /\ applied'[Len(applied) + 1] = stmt
    BY <1>1, <1>4, AppendToSeq
  <2>2. \A n \in 1..Len(applied) :
            applied[n] < stmt \/ (applied[n] = stmt /\ stmt \in readOut)
    BY <1>1, <1>4 DEF MayTakeEffect
  <2>3. WritesOnceInOrder'
    <3>. SUFFICES ASSUME NEW m \in DOMAIN applied', NEW n \in DOMAIN applied', m < n
                  PROVE  \/ applied'[m] < applied'[n]
                         \/ applied'[m] = applied'[n] /\ applied'[m] \in readOut'
      OBVIOUS
    <3>1. m \in 1..Len(applied)
      BY <1>1, <2>1
    <3>2. CASE n \in 1..Len(applied)
      BY <1>1, <2>1, <3>1, <3>2
    <3>3. CASE n = Len(applied) + 1
      BY <2>1, <2>2, <3>1, <3>3
    <3>. QED  BY <2>1, <3>2, <3>3
  <2>. QED  BY <1>1, <1>4, <2>1, <2>3
<1>. QED  BY <1>2, <1>3, <1>4

LEMMA OnceInit == Init => OnceInv
BY TypeInit
DEF Init, OnceInv, WritesOnceInOrder, AppliedIsPassed, CurrentIsPending,
    StatementsEnd

\* Ending the current statement to go on to the next.
LEMMA AfterEnd ==
    ASSUME OnceInv, pc \in {"advance", "drainNext"}, EndStatement,
           readOut' = readOut
    PROVE  /\ WritesOnceInOrder'
           /\ \A n \in DOMAIN applied' : applied'[n] < Cursor
           /\ vm' = "reset"
           /\ vm # "row" => applied' = applied
<1>1. vm' = "reset" /\ (vm # "row" => applied' = applied)
  BY DEF EndStatement
<1>2. \A n \in DOMAIN applied : applied[n] < Cursor
  BY DEF OnceInv, AppliedIsPassed
<1>3. CASE applied' = applied
  BY <1>1, <1>2, <1>3 DEF OnceInv, WritesOnceInOrder
<1>4. CASE applied' # applied
  <2>1. stmt # 0 /\ vm = "row" /\ stmt < Cursor
    BY <1>4 DEF EndStatement, OnceInv, AppliedIsPassed
  <2>2. MayTakeEffect
    <3>1. DOMAIN applied = 1..Len(applied) /\ applied \in Seq(1..Len(text))
          /\ Len(text) \in Nat /\ stmt \in 0..Len(text)
      BY TextType DEF OnceInv, TypeInv, TypeOK
    <3>2. \A n \in DOMAIN applied : applied[n] \in 1..Len(text)
      BY <3>1, ElementOfSeq
    <3>. QED  BY <2>1, <3>1, <3>2 DEF OnceInv, CurrentIsPending, MayTakeEffect
  <2>3. /\ WritesOnceInOrder'
        /\ \A n \in DOMAIN applied' :
               applied'[n] = stmt
               \/ \E m \in DOMAIN applied : applied[m] = applied'[n]
    BY <2>1, <2>2, Effects DEF OnceInv
  <2>4. \A n \in DOMAIN applied' : applied'[n] < Cursor
    BY <1>2, <2>1, <2>3
  <2>. QED  BY <1>1, <2>1, <2>3, <2>4
<1>. QED  BY <1>3, <1>4

LEMMA CursorMoves ==
    ASSUME TypeOK, prepared' = prepared, NEW b, NEW throwOnMissing
    PROVE  /\ Cursor \in Nat \ {0}
           /\ NoNext(b) \/ NextThrows(b, throwOnMissing)
              => Cursor' \in Nat /\ Cursor <= Cursor'
           /\ Found(b, throwOnMissing)
              => Cursor' = Cursor + 1 /\ Cursor <= Len(text)
           /\ UNCHANGED cursorVars => Cursor' = Cursor
BY DEF TypeOK, Cursor, NoNext, NextThrows, Found, MoveCursor, cursorVars

LEMMA OnceAdvance ==
    ASSUME OnceInv, TypeInv', Advance
    PROVE  OnceInv'
<1>1. /\ WritesOnceInOrder'
      /\ \A n \in DOMAIN applied' : applied'[n] < Cursor /\ applied'[n] \in Nat
      /\ vm' = "reset" /\ (vm # "row" => applied' = applied)
  <2>1. \A n \in DOMAIN applied' : applied'[n] \in Nat
    BY DEF TypeInv, TypeOK
  <2>. QED  BY <2>1, AfterEnd DEF Advance, usageVars
<1>2. /\ pc = "advance" /\ UNCHANGED <<text, prepared, readOut>>
      /\ TypeOK /\ Cursor \in Nat \ {0} /\ (pc' = "toEnd" => stmt' # 0)
  BY CursorMoves DEF Advance, commandVars, usageVars, OnceInv, TypeInv
<1>3. CASE ReleaseThrows
  <2>1. /\ UNCHANGED stmt /\ Cursor' = Cursor
        /\ failed' = TRUE /\ pc' \in {"drain", "open"} /\ vm = "failed"
        /\ applied' = applied
    BY <1>1, <1>2, <1>3, CursorMoves DEF Advance, Throw, ReleaseThrows
  <2>. QED
    BY <1>1, <1>2, <2>1
    DEF OnceInv, AppliedIsPassed, CurrentIsPending, StatementsEnd,
        IsReadOnly, Kind, HasColumns, usageVars
<1>4. CASE ~ReleaseThrows
  <2>1. \/ /\ NoNext(Released) \/ NextThrows(Released, TRUE)
           /\ stmt' = 0 /\ pc' \in {"open", "drain"}
        \/ /\ Found(Released, TRUE)
           /\ stmt' = Cursor
           /\ \/ pc' = "open" /\ HasColumns(Cursor)
              \/ pc' = "toEnd" /\ ~HasColumns(Cursor)
    BY <1>4 DEF Advance, Throw
  <2>3. CASE /\ NoNext(Released) \/ NextThrows(Released, TRUE)
             /\ stmt' = 0 /\ pc' \in {"open", "drain"}
    <3>1. Cursor' \in Nat /\ Cursor <= Cursor'
      BY <1>2, <2>3, CursorMoves
    <3>. QED
      BY <1>1, <1>2, <2>3, <3>1
      DEF OnceInv, AppliedIsPassed, CurrentIsPending, StatementsEnd
  <2>4. CASE /\ Found(Released, TRUE)
             /\ stmt' = Cursor
             /\ \/ pc' = "open" /\ HasColumns(Cursor)
                \/ pc' = "toEnd" /\ ~HasColumns(Cursor)
    <3>1. Cursor' = Cursor + 1
      BY <1>2, <2>4, CursorMoves
    <3>2. AppliedIsPassed'
      BY <1>1, <1>2, <2>4, <3>1 DEF AppliedIsPassed
    <3>3. CurrentIsPending'
      BY <1>1, <2>4 DEF CurrentIsPending
    <3>4. StatementsEnd'
      BY <1>1, <1>2, <2>4 DEF StatementsEnd, HasColumns, Kind
    <3>. QED  BY <1>1, <3>2, <3>3, <3>4 DEF OnceInv
  <2>. QED  BY <2>1, <2>3, <2>4
<1>. QED  BY <1>3, <1>4

LEMMA OnceDrainNext ==
    ASSUME OnceInv, TypeInv', DrainNext
    PROVE  OnceInv'
<1>1. /\ WritesOnceInOrder'
      /\ \A n \in DOMAIN applied' : applied'[n] < Cursor /\ applied'[n] \in Nat
      /\ vm' = "reset"
  <2>1. \A n \in DOMAIN applied' : applied'[n] \in Nat
    BY DEF TypeInv, TypeOK
  <2>. QED  BY <2>1, AfterEnd DEF DrainNext, usageVars
<1>2. /\ UNCHANGED <<text, prepared>> /\ stmt < Cursor /\ stmt \in Nat
      /\ TypeOK /\ Cursor \in Nat \ {0}
  <2>1. UNCHANGED <<text, prepared>> /\ stmt < Cursor /\ TypeOK
    BY DEF DrainNext, commandVars, OnceInv, TypeInv, AppliedIsPassed
  <2>. QED  BY <2>1, CursorMoves DEF TypeOK
<1>3. \/ /\ NoNext(Released) \/ NextThrows(Released, FALSE)
         /\ stmt' \in {0, stmt} /\ pc' = "release"
      \/ Found(Released, FALSE) /\ stmt' = Cursor /\ pc' = "drain"
  BY DEF DrainNext
<1>4. CASE /\ NoNext(Released) \/ NextThrows(Released, FALSE)
           /\ stmt' \in {0, stmt} /\ pc' = "release"
  <2>1. Cursor' \in Nat /\ Cursor <= Cursor'
    BY <1>2, <1>4, CursorMoves
  <2>2. AppliedIsPassed'
    BY <1>1, <1>2, <1>4, <2>1 DEF AppliedIsPassed
  <2>. QED
    BY <1>1, <1>4, <2>2
    DEF OnceInv, CurrentIsPending, StatementsEnd
<1>5. CASE Found(Released, FALSE) /\ stmt' = Cursor /\ pc' = "drain"
  <2>1. Cursor' = Cursor + 1
    BY <1>2, <1>5, CursorMoves
  <2>2. AppliedIsPassed'
    BY <1>1, <1>2, <1>5, <2>1 DEF AppliedIsPassed
  <2>. QED
    BY <1>1, <1>5, <2>2
    DEF OnceInv, CurrentIsPending, StatementsEnd
<1>. QED  BY <1>3, <1>4, <1>5

LEMMA CurrentType ==
    ASSUME TypeInv, stmt # 0
    PROVE  stmt \in DOMAIN text /\ text[stmt].kind \in Kinds /\ seen \in Nat
<1>1. text \in Batches /\ stmt \in 0..Len(text) /\ seen \in Nat
  BY DEF TypeInv, TypeOK
<1>2. Len(text) \in Nat /\ DOMAIN text = 1..Len(text)
  BY <1>1, TextType
<1>3. stmt \in DOMAIN text
  BY <1>1, <1>2
<1>. QED  BY <1>1, <1>3, TextType

\* A step of the current statement, between its calls.
LEMMA AfterStep ==
    ASSUME OnceInv, TypeInv', stmt # 0, pc \in {"toEnd", "drain", "open"},
           StepRow \/ StepDone \/ StepFails, readOut \subseteq readOut',
           UNCHANGED <<text, prepared, stmt, cursorVars>>, pc' # "closed"
    PROVE  /\ WritesOnceInOrder' /\ AppliedIsPassed'
           /\ vm' # "done" => applied' = applied
           /\ MayTakeEffect
           /\ IsReadOnly(stmt) \/ \A n \in DOMAIN applied' : applied'[n] <= stmt
<1>1. /\ \A n \in DOMAIN applied : applied[n] \in Nat
      /\ stmt \in Nat
  <2>1. applied \in Seq(1..Len(text)) /\ stmt \in 0..Len(text)
    BY DEF OnceInv, TypeInv, TypeOK
  <2>. QED  BY <2>1, ElementOfSeq
<1>2. MayTakeEffect
  BY <1>1 DEF OnceInv, CurrentIsPending, MayTakeEffect
<1>3. /\ WritesOnceInOrder'
      /\ \A n \in DOMAIN applied' :
             applied'[n] = stmt
             \/ \E m \in DOMAIN applied : applied[m] = applied'[n]
  BY <1>2, Effects DEF OnceInv
<1>4. Cursor' = Cursor
  BY CursorMoves DEF OnceInv, TypeInv
<1>5. vm' # "done" => applied' = applied
  BY DEF StepRow, StepDone, StepFails
<1>6. IsReadOnly(stmt) \/ \A n \in DOMAIN applied' : applied'[n] <= stmt
  BY <1>1, <1>2, <1>3 DEF MayTakeEffect
<1>. QED  BY <1>2, <1>3, <1>4, <1>5, <1>6 DEF OnceInv, AppliedIsPassed

LEMMA OnceToEndAndDrain ==
    ASSUME OnceInv, TypeInv', ToEnd \/ Drain
    PROVE  OnceInv'
<1>. USE DEF OnceInv, CurrentIsPending, StatementsEnd, IsReadOnly, HasColumns, Kind
<1>1. CASE ToEnd
  <2>1. UNCHANGED <<text, prepared, stmt, cursorVars, readOut>> /\ pc = "toEnd"
        /\ stmt # 0
    BY <1>1 DEF ToEnd, TypeInv, commandVars, usageVars
  <2>2. \/ StepDone /\ vm' = "done" /\ pc' = "advance"
        \/ StepFails /\ vm' = "failed" /\ pc' \in {"drain", "open"}
    BY <1>1 DEF ToEnd, Throw, StepDone, StepFails
  <2>3. /\ WritesOnceInOrder' /\ AppliedIsPassed'
        /\ vm' # "done" => applied' = applied
        /\ IsReadOnly(stmt) \/ \A n \in DOMAIN applied' : applied'[n] <= stmt
    BY <2>1, <2>2, AfterStep
  <2>. QED  BY <2>1, <2>2, <2>3
<1>2. CASE Drain /\ stmt = 0
  <2>1. /\ UNCHANGED <<text, prepared, stmt, cursorVars, applied, vm, readOut>>
        /\ pc = "drain" /\ pc' = "drainNext"
    BY <1>2 DEF Drain, commandVars, engineVars, usageVars
  <2>2. Cursor' = Cursor
    BY <2>1, CursorMoves DEF TypeInv
  <2>. QED  BY <1>2, <2>1, <2>2 DEF WritesOnceInOrder, AppliedIsPassed
<1>3. CASE Drain /\ stmt # 0
  <2>1. UNCHANGED <<text, prepared, stmt, cursorVars, readOut>> /\ pc = "drain"
    BY <1>3 DEF Drain, commandVars, usageVars
  <2>2. \/ StepRow /\ vm' = "row" /\ pc' = "drain"
        \/ StepDone /\ vm' = "done" /\ pc' = "drainNext"
        \/ StepFails /\ vm' = "failed" /\ pc' = "release"
    BY <1>3 DEF Drain, StepRow, StepDone, StepFails
  <2>3. /\ WritesOnceInOrder' /\ AppliedIsPassed'
        /\ vm' # "done" => applied' = applied
        /\ IsReadOnly(stmt) \/ \A n \in DOMAIN applied' : applied'[n] <= stmt
    BY <1>3, <2>1, <2>2, AfterStep
  <2>. QED  BY <2>1, <2>2, <2>3
<1>. QED  BY <1>1, <1>2, <1>3

\* What the application steps to its end is remembered.
LEMMA OnceRows ==
    ASSUME OnceInv, TypeInv', HasRows \/ Read
    PROVE  OnceInv'
<1>1. /\ UNCHANGED <<text, prepared, stmt, cursorVars>>
      /\ pc = "open" /\ pc' \in {"open", "drain"}
  BY DEF HasRows, Read, ReadReturns, commandVars
<1>2. CASE UNCHANGED <<vm, applied, readOut>>
  <2>1. Cursor' = Cursor
    BY <1>1, CursorMoves DEF OnceInv, TypeInv
  <2>2. WritesOnceInOrder' /\ AppliedIsPassed' /\ StatementsEnd'
    BY <1>1, <1>2, <2>1 DEF OnceInv, WritesOnceInOrder, AppliedIsPassed, StatementsEnd
  <2>3. CurrentIsPending'
    BY <1>1, <1>2 DEF OnceInv, CurrentIsPending, IsReadOnly, Kind
  <2>. QED  BY <2>2, <2>3 DEF OnceInv
<1>3. CASE stmt # 0 /\ (StepRow \/ StepDone \/ StepFails) /\ NoteStep
  <2>1. /\ readOut \subseteq readOut'
        /\ vm' = "done" /\ ~IsReadOnly(stmt) => stmt \in readOut'
    BY <1>3 DEF NoteStep
  <2>2. /\ WritesOnceInOrder' /\ AppliedIsPassed'
        /\ vm' # "done" => applied' = applied
        /\ IsReadOnly(stmt) \/ \A n \in DOMAIN applied' : applied'[n] <= stmt
    BY <1>1, <1>3, <2>1, AfterStep
  <2>3. CurrentIsPending'
    <3>1. IsReadOnly(stmt)' = IsReadOnly(stmt)
      BY <1>1 DEF IsReadOnly, Kind
    <3>2. CASE IsReadOnly(stmt) \/ vm' = "done"
      BY <1>1, <2>1, <2>2, <3>1, <3>2 DEF CurrentIsPending
    <3>3. CASE ~IsReadOnly(stmt) /\ vm' # "done"
      BY <1>1, <1>3, <2>1, <2>2, <3>1, <3>3 DEF OnceInv, CurrentIsPending
    <3>. QED  BY <3>2, <3>3
  <2>. QED  BY <1>1, <2>2, <2>3 DEF OnceInv, StatementsEnd
<1>. QED  BY <1>2, <1>3 DEF HasRows, Read, engineVars

LEMMA OnceStep ==
    ASSUME OnceInv, [Next]_vars
    PROVE  OnceInv'
<1>0. TypeInv'
  BY TypeStep DEF OnceInv
<1>1. CASE Release
  <2>1. applied' = applied /\ readOut' = readOut /\ pc' = "closed"
    BY <1>1 DEF Release, EndStatement, OnceInv, StatementsEnd, usageVars
  <2>. QED
    BY <1>0, <2>1
    DEF OnceInv, WritesOnceInOrder, AppliedIsPassed, CurrentIsPending, StatementsEnd
<1>2. CASE SetCommandText \/ ExecuteReader
  <2>1. /\ applied' = <<>> /\ stmt' = 0 /\ pc' \in {"closed", "advance"}
        /\ sqlNext' = 1 /\ cacheNext' = 1
    BY <1>2 DEF SetCommandText, ExecuteReader
  <2>. QED
    BY <1>0, <2>1
    DEF OnceInv, WritesOnceInOrder, AppliedIsPassed, CurrentIsPending, StatementsEnd,
        Cursor
<1>3. CASE SetParameters \/ Prepare
  <2>1. UNCHANGED <<applied, readOut, pc>> /\ pc = "closed"
    BY <1>3 DEF SetParameters, Prepare, readerVars, engineVars, usageVars
  <2>. QED
    BY <1>0, <2>1
    DEF OnceInv, WritesOnceInOrder, AppliedIsPassed, CurrentIsPending, StatementsEnd
<1>4. CASE NextResult \/ Close \/ UNCHANGED vars
  <2>1. /\ UNCHANGED <<text, prepared, applied, stmt, vm, cursorVars, readOut>>
        /\ \/ pc = "open" /\ pc' \in {"advance", "drain"}
           \/ pc' = pc
    BY <1>4 DEF NextResult, Close, vars, commandVars, readerVars, engineVars, usageVars
  <2>2. Cursor' = Cursor
    BY <2>1 DEF Cursor, cursorVars
  <2>3. WritesOnceInOrder' /\ AppliedIsPassed' /\ CurrentIsPending' /\ StatementsEnd'
    BY <2>1, <2>2
    DEF OnceInv, WritesOnceInOrder, AppliedIsPassed, CurrentIsPending,
        StatementsEnd, IsReadOnly, HasColumns, Kind
  <2>. QED  BY <1>0, <2>3 DEF OnceInv
<1>. QED
  BY <1>0, <1>1, <1>2, <1>3, <1>4, OnceAdvance, OnceToEndAndDrain, OnceDrainNext,
     OnceRows DEF Next, ReaderStep

\* However the application reads, skips and leaves results and whatever fails,
\* the writes of a batch take effect in order, and the only ones that take
\* effect more than once are those it has itself read to their end.
THEOREM WritesInOrder == Spec => []WritesOnceInOrder
<1>1. OnceInv /\ [Next]_vars => OnceInv'
  BY OnceStep
<1>2. OnceInv => WritesOnceInOrder
  BY DEF OnceInv
<1>. QED  BY <1>1, <1>2, OnceInit, PTL DEF Spec

-----------------------------------------------------------------------------
(* The rows of a result. *)

\* What _prefetched, _readStarted and _hasRow tell of the current statement
\* until it is begun again.
FlagsTellRow ==
    pc = "open" /\ ~failed /\ again = 0 =>
        /\ ~readStarted => seen = 0
        /\ ~readStarted /\ ~prefetched => vm # "row"
        /\ prefetched /\ hasRow => ~readStarted /\ vm = "row" /\ row = 1
        /\ readStarted /\ hasRow => vm = "row" /\ row = seen
        /\ stmt # 0 /\ ~hasRow /\ (readStarted \/ prefetched) => vm # "row"

LEMMA FlagsStep ==
    ASSUME TypeInv, FlagsTellRow, [Next]_vars
    PROVE  FlagsTellRow'
<1>0. seen \in Nat /\ row \in Nat /\ again \in Nat
  BY OptionsAssumption DEF TypeInv, TypeOK
<1>1. CASE Advance
  <2>1. pc' = "open" /\ ~failed' =>
            /\ hasRow' = FALSE /\ prefetched' = FALSE /\ seen' = 0 /\ vm' = "reset"
    BY <1>1 DEF Advance, Throw, EndStatement
  <2>. QED  BY <2>1 DEF FlagsTellRow
<1>2. CASE HasRows
  <2>. SUFFICES ASSUME ~failed', again' = 0
                PROVE  FlagsTellRow'
    BY DEF FlagsTellRow
  <2>1. /\ pc = "open" /\ ~prefetched /\ ~readStarted /\ ~failed /\ again = 0
        /\ UNCHANGED <<readStarted, seen, stmt>>
    BY <1>0, <1>2 DEF HasRows, NoteStep, ReadsOn
  <2>2. \/ hasRow' = FALSE /\ prefetched' = TRUE /\ (stmt = 0 \/ vm' = "done")
        \/ prefetched' = TRUE /\ hasRow' = TRUE /\ vm' = "row" /\ row' = Returned + 1
    BY <1>2 DEF HasRows, StepRow, StepDone
  <2>. QED  BY <2>1, <2>2 DEF FlagsTellRow, Returned
<1>3. CASE Read
  <2>. SUFFICES ASSUME ~failed', again' = 0
                PROVE  FlagsTellRow'
    BY DEF FlagsTellRow
  <2>1. pc = "open" /\ ~failed /\ readStarted' = TRUE /\ stmt' = stmt
    BY <1>3 DEF Read, ReadReturns
  <2>2. again = 0 /\ (~prefetched /\ stmt # 0 => vm = "row" \/ ~ReadsOn)
    <3>1. CASE NoteStep
      BY <1>0, <3>1 DEF NoteStep
    <3>2. CASE (prefetched \/ stmt = 0) /\ UNCHANGED again
      BY <3>2
    <3>. QED  BY <1>3, <3>1, <3>2 DEF Read
  <2>3. \/ prefetched /\ prefetched' = FALSE /\ hasRow' = hasRow
           /\ (hasRow => seen' = seen + 1) /\ UNCHANGED <<vm, row>>
        \/ hasRow' = FALSE /\ (stmt = 0 \/ vm' = "done")
        \/ /\ ~prefetched /\ prefetched' = FALSE /\ vm' = "row"
           /\ row' = Returned + 1 /\ seen' = seen + 1 /\ stmt # 0
           /\ hasRow' = TRUE
    BY <1>3 DEF Read, ReadReturns, StepRow, StepDone, engineVars
  <2>4. CASE /\ ~prefetched /\ prefetched' = FALSE /\ vm' = "row"
             /\ row' = Returned + 1 /\ seen' = seen + 1 /\ stmt # 0
             /\ hasRow' = TRUE
    <3>1. CASE readStarted
      BY <1>0, <2>1, <2>2, <2>4, <3>1 DEF FlagsTellRow, Returned, ReadsOn
    <3>2. CASE ~readStarted
      BY <1>0, <2>1, <2>2, <2>4, <3>2 DEF FlagsTellRow, Returned
    <3>. QED  BY <3>1, <3>2
  <2>5. CASE prefetched /\ prefetched' = FALSE /\ hasRow' = hasRow
             /\ (hasRow => seen' = seen + 1) /\ UNCHANGED <<vm, row>>
    BY <1>0, <2>1, <2>2, <2>5 DEF FlagsTellRow
  <2>6. CASE hasRow' = FALSE /\ (stmt = 0 \/ vm' = "done")
    BY <2>1, <2>6 DEF FlagsTellRow
  <2>. QED  BY <2>3, <2>4, <2>5, <2>6
<1>4. CASE \/ SetCommandText \/ SetParameters \/ Prepare \/ ExecuteReader
           \/ NextResult \/ Close \/ ToEnd \/ Drain \/ DrainNext \/ Release
  <2>1. pc' # "open" \/ failed' = TRUE
    BY <1>4 DEF SetCommandText, SetParameters, Prepare, ExecuteReader, NextResult,
                Close, ToEnd, Throw, Drain, DrainNext, Release, readerVars
  <2>. QED  BY <2>1 DEF FlagsTellRow
<1>5. CASE UNCHANGED vars
  BY <1>5 DEF vars, readerVars, flagVars, engineVars, usageVars, FlagsTellRow
<1>. QED  BY <1>1, <1>2, <1>3, <1>4, <1>5 DEF Next, ReaderStep

\* For every result, with and without HasRows before the first Read, each row is
\* given once and in order and none after the end, until the application steps
\* a statement again that has ended or failed.
THEOREM RowsForward == Spec => []ForwardOnly
<1>1. Init => FlagsTellRow
  BY DEF Init, FlagsTellRow
<1>2. TypeInv /\ FlagsTellRow /\ [Next]_vars => FlagsTellRow'
  BY FlagsStep
<1>3. FlagsTellRow => ForwardOnly
  BY DEF FlagsTellRow, ForwardOnly
<1>. QED  BY <1>1, <1>2, <1>3, TypeAlways, PTL DEF Spec

-----------------------------------------------------------------------------
(* Calls come to their end. *)

\* RowsLeft falls with every row.
LEMMA RowTaken ==
    ASSUME TypeInv, stmt # 0, StepRow, UNCHANGED <<text, stmt>>
    PROVE  0 <= RowsLeft' /\ RowsLeft' < RowsLeft
<1>1. RowsOf(stmt) \in Nat
  BY CurrentType, TextType DEF TypeInv, TypeOK, RowsOf
<1>2. Returned \in Nat /\ Returned' = Returned + 1 /\ Returned < RowsOf(stmt)
  BY DEF TypeInv, TypeOK, StepRow, Returned
<1>3. RowsOf(stmt)' = RowsOf(stmt)
  BY DEF RowsOf, HasColumns, Kind
<1>. QED  BY <1>1, <1>2, <1>3 DEF RowsLeft

\* Finding a statement leaves fewer; the other ends of PrepareAndBindNext
\* leave no more than before.
LEMMA StatementTaken ==
    ASSUME TypeInv, NEW b, NEW throwOnMissing, UNCHANGED <<text, prepared>>
    PROVE  /\ StatementsLeft \in Nat
           /\ Found(b, throwOnMissing)
              => 0 <= StatementsLeft' /\ StatementsLeft' < StatementsLeft
           /\ NoNext(b) \/ UNCHANGED cursorVars => StatementsLeft' = StatementsLeft
           /\ NextThrows(b, throwOnMissing)
              => \/ StatementsLeft' = StatementsLeft
                 \/ 0 <= StatementsLeft' /\ StatementsLeft' < StatementsLeft
<1>1. Len(text) \in Nat
  BY TextType DEF TypeInv, TypeOK
<1>2. sqlNext \in 1..Len(text) + 1 /\ cacheNext \in 1..Len(text) + 1
  BY DEF TypeInv, TypeOK
<1>3. StatementsLeft \in Nat
  BY <1>1, <1>2 DEF StatementsLeft, Cursor
<1>4. ASSUME Cursor <= Len(text), MoveCursor
      PROVE  0 <= StatementsLeft' /\ StatementsLeft' < StatementsLeft
  BY <1>1, <1>2, <1>4 DEF StatementsLeft, Cursor, MoveCursor
<1>5. ASSUME UNCHANGED cursorVars
      PROVE  StatementsLeft' = StatementsLeft
  BY <1>5 DEF StatementsLeft, Cursor, cursorVars
<1>. QED  BY <1>3, <1>4, <1>5 DEF Found, NoNext, NextThrows

Shortens ==
    InCall /\ InCall' =>
        \/ 0 <= StatementsLeft' /\ StatementsLeft' < StatementsLeft
        \/ /\ StatementsLeft' = StatementsLeft
           /\ \/ StationsLeft' < StationsLeft
              \/ /\ StationsLeft' = StationsLeft
                 /\ 0 <= RowsLeft' /\ RowsLeft' < RowsLeft

LEMMA StepShortens ==
    ASSUME TypeInv, Next
    PROVE  Shortens
<1>. SUFFICES ASSUME InCall, InCall'
              PROVE  \/ 0 <= StatementsLeft' /\ StatementsLeft' < StatementsLeft
                     \/ /\ StatementsLeft' = StatementsLeft
                        /\ \/ StationsLeft' < StationsLeft
                           \/ /\ StationsLeft' = StationsLeft
                              /\ 0 <= RowsLeft' /\ RowsLeft' < RowsLeft
  BY DEF Shortens
<1>1. ReaderStep
  BY DEF Next, InCall, SetCommandText, SetParameters, Prepare, ExecuteReader,
         NextResult, HasRows, Read, Close
<1>2. CASE Advance
  <2>1. UNCHANGED <<text, prepared>> /\ pc = "advance" /\ pc' \in {"drain", "toEnd"}
    BY <1>2 DEF Advance, Throw, commandVars, InCall
  <2>2. \/ UNCHANGED cursorVars /\ pc' = "drain"
        \/ NextThrows(Released, TRUE) /\ pc' = "drain"
        \/ Found(Released, TRUE)
    BY <1>2, <2>1 DEF Advance, Throw, InCall
  <2>3. pc' = "drain" => StationsLeft' < StationsLeft
    BY <2>1 DEF StationsLeft
  <2>. QED  BY <2>1, <2>2, <2>3, StatementTaken
<1>3. CASE ToEnd
  <2>1. /\ UNCHANGED <<text, prepared, cursorVars>>
        /\ pc = "toEnd" /\ pc' \in {"advance", "drain"}
    BY <1>3 DEF ToEnd, Throw, commandVars, InCall
  <2>2. StationsLeft' < StationsLeft
    BY <2>1 DEF StationsLeft
  <2>. QED  BY <2>1, <2>2, StatementTaken
<1>4. CASE Drain
  <2>1. /\ UNCHANGED <<text, prepared, cursorVars, stmt>> /\ pc = "drain"
        /\ \/ pc' \in {"drainNext", "release"}
           \/ pc' = "drain" /\ stmt # 0 /\ StepRow
    BY <1>4 DEF Drain, commandVars
  <2>2. pc' \in {"drainNext", "release"} => StationsLeft' < StationsLeft
    BY <2>1 DEF StationsLeft
  <2>3. pc' = "drain" => StationsLeft' = StationsLeft
    BY <2>1 DEF StationsLeft
  <2>. QED  BY <2>1, <2>2, <2>3, StatementTaken, RowTaken
<1>5. CASE DrainNext
  <2>1. /\ UNCHANGED <<text, prepared>> /\ pc = "drainNext"
        /\ \/ NoNext(Released) /\ pc' = "release"
           \/ NextThrows(Released, FALSE) /\ pc' = "release"
           \/ Found(Released, FALSE)
    BY <1>5 DEF DrainNext, commandVars
  <2>2. pc' = "release" => StationsLeft' < StationsLeft
    BY <2>1 DEF StationsLeft
  <2>. QED  BY <2>1, <2>2, StatementTaken
<1>6. ~Release
  BY DEF Release, InCall
<1>. QED  BY <1>1, <1>2, <1>3, <1>4, <1>5, <1>6 DEF ReaderStep

\* For batches, results and failures of any number, a call of the reader makes
\* finitely many steps: each leaves less to do of what was finite at its start.
\* With a thread that runs on, CallsEnd follows.
THEOREM CallsAreFinite == Spec => CallsShorten
<1>1. TypeInv /\ [Next]_vars => [Shortens]_vars
  BY StepShortens
<1>. QED  BY <1>1, TypeAlways, PTL DEF Spec, CallsShorten, Shortens

==============================================================================
