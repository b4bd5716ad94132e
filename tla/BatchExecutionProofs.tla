------------------------- MODULE BatchExecutionProofs -------------------------
(***************************************************************************)
(* BatchReader implements BatchExecution; in particular RecordsAffected of *)
(* a closed reader is what its statements changed, with the two exceptions *)
(* of RecordsAffectedIsExact.                                              *)
(*                                                                         *)
(* Changed is the sum of a recursive function; that such a function exists *)
(* and what it does on a longer sequence (first part) rests on the order   *)
(* of the natural numbers.  The reader adds sqlite3_changes at three       *)
(* places, and between the end of a write and the first of them the sum is *)
(* ahead of _recordsAffected (AffectedInv, second part).  The refinement   *)
(* (third part) needs that sum and the order of the effects.               *)
(***************************************************************************)
EXTENDS BatchReaderProofs, WellFoundedInduction

-----------------------------------------------------------------------------
(* Sums over a sequence. *)

\* A set of natural numbers has a least element: the form in which the
\* induction below is done.
LEMMA LeastElement ==
    ASSUME NEW S \in SUBSET Nat, S # {}
    PROVE  \E m \in S : \A k \in S : m <= k
<1>. DEFINE R == {ss \in Nat \X Nat : ss[1] < ss[2]}
<1>1. IsWellFoundedOn(R, Nat)
  BY NatLessThanWellFounded DEF OpToRel
<1>. HIDE DEF R
<1>2. PICK m \in S : \A k \in S : <<k, m>> \notin R
  BY <1>1, WFMin
<1>3. \A k \in S : ~(k < m)
  <2>. SUFFICES ASSUME NEW k \in S, k < m
                PROVE  FALSE
    OBVIOUS
  <2>1. <<k, m>> \in R
    BY DEF R
  <2>. QED  BY <1>2, <2>1
<1>. QED  BY <1>2, <1>3

\* f[i] is the sum of the first i elements of h.
Totals(f, n, h) ==
    /\ DOMAIN f = 0..n
    /\ f[0] = 0
    /\ \A i \in 1..n : f[i] = f[i - 1] + h[i]

LEMMA TotalsExist ==
    ASSUME NEW n \in Nat, NEW h, \A i \in 1..n : h[i] \in Nat
    PROVE  \E f \in [0..n -> Nat] : Totals(f, n, h)
<1>. DEFINE Bad == {k \in 0..n : ~ \E f \in [0..k -> Nat] : Totals(f, k, h)}
<1>. SUFFICES ASSUME Bad # {}
              PROVE  FALSE
  BY n \in 0..n
<1>1. PICK m \in Bad : \A k \in Bad : m <= k
  BY LeastElement, Bad \in SUBSET Nat
<1>2. m # 0
  <2>. DEFINE z == [i \in 0..0 |-> 0]
  <2>1. z \in [0..0 -> Nat] /\ Totals(z, 0, h)
    BY DEF Totals
  <2>. QED  BY <1>1, <2>1
<1>3. \E f \in [0..m - 1 -> Nat] : Totals(f, m - 1, h)
  <2>1. m \in Nat /\ m - 1 \in 0..n /\ ~(m <= m - 1)
    BY <1>1, <1>2
  <2>2. m - 1 \notin Bad
    BY <1>1, <2>1
  <2>. QED  BY <2>1, <2>2
<1>4. PICK f \in [0..m - 1 -> Nat] : Totals(f, m - 1, h)
  BY <1>3
<1>. DEFINE g == [i \in 0..m |-> IF i = m THEN f[m - 1] + h[m] ELSE f[i]]
<1>5. m \in 1..n /\ h[m] \in Nat /\ f[m - 1] \in Nat
  BY <1>1, <1>2, <1>4
<1>6. g \in [0..m -> Nat] /\ Totals(g, m, h)
  <2>1. g \in [0..m -> Nat]
    BY <1>4, <1>5
  <2>2. g[0] = 0
    BY <1>4, <1>5 DEF Totals
  <2>3. ASSUME NEW i \in 1..m
        PROVE  g[i] = g[i - 1] + h[i]
    <3>1. g[i - 1] = f[i - 1]
      BY <1>5
    <3>2. CASE i = m
      BY <1>5, <3>1, <3>2
    <3>3. CASE i # m
      <4>1. i \in 1..m - 1 /\ g[i] = f[i]
        BY <1>5, <3>3
      <4>. QED  BY <1>4, <3>1, <4>1 DEF Totals
    <3>. QED  BY <3>2, <3>3
  <2>. QED  BY <2>1, <2>2, <2>3 DEF Totals
<1>. QED  BY <1>1, <1>6

SameUpTo(n, h, k) == \A i \in 1..n : h[i] = k[i]

\* Two sums over sequences that agree on the first n elements agree there.
LEMMA TotalsAgree ==
    ASSUME NEW n \in Nat, NEW p \in Nat, n <= p,
           NEW h, NEW k, SameUpTo(n, h, k),
           NEW f, NEW g, Totals(f, n, h), Totals(g, p, k)
    PROVE  f[n] = g[n]
<1>. DEFINE Bad == {i \in 0..n : f[i] # g[i]}
<1>. SUFFICES ASSUME Bad # {}
              PROVE  FALSE
  BY n \in 0..n
<1>1. PICK m \in Bad : \A i \in Bad : m <= i
  BY LeastElement, Bad \in SUBSET Nat
<1>2. m # 0
  BY <1>1 DEF Totals
<1>3. m - 1 \in 0..n /\ m - 1 \notin Bad /\ m \in 1..n /\ m \in 1..p
  BY <1>1, <1>2
<1>4. f[m - 1] = g[m - 1]
  BY <1>3
<1>. QED  BY <1>1, <1>3, <1>4 DEF Totals, SameUpTo

-----------------------------------------------------------------------------
(* What the statements that took effect have changed. *)

\* Changed, of the effects a in the batch b.
ChangedBy(a, b) ==
    LET counted == {i \in DOMAIN a : b[a[i]].kind \in {"write", "returning"}}
        sum[n \in 0..Len(a)] ==
            IF n = 0 THEN 0
            ELSE sum[n - 1] + (IF n \in counted THEN b[a[n]].size ELSE 0)
    IN sum[Len(a)]

\* What statement i of batch b adds to it.
SizeOf(b, i) == IF b[i].kind \in {"write", "returning"} THEN b[i].size ELSE 0

Sizes(a, b) == [n \in 1..Len(a) |-> SizeOf(b, a[n])]

LEMMA SizesType ==
    ASSUME NEW b \in Batches, NEW a \in Seq(1..Len(b))
    PROVE  /\ Len(a) \in Nat /\ DOMAIN a = 1..Len(a)
           /\ \A n \in 1..Len(a) : Sizes(a, b)[n] \in Nat
<1>1. Len(a) \in Nat /\ DOMAIN a = 1..Len(a)
  OBVIOUS
<1>2. \A n \in 1..Len(a) : a[n] \in DOMAIN b
  BY <1>1, TextType, ElementOfSeq
<1>. QED  BY <1>1, <1>2, TextType DEF Sizes, SizeOf

LEMMA ChangedIsTotal ==
    ASSUME NEW b \in Batches, NEW a \in Seq(1..Len(b))
    PROVE  \E f : Totals(f, Len(a), Sizes(a, b)) /\ ChangedBy(a, b) = f[Len(a)]
<1>. DEFINE N == Len(a)
            counted == {i \in DOMAIN a : b[a[i]].kind \in {"write", "returning"}}
            Sums(f) == f = [n \in 0..N |->
                IF n = 0 THEN 0
                ELSE f[n - 1] + (IF n \in counted THEN b[a[n]].size ELSE 0)]
            sum == CHOOSE f : Sums(f)
<1>1. ChangedBy(a, b) = sum[N]
  BY DEF ChangedBy
<1>2. N \in Nat /\ DOMAIN a = 1..N
  BY SizesType
<1>3. PICK f \in [0..N -> Nat] : Totals(f, N, Sizes(a, b))
  BY <1>2, SizesType, TotalsExist
<1>4. Sums(f)
  <2>1. \A n \in 1..N : f[n] = f[n - 1] + (IF n \in counted THEN b[a[n]].size ELSE 0)
    BY <1>2, <1>3 DEF Totals, Sizes, SizeOf
  <2>. QED  BY <1>2, <1>3, <2>1 DEF Totals
<1>5. Sums(sum)
  <2>. HIDE DEF Sums
  <2>. QED  BY <1>4
<1>6. Totals(sum, N, Sizes(a, b))
  <2>. HIDE DEF sum
  <2>1. DOMAIN sum = 0..N /\ sum[0] = 0
    BY <1>2, <1>5
  <2>2. ASSUME NEW n \in 1..N
        PROVE  sum[n] = sum[n - 1] + Sizes(a, b)[n]
    <3>1. n \in 0..N /\ n # 0 /\ n \in DOMAIN a
      BY <1>2
    <3>2. sum[n] = sum[n - 1] + (IF n \in counted THEN b[a[n]].size ELSE 0)
      BY <1>5, <3>1
    <3>3. Sizes(a, b)[n] = IF n \in counted THEN b[a[n]].size ELSE 0
      BY <3>1 DEF Sizes, SizeOf
    <3>. QED  BY <3>2, <3>3
  <2>. QED  BY <2>1, <2>2 DEF Totals
<1>. QED  BY <1>1, <1>6

\* The sum is a number, zero for no effect, and one effect more adds its size.
LEMMA ChangedGrows ==
    ASSUME NEW b \in Batches, NEW a \in Seq(1..Len(b))
    PROVE  /\ ChangedBy(a, b) \in Nat
           /\ a = <<>> => ChangedBy(a, b) = 0
           /\ \A i \in 1..Len(b) :
                  ChangedBy(Append(a, i), b) = ChangedBy(a, b) + SizeOf(b, i)
<1>1. Len(a) \in Nat /\ DOMAIN a = 1..Len(a)
  BY SizesType
<1>2. PICK f : Totals(f, Len(a), Sizes(a, b)) /\ ChangedBy(a, b) = f[Len(a)]
  BY ChangedIsTotal
<1>3. ChangedBy(a, b) \in Nat
  <2>1. PICK g \in [0..Len(a) -> Nat] : Totals(g, Len(a), Sizes(a, b))
    BY <1>1, SizesType, TotalsExist
  <2>2. f[Len(a)] = g[Len(a)]
    <3>1. Len(a) <= Len(a) /\ SameUpTo(Len(a), Sizes(a, b), Sizes(a, b))
      BY <1>1 DEF SameUpTo
    <3>. QED  BY <1>1, <1>2, <2>1, <3>1, TotalsAgree
  <2>3. g[Len(a)] \in Nat
    BY <1>1
  <2>. QED  BY <1>2, <2>2, <2>3
<1>4. a = <<>> => ChangedBy(a, b) = 0
  BY <1>1, <1>2 DEF Totals
<1>5. ASSUME NEW i \in 1..Len(b)
      PROVE  ChangedBy(Append(a, i), b) = ChangedBy(a, b) + SizeOf(b, i)
  <2>. DEFINE c == Append(a, i)
  <2>1. /\ c \in Seq(1..Len(b)) /\ Len(c) = Len(a) + 1
        /\ \A n \in 1..Len(a) : c[n] = a[n]
        /\ c[Len(a) + 1] = i
    BY <1>1, AppendToSeq
  <2>. HIDE DEF c
  <2>2. PICK g : Totals(g, Len(c), Sizes(c, b)) /\ ChangedBy(c, b) = g[Len(c)]
    BY <2>1, ChangedIsTotal
  <2>3. /\ \A n \in 1..Len(a) : Sizes(a, b)[n] = Sizes(c, b)[n]
        /\ Sizes(c, b)[Len(a) + 1] = SizeOf(b, i)
    BY <1>1, <2>1 DEF Sizes
  <2>4. f[Len(a)] = g[Len(a)]
    <3>1. SameUpTo(Len(a), Sizes(a, b), Sizes(c, b))
      BY <2>3 DEF SameUpTo
    <3>2. Len(c) \in Nat /\ Len(a) <= Len(c)
      BY <1>1, <2>1
    <3>. QED  BY <1>1, <1>2, <2>2, <3>1, <3>2, TotalsAgree
  <2>5. g[Len(a) + 1] = g[Len(a)] + SizeOf(b, i)
    BY <1>1, <2>1, <2>2, <2>3 DEF Totals
  <2>. QED  BY <1>2, <2>1, <2>2, <2>4, <2>5 DEF c
<1>. QED  BY <1>3, <1>4, <1>5

LEMMA ChangedDefined ==
    /\ Changed = ChangedBy(applied, text)
    /\ Changed' = ChangedBy(applied', text')
BY DEF Changed, ChangedBy, CountsChanges, Kind

-----------------------------------------------------------------------------
(* What the reader has recorded. *)

NoOther == \A i \in DOMAIN text : Kind(i) # "other"

\* What RecordsAffectedIsExact is about.
Counting == ~blurred /\ NoOther

Recorded == IF affected < 0 THEN 0 ELSE affected

AtWrite == stmt # 0 /\ Kind(stmt) = "write"
AtReturning == stmt # 0 /\ Kind(stmt) = "returning"

\* A write that came to its end has its changes added in the next turn of the
\* loop of NextResultCore.
Uncounted == IF pc = "advance" /\ AtWrite THEN changes ELSE 0

\* Every change is recorded, or just about to be.
AllRecorded == Counting => affected # 0 /\ Recorded + Uncounted = Changed

\* Where sqlite3_changes is read, it answers for the current statement.  What
\* HasRows finds without rows is counted at the next Read, as no change.
ChangesAreCurrent ==
    /\ pc = "drainNext" /\ stmt # 0 => vm = "done"
    /\ ~blurred =>
        /\ pc = "advance" => ~AtReturning
        /\ pc = "advance" /\ AtWrite => vm # "row" /\ (vm = "done" \/ changes = 0)
        /\ pc = "open" /\ AtWrite => failed /\ vm # "row" /\ changes = 0
        /\ pc = "open" /\ AtReturning /\ ~failed /\ ~readStarted
              => IF prefetched THEN hasRow \/ changes = 0 ELSE vm # "row"

AffectedInv == OnceInv /\ ChangesAreCurrent /\ AllRecorded

LEMMA ChangedStep ==
    ASSUME TypeInv, text' = text
    PROVE  /\ Changed \in Nat
           /\ applied' = applied => Changed' = Changed
           /\ stmt # 0 /\ applied' = Append(applied, stmt)
              => Changed' = Changed + SizeOf(text, stmt)
<1>1. /\ text \in Batches /\ applied \in Seq(1..Len(text))
      /\ stmt # 0 => stmt \in 1..Len(text)
  BY TextType DEF TypeInv, TypeOK
<1>. QED  BY <1>1, ChangedDefined, ChangedGrows

LEMMA ChangedNothing ==
    ASSUME TypeInv', applied' = <<>>
    PROVE  Changed' = 0
<1>1. text' \in Batches /\ applied' \in Seq(1..Len(text'))
  BY DEF TypeInv, TypeOK
<1>. QED  BY <1>1, ChangedDefined, ChangedGrows

\* AddChangesFromCurrentStatement.
LEMMA AddChangesRecords ==
    ASSUME TypeInv, NEW now \in Nat, AddChanges(now)
    PROVE  /\ affected # 0 => affected' # 0
           /\ stmt = 0 \/ IsReadOnly(stmt) => affected' = affected
           /\ stmt # 0 /\ ~IsReadOnly(stmt) => Recorded' = Recorded + now
BY DEF TypeInv, TypeOK, AddChanges, Recorded

\* A step that changes and records nothing.
LEMMA NothingRecorded ==
    ASSUME TypeInv, AllRecorded, text' = text, affected' = affected,
           blurred => blurred', Counting => applied' = applied,
           Uncounted' = Uncounted
    PROVE  AllRecorded'
<1>1. Recorded' = Recorded /\ (Counting' => Counting)
  BY DEF Counting, NoOther, Kind, Recorded
<1>. QED  BY <1>1, ChangedStep DEF AllRecorded

\* A step that blurs what is recorded.
LEMMA Blurs ==
    ASSUME blurred', pc' # "drainNext"
    PROVE  ChangesAreCurrent' /\ AllRecorded'
BY DEF ChangesAreCurrent, AllRecorded, Counting

LEMMA AffectedAdvance ==
    ASSUME AffectedInv, TypeInv', Advance
    PROVE  ChangesAreCurrent' /\ AllRecorded'
<1>0. TypeInv /\ changes \in Nat /\ Changed \in Nat
  <2>1. TypeInv
    BY DEF AffectedInv, OnceInv
  <2>. QED  BY <2>1, ChangedStep DEF TypeInv, TypeOK, Advance, commandVars
<1>1. /\ pc = "advance" /\ pc' \in {"open", "drain", "toEnd"}
      /\ UNCHANGED <<text, prepared, blurred>>
      /\ AddChanges(changes) /\ EndStatement
  BY DEF Advance, Throw, commandVars, usageVars
<1>2. CASE blurred
  BY <1>1, <1>2, Blurs
<1>3. CASE ~blurred
  <2>1. ~AtReturning /\ (AtWrite => vm # "row" /\ (vm = "done" \/ changes = 0))
    BY <1>1, <1>3 DEF AffectedInv, ChangesAreCurrent
  <2>2. AtWrite => applied' = applied /\ changes' = changes
    BY <1>1, <2>1 DEF EndStatement, AtWrite
  <2>3. AllRecorded'
    <3>1. Uncounted' = 0 /\ Counting' = Counting
      BY <1>1 DEF Uncounted, Counting, NoOther, Kind
    <3>. SUFFICES ASSUME Counting
                  PROVE  affected' # 0 /\ Recorded' + 0 = Changed'
      BY <3>1 DEF AllRecorded
    <3>2. stmt = 0 \/ IsReadOnly(stmt) \/ AtWrite
      BY <1>0, <2>1, CurrentType
      DEF Counting, NoOther, AtReturning, AtWrite, IsReadOnly, Kind, Kinds
    <3>3. applied' = applied
      BY <1>1, <2>2, <3>2 DEF EndStatement, Halt
    <3>4. Changed' = Changed
      BY <1>0, <1>1, <3>3, ChangedStep
    <3>5. affected # 0 /\ Recorded + Uncounted = Changed
      BY DEF AffectedInv, AllRecorded
    <3>6. affected' # 0
      BY <1>0, <1>1, <3>5, AddChangesRecords
    <3>7. Recorded \in Nat /\ Recorded' \in Nat
      BY <1>0 DEF Recorded, TypeInv, TypeOK
    <3>8. CASE AtWrite
      <4>1. Recorded' = Recorded + changes
        BY <1>0, <1>1, <3>8, AddChangesRecords DEF AtWrite, IsReadOnly
      <4>. QED  BY <1>0, <1>1, <3>4, <3>5, <3>6, <3>7, <3>8, <4>1 DEF Uncounted
    <3>9. CASE ~AtWrite
      <4>1. affected' = affected
        BY <1>0, <1>1, <3>2, <3>9, AddChangesRecords
      <4>. QED  BY <3>4, <3>5, <3>6, <3>7, <3>9, <4>1 DEF Uncounted, Recorded
    <3>. QED  BY <3>8, <3>9
  <2>4. ChangesAreCurrent'
    <3>1. CASE ReleaseThrows
      <4>1. UNCHANGED stmt /\ vm = "failed" /\ vm' = "reset" /\ failed' = TRUE
        BY <1>1, <3>1 DEF Advance, Throw, ReleaseThrows, EndStatement
      <4>2. AtWrite' = AtWrite /\ AtReturning' = AtReturning
        BY <1>1, <4>1 DEF AtWrite, AtReturning, Kind
      <4>. QED  BY <1>1, <2>1, <2>2, <4>1, <4>2 DEF ChangesAreCurrent
    <3>2. CASE ~ReleaseThrows
      <4>1. /\ stmt' = 0 \/ HasColumns(stmt') \/ pc' = "toEnd"
            /\ prefetched' = FALSE
        BY <3>2 DEF Advance
      <4>2. vm' = "reset"
        BY <1>1 DEF EndStatement
      <4>3. HasColumns(stmt') => ~AtWrite'
        BY <1>1 DEF HasColumns, AtWrite, Kind
      <4>. QED  BY <1>1, <4>1, <4>2, <4>3 DEF ChangesAreCurrent, AtWrite, AtReturning
    <3>. QED  BY <3>1, <3>2
  <2>. QED  BY <2>3, <2>4
<1>. QED  BY <1>2, <1>3

LEMMA AffectedToEnd ==
    ASSUME AffectedInv, TypeInv', ToEnd
    PROVE  ChangesAreCurrent' /\ AllRecorded'
<1>1. /\ TypeInv /\ UNCHANGED <<text, stmt, affected, blurred>>
      /\ pc = "toEnd" /\ stmt # 0 /\ ~HasColumns(stmt)
  BY DEF ToEnd, commandVars, usageVars, AffectedInv, OnceInv, TypeInv, StatementsEnd
<1>2. stmt \in DOMAIN text /\ text[stmt].kind \in Kinds
  BY <1>1, CurrentType
<1>3. /\ Uncounted = 0 /\ AtWrite' = AtWrite
      /\ ~AtReturning /\ ~AtReturning' /\ Counting' = Counting
  BY <1>1 DEF Uncounted, AtWrite, AtReturning, Counting, NoOther, HasColumns, Kind
<1>4. CASE StepDone /\ pc' = "advance"
  <2>1. ChangesAreCurrent'
    BY <1>3, <1>4 DEF ChangesAreCurrent, StepDone
  <2>2. CASE AtWrite
    <3>1. changes' = SizeOf(text, stmt) /\ applied' = Append(applied, stmt)
      BY <1>4, <2>2
      DEF StepDone, Halt, AtWrite, CountsChanges, IsReadOnly, Kind, SizeOf
    <3>2. Uncounted' = SizeOf(text, stmt) /\ Recorded' = Recorded
      BY <1>1, <1>3, <1>4, <2>2, <3>1 DEF Uncounted, Recorded
    <3>3. Changed' = Changed + SizeOf(text, stmt)
      BY <1>1, <3>1, ChangedStep
    <3>4. Counting => affected # 0 /\ Recorded + 0 = Changed /\ Recorded \in Nat
      BY <1>1, <1>3 DEF AffectedInv, AllRecorded, Recorded, TypeInv, TypeOK
    <3>. QED  BY <1>1, <1>3, <2>1, <3>2, <3>3, <3>4 DEF AllRecorded
  <2>3. CASE ~AtWrite
    <3>1. Counting => IsReadOnly(stmt)
      BY <1>1, <1>2, <2>3
      DEF Counting, NoOther, AtWrite, HasColumns, IsReadOnly, Kind, Kinds
    <3>2. Counting => applied' = applied
      BY <1>4, <3>1 DEF StepDone, Halt
    <3>3. Uncounted' = 0
      BY <1>3, <2>3 DEF Uncounted
    <3>. QED  BY <1>1, <1>3, <2>1, <3>2, <3>3, NothingRecorded DEF AffectedInv
  <2>. QED  BY <2>2, <2>3
<1>5. CASE StepFails /\ Throw
  <2>1. /\ pc' \in {"drain", "open"} /\ vm' = "failed" /\ applied' = applied
        /\ failed' = TRUE
    BY <1>5 DEF StepFails, Throw
  <2>2. AtWrite => changes' = 0
    BY <1>5 DEF StepFails, AtWrite, CountsChanges, Kind
  <2>3. Uncounted' = 0
    BY <2>1 DEF Uncounted
  <2>4. AllRecorded'
    BY <1>1, <1>3, <2>1, <2>3, NothingRecorded DEF AffectedInv
  <2>. QED  BY <1>3, <2>1, <2>2, <2>4 DEF ChangesAreCurrent
<1>. QED  BY <1>4, <1>5 DEF ToEnd

\* A statement that ends and has its changes added at once.
LEMMA EndRecorded ==
    ASSUME TypeInv, TypeInv', AllRecorded, UNCHANGED <<text, stmt, blurred>>,
           Uncounted = 0, Uncounted' = 0,
           stmt # 0, StepDone, AddChanges(changes')
    PROVE  AllRecorded'
<1>1. stmt \in DOMAIN text /\ text[stmt].kind \in Kinds
  BY CurrentType
<1>2. Recorded \in Nat /\ Recorded' \in Nat /\ changes' \in Nat
  BY DEF Recorded, TypeInv, TypeOK
<1>3. SUFFICES ASSUME Counting
               PROVE  affected' # 0 /\ Recorded' = Changed'
  BY <1>2 DEF AllRecorded, Counting, NoOther, Kind
<1>4. affected # 0 /\ Recorded = Changed
  BY <1>2, <1>3 DEF AllRecorded
<1>5. affected' # 0
  BY <1>2, <1>4, AddChangesRecords
<1>6. CASE IsReadOnly(stmt)
  <2>1. applied' = applied
    BY <1>6 DEF StepDone, Halt
  <2>2. affected' = affected
    BY <1>2, <1>6, AddChangesRecords
  <2>. QED  BY <1>4, <1>5, <2>1, <2>2, ChangedStep DEF Recorded
<1>7. CASE ~IsReadOnly(stmt)
  <2>1. Kind(stmt) \in {"write", "returning"}
    BY <1>1, <1>3, <1>7 DEF Counting, NoOther, IsReadOnly, Kind, Kinds
  <2>2. changes' = SizeOf(text, stmt) /\ applied' = Append(applied, stmt)
    BY <1>7, <2>1 DEF StepDone, Halt, CountsChanges, Kind, SizeOf
  <2>3. Recorded' = Recorded + changes'
    BY <1>2, <1>7, AddChangesRecords
  <2>4. Changed' = Changed + SizeOf(text, stmt)
    BY <2>2, ChangedStep
  <2>. QED  BY <1>4, <1>5, <2>2, <2>3, <2>4
<1>. QED  BY <1>6, <1>7

LEMMA AffectedDrain ==
    ASSUME AffectedInv, TypeInv', Drain
    PROVE  ChangesAreCurrent' /\ AllRecorded'
<1>1. /\ TypeInv /\ UNCHANGED <<text, stmt, blurred>> /\ pc = "drain"
      /\ pc' \in {"drain", "drainNext", "release"}
  BY DEF Drain, commandVars, usageVars, AffectedInv, OnceInv
<1>2. Uncounted = 0 /\ Uncounted' = 0 /\ Counting' = Counting
  BY <1>1 DEF Uncounted, Counting, NoOther, Kind
<1>3. \/ /\ UNCHANGED <<affected, applied>>
         /\ pc' = "drainNext" => stmt = 0
      \/ stmt # 0 /\ StepDone /\ AddChanges(changes') /\ vm' = "done"
  BY DEF Drain, engineVars, StepRow, StepFails, StepDone
<1>4. ChangesAreCurrent'
  BY <1>1, <1>3 DEF ChangesAreCurrent
<1>5. CASE UNCHANGED <<affected, applied>>
  BY <1>1, <1>2, <1>4, <1>5, NothingRecorded DEF AffectedInv
<1>6. CASE stmt # 0 /\ StepDone /\ AddChanges(changes')
  BY <1>1, <1>2, <1>4, <1>6, EndRecorded DEF AffectedInv
<1>. QED  BY <1>3, <1>5, <1>6

LEMMA AffectedDrainNextAndRelease ==
    ASSUME AffectedInv, TypeInv', DrainNext \/ Release
    PROVE  ChangesAreCurrent' /\ AllRecorded'
<1>1. /\ TypeInv /\ UNCHANGED <<text, affected, blurred>>
      /\ pc \in {"drainNext", "release"} /\ EndStatement
      /\ pc' \in {"drain", "release", "closed"}
  BY DEF DrainNext, Release, commandVars, usageVars, AffectedInv, OnceInv
<1>2. stmt = 0 \/ vm # "row"
  BY <1>1 DEF AffectedInv, ChangesAreCurrent, OnceInv, StatementsEnd
<1>3. applied' = applied
  BY <1>1, <1>2 DEF EndStatement
<1>4. Uncounted = 0 /\ Uncounted' = 0
  BY <1>1 DEF Uncounted
<1>5. AllRecorded'
  BY <1>1, <1>3, <1>4, NothingRecorded DEF AffectedInv
<1>. QED  BY <1>1, <1>5 DEF ChangesAreCurrent

\* HasRows before any Read: what it finds without rows changes none.
LEMMA AffectedHasRows ==
    ASSUME AffectedInv, TypeInv', HasRows
    PROVE  ChangesAreCurrent' /\ AllRecorded'
<1>1. /\ TypeInv /\ UNCHANGED <<text, stmt, affected, readStarted>>
      /\ pc = "open" /\ pc' = "open" /\ ~prefetched /\ ~readStarted
      /\ blurred' = (blurred \/ (failed /\ stmt # 0 /\ ~IsReadOnly(stmt)))
  BY DEF HasRows, NoteReadOn, ReadsOn, commandVars, AffectedInv, OnceInv
<1>2. CASE blurred'
  BY <1>1, <1>2, Blurs
<1>3. CASE ~blurred'
  <2>1. /\ ~blurred /\ (AtWrite \/ AtReturning => ~failed)
        /\ AtWrite' = AtWrite /\ AtReturning' = AtReturning
        /\ Counting' = Counting
    BY <1>1, <1>3
    DEF AtWrite, AtReturning, IsReadOnly, Kind, TypeInv, TypeOK, Counting, NoOther
  <2>2. ~AtWrite /\ (AtReturning => vm # "row")
    BY <1>1, <2>1 DEF AffectedInv, ChangesAreCurrent
  <2>3. Uncounted = 0 /\ Uncounted' = 0
    BY <1>1 DEF Uncounted
  <2>4. CASE stmt = 0
    <3>1. applied' = applied /\ ~AtWrite' /\ ~AtReturning'
      BY <1>1, <2>4 DEF HasRows, engineVars, AtWrite, AtReturning
    <3>. QED
      BY <1>1, <2>1, <2>3, <3>1, NothingRecorded DEF AffectedInv, ChangesAreCurrent
  <2>5. CASE stmt # 0 /\ StepRow /\ hasRow' = TRUE /\ prefetched' = TRUE
    <3>1. applied' = applied
      BY <2>5 DEF StepRow
    <3>. QED
      BY <1>1, <2>1, <2>2, <2>3, <2>5, <3>1, NothingRecorded
      DEF AffectedInv, ChangesAreCurrent
  <2>6. CASE stmt # 0 /\ StepFails /\ failed' = TRUE
    <3>1. applied' = applied
      BY <2>6 DEF StepFails
    <3>. QED
      BY <1>1, <2>1, <2>2, <2>3, <2>6, <3>1, NothingRecorded
      DEF AffectedInv, ChangesAreCurrent
  <2>7. CASE stmt # 0 /\ StepDone /\ hasRow' = FALSE /\ prefetched' = TRUE
    <3>1. AtReturning =>
              applied' = Append(applied, stmt) /\ changes' = 0 /\ SizeOf(text, stmt) = 0
      <4>1. AtReturning => RowsOf(stmt) = 0 /\ RowsOf(stmt) = text[stmt].size
        BY <2>2, <2>7 DEF StepDone, Returned, RowsOf, HasColumns, AtReturning, Kind
      <4>. QED
        BY <2>7, <4>1
        DEF StepDone, Halt, AtReturning, CountsChanges, IsReadOnly, Kind, SizeOf
    <3>2. Counting /\ ~AtReturning => applied' = applied
      <4>1. stmt \in DOMAIN text /\ text[stmt].kind \in Kinds
        BY <1>1, <2>7, CurrentType
      <4>2. Counting /\ ~AtReturning => IsReadOnly(stmt)
        BY <2>2, <2>7, <4>1
        DEF Counting, NoOther, AtReturning, AtWrite, IsReadOnly, Kind, Kinds
      <4>. QED  BY <2>7, <4>2 DEF StepDone, Halt
    <3>3. Counting => Changed' = Changed
      <4>1. Changed \in Nat
        BY <1>1, ChangedStep
      <4>2. CASE AtReturning
        BY <1>1, <2>7, <3>1, <4>1, <4>2, ChangedStep
      <4>3. CASE ~AtReturning
        BY <1>1, <3>2, <4>3, ChangedStep
      <4>. QED  BY <4>2, <4>3
    <3>4. AllRecorded'
      BY <1>1, <2>1, <2>3, <3>3 DEF AffectedInv, AllRecorded, Recorded
    <3>5. ChangesAreCurrent'
      BY <1>1, <2>1, <2>2, <2>7, <3>1 DEF ChangesAreCurrent
    <3>. QED  BY <3>4, <3>5
  <2>. QED  BY <2>4, <2>5, <2>6, <2>7 DEF HasRows
<1>. QED  BY <1>2, <1>3

\* Read of a result that has not ended: the changes of a write are counted with
\* its end.
LEMMA AffectedRead ==
    ASSUME AffectedInv, TypeInv', Read
    PROVE  ChangesAreCurrent' /\ AllRecorded'
<1>1. /\ TypeInv /\ UNCHANGED <<text, stmt>>
      /\ pc = "open" /\ pc' \in {"open", "drain"} /\ readStarted' = TRUE
      /\ blurred' = (blurred \/ (ReadsOn /\ stmt # 0 /\ ~IsReadOnly(stmt)))
  BY DEF Read, ReadReturns, NoteReadOn, commandVars, AffectedInv, OnceInv
<1>2. CASE blurred'
  BY <1>1, <1>2, Blurs
<1>3. CASE ~blurred'
  <2>1. /\ ~blurred /\ (AtWrite \/ AtReturning => ~failed /\ ~ReadsOn)
        /\ AtWrite' = AtWrite /\ AtReturning' = AtReturning
        /\ Counting' = Counting
    BY <1>1, <1>3
    DEF AtWrite, AtReturning, IsReadOnly, Kind, TypeInv, TypeOK, Counting, NoOther,
        ReadsOn
  <2>2. ~AtWrite
    BY <1>1, <2>1 DEF AffectedInv, ChangesAreCurrent
  <2>3. /\ Uncounted = 0 /\ Uncounted' = 0 /\ ChangesAreCurrent'
        /\ changes \in Nat /\ changes' \in Nat
    BY <1>1, <2>1, <2>2 DEF Uncounted, ChangesAreCurrent, TypeInv, TypeOK
  <2>4. Counting => stmt = 0 \/ IsReadOnly(stmt) \/ AtReturning
    BY <1>1, <2>2, CurrentType
    DEF Counting, NoOther, AtReturning, AtWrite, IsReadOnly, Kind, Kinds
  <2>5. CASE UNCHANGED <<applied, affected>>
    BY <1>1, <2>1, <2>3, <2>5, NothingRecorded DEF AffectedInv
  <2>6. CASE /\ applied' = applied /\ prefetched /\ ~hasRow
             /\ AddChanges(changes)
    <3>1. AtReturning => changes = 0
      BY <1>1, <2>1, <2>6 DEF AffectedInv, ChangesAreCurrent, ReadsOn, TypeInv, TypeOK
    <3>2. Counting => affected' = affected
      BY <2>4, <2>6, <3>1 DEF AddChanges, AtReturning
    <3>3. Counting => Changed' = Changed
      BY <1>1, <2>6, ChangedStep
    <3>. QED
      BY <2>1, <2>3, <3>2, <3>3 DEF AffectedInv, AllRecorded, Recorded
  <2>7. CASE stmt = 0 /\ applied' = applied /\ AddChanges(changes)
    BY <1>1, <2>1, <2>3, <2>7, AddChangesRecords, NothingRecorded DEF AffectedInv
  <2>8. CASE stmt # 0 /\ StepDone /\ AddChanges(changes')
    <3>1. blurred' = blurred
      BY <1>1, <1>3, <2>1 DEF TypeInv, TypeOK
    <3>. QED  BY <1>1, <2>3, <2>8, <3>1, EndRecorded DEF AffectedInv
  <2>9. CASE prefetched
    BY <2>5, <2>6, <2>9 DEF Read, ReadReturns, engineVars
  <2>10. CASE ~prefetched /\ stmt = 0
    BY <2>7, <2>10 DEF Read, ReadReturns, engineVars
  <2>11. CASE ~prefetched /\ stmt # 0
    BY <2>5, <2>8, <2>11 DEF Read, ReadReturns, StepRow, StepFails
  <2>. QED  BY <2>9, <2>10, <2>11
<1>. QED  BY <1>2, <1>3

LEMMA AffectedStep ==
    ASSUME AffectedInv, [Next]_vars
    PROVE  AffectedInv'
<1>1. OnceInv' /\ TypeInv'
  BY OnceStep DEF AffectedInv, OnceInv
<1>2. CASE SetCommandText \/ ExecuteReader
  <2>1. /\ applied' = <<>> /\ stmt' = 0 /\ affected' = -1
        /\ pc' \in {"closed", "advance"}
    BY <1>2 DEF SetCommandText, ExecuteReader
  <2>2. Changed' = 0
    BY <1>1, <2>1, ChangedNothing
  <2>. QED
    BY <1>1, <2>1, <2>2
    DEF AffectedInv, ChangesAreCurrent, AllRecorded, AtWrite, AtReturning,
        Recorded, Uncounted
<1>3. CASE SetParameters \/ Prepare \/ NextResult \/ Close \/ UNCHANGED vars
  <2>1. /\ UNCHANGED <<text, stmt, vm, changes, applied, affected, failed, flagVars>>
        /\ \/ pc' = pc /\ blurred' = blurred
           \/ pc = "open" /\ pc' = "advance" /\ blurred' = (blurred \/ AtReturning)
           \/ pc = "open" /\ pc' = "drain" /\ blurred' = blurred
    BY <1>3 DEF SetParameters, Prepare, NextResult, Close, vars, commandVars,
                readerVars, usageVars, engineVars, AtReturning
  <2>2. AtWrite' = AtWrite /\ AtReturning' = AtReturning
    BY <2>1 DEF AtWrite, AtReturning, Kind
  <2>3. ChangesAreCurrent'
    BY <2>1, <2>2 DEF AffectedInv, ChangesAreCurrent, flagVars
  <2>4. CASE blurred'
    BY <1>1, <2>3, <2>4 DEF AffectedInv, AllRecorded, Counting
  <2>5. CASE ~blurred'
    <3>1. Uncounted' = Uncounted
      BY <2>1, <2>2, <2>5 DEF AffectedInv, ChangesAreCurrent, Uncounted
    <3>2. blurred => blurred'
      BY <2>1
    <3>. QED
      BY <1>1, <2>1, <2>3, <3>1, <3>2, NothingRecorded DEF AffectedInv, OnceInv
  <2>. QED  BY <2>4, <2>5
<1>. QED
  BY <1>1, <1>2, <1>3, AffectedAdvance, AffectedToEnd, AffectedDrain,
     AffectedDrainNextAndRelease, AffectedHasRows, AffectedRead
  DEF Next, ReaderStep, AffectedInv

LEMMA ChangedInit == Init => Changed = 0
<1>. SUFFICES ASSUME Init
              PROVE  Changed = 0
  OBVIOUS
<1>1. text \in Batches /\ applied = <<>> /\ applied \in Seq(1..Len(text))
  BY TypeInit DEF Init, TypeInv, TypeOK
<1>. QED  BY <1>1, ChangedDefined, ChangedGrows

LEMMA AffectedInit == Init => AffectedInv
<1>. SUFFICES ASSUME Init
              PROVE  AffectedInv
  OBVIOUS
<1>1. OnceInv /\ TypeInv /\ Changed = 0
  BY OnceInit, ChangedInit DEF OnceInv
<1>. QED
  BY <1>1
  DEF Init, AffectedInv, ChangesAreCurrent, AllRecorded, Recorded, Uncounted

LEMMA AffectedIsExact == AffectedInv => RecordsAffectedIsExact
<1>. SUFFICES ASSUME AffectedInv, pc = "closed", Counting
              PROVE  affected = IF Changed = 0 THEN -1 ELSE Changed
  BY DEF RecordsAffectedIsExact, Counting, NoOther
<1>1. affected \in Nat \cup {-1} /\ affected # 0
  BY DEF AffectedInv, AllRecorded, OnceInv, TypeInv, TypeOK
<1>2. Recorded + 0 = Changed
  BY DEF AffectedInv, AllRecorded, Uncounted
<1>. QED  BY <1>1, <1>2 DEF Recorded

\* For every batch of statements that read, or count what they change, through
\* failures, HasRows, NextResult and the drain of Close: a closed reader's
\* RecordsAffected is the number of rows its statements changed, -1 for none,
\* unless the application has left the rows of a write by NextResult or read a
\* write on after its end or its failure.
THEOREM RecordsExact == Spec => []RecordsAffectedIsExact
<1>1. AffectedInv /\ [Next]_vars => AffectedInv'
  BY AffectedStep
<1>. QED  BY <1>1, AffectedInit, AffectedIsExact, PTL DEF Spec

-----------------------------------------------------------------------------
(* The refinement. *)

\* What a step inside a call does to the current statement.
NativeStep ==
    \/ /\ EndStatement /\ readOut' = readOut
       /\ pc \in {"advance", "drainNext"}
    \/ /\ stmt # 0 /\ (StepRow \/ StepDone \/ StepFails)
       /\ \/ pc \in {"toEnd", "drain"} /\ readOut' = readOut
          \/ pc = "open" /\ NoteStep
    \/ UNCHANGED <<applied, readOut>>

\* It gives effect to that statement, when its turn has come, or to none.
LEMMA NativeStepEffect ==
    ASSUME OnceInv, pc \notin {"closed", "release"}, NativeStep
    PROVE  \/ applied' = applied /\ readOut' = readOut
           \/ /\ stmt # 0 /\ applied' = Append(applied, stmt) /\ ~IsReadOnly(stmt)
              /\ MayTakeEffect
              /\ readOut' \in {readOut, readOut \cup {stmt}}
<1>1. \/ applied' = applied /\ readOut' = readOut
      \/ /\ stmt # 0 /\ applied' = Append(applied, stmt) /\ ~IsReadOnly(stmt)
         /\ vm # "done" \/ pc \in {"toEnd", "open", "drain"}
         /\ readOut' \in {readOut, readOut \cup {stmt}}
  BY DEF NativeStep, NoteStep, StepRow, StepDone, StepFails, EndStatement, Halt
<1>2. /\ \A n \in DOMAIN applied : applied[n] \in Nat
      /\ stmt \in Nat
  <2>1. applied \in Seq(1..Len(text)) /\ stmt \in 0..Len(text)
    BY DEF OnceInv, TypeInv, TypeOK
  <2>. QED  BY <2>1, ElementOfSeq
<1>3. stmt # 0 /\ (vm # "done" \/ pc \in {"toEnd", "open", "drain"}) => MayTakeEffect
  BY <1>2 DEF OnceInv, CurrentIsPending, MayTakeEffect
<1>. QED  BY <1>1, <1>3

LEMMA BatchInsideCall ==
    ASSUME OnceInv, OnceInv', text' = text, blurred' \in {blurred, TRUE},
           pc \notin {"closed", "release"}, pc' # "closed", NativeStep
    PROVE  Batch!Next \/ UNCHANGED Batch!vars
<1>0. TypeInv
  BY DEF OnceInv
<1>1. CASE applied' = applied /\ readOut' = readOut
  <2>1. Changed' = Changed
    BY <1>0, <1>1, ChangedStep
  <2>2. CASE blurred' = blurred
    BY <1>1, <2>1, <2>2 DEF Batch!vars
  <2>3. CASE blurred' = TRUE
    BY <1>1, <2>1, <2>3 DEF Batch!Next, Batch!Blur
  <2>. QED  BY <2>2, <2>3
<1>2. CASE /\ stmt # 0 /\ applied' = Append(applied, stmt) /\ ~IsReadOnly(stmt)
           /\ MayTakeEffect
           /\ readOut' \in {readOut, readOut \cup {stmt}}
  <2>1. stmt \in DOMAIN text /\ text[stmt].kind \in {"write", "returning", "other"}
    BY <1>0, <1>2, CurrentType DEF IsReadOnly, Kind, Kinds
  <2>2. Changed' = Changed + SizeOf(text, stmt)
    BY <1>0, <1>2, ChangedStep
  <2>3. Batch!TakeEffect(stmt)
    BY <1>2, <2>1, <2>2 DEF Batch!TakeEffect, MayTakeEffect, SizeOf
  <2>. QED  BY <2>1, <2>3 DEF Batch!Next
<1>. QED  BY <1>1, <1>2, NativeStepEffect

LEMMA BatchStep ==
    ASSUME AffectedInv, [Next]_vars
    PROVE  Batch!Next \/ UNCHANGED Batch!vars
<1>1. AffectedInv' /\ OnceInv /\ OnceInv' /\ TypeInv /\ TypeInv'
  BY AffectedStep DEF AffectedInv, OnceInv
<1>2. CASE SetCommandText \/ ExecuteReader
  <2>1. applied' = <<>> /\ affected' = -1 /\ pc = "closed"
    BY <1>2 DEF SetCommandText, ExecuteReader
  <2>2. Changed' = 0
    BY <1>1, <2>1, ChangedNothing
  <2>3. CASE SetCommandText
    BY <2>1, <2>2, <2>3
    DEF SetCommandText, Batch!Next, Batch!SetText
  <2>4. CASE ExecuteReader
    BY <2>1, <2>2, <2>4
    DEF ExecuteReader, commandVars, Batch!Next, Batch!Begin
  <2>. QED  BY <1>2, <2>3, <2>4
<1>3. CASE SetParameters \/ Prepare \/ UNCHANGED vars
  <2>1. UNCHANGED <<text, pc, applied, affected, readOut, blurred>>
    BY <1>3 DEF SetParameters, Prepare, vars, commandVars, readerVars, usageVars,
                engineVars
  <2>. QED  BY <1>1, <2>1, ChangedStep DEF Batch!vars
<1>4. CASE Release
  <2>1. /\ UNCHANGED <<applied, text, affected, readOut, blurred>>
        /\ pc = "release" /\ pc' = "closed"
    BY <1>1, <1>4 DEF Release, EndStatement, commandVars, usageVars, OnceInv,
                      StatementsEnd
  <2>2. Changed' = Changed
    BY <1>1, <2>1, ChangedStep
  <2>3. Counting => affected' = IF Changed = 0 THEN -1 ELSE Changed
    <3>1. Counting' = Counting
      BY <2>1 DEF Counting, NoOther, Kind
    <3>2. affected' \in Nat \cup {-1}
      BY <1>1 DEF TypeInv, TypeOK
    <3>3. Counting' => affected' # 0 /\ Recorded' + 0 = Changed'
      BY <1>1, <2>1 DEF AffectedInv, AllRecorded, Uncounted
    <3>. QED  BY <2>2, <3>1, <3>2, <3>3 DEF Recorded
  <2>4. Batch!End
    BY <2>1, <2>2, <2>3 DEF Batch!End, Counting, NoOther, Kind
  <2>. QED  BY <2>4 DEF Batch!Next
<1>5. CASE NextResult \/ HasRows \/ Read \/ Close \/ Advance \/ ToEnd \/ Drain
           \/ DrainNext
  <2>1. /\ text' = text /\ pc \notin {"closed", "release"} /\ pc' # "closed"
        /\ NativeStep
    <3>1. CASE NextResult \/ Close
      BY <3>1 DEF NextResult, Close, commandVars, engineVars, usageVars, NativeStep
    <3>2. CASE HasRows \/ Read
      BY <3>2 DEF HasRows, Read, ReadReturns, commandVars, engineVars, NativeStep
    <3>3. CASE Advance
      BY <3>3 DEF Advance, Throw, commandVars, usageVars, NativeStep
    <3>4. CASE ToEnd
      BY <1>1, <3>4 DEF ToEnd, Throw, commandVars, usageVars, TypeInv, NativeStep
    <3>5. CASE Drain
      BY <3>5 DEF Drain, commandVars, engineVars, usageVars, NativeStep
    <3>6. CASE DrainNext
      BY <3>6 DEF DrainNext, commandVars, usageVars, NativeStep
    <3>. QED  BY <1>5, <3>1, <3>2, <3>3, <3>4, <3>5, <3>6
  <2>2. blurred' \in {blurred, TRUE}
    <3>1. \/ blurred' = blurred
          \/ \E more \in BOOLEAN : blurred' = (blurred \/ more)
      BY <1>5 DEF NextResult, HasRows, Read, NoteReadOn, Close, Advance, ToEnd, Drain,
                  DrainNext, usageVars
    <3>. QED  BY <1>1, <3>1 DEF TypeInv, TypeOK
  <2>. QED  BY <1>1, <2>1, <2>2, BatchInsideCall
<1>. QED  BY <1>2, <1>3, <1>4, <1>5 DEF Next, ReaderStep

\* Command and reader keep BatchExecution's promise step by step: every
\* behavior of the code, however it interleaves HasRows, Read, NextResult,
\* Close and failures, is one of the abstract batch.
THEOREM Refinement == Spec => ImplementsBatchExecution
<1>. SUFFICES Spec => Batch!Spec
  BY DEF ImplementsBatchExecution
<1>1. Init => AffectedInv
  BY AffectedInit
<1>2. AffectedInv /\ [Next]_vars => AffectedInv'
  BY AffectedStep
<1>3. Init => Batch!Init
  <2>. SUFFICES ASSUME Init
                PROVE  Batch!Init
    OBVIOUS
  <2>1. Changed = 0
    BY ChangedInit
  <2>. QED  BY <2>1 DEF Init, Batch!Init
<1>4. AffectedInv /\ [Next]_vars => [Batch!Next]_(Batch!vars)
  BY BatchStep
<1>. QED  BY <1>1, <1>2, <1>3, <1>4, PTL DEF Spec, Batch!Spec

===============================================================================
