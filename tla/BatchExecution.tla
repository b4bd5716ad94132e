---------------------------- MODULE BatchExecution ----------------------------
(***************************************************************************)
(* What a command keeps of its CommandText, whatever is read, skipped or   *)
(* fails on the way: the statements of the batch that write take effect    *)
(* one at a time, in the order of the batch, only while a reader is open,  *)
(* and no effect is ever lost.  They take effect at most once, but for     *)
(* those that were read to their end, and the closed reader reports the    *)
(* rows they changed, unless the reading blurred the report.  These two    *)
(* exceptions are the code's.  No cursor, no flags, no SQLite: BatchReader *)
(* shows how the code does it.                                             *)
(***************************************************************************)
EXTENDS Integers, Sequences

CONSTANT Batches

VARIABLES
    text,      \* the batch
    running,   \* a reader is open
    effects,   \* statements that took effect, in their order
    changed,   \* rows they changed
    reported,  \* RecordsAffected of the closed reader
    readOut,   \* statements the application has read to their end
    blurred    \* it has read on after an end or a failure, or left rows unread

vars == <<text, running, effects, changed, reported, readOut, blurred>>

Init ==
    /\ text \in Batches
    /\ running = FALSE
    /\ effects = <<>> /\ changed = 0
    /\ reported = -1
    /\ readOut = {} /\ blurred = FALSE

SetText ==
    /\ ~running
    /\ text' \in Batches
    /\ effects' = <<>> /\ changed' = 0
    /\ reported' = -1
    /\ readOut' = {} /\ blurred' = FALSE
    /\ UNCHANGED running

Begin ==
    /\ ~running
    /\ running' = TRUE
    /\ effects' = <<>> /\ changed' = 0
    /\ reported' = -1
    /\ readOut' = {} /\ blurred' = FALSE
    /\ UNCHANGED text

TakeEffect(i) ==
    /\ running
    /\ text[i].kind \in {"write", "returning", "other"}
    /\ \A n \in DOMAIN effects :
           effects[n] < i \/ (effects[n] = i /\ i \in readOut)
    /\ effects' = Append(effects, i)
    /\ changed' = changed +
           (IF text[i].kind \in {"write", "returning"} THEN text[i].size ELSE 0)
    /\ readOut' \in {readOut, readOut \cup {i}}
    /\ blurred' \in {blurred, TRUE}
    /\ UNCHANGED <<text, running, reported>>

Blur ==
    /\ running
    /\ blurred' = TRUE
    /\ UNCHANGED <<text, running, effects, changed, reported, readOut>>

\* Statements that write but count no changes leave open what is reported.
End ==
    /\ running
    /\ running' = FALSE
    /\ \/ reported' = IF changed = 0 THEN -1 ELSE changed
       \/ blurred
       \/ \E i \in DOMAIN text : text[i].kind = "other"
    /\ UNCHANGED <<text, effects, changed, readOut, blurred>>

Next ==
    \/ SetText \/ Begin \/ Blur \/ End
    \/ \E i \in DOMAIN text : TakeEffect(i)

Spec == Init /\ [][Next]_vars
===============================================================================
