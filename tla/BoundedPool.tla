------------------------------ MODULE BoundedPool ------------------------------
(***************************************************************************)
(* What a session pool promises to the connections of one connection       *)
(* string, as CONNECTION_POOL_COMPARISON.md describes it: every session is *)
(* idle or in the hands of one client, and the sessions that exist or are  *)
(* being opened never exceed Capacity.  No count, no semaphore, no steps:  *)
(* ConnectionPool shows how the code keeps the promise.                    *)
(***************************************************************************)
EXTENDS Integers, FiniteSets

CONSTANTS Clients, Sessions, NoSession, Capacity

VARIABLES
    idle,      \* sessions waiting in the pool
    held,      \* the session each client works with, or NoSession
    creating,  \* clients that are opening a new session
    lost       \* sessions that were never given back

vars == <<idle, held, creating, lost>>

Existing == idle \cup lost \cup ({held[c] : c \in Clients} \ {NoSession})

Init ==
    /\ idle = {}
    /\ held = [c \in Clients |-> NoSession]
    /\ creating = {}
    /\ lost = {}

TakeIdle(c, s) ==
    /\ held[c] = NoSession
    /\ s \in idle
    /\ idle' = idle \ {s}
    /\ held' = [held EXCEPT ![c] = s]
    /\ UNCHANGED <<creating, lost>>

StartCreating(c) ==
    /\ held[c] = NoSession
    /\ c \notin creating
    /\ Cardinality(Existing) + Cardinality(creating) < Capacity
    /\ creating' = creating \cup {c}
    /\ UNCHANGED <<idle, held, lost>>

FinishCreating(c, s) ==
    /\ c \in creating
    /\ s \notin Existing
    /\ creating' = creating \ {c}
    /\ held' = [held EXCEPT ![c] = s]
    /\ UNCHANGED <<idle, lost>>

FailCreating(c) ==
    /\ c \in creating
    /\ creating' = creating \ {c}
    /\ UNCHANGED <<idle, held, lost>>

\* The client gives its session back, finds it dead, or forgets it.
Relinquish(c) ==
    /\ held[c] # NoSession
    /\ held' = [held EXCEPT ![c] = NoSession]
    /\ \/ idle' = idle \cup {held[c]} /\ UNCHANGED lost
       \/ UNCHANGED <<idle, lost>>
       \/ lost' = lost \cup {held[c]} /\ UNCHANGED idle
    /\ UNCHANGED creating

Next ==
    \E c \in Clients :
        \/ \E s \in Sessions : TakeIdle(c, s) \/ FinishCreating(c, s)
        \/ StartCreating(c) \/ FailCreating(c) \/ Relinquish(c)

Spec == Init /\ [][Next]_vars
===============================================================================
