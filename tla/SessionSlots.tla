---------------------------- MODULE SessionSlots ----------------------------
(***************************************************************************)
(* What the App's sessions promise, without tasks, locks or handles: each  *)
(* profile has one slot; a connect reserves a ticket; only the newest      *)
(* ticket of the slot may fill it; revoking the slot draws a new ticket,   *)
(* so a ticket drawn before the revocation never fills it.                 *)
(***************************************************************************)
EXTENDS Naturals

CONSTANTS Connections

VARIABLES
    session,    \* the ticket whose session occupies each slot, 0 for none
    latest,     \* the newest ticket of each slot
    drawn       \* tickets drawn so far

slots == <<session, latest, drawn>>

Init ==
    /\ session = [c \in Connections |-> 0]
    /\ latest = [c \in Connections |-> 0]
    /\ drawn = 0

Draw(c) ==
    /\ drawn' = drawn + 1
    /\ latest' = [latest EXCEPT ![c] = drawn']

(* A connect asks for the slot; the present session stays until replaced.   *)
Reserve(c) == Draw(c) /\ UNCHANGED session

(* The newest ticket fills the slot, replacing an older session.            *)
Fill(c) ==
    /\ session[c] < latest[c]
    /\ session' = [session EXCEPT ![c] = latest[c]]
    /\ UNCHANGED <<latest, drawn>>

(* A save, delete or disconnect empties the slot for every older ticket.    *)
Revoke(c) ==
    /\ Draw(c)
    /\ session' = [session EXCEPT ![c] = 0]

(* A reconciliation empties slots whose profile changed elsewhere.          *)
Evict(stale) ==
    /\ session' = [c \in Connections |-> IF c \in stale THEN 0 ELSE session[c]]
    /\ UNCHANGED <<latest, drawn>>

Next ==
    \/ \E c \in Connections : Reserve(c) \/ Fill(c) \/ Revoke(c)
    \/ \E stale \in SUBSET Connections : Evict(stale)

Spec == Init /\ [][Next]_slots

-----------------------------------------------------------------------------
TypeOK ==
    /\ session \in [Connections -> Nat]
    /\ latest \in [Connections -> Nat]
    /\ drawn \in Nat

(* No slot is occupied by a ticket newer than its newest one.               *)
SlotsOK == \A c \in Connections : session[c] <= latest[c] /\ latest[c] <= drawn
=============================================================================
