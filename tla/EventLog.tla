------------------------------ MODULE EventLog ------------------------------
(***************************************************************************)
(* What the event outbox of a call session promises: a log of committed     *)
(* events that is settled from its front, once per event.  A settled event  *)
(* was sent to the browser, or dropped, or - if it is recoverable - kept    *)
(* until somebody asks for it.  Only when the retention of an ended session *)
(* is over may a recoverable event be dropped.                              *)
(***************************************************************************)
EXTENDS Naturals, Sequences

CONSTANTS Events, Recoverable   \* Recoverable is a set of Events

VARIABLES log,      \* events in the order of their commits
          settled,  \* how many of them, from the front, are settled
          fate,     \* what became of each
          open      \* the session can still be asked for what it kept

vars == <<log, settled, fate, open>>
Fates == {"none", "sent", "kept", "handed", "dropped"}

Init == /\ log = <<>> /\ settled = 0 /\ open = TRUE
        /\ fate = [e \in Events |-> "none"]

Commit(e) ==
    /\ \A i \in 1 .. Len(log) : log[i] # e
    /\ log' = Append(log, e)
    /\ UNCHANGED <<settled, fate, open>>

Settle ==
    /\ settled < Len(log) /\ settled' = settled + 1
    /\ \E f \in {"sent", IF log[settled + 1] \in Recoverable /\ open THEN "kept" ELSE "dropped"} :
          fate' = [fate EXCEPT ![log[settled + 1]] = f]
    /\ UNCHANGED <<log, open>>

Become(old, new) == fate' = [e \in Events |-> IF fate[e] = old THEN new ELSE fate[e]]
HandOver == open /\ Become("kept", "handed") /\ UNCHANGED <<log, settled, open>>
Retire == open /\ open' = FALSE /\ Become("kept", "dropped") /\ UNCHANGED <<log, settled>>

Next == (\E e \in Events : Commit(e)) \/ Settle \/ HandOver \/ Retire
Spec == Init /\ [][Next]_vars
=============================================================================
