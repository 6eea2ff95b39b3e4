----------------------------- MODULE EventStream -----------------------------
(***************************************************************************)
(* What a session promises its client, without connections, buffers or     *)
(* acknowledgement messages: events are produced in ascending order and    *)
(* delivered in any order, any number of times; the client claims a number *)
(* only if it has every event up to it, and the session counts nothing as  *)
(* acknowledged that was not claimed.  Nothing is promised once the stream *)
(* is closed.                                                              *)
(***************************************************************************)
EXTENDS Naturals

VARIABLES
  open,        \* both ends keep the session
  produced,    \* numbers of the events produced
  delivered,   \* numbers of the events handed to the application
  claimed,     \* the number the client resumes with
  acked        \* the number up to which the session may forget

vars == <<open, produced, delivered, claimed, acked>>

Init ==
  /\ open = TRUE
  /\ produced = {}
  /\ delivered = {}
  /\ claimed = 0
  /\ acked = 0

\* A new event is above every number produced or claimed before.
Produce(n) ==
  /\ \A m \in produced : m < n
  /\ claimed < n
  /\ produced' = produced \cup {n}
  /\ UNCHANGED <<open, delivered, claimed, acked>>

\* A claim needs everything before it.
Deliver(D, k) ==
  /\ claimed <= k
  /\ delivered' = delivered \cup D
  /\ \A n \in produced : n <= k => n \in delivered'
  /\ claimed' = k
  /\ UNCHANGED <<open, produced, acked>>

Acknowledge(k) ==
  /\ acked <= k
  /\ k <= claimed
  /\ acked' = k
  /\ UNCHANGED <<open, produced, delivered, claimed>>

Next ==
  \/ ~open
  \/ ~open'
  \/ \E n \in produced' : Produce(n)
  \/ \E D \in SUBSET (produced \cap delivered') : Deliver(D, claimed')
  \/ Acknowledge(acked')

Spec == Init /\ [][Next]_vars
=============================================================================
