------------------------------ MODULE Delivery ------------------------------
(***************************************************************************)
(* What the outbox of the discovery database and the inbox of the          *)
(* processing database promise together: every event that is emitted is    *)
(* received, and received once.                                            *)
(***************************************************************************)
EXTENDS Naturals

CONSTANT Events

VARIABLES
  emitted,   \* the events emitted so far
  received   \* how often each event was received

vars == <<emitted, received>>

Init == emitted = {} /\ received = [e \in Events |-> 0]

Emit(e) ==
  /\ e \notin emitted
  /\ emitted' = emitted \cup {e}
  /\ UNCHANGED received

Receive(e) ==
  /\ e \in emitted /\ received[e] = 0
  /\ received' = [received EXCEPT ![e] = 1]
  /\ UNCHANGED emitted

Next == \E e \in Events : Emit(e) \/ Receive(e)

Spec == Init /\ [][Next]_vars

FairSpec == Spec /\ \A e \in Events : WF_vars(Receive(e))
=============================================================================
