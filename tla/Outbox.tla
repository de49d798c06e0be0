------------------------------- MODULE Outbox -------------------------------
(***************************************************************************)
(* What a sender with a column of marks promises: a row is sent and then   *)
(* marked; it is sent again only when its mark was lost in between, and    *)
(* never after it was marked.  A row may also be marked without having     *)
(* been sent: given up, or by mistake.                                     *)
(***************************************************************************)
EXTENDS Naturals

CONSTANT Row

VARIABLES state,       \* of each row: waiting, sent and not yet marked, marked
          deliveries   \* how often each row was sent

ovars == <<state, deliveries>>

Init ==
  /\ state = [r \in Row |-> "waiting"]
  /\ deliveries = [r \in Row |-> 0]

Deliver(r) ==
  /\ state[r] = "waiting" /\ state'[r] = "sent"
  /\ deliveries'[r] = deliveries[r] + 1

\* The mark is set, or is lost after the row was sent.
Move(r) ==
  /\ <<state[r], state'[r]>> \in {<<"sent", "marked">>, <<"sent", "waiting">>,
                                  <<"waiting", "marked">>}
  /\ deliveries'[r] = deliveries[r]

Rest(r) == state'[r] = state[r] /\ deliveries'[r] = deliveries[r]

\* A process that ends lets go of all the rows it has in hand at once.
Next ==
  /\ state' \in [Row -> {"waiting", "sent", "marked"}]
  /\ deliveries' \in [Row -> Nat]
  /\ \A r \in Row : Deliver(r) \/ Move(r) \/ Rest(r)

Spec == Init /\ [][Next]_ovars
=============================================================================
