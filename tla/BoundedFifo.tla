---------------------------- MODULE BoundedFifo ----------------------------
(***************************************************************************)
(* What the request queue between the accept loop and the pool threads     *)
(* promises: a FIFO of at most Capacity items.  A taker receives the       *)
(* oldest item and holds it until it is done with it.                      *)
(***************************************************************************)
EXTENDS Naturals, Sequences

CONSTANTS Item,      \* what may be queued
          Taker,     \* who takes items
          NoItem,    \* what a taker holds when it holds nothing
          Capacity   \* how many items the queue holds at most

VARIABLES buf,       \* the queued items, oldest first
          got        \* the item each taker holds

fvars == <<buf, got>>

Init ==
  /\ buf = << >>
  /\ got = [t \in Taker |-> NoItem]

\* An item goes in at the end, only when there is room for it.
Put(x) ==
  /\ Len(buf) < Capacity
  /\ buf' = Append(buf, x)
  /\ UNCHANGED got

\* A taker that holds nothing receives the oldest item.
Take(t) ==
  /\ buf # << >>
  /\ got[t] = NoItem
  /\ got' = [got EXCEPT ![t] = Head(buf)]
  /\ buf' = Tail(buf)

\* A taker is done with its item.
Release(t) ==
  /\ got[t] # NoItem
  /\ got' = [got EXCEPT ![t] = NoItem]
  /\ UNCHANGED buf

Next ==
  \/ \E x \in Item : Put(x)
  \/ \E t \in Taker : Take(t) \/ Release(t)

Spec == Init /\ [][Next]_fvars
=============================================================================
