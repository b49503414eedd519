-------------------------- MODULE BroadcastDelivery --------------------------
(***************************************************************************)
(* What every broadcast channel promises one subscription: a message is    *)
(* handed over at most once, only after it was published, and in the order *)
(* of publication; messages may be missing.  Messages are numbered in the  *)
(* order in which Redis accepts them.                                      *)
(***************************************************************************)
EXTENDS Naturals, Sequences

VARIABLES
  sent,  \* how many messages were published
  got    \* the messages the subscription has returned to its caller

Init == sent = 0 /\ got = <<>>

Publish == sent' = sent + 1 /\ UNCHANGED got

LastGot == IF got = <<>> THEN 0 ELSE got[Len(got)]

Receive ==
  /\ \E m \in LastGot + 1 .. sent : got' = Append(got, m)
  /\ UNCHANGED sent

Next == Publish \/ Receive

Spec == Init /\ [][Next]_<<sent, got>>
=============================================================================
