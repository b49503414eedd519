---------------------------- MODULE TaskDelivery ----------------------------
(***************************************************************************)
(* What the tenant task queue promises of each task a request sends: it is *)
(* accepted once, a worker runs it at most once, and it disappears before  *)
(* its end only when something fails.                                      *)
(***************************************************************************)
CONSTANT Tasks

VARIABLES
  status,
  failed  \* whether a worker or the broker has failed

Become(t, new) ==
  /\ status' = [status EXCEPT ![t] = new]
  /\ UNCHANGED failed

Init ==
  /\ status = [t \in Tasks |-> "new"]
  /\ failed = FALSE

Accept(t) == status[t] = "new" /\ Become(t, "accepted")

Begin(t) == status[t] = "accepted" /\ Become(t, "running")

End(t) == status[t] = "running" /\ Become(t, "ended")

(***************************************************************************)
(* One failure takes everything one worker holds, or nothing.              *)
(***************************************************************************)
Lose(S) ==
  /\ failed' = TRUE
  /\ \A t \in S : status[t] \in {"accepted", "running"}
  /\ status' = [t \in Tasks |-> IF t \in S THEN "lost" ELSE status[t]]

Next ==
  \/ \E t \in Tasks : Accept(t) \/ Begin(t) \/ End(t)
  \/ \E S \in SUBSET Tasks : Lose(S)

Spec == Init /\ [][Next]_<<status, failed>>
=============================================================================
