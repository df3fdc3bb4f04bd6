------------------------------ MODULE Delivery ------------------------------
(***************************************************************************)
(* What a bridge promises of the messages that reach its connectors: each  *)
(* is taken or refused once, what is taken is settled once, by a reply or  *)
(* by a report to the error handler, and Run does not end before.          *)
(***************************************************************************)
VARIABLES
  status,   \* status[m]: what became of message m
  ended     \* Run has returned

Statuses == {"out", "taken", "refused", "replied", "failed"}

DeliveryInit ==
  /\ status \in [DOMAIN status -> {"out"}]
  /\ ended = FALSE

Becomes(m, before, after) ==
  /\ status[m] = before
  /\ \E s \in after : status' = [status EXCEPT ![m] = s]
  /\ UNCHANGED ended

Take(m)   == ~ended /\ Becomes(m, "out", {"taken", "refused"})
Settle(m) == ~ended /\ Becomes(m, "taken", {"replied", "failed"})

End ==
  /\ ~ended
  /\ \A m \in DOMAIN status : status[m] # "taken"
  /\ ended' = TRUE
  /\ UNCHANGED status

DeliveryNext == End \/ \E m \in DOMAIN status : Take(m) \/ Settle(m)

DeliverySpec == DeliveryInit /\ [][DeliveryNext]_<<status, ended>>
=============================================================================
