------------------------------ MODULE Delivery ------------------------------
(***************************************************************************)
(* What the library promises about the requests it sends to the server     *)
(* (the Alerts and the Replace of package #1, and generic alerts): a       *)
(* request is queued once, goes out with everything else that is queued,   *)
(* and is settled by one final status from the server, after any number of *)
(* times the server asked for it again with better credentials.            *)
(* Elements.tla is shown to implement this module.                         *)
(***************************************************************************)
CONSTANT Request    \* the protocol elements the client expects a status for

VARIABLE fate       \* where each request stands

Fate == {"new", "queued", "sent", "settled"}

DeliveryInit == fate = [r \in Request |-> "new"]

\* A request is created and waits for the next packet.
Issue(r) ==
    /\ fate[r] = "new"
    /\ fate' = [fate EXCEPT ![r] = "queued"]

\* The next packet takes every queued request: none is left for later.
Transmit ==
    /\ \E r \in Request : fate[r] = "queued"
    /\ fate' = [r \in Request |-> IF fate[r] = "queued" THEN "sent" ELSE fate[r]]

\* A final status: the request is never seen again.
Settle(r) ==
    /\ fate[r] = "sent"
    /\ fate' = [fate EXCEPT ![r] = "settled"]

\* The server did not accept the credentials: the request goes out again.
Resend(r) ==
    /\ fate[r] = "sent"
    /\ fate' = [fate EXCEPT ![r] = "queued"]

DeliveryNext ==
    \/ Transmit
    \/ \E r \in Request : Issue(r) \/ Settle(r) \/ Resend(r)

DeliverySpec == DeliveryInit /\ [][DeliveryNext]_fate
=============================================================================
