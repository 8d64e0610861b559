-------------------------------- MODULE Notice --------------------------------
(***************************************************************************)
(* What the owner is promised about the notification of one enquiry.       *)
(*   - One copy is due, and one more each time the owner has it sent again *)
(*     without knowing what became of the last; no other is accepted, and  *)
(*     no attempt is begun when none is due.                               *)
(*   - An attempt whose outcome is unknown is not repeated until the owner *)
(*     says so, and a notification that is known to be sent never is.      *)
(*   - It is called sent only if a copy was accepted, or the owner says so.*)
(*   - All copies go to one address.                                       *)
(* How the form, the mail lane, its claims and restarts bring this about   *)
(* is the business of EnquiryDelivery, which implements this specification *)
(* for each reference.                                                     *)
(***************************************************************************)
EXTENDS Naturals

CONSTANTS Address, NoAddress

VARIABLES
    state,      \* what is on record
    recipient,  \* where the copies go
    copies,     \* how many were accepted
    asked       \* how often the owner asked for another

vars == <<state, recipient, copies, asked>>

Init == state = "none" /\ recipient = NoAddress /\ copies = 0 /\ asked = 0

Due == copies <= asked

Order ==
    /\ state = "none" /\ state' = "queued"
    /\ UNCHANGED <<recipient, copies, asked>>

Attempt ==
    /\ state = "queued" /\ Due
    /\ state' = "sending"
    /\ recipient' \in IF recipient = NoAddress THEN Address ELSE {recipient}
    /\ UNCHANGED <<copies, asked>>

\* However late: the one who attempted it may have been given up by then.
Accept ==
    /\ Due /\ recipient # NoAddress
    /\ copies' = copies + 1
    /\ UNCHANGED <<state, recipient, asked>>

Conclude(outcome) ==
    /\ state = "sending"
    /\ outcome = "sent" => copies > 0
    /\ outcome \in {"queued", "failed"} => Due
    /\ state' = outcome
    /\ UNCHANGED <<recipient, copies, asked>>

MarkSent ==
    /\ state = "uncertain" /\ state' = "sent"
    /\ UNCHANGED <<recipient, copies, asked>>

SendAgain ==
    /\ state = "uncertain" /\ state' = "queued"
    /\ asked' = asked + 1
    /\ UNCHANGED <<recipient, copies>>

Retry ==
    /\ state = "failed" /\ Due
    /\ state' = "queued"
    /\ UNCHANGED <<recipient, copies, asked>>

Next ==
    \/ Order \/ Attempt \/ Accept
    \/ \E outcome \in {"queued", "sent", "failed", "uncertain"} : Conclude(outcome)
    \/ MarkSent \/ SendAgain \/ Retry

Spec == Init /\ [][Next]_vars
===============================================================================
