------------------------------ MODULE PaidCreate ------------------------------
(***************************************************************************)
(* What the campaign studio promises the owner, who pays for every request *)
(* that creates a response at the provider.  A generation stage makes at   *)
(* most two requests, the original and one correction, in this order.      *)
(*   - A request is sent at most once, and never after its outcome or the  *)
(*     outcome of the stage has been decided.                              *)
(*   - The correction is sent only once the original answer is on record.  *)
(*   - An outcome, once on record, is never revised.                       *)
(*   - A stage is delivered only from an answer on record.                 *)
(* How workers, leases, crashes and restarts bring this about is the       *)
(* business of ProviderEffects, which implements this specification.       *)
(***************************************************************************)
EXTENDS Naturals

Ordinal == 1..2

VARIABLES
    sent,      \* number of requests sent, per ordinal
    outcome,   \* what is on record about each request
    stage      \* what is on record about the stage

vars == <<sent, outcome, stage>>

Verdict == {"answered", "refused", "unknown"}

TypeOK ==
    /\ sent \in [Ordinal -> 0..1]
    /\ outcome \in [Ordinal -> Verdict \cup {"open"}]
    /\ stage \in {"open", "delivered", "abandoned"}

Init ==
    /\ sent = [o \in Ordinal |-> 0]
    /\ outcome = [o \in Ordinal |-> "open"]
    /\ stage = "open"

Send(o) ==
    /\ stage = "open"
    /\ sent[o] = 0
    /\ outcome[o] = "open"
    /\ o = 2 => outcome[1] = "answered"
    /\ sent' = [sent EXCEPT ![o] = 1]
    /\ UNCHANGED <<outcome, stage>>

\* Only a request that was sent can have an answer or a refusal; whether it
\* was sent may itself be what is unknown.
Record(o, v) ==
    /\ outcome[o] = "open"
    /\ v \in {"answered", "refused"} => sent[o] = 1
    /\ outcome' = [outcome EXCEPT ![o] = v]
    /\ UNCHANGED <<sent, stage>>

Deliver ==
    /\ stage = "open"
    /\ \E o \in Ordinal : outcome[o] = "answered"
    /\ stage' = "delivered"
    /\ UNCHANGED <<sent, outcome>>

\* Giving the stage up may also write off the requests still open.
Abandon(written) ==
    /\ stage = "open"
    /\ \A o \in written : outcome[o] = "open"
    /\ outcome' = [o \in Ordinal |-> IF o \in written THEN "unknown" ELSE outcome[o]]
    /\ stage' = "abandoned"
    /\ UNCHANGED sent

Next ==
    \/ \E o \in Ordinal : Send(o)
    \/ \E o \in Ordinal, v \in Verdict : Record(o, v)
    \/ Deliver
    \/ \E written \in SUBSET Ordinal : Abandon(written)

Spec == Init /\ [][Next]_vars
===============================================================================
