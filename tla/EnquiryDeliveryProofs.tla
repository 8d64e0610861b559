-------------------------- MODULE EnquiryDeliveryProofs ------------------------
(***************************************************************************)
(* Proofs about EnquiryDelivery.                                           *)
(*                                                                         *)
(* The invariant counts.  The copies accepted, the lanes that may still    *)
(* post one, and the one a lane may be given unasked are never more than   *)
(* one and those the owner asked for (Budget); as long as no lane was      *)
(* overtaken in mid-delivery, a notification has one process at most, and  *)
(* what the owner saw of it is true (Undisturbed).  The requests with one  *)
(* reference all say the same, the form and the store included (WireInv).  *)
(* The refinement of Notice needs one thing more, what a lane that reports *)
(* leaves behind (Traced).                                                 *)
(***************************************************************************)
EXTENDS EnquiryDelivery, FiniteSetTheorems, TLAPS

(***************************************************************************)
(* The records the actions write.                                          *)
(***************************************************************************)
Queued == [NoMail EXCEPT !.state = "queued", !.revision = 1, !.due = TRUE]
Decided(m, state) ==
    [m EXCEPT !.state = state, !.revision = @ + 1, !.attempts = 0, !.due = TRUE]
Settled(m, state, due) ==
    [m EXCEPT !.state = state, !.revision = @ + 1, !.due = due, !.lapsed = FALSE, !.token = 0]
Lapsed(m) == [m EXCEPT !.lapsed = TRUE]
Overtaken(m) == [m EXCEPT !.lapsed = TRUE, !.overtaken = TRUE]
Dated(m) == [m EXCEPT !.due = TRUE]

Claiming(l, id, t, a) == [l EXCEPT !.pc = "claimed", !.id = id, !.token = t, !.attempts = a]
Posted(l, outcome) == [l EXCEPT !.pc = "answered", !.outcome = outcome]

Shown(f, text) == [f EXCEPT !.shown = text]
Begun(f) == [f EXCEPT !.held = TRUE, !.kept = f.shown, !.last = @ + 1]
Sent(f) == [f EXCEPT !.pc = "sending", !.sends = @ + 1]
Turned(f, pc) == [f EXCEPT !.pc = pc]
Dropped(f) == [f EXCEPT !.pc = "editing", !.held = FALSE]

MailStates == {"none", "queued", "sending", "sent", "failed", "uncertain"}

LEMMA Limits == /\ MaxAttempts \in Nat /\ MaxAttempts # 0 /\ MaxRequests \in Nat /\ MaxSends \in Nat
                /\ Capacity \in Nat
  BY LimitsAssumption, BoundsAssumption

LEMMA NoMailFacts ==
  /\ NoMail \in Notification /\ NoMail.state = "none" /\ NoMail.revision = 0
  /\ ~NoMail.overtaken /\ NoMail.recipient = NoAddress /\ ~NoMail.lapsed
  <1>1. 0 \in 0..MaxAttempts /\ 0 \in Nat
    BY Limits
  <1> QED BY <1>1, Zenon DEF NoMail, Notification

LEMMA QueuedFacts ==
  /\ Queued \in Notification /\ Queued.state = "queued" /\ Queued.revision = 1
  /\ ~Queued.overtaken /\ Queued.recipient = NoAddress /\ ~Queued.lapsed
  <1>1. 1 \in Nat
    OBVIOUS
  <1> QED BY <1>1, NoMailFacts, Zenon DEF Queued, Notification

LEMMA DecidedFacts ==
  ASSUME NEW m \in Notification, NEW state \in MailStates
  PROVE  /\ Decided(m, state) \in Notification
         /\ Decided(m, state).state = state
         /\ Decided(m, state).revision = m.revision + 1
         /\ (Decided(m, state).overtaken <=> m.overtaken)
         /\ (Decided(m, state).lapsed <=> m.lapsed)
         /\ Decided(m, state).token = m.token
         /\ Decided(m, state).recipient = m.recipient
  <1>1. m.revision + 1 \in Nat /\ 0 \in 0..MaxAttempts
    BY Limits DEF Notification
  <1> QED BY <1>1, Zenon DEF Decided, Notification, MailStates

LEMMA SettledFacts ==
  ASSUME NEW m \in Notification, NEW state \in MailStates, NEW due \in BOOLEAN
  PROVE  /\ Settled(m, state, due) \in Notification
         /\ Settled(m, state, due).state = state
         /\ Settled(m, state, due).revision = m.revision + 1
         /\ (Settled(m, state, due).overtaken <=> m.overtaken)
         /\ Settled(m, state, due).recipient = m.recipient
  <1>1. m.revision + 1 \in Nat /\ 0 \in Nat
    BY DEF Notification
  <1> QED BY <1>1, Zenon DEF Settled, Notification, MailStates

LEMMA InterruptedFacts ==
  ASSUME NEW m \in Notification
  PROVE  /\ Interrupted(m) \in Notification
         /\ Interrupted(m).state = "uncertain"
         /\ Interrupted(m).revision = m.revision + 1
         /\ (Interrupted(m).overtaken <=> m.overtaken)
         /\ Interrupted(m).recipient = m.recipient
  <1>1. m.revision + 1 \in Nat
    BY DEF Notification
  <1> QED BY <1>1, Zenon DEF Interrupted, Notification

LEMMA TakenFacts ==
  ASSUME NEW m \in Notification, NEW a \in Address, m.attempts < MaxAttempts
  PROVE  /\ Taken(m, a) \in Notification
         /\ Taken(m, a).state = "sending"
         /\ Taken(m, a).revision = m.revision + 1
         /\ (Taken(m, a).overtaken <=> m.overtaken)
         /\ ~Taken(m, a).lapsed
         /\ Taken(m, a).token = m.revision + 1
         /\ Taken(m, a).recipient = IF m.recipient = NoAddress THEN a ELSE m.recipient
  <1>1. m.revision + 1 \in Nat /\ m.attempts + 1 \in 0..MaxAttempts
    BY Limits DEF Notification
  <1> DEFINE n == Attempted(m)
  <1>2. /\ n \in Notification /\ n.state = "sending" /\ n.revision = m.revision + 1
        /\ (n.overtaken <=> m.overtaken) /\ ~n.lapsed /\ n.token = m.revision + 1
        /\ n.recipient = m.recipient
    BY <1>1, Zenon DEF Attempted, Notification
  <1>3. Taken(m, a) = [n EXCEPT !.recipient = IF n.recipient = NoAddress THEN a ELSE n.recipient]
    BY Zenon DEF Taken
  <1> HIDE DEF n
  <1>4. PICK r \in Address \cup {NoAddress} :
          /\ r = IF n.recipient = NoAddress THEN a ELSE n.recipient
          /\ Taken(m, a) = [n EXCEPT !.recipient = r]
    BY <1>2, <1>3, Zenon DEF Notification
  <1>5. r = IF m.recipient = NoAddress THEN a ELSE m.recipient
    BY <1>2, <1>4, Zenon
  <1>6. /\ Taken(m, a) \in Notification /\ Taken(m, a).state = n.state
        /\ Taken(m, a).revision = n.revision /\ (Taken(m, a).overtaken <=> n.overtaken)
        /\ (Taken(m, a).lapsed <=> n.lapsed) /\ Taken(m, a).token = n.token
        /\ Taken(m, a).recipient = r
    BY <1>2, <1>4, Zenon DEF Notification
  <1> QED BY <1>2, <1>5, <1>6, Zenon

LEMMA LapsedFacts ==
  ASSUME NEW m \in Notification
  PROVE  /\ Lapsed(m) \in Notification
         /\ Lapsed(m).state = m.state /\ Lapsed(m).revision = m.revision
         /\ (Lapsed(m).overtaken <=> m.overtaken) /\ Lapsed(m).token = m.token
         /\ Lapsed(m).recipient = m.recipient
  BY Zenon DEF Lapsed, Notification

LEMMA OvertakenFacts ==
  ASSUME NEW m \in Notification
  PROVE  /\ Overtaken(m) \in Notification
         /\ Overtaken(m).state = m.state /\ Overtaken(m).revision = m.revision
         /\ Overtaken(m).overtaken /\ Overtaken(m).token = m.token
         /\ Overtaken(m).recipient = m.recipient
  BY Zenon DEF Overtaken, Notification

LEMMA DatedFacts ==
  ASSUME NEW m \in Notification
  PROVE  /\ Dated(m) \in Notification
         /\ Dated(m).state = m.state /\ Dated(m).revision = m.revision
         /\ (Dated(m).overtaken <=> m.overtaken) /\ Dated(m).token = m.token
         /\ (Dated(m).lapsed <=> m.lapsed) /\ Dated(m).recipient = m.recipient
  BY Zenon DEF Dated, Notification

LEMMA ClaimingFacts ==
  ASSUME NEW l \in Lane, NEW id \in Reference, NEW t \in Nat, NEW a \in 0..MaxAttempts
  PROVE  /\ Claiming(l, id, t, a) \in Lane
         /\ Claiming(l, id, t, a).pc = "claimed" /\ Claiming(l, id, t, a).id = id
         /\ Claiming(l, id, t, a).token = t
  BY Zenon DEF Claiming, Lane

LEMMA PostedFacts ==
  ASSUME NEW l \in Lane, NEW outcome \in {"sent", "limited", "refused", "unknown"}
  PROVE  /\ Posted(l, outcome) \in Lane
         /\ Posted(l, outcome).pc = "answered" /\ Posted(l, outcome).id = l.id
         /\ Posted(l, outcome).token = l.token /\ Posted(l, outcome).outcome = outcome
  BY Zenon DEF Posted, Lane

LEMMA IdleFacts ==
  ASSUME NEW a \in Address
  PROVE  Idle(a) \in Lane /\ Idle(a).pc = "idle"
  <1>1. 0 \in 0..MaxAttempts /\ 0 \in Nat
    BY Limits
  <1> QED BY <1>1, Zenon DEF Idle, Lane

LEMMA FormFacts ==
  ASSUME NEW f \in Form
  PROVE  /\ \A text \in Text :
              /\ Shown(f, text) \in Form /\ Shown(f, text).pc = f.pc
              /\ Shown(f, text).shown = text /\ (Shown(f, text).held <=> f.held)
              /\ Shown(f, text).kept = f.kept /\ Shown(f, text).last = f.last
              /\ Shown(f, text).sends = f.sends
         /\ \A pc \in {"editing", "done"} :
              /\ Turned(f, pc) \in Form /\ Turned(f, pc).pc = pc
              /\ Turned(f, pc).shown = f.shown /\ (Turned(f, pc).held <=> f.held)
              /\ Turned(f, pc).kept = f.kept /\ Turned(f, pc).last = f.last
              /\ Turned(f, pc).sends = f.sends
         /\ Dropped(f) \in Form /\ Dropped(f).pc = "editing" /\ ~Dropped(f).held
         /\ Dropped(f).last = f.last /\ Dropped(f).sends = f.sends
  BY Zenon DEF Form, Shown, Turned, Dropped

LEMMA SentFacts ==
  ASSUME NEW f \in Form, f.sends < MaxSends
  PROVE  /\ Sent(f) \in Form /\ Sent(f).pc = "sending" /\ Sent(f).sends = f.sends + 1
         /\ Sent(f).shown = f.shown /\ (Sent(f).held <=> f.held) /\ Sent(f).kept = f.kept
         /\ Sent(f).last = f.last
  <1>1. f.sends + 1 \in 0..MaxSends
    BY Limits DEF Form
  <1> QED BY <1>1, Zenon DEF Sent, Form

LEMMA BegunFacts ==
  ASSUME NEW f \in Form, f.last < MaxRequests
  PROVE  /\ Begun(f) \in Form /\ Begun(f).pc = f.pc /\ Begun(f).sends = f.sends
         /\ Begun(f).shown = f.shown /\ Begun(f).held /\ Begun(f).kept = f.shown
         /\ Begun(f).last = f.last + 1
  <1>1. f.last + 1 \in 0..MaxRequests
    BY Limits DEF Form
  <1> QED BY <1>1, Zenon DEF Begun, Form

LEMMA EmptyFacts ==
  ASSUME NEW t \in Text
  PROVE  /\ Empty(t) \in Form /\ Empty(t).pc = "editing" /\ ~Empty(t).held
         /\ Empty(t).last = 0
  <1>1. 0 \in 0..MaxRequests /\ 0 \in 0..MaxSends
    BY Limits
  <1> QED BY <1>1, Zenon DEF Empty, Form
-------------------------------------------------------------------------------
(***************************************************************************)
(* The inductive invariant.                                                *)
(***************************************************************************)
StallNext == Next \/ \E id \in Reference : LeaseLapses(id)

\* A form knows its pending request by heart, and is done when it is stored.
FormInv(v) ==
    LET f == form[v] IN
    /\ f.pc = "sending" => f.held
    /\ f.held => f.last # 0 /\ f.kept = f.shown
    /\ f.pc = "done" => f.held /\ <<v, f.last>> \in Stored

\* What is stored was sent by a form that has not changed it since, and the
\* owner is notified of it.
StoredInv(id) ==
    LET f == form[id[1]] IN
    /\ id \in Stored <=> mail[id].state # "none"
    /\ id \in Stored => id[2] <= f.last
    /\ id \in Stored /\ f.held /\ id[2] = f.last => enquiry[id] = f.kept

\* All requests with one reference say the same, the form and the store included.
WireInv(m) ==
    LET f == form[m.id[1]] IN
    /\ m.id[2] <= f.last /\ m.send <= f.sends
    /\ m.send = f.sends => m.id[2] = f.last
    /\ m.id[2] = f.last /\ f.held => m.text = f.kept
    /\ \A n \in wire : n.id = m.id => n.text = m.text
    /\ m.id \in Stored => enquiry[m.id] = m.text

BrowserInv ==
    /\ \A v \in Visitor : FormInv(v)
    /\ \A id \in Reference : StoredInv(id)
    /\ \A m \in wire : WireInv(m)

LaneInv(w) ==
    /\ worker[w].pc # "idle" => worker[w].id \in Reference
    /\ worker[w].pc = "answered" => worker[w].outcome # "none"

\* A lane that may still post a copy, or that will record that it posted none.
Pending(w, id) ==
    /\ worker[w].id = id
    /\ \/ worker[w].pc = "claimed"
       \/ worker[w].pc = "answered" /\ worker[w].outcome \in {"limited", "refused"}

\* The lanes with a copy to post, and whether another one may be given a copy
\* without the owner asking for it.
Posts(id) == {w \in Worker : Pending(w, id)}
Allowed(id) == IF mail[id].state \in {"none", "queued", "failed"} THEN 1 ELSE 0

\* Copies accepted and copies that may yet be are those the owner asked for.
Budget(id) ==
    /\ IsFiniteSet(Posts(id))
    /\ accepted[id] + Cardinality(Posts(id)) + Allowed(id) <= 1 + asked[id]

\* A notification that was never overtaken in mid-delivery has at most one
\* process, which owns it, and what the owner last saw of it is true.
Undisturbed(id) ==
    LET m == mail[id] IN
    ~m.overtaken =>
        /\ \A w \in Worker :
              Delivering(w, id) => m.state = "sending" /\ ~m.lapsed /\ worker[w].token = m.token
        /\ \A w, u \in Worker : Delivering(w, id) /\ Delivering(u, id) => w = u
        /\ accepted[id] <= 1
        /\ m.state \in {"none", "queued", "failed"} => accepted[id] = 0
        /\ \A w \in Worker : Pending(w, id) => accepted[id] = 0
        /\ m.state = "uncertain" /\ inbox[id].revision = m.revision =>
              accepted[id] = inbox[id].copies

Seen(id) ==
    /\ inbox[id].revision <= mail[id].revision
    /\ mail[id].state = "none" => mail[id] = NoMail

MailInv(id) == Budget(id) /\ Undisturbed(id) /\ Seen(id)

IInv ==
    /\ TypeOK
    /\ BrowserInv
    /\ \A w \in Worker : LaneInv(w)
    /\ \A id \in Reference : MailInv(id)
-------------------------------------------------------------------------------
(***************************************************************************)
(* What the actions do, in terms of these records.                         *)
(***************************************************************************)
LEMMA EditIs ==
  ASSUME TypeOK, NEW v \in Visitor, NEW text \in Text, Edit(v, text)
  PROVE  form' = [form EXCEPT ![v] = Shown(form[v], text)]
  BY Zenon DEF Edit, Shown, TypeOK

LEMMA TimeOutIs ==
  ASSUME TypeOK, NEW v \in Visitor, TimeOut(v)
  PROVE  form' = [form EXCEPT ![v] = Turned(form[v], "editing")]
  BY Zenon DEF TimeOut, Turned, TypeOK

LEMMA SendIs ==
  ASSUME TypeOK, NEW v \in Visitor, Send(v)
  PROVE  \E p, m :
           /\ \/ form[v].held /\ p = form[v]
              \/ ~form[v].held /\ form[v].last < MaxRequests /\ p = Begun(form[v])
           /\ form' = [form EXCEPT ![v] = Sent(p)]
           /\ m = [id |-> <<v, Sent(p).last>>, text |-> Sent(p).kept, send |-> Sent(p).sends]
           /\ wire' = wire \cup {m}
  <1>1. Prepared(v) = IF form[v].held THEN form[v] ELSE Begun(form[v])
    BY Zenon DEF Prepared, Begun
  <1>2. /\ form' = [form EXCEPT ![v] = Sent(Prepared(v))]
        /\ wire' = wire \cup {[id |-> <<v, Sent(Prepared(v)).last>>, text |-> Sent(Prepared(v)).kept,
                               send |-> Sent(Prepared(v)).sends]}
    BY Zenon DEF Send, Sent
  <1>3. form[v].held \/ form[v].last < MaxRequests
    BY Zenon DEF Send
  <1>4. CASE form[v].held
    BY <1>1, <1>2, <1>4, Zenon
  <1>5. CASE ~form[v].held
    BY <1>1, <1>2, <1>3, <1>5, Zenon
  <1> QED BY <1>4, <1>5, Zenon

LEMMA AnsweredIs ==
  ASSUME NEW v \in Visitor, NEW status
  PROVE  \/ status = 200 /\ Answered(v, status) = Turned(form[v], "done")
         \/ status \in {400, 409, 429} /\ Answered(v, status) = Dropped(form[v])
         \/ status \notin {200, 400, 409, 429} /\ Answered(v, status) = Turned(form[v], "editing")
  <1>1. CASE status = 200
    BY <1>1, SMT DEF Answered, Turned
  <1>2. CASE status \in {400, 409, 429}
    BY <1>2, SMT DEF Answered, Dropped
  <1>3. CASE status \notin {200, 400, 409, 429}
    BY <1>3, SMT DEF Answered, Turned
  <1> QED BY <1>1, <1>2, <1>3, Zenon

LEMMA ClaimIs ==
  ASSUME TypeOK, NEW w \in Worker, NEW id \in Reference, Claim(w, id)
  PROVE  /\ worker' = [worker EXCEPT ![w] = Claiming(worker[w], id, mail[id].revision + 1,
                                                     mail[id].attempts + 1)]
         /\ mail' = [i \in Reference |->
                       IF i = id THEN Taken(mail[i], worker[w].address)
                       ELSE IF Expired(i) THEN Interrupted(mail[i]) ELSE mail[i]]
  BY Zenon DEF Claim, Claiming, TypeOK

LEMMA PostIs ==
  ASSUME TypeOK, NEW w \in Worker, Post(w)
  PROVE  \E outcome \in {"sent", "limited", "refused", "unknown"} :
            /\ worker' = [worker EXCEPT ![w] = Posted(worker[w], outcome)]
            /\ \/ /\ outcome \notin {"limited", "refused"}
                  /\ accepted' = [accepted EXCEPT ![worker[w].id] = @ + 1]
               \/ UNCHANGED accepted /\ outcome # "sent"
  BY Zenon DEF Post, Posted, TypeOK

LEMMA RecordIs ==
  ASSUME TypeOK, NEW w \in Worker, Record(w), OwnsMail(w), LaneInv(w)
  PROVE  \E due \in BOOLEAN :
            mail' = [mail EXCEPT ![worker[w].id] = Settled(mail[worker[w].id], Result(w), due)]
  BY Zenon DEF Record, Settled, LaneInv, TypeOK

LEMMA ResultIs ==
  ASSUME TypeOK, NEW w \in Worker, worker[w].pc = "answered", LaneInv(w)
  PROVE  /\ Result(w) \in {"sent", "queued", "failed", "uncertain"}
         /\ Result(w) \in {"queued", "failed"} => worker[w].outcome \in {"limited", "refused"}
         /\ Result(w) = "sent" => worker[w].outcome = "sent"
  <1>1. worker[w].outcome \in {"sent", "limited", "refused", "unknown"}
    BY DEF TypeOK, Lane, LaneInv
  <1>2. CASE worker[w].outcome = "sent"
    BY <1>2, SMT DEF Result
  <1>3. CASE worker[w].outcome = "refused"
    BY <1>3, SMT DEF Result
  <1>4. CASE worker[w].outcome = "limited"
    BY <1>4, SMT DEF Result, Limited
  <1>5. CASE worker[w].outcome = "unknown"
    BY <1>5, SMT DEF Result
  <1> QED BY <1>1, <1>2, <1>3, <1>4, <1>5

LEMMA DecideIs ==
  ASSUME TypeOK, NEW id \in Reference, NEW state, Decide(id, state)
  PROVE  mail' = [mail EXCEPT ![id] = Decided(mail[id], state)]
  BY Zenon DEF Decide, Decided, TypeOK

LEMMA BecomeDueIs ==
  ASSUME TypeOK, NEW id \in Reference, BecomeDue(id)
  PROVE  mail' = [mail EXCEPT ![id] = Dated(mail[id])]
  BY Zenon DEF BecomeDue, Dated, TypeOK

LEMMA LeaseExpiresIs ==
  ASSUME TypeOK, NEW id \in Reference, LeaseExpires(id)
  PROVE  mail' = [mail EXCEPT ![id] = Lapsed(mail[id])]
  BY Zenon DEF LeaseExpires, Lapsed, TypeOK

LEMMA LeaseLapsesIs ==
  ASSUME TypeOK, NEW id \in Reference, LeaseLapses(id)
  PROVE  mail' = [mail EXCEPT ![id] = Overtaken(mail[id])]
  BY Zenon DEF LeaseLapses, Overtaken, TypeOK
LEMMA SubmitIs ==
  ASSUME TypeOK, NEW m \in wire, Submit(m)
  PROVE  /\ m \in Message /\ m.id \in Reference /\ m.text \in Text /\ m.id[1] \in Visitor
         /\ Status(m) \in {200, 400, 409, 429, 503}
         /\ window' \in [Key -> Nat]
         /\ \/ /\ Status(m) = 200 /\ m.id \notin Stored
               /\ enquiry' = [enquiry EXCEPT ![m.id] = m.text]
               /\ mail' = [mail EXCEPT ![m.id] = Queued]
            \/ /\ Status(m) = 200 => m.id \in Stored /\ enquiry[m.id] = m.text
               /\ enquiry' = enquiry /\ mail' = mail
  <1>1. m \in Message /\ m.id \in Reference /\ m.text \in Text /\ m.id[1] \in Visitor
    BY DEF TypeOK, Message, Reference
  <1>2. Status(m) \in {200, 400, 409, 429, 503}
    BY DEF Status
  <1>3. \A k \in Key : window[k] \in Nat
    BY DEF TypeOK
  <1>4. window' \in [Key -> Nat]
    BY <1>3 DEF Submit
  <1>5. CASE Status(m) = 200 /\ m.id \notin Stored
    <2>1. enquiry' = [enquiry EXCEPT ![m.id] = m.text] /\ mail' = [mail EXCEPT ![m.id] = Queued]
      BY <1>5, Zenon DEF Submit, Queued
    <2> QED BY <1>1, <1>2, <1>4, <1>5, <2>1, Zenon
  <1>6. CASE Status(m) = 200 /\ m.id \in Stored
    <2>1. enquiry[m.id] = m.text
      BY <1>6, SMT DEF Status
    <2>2. [enquiry EXCEPT ![m.id] = m.text] = enquiry
      BY <2>1, <1>1 DEF TypeOK
    <2> QED BY <1>1, <1>2, <1>4, <1>6, <2>1, <2>2, Zenon DEF Submit
  <1>7. CASE Status(m) # 200
    BY <1>1, <1>2, <1>4, <1>7, Zenon DEF Submit
  <1> QED BY <1>1, <1>2, <1>4, <1>5, <1>6, <1>7, Zenon

LEMMA TypingBrowser ==
  ASSUME TypeOK, BrowserInv, Browser
  PROVE  TypeOK'
  <1>1. ASSUME NEW v \in Visitor, Send(v)  PROVE TypeOK'
    <2>1. PICK p, m :
           /\ \/ form[v].held /\ p = form[v]
              \/ ~form[v].held /\ form[v].last < MaxRequests /\ p = Begun(form[v])
           /\ form' = [form EXCEPT ![v] = Sent(p)]
           /\ m = [id |-> <<v, Sent(p).last>>, text |-> Sent(p).kept, send |-> Sent(p).sends]
           /\ wire' = wire \cup {m}
      BY <1>1, SendIs
    <2>2. form[v] \in Form /\ form[v].sends < MaxSends
      BY <1>1 DEF TypeOK, Send
    <2>3. form[v].held => form[v].last # 0
      BY DEF BrowserInv, FormInv
    <2>4. p \in Form /\ p.sends = form[v].sends /\ p.last # 0
      <3>1. CASE form[v].held
        BY <2>1, <2>2, <2>3, <3>1
      <3>2. CASE ~form[v].held
        <4>1. form[v].last + 1 # 0
          BY <2>2 DEF Form
        <4> QED BY <2>1, <2>2, <3>2, <4>1, BegunFacts
      <3> QED BY <3>1, <3>2
    <2>5. Sent(p) \in Form /\ Sent(p).last = p.last /\ Sent(p).sends = p.sends + 1
      BY <2>2, <2>4, SentFacts
    <2>6. Sent(p).last \in 1..MaxRequests /\ Sent(p).kept \in Text /\ Sent(p).sends \in 1..MaxSends
      BY <2>2, <2>4, <2>5, Limits DEF Form
    <2>7. m \in Message
      BY <2>1, <2>6 DEF Message, Reference
    <2> QED BY <1>1, <2>1, <2>5, <2>7 DEF TypeOK, Send, database, owner
  <1>2. ASSUME NEW v \in Visitor, TimeOut(v)  PROVE TypeOK'
    <2>1. form[v] \in Form
      BY DEF TypeOK
    <2>2. form' = [form EXCEPT ![v] = Turned(form[v], "editing")] /\ Turned(form[v], "editing") \in Form
      BY <1>2, <2>1, TimeOutIs, FormFacts
    <2>3. UNCHANGED <<wire, database, worker, owner>>
      BY <1>2, Zenon DEF TimeOut
    <2> QED BY <2>2, <2>3 DEF TypeOK, database, owner
  <1>3. ASSUME NEW v \in Visitor, NEW t \in Text, Edit(v, t)  PROVE TypeOK'
    <2>1. form[v] \in Form
      BY DEF TypeOK
    <2>2. form' = [form EXCEPT ![v] = Shown(form[v], t)] /\ Shown(form[v], t) \in Form
      BY <1>3, <2>1, EditIs, FormFacts
    <2>3. UNCHANGED <<wire, database, worker, owner>>
      BY <1>3, Zenon DEF Edit
    <2> QED BY <2>2, <2>3 DEF TypeOK, database, owner
  <1>4. ASSUME NEW m \in wire, Arrive(m)  PROVE TypeOK'
    <2>1. Submit(m)
      BY <1>4 DEF Arrive
    <2>2. m.id \in Reference /\ m.text \in Text /\ m.id[1] \in Visitor /\ window' \in [Key -> Nat]
      BY <2>1, SubmitIs
    <2>3. enquiry' \in [Reference -> Text \cup {NoText}] /\ mail' \in [Reference -> Notification]
      <3>1. \/ enquiry' = enquiry /\ mail' = mail
            \/ enquiry' = [enquiry EXCEPT ![m.id] = m.text] /\ mail' = [mail EXCEPT ![m.id] = Queued]
        BY <2>1, SubmitIs
      <3> QED BY <2>2, <3>1, QueuedFacts DEF TypeOK
    <2>4. form' \in [Visitor -> Form]
      <3>1. form[m.id[1]] \in Form
        BY <2>2 DEF TypeOK
      <3>2. Answered(m.id[1], Status(m)) \in Form
        <4>1. \/ Answered(m.id[1], Status(m)) = Turned(form[m.id[1]], "done")
              \/ Answered(m.id[1], Status(m)) = Dropped(form[m.id[1]])
              \/ Answered(m.id[1], Status(m)) = Turned(form[m.id[1]], "editing")
          BY <2>2, AnsweredIs
        <4> QED BY <3>1, <4>1, FormFacts
      <3>3. form' = form \/ form' = [form EXCEPT ![m.id[1]] = Answered(m.id[1], Status(m))]
        BY <1>4 DEF Arrive
      <3> QED BY <3>2, <3>3 DEF TypeOK
    <2> QED BY <1>4, <2>2, <2>3, <2>4 DEF TypeOK, Arrive, owner
  <1>5. ASSUME NEW m \in wire, LoseRequest(m)  PROVE TypeOK'
    BY <1>5 DEF TypeOK, LoseRequest, database, owner
  <1>6. ASSUME NEW k \in Key, HourPasses(k)  PROVE TypeOK'
    BY <1>6 DEF TypeOK, HourPasses, browser, owner
  <1> QED BY <1>1, <1>2, <1>3, <1>4, <1>5, <1>6 DEF Browser

LEMMA TypingDeliver ==
  ASSUME TypeOK, \A w \in Worker : LaneInv(w), Deliver
  PROVE  TypeOK'
  <1>0. \A i \in Reference : mail[i] \in Notification
    BY DEF TypeOK
  <1>1. ASSUME NEW w \in Worker, NEW id \in Reference, Claim(w, id)  PROVE TypeOK'
    <2>1. worker[w] \in Lane /\ worker[w].address \in Address /\ mail[id].attempts < MaxAttempts
      BY <1>1 DEF TypeOK, Lane, Claim, Ready
    <2>2. mail[id].revision + 1 \in Nat /\ mail[id].attempts + 1 \in 0..MaxAttempts
      BY <1>0, <2>1, Limits DEF Notification
    <2>3. worker' \in [Worker -> Lane]
      <3>1. worker' = [worker EXCEPT ![w] = Claiming(worker[w], id, mail[id].revision + 1,
                                                     mail[id].attempts + 1)]
        BY <1>1, ClaimIs
      <3>2. Claiming(worker[w], id, mail[id].revision + 1, mail[id].attempts + 1) \in Lane
        BY <2>1, <2>2, ClaimingFacts
      <3> QED BY <3>1, <3>2 DEF TypeOK
    <2>4. Taken(mail[id], worker[w].address) \in Notification
      BY <1>0, <2>1, TakenFacts
    <2>5. \A i \in Reference : Interrupted(mail[i]) \in Notification
      BY <1>0, InterruptedFacts
    <2>6. mail' \in [Reference -> Notification]
      BY <1>0, <1>1, <2>4, <2>5, ClaimIs
    <2> QED BY <1>1, <2>3, <2>6 DEF TypeOK, Claim, browser, owner
  <1>2. ASSUME NEW w \in Worker, Sweep(w)  PROVE TypeOK'
    <2>1. \A i \in Reference : Interrupted(mail[i]) \in Notification
      BY <1>0, InterruptedFacts
    <2> QED BY <1>0, <1>2, <2>1 DEF TypeOK, Sweep, browser, owner
  <1>3. ASSUME NEW w \in Worker, Post(w)  PROVE TypeOK'
    <2>1. worker[w] \in Lane
      BY DEF TypeOK
    <2>2. worker' \in [Worker -> Lane] /\ accepted' \in [Reference -> Nat]
      BY <1>3, <2>1, PostIs, PostedFacts DEF TypeOK
    <2> QED BY <1>3, <2>2 DEF TypeOK, Post, browser, database
  <1>4. ASSUME NEW w \in Worker, Record(w)  PROVE TypeOK'
    <2>1. worker[w] \in Lane /\ Idle(worker[w].address) \in Lane /\ LaneInv(w)
      BY IdleFacts DEF TypeOK, Lane
    <2>2. worker[w].id \in Reference /\ worker[w].pc = "answered"
      BY <1>4, <2>1 DEF LaneInv, Record
    <2>3. Result(w) \in MailStates
      BY <2>1, <2>2, ResultIs DEF MailStates
    <2>4. mail' \in [Reference -> Notification]
      <3>1. CASE OwnsMail(w)
        <4>1. PICK due \in BOOLEAN :
                mail' = [mail EXCEPT ![worker[w].id] = Settled(mail[worker[w].id], Result(w), due)]
          BY <1>4, <2>1, <3>1, RecordIs
        <4>2. Settled(mail[worker[w].id], Result(w), due) \in Notification
          BY <1>0, <2>2, <2>3, SettledFacts
        <4> QED BY <4>1, <4>2 DEF TypeOK
      <3>2. CASE ~OwnsMail(w)
        BY <1>4, <3>2 DEF Record, TypeOK
      <3> QED BY <3>1, <3>2
    <2> QED BY <1>4, <2>1, <2>4 DEF TypeOK, Record, browser, owner
  <1>5. ASSUME NEW w \in Worker, SaveFails(w)  PROVE TypeOK'
    <2>1. Idle(worker[w].address) \in Lane
      BY IdleFacts DEF TypeOK, Lane
    <2> QED BY <1>5, <2>1 DEF TypeOK, SaveFails, browser, database, owner
  <1> QED BY <1>1, <1>2, <1>3, <1>4, <1>5 DEF Deliver

LEMMA TypingRest ==
  ASSUME TypeOK,
         \/ Owner \/ Time
         \/ \E w \in Worker : Restart(w)
         \/ \E id \in Reference : LeaseLapses(id)
  PROVE  TypeOK'
  <1>0. \A i \in Reference : mail[i] \in Notification
    BY DEF TypeOK
  <1>d. ASSUME NEW id \in Reference, NEW state \in MailStates, Decide(id, state)
        PROVE  mail' \in [Reference -> Notification]
    BY <1>0, <1>d, DecideIs, DecidedFacts DEF TypeOK
  <1>1. ASSUME NEW id \in Reference, Look(id)  PROVE TypeOK'
    BY <1>0, <1>1 DEF TypeOK, Look, browser, database, Notification
  <1>2. ASSUME NEW id \in Reference, MarkSent(id)  PROVE TypeOK'
    BY <1>d, <1>2 DEF TypeOK, MarkSent, browser, owner, MailStates
  <1>3. ASSUME NEW id \in Reference, SendAgain(id)  PROVE TypeOK'
    BY <1>d, <1>3 DEF TypeOK, SendAgain, browser, MailStates
  <1>4. ASSUME NEW id \in Reference, Retry(id)  PROVE TypeOK'
    BY <1>d, <1>4 DEF TypeOK, Retry, browser, owner, MailStates
  <1>5. ASSUME NEW id \in Reference, BecomeDue(id)  PROVE TypeOK'
    <2>1. mail' = [mail EXCEPT ![id] = Dated(mail[id])] /\ Dated(mail[id]) \in Notification
      BY <1>0, <1>5, BecomeDueIs, DatedFacts
    <2>2. UNCHANGED <<browser, enquiry, window, worker, owner>>
      BY <1>5, Zenon DEF BecomeDue
    <2> QED BY <2>1, <2>2 DEF TypeOK, browser, owner
  <1>6. ASSUME NEW id \in Reference, LeaseExpires(id)  PROVE TypeOK'
    <2>1. mail' = [mail EXCEPT ![id] = Lapsed(mail[id])] /\ Lapsed(mail[id]) \in Notification
      BY <1>0, <1>6, LeaseExpiresIs, LapsedFacts
    <2>2. UNCHANGED <<browser, enquiry, window, worker, owner>>
      BY <1>6, Zenon DEF LeaseExpires
    <2> QED BY <2>1, <2>2 DEF TypeOK, browser, owner
  <1>7. ASSUME NEW id \in Reference, LeaseLapses(id)  PROVE TypeOK'
    <2>1. mail' = [mail EXCEPT ![id] = Overtaken(mail[id])] /\ Overtaken(mail[id]) \in Notification
      BY <1>0, <1>7, LeaseLapsesIs, OvertakenFacts
    <2>2. UNCHANGED <<browser, enquiry, window, worker, owner>>
      BY <1>7, Zenon DEF LeaseLapses
    <2> QED BY <2>1, <2>2 DEF TypeOK, browser, owner
  <1>8. ASSUME NEW w \in Worker, Restart(w)  PROVE TypeOK'
    <2>1. PICK a \in Address : worker' = [worker EXCEPT ![w] = Idle(a)]
      BY <1>8 DEF Restart
    <2> QED BY <1>8, <2>1, IdleFacts DEF TypeOK, Restart, browser, database, owner
  <1> QED BY <1>1, <1>2, <1>3, <1>4, <1>5, <1>6, <1>7, <1>8 DEF Owner, Time
-------------------------------------------------------------------------------
(***************************************************************************)
(* The form, the requests on their way, and what is stored.                *)
(***************************************************************************)
\* What a step leaves of a form when it sends nothing.
Follows(v) ==
    LET f == form[v]
        g == form'[v] IN
    /\ g.last = f.last /\ g.sends = f.sends
    /\ g.pc = "sending" => g.held
    /\ g.held => f.held /\ g.kept = f.kept /\ g.kept = g.shown
    /\ g.pc = "done" => g.held /\ <<v, g.last>> \in Stored'

\* A step that sends nothing and stores only what a request on its way says.
LEMMA NothingSent ==
  ASSUME TypeOK, TypeOK', BrowserInv,
         wire' \subseteq wire,
         \A id \in Reference :
            /\ id \in Stored' <=> mail'[id].state # "none"
            /\ enquiry'[id] = enquiry[id] \/ \E m \in wire : m.id = id /\ enquiry'[id] = m.text,
         \A v \in Visitor : Follows(v)
  PROVE  BrowserInv'
  <1>1. ASSUME NEW v \in Visitor  PROVE FormInv(v)'
    BY DEF Follows, FormInv, BrowserInv
  <1>2. ASSUME NEW id \in Reference  PROVE StoredInv(id)'
    <2>1. id[1] \in Visitor /\ Follows(id[1])
      BY DEF Reference
    <2>2. CASE enquiry'[id] = enquiry[id]
      <3>1. StoredInv(id)
        BY DEF BrowserInv
      <3> QED BY <2>1, <2>2, <3>1 DEF StoredInv, Follows, Stored
    <2>3. ASSUME NEW m \in wire, m.id = id, enquiry'[id] = m.text  PROVE StoredInv(id)'
      <3>1. WireInv(m)
        BY DEF BrowserInv
      <3> QED BY <2>1, <2>3, <3>1 DEF StoredInv, WireInv, Follows, Stored
    <2> QED BY <2>2, <2>3
  <1>3. ASSUME NEW m \in wire'  PROVE WireInv(m)'
    <2>1. m \in wire /\ m.id \in Reference /\ m.id[1] \in Visitor /\ WireInv(m)
      BY DEF BrowserInv, TypeOK, Message, Reference
    <2>2. Follows(m.id[1])
      BY <2>1
    <2>3. \A n \in wire' : n.id = m.id => n.text = m.text
      BY <2>1 DEF WireInv
    <2>4. m.id \in Stored' => enquiry'[m.id] = m.text
      <3>1. CASE enquiry'[m.id] = enquiry[m.id]
        BY <2>1, <3>1 DEF WireInv, Stored
      <3>2. ASSUME NEW n \in wire, n.id = m.id, enquiry'[m.id] = n.text
            PROVE  enquiry'[m.id] = m.text
        BY <2>1, <3>2 DEF WireInv
      <3> QED BY <2>1, <3>1, <3>2
    <2> QED BY <2>1, <2>2, <2>3, <2>4 DEF WireInv, Follows
  <1> QED BY <1>1, <1>2, <1>3 DEF BrowserInv

LEMMA FormStays ==
  ASSUME TypeOK, BrowserInv, NEW v \in Visitor, form'[v] = form[v],
         \A id \in Reference : id \in Stored => id \in Stored'
  PROVE  Follows(v)
  <1>1. FormInv(v) /\ form[v] \in Form
    BY DEF BrowserInv, TypeOK
  <1>2. <<v, form[v].last>> \in Stored => <<v, form[v].last>> \in Stored'
    BY DEF Stored
  <1> QED BY <1>1, <1>2 DEF FormInv, Follows

\* The rest of the system never touches what concerns the browser.
LEMMA BrowserStays ==
  ASSUME TypeOK, TypeOK', BrowserInv, UNCHANGED form, UNCHANGED wire, UNCHANGED enquiry,
         \A id \in Reference : mail'[id].state = "none" <=> mail[id].state = "none"
  PROVE  BrowserInv'
  <1>1. Stored' = Stored
    BY DEF Stored
  <1>2. \A id \in Reference : id \in Stored <=> mail[id].state # "none"
    BY DEF BrowserInv, StoredInv
  <1>3. \A v \in Visitor : Follows(v)
    BY <1>1, FormStays
  <1> QED BY <1>1, <1>2, <1>3, NothingSent

LEMMA FormTurns ==
  ASSUME TypeOK, BrowserInv, NEW v \in Visitor, NEW g \in Form,
         form' = [form EXCEPT ![v] = g],
         g.last = form[v].last, g.sends = form[v].sends, g.pc = "sending" => g.held,
         g.held => form[v].held /\ g.kept = form[v].kept /\ g.shown = form[v].shown,
         g.pc = "done" => g.held /\ <<v, g.last>> \in Stored',
         \A id \in Reference : id \in Stored => id \in Stored'
  PROVE  \A u \in Visitor : Follows(u)
  <1>1. Follows(v)
    <2>1. form'[v] = g
      BY DEF TypeOK
    <2>2. FormInv(v)
      BY DEF BrowserInv
    <2> QED BY <2>1, <2>2 DEF FormInv, Follows
  <1>2. ASSUME NEW u \in Visitor, u # v  PROVE Follows(u)
    <2>1. form'[u] = form[u]
      BY <1>2 DEF TypeOK
    <2> QED BY <2>1, FormStays
  <1> QED BY <1>1, <1>2

LEMMA BrowserStep ==
  ASSUME TypeOK, TypeOK', BrowserInv, Browser
  PROVE  BrowserInv'
  <1>s. ASSUME UNCHANGED enquiry, UNCHANGED mail
        PROVE  \A id \in Reference :
                 /\ id \in Stored' <=> id \in Stored
                 /\ id \in Stored' <=> mail'[id].state # "none"
    BY <1>s DEF BrowserInv, StoredInv, Stored
  <1>0. \A v \in Visitor : form[v] \in Form /\ FormInv(v)
    BY DEF TypeOK, BrowserInv
  <1>1. ASSUME NEW v \in Visitor, Send(v)  PROVE BrowserInv'
    <2>1. PICK p, m :
           /\ \/ form[v].held /\ p = form[v]
              \/ ~form[v].held /\ form[v].last < MaxRequests /\ p = Begun(form[v])
           /\ form' = [form EXCEPT ![v] = Sent(p)]
           /\ m = [id |-> <<v, Sent(p).last>>, text |-> Sent(p).kept, send |-> Sent(p).sends]
           /\ wire' = wire \cup {m}
      BY <1>1, SendIs
    <2>2. UNCHANGED <<database, worker, owner>> /\ form[v].sends < MaxSends /\ form[v].pc = "editing"
      BY <1>1, Zenon DEF Send
    <2>3. /\ p \in Form /\ p.sends = form[v].sends /\ p.held /\ p.last # 0 /\ p.kept = p.shown
          /\ \/ form[v].held /\ p.last = form[v].last /\ p.kept = form[v].kept
             \/ p.last = form[v].last + 1
      <3>1. CASE form[v].held
        BY <1>0, <2>1, <3>1 DEF FormInv
      <3>2. CASE ~form[v].held
        <4>1. form[v].last + 1 # 0
          BY <1>0 DEF Form
        <4> QED BY <1>0, <2>1, <3>2, <4>1, BegunFacts
      <3> QED BY <3>1, <3>2
    <2>4. PICK g \in Form :
            /\ g = Sent(p) /\ g.last = p.last /\ g.sends = form[v].sends + 1 /\ g.kept = p.kept
            /\ g.shown = p.shown /\ g.held /\ g.pc = "sending"
      BY <2>2, <2>3, SentFacts
    <2>5. /\ m.id = <<v, g.last>> /\ m.id[1] = v /\ m.id[2] = g.last /\ m.text = g.kept
          /\ m.send = g.sends /\ m \in wire' /\ m \in Message
      BY <2>1, <2>4 DEF TypeOK
    <2>6. form'[v] = g /\ \A u \in Visitor : u # v => form'[u] = form[u]
      BY <2>1, <2>4 DEF TypeOK
    <2>7. Stored' = Stored /\ enquiry' = enquiry /\ mail' = mail
      BY <2>2 DEF Stored, database
    <2>8. ASSUME NEW u \in Visitor  PROVE FormInv(u)'
      <3>1. CASE u = v
        BY <2>3, <2>4, <2>6, <3>1 DEF FormInv
      <3>2. CASE u # v
        BY <1>0, <2>6, <2>7, <3>2 DEF FormInv
      <3> QED BY <3>1, <3>2
    <2>9. ASSUME NEW id \in Reference  PROVE StoredInv(id)'
      <3>1. StoredInv(id) /\ id[1] \in Visitor /\ id[2] \in 1..MaxRequests
        BY DEF BrowserInv, Reference
      <3>2. CASE id[1] = v
        <4>1. form[v].last \in Nat /\ g.last \in Nat
          BY <1>0 DEF Form
        <4> QED BY <2>3, <2>4, <2>6, <2>7, <3>1, <3>2, <4>1 DEF StoredInv
      <3>3. CASE id[1] # v
        BY <2>6, <2>7, <3>1, <3>3 DEF StoredInv
      <3> QED BY <3>2, <3>3
    <2>10. ASSUME NEW n \in wire
           PROVE  /\ n.id[2] <= form'[n.id[1]].last /\ n.send <= form'[n.id[1]].sends
                  /\ n.send = form'[n.id[1]].sends => n.id[2] = form'[n.id[1]].last
                  /\ n.id[2] = form'[n.id[1]].last /\ form'[n.id[1]].held => n.text = form'[n.id[1]].kept
                  /\ n.id \in Stored' => enquiry'[n.id] = n.text
      <3>1. /\ WireInv(n) /\ n.id \in Reference /\ n.id[1] \in Visitor /\ n.id[2] \in Nat /\ n.send \in Nat
        BY DEF BrowserInv, TypeOK, Message, Reference
      <3>2. CASE n.id[1] = v
        <4>1. form[v].last \in Nat /\ g.last \in Nat /\ form[v].sends \in Nat
          BY <1>0 DEF Form
        <4> QED BY <2>3, <2>4, <2>6, <2>7, <3>1, <3>2, <4>1 DEF WireInv
      <3>3. CASE n.id[1] # v
        BY <2>6, <2>7, <3>1, <3>3 DEF WireInv
      <3> QED BY <3>2, <3>3
    <2>11. ASSUME NEW n \in wire, n.id = m.id  PROVE n.text = m.text
      BY <2>4, <2>5, <2>6, <2>10, <2>11
    <2>12. m.id \in Stored => enquiry[m.id] = m.text
      <3>1. m.id \in Reference
        BY <2>5 DEF Message
      <3> QED BY <2>4, <2>5, <2>6, <2>7, <2>9, <3>1 DEF StoredInv
    <2>13. ASSUME NEW n \in wire'  PROVE WireInv(n)'
      <3>1. CASE n = m
        <4>1. m.id[2] <= g.last /\ m.send <= g.sends
          BY <2>4, <2>5 DEF Form
        <4>2. \A o \in wire' : o.id = m.id => o.text = m.text
          BY <2>1, <2>11
        <4> QED BY <2>5, <2>6, <2>7, <2>12, <3>1, <4>1, <4>2 DEF WireInv
      <3>2. CASE n \in wire
        <4>1. WireInv(n)
          BY <3>2 DEF BrowserInv
        <4>2. \A o \in wire' : o.id = n.id => o.text = n.text
          BY <2>1, <2>11, <3>2, <4>1 DEF WireInv
        <4> QED BY <2>10, <3>2, <4>2 DEF WireInv
      <3> QED BY <2>1, <3>1, <3>2
    <2> QED BY <2>8, <2>9, <2>13 DEF BrowserInv
  <1>2. ASSUME NEW v \in Visitor, TimeOut(v)  PROVE BrowserInv'
    <2>1. form' = [form EXCEPT ![v] = Turned(form[v], "editing")]
      BY <1>2, TimeOutIs
    <2>2. UNCHANGED <<wire, database>>
      BY <1>2, Zenon DEF TimeOut
    <2>3. UNCHANGED enquiry /\ UNCHANGED mail /\ UNCHANGED wire
      BY <2>2 DEF database
    <2>4. \A u \in Visitor : Follows(u)
      <3>1. PICK g : g = Turned(form[v], "editing")
        OBVIOUS
      <3>2. /\ g \in Form /\ g.last = form[v].last /\ g.sends = form[v].sends
            /\ g.pc # "sending" /\ g.pc # "done"
            /\ g.held => form[v].held /\ g.kept = form[v].kept /\ g.shown = form[v].shown
        BY <1>0, <3>1, FormFacts
      <3> QED BY <1>s, <2>1, <2>3, <3>1, <3>2, FormTurns
    <2> QED BY <1>s, <2>3, <2>4, NothingSent
  <1>3. ASSUME NEW v \in Visitor, NEW t \in Text, Edit(v, t)  PROVE BrowserInv'
    <2>1. form' = [form EXCEPT ![v] = Shown(form[v], t)]
      BY <1>3, EditIs
    <2>2. UNCHANGED <<wire, database>> /\ form[v].pc = "editing" /\ ~form[v].held
      BY <1>3, Zenon DEF Edit
    <2>3. UNCHANGED enquiry /\ UNCHANGED mail /\ UNCHANGED wire
      BY <2>2 DEF database
    <2>4. \A u \in Visitor : Follows(u)
      <3>1. PICK g : g = Shown(form[v], t)
        OBVIOUS
      <3>2. /\ g \in Form /\ g.last = form[v].last /\ g.sends = form[v].sends
            /\ g.pc # "sending" /\ g.pc # "done"
            /\ g.held => form[v].held /\ g.kept = form[v].kept /\ g.shown = form[v].shown
        BY <1>0, <2>2, <3>1, FormFacts
      <3> QED BY <1>s, <2>1, <2>3, <3>1, <3>2, FormTurns
    <2> QED BY <1>s, <2>3, <2>4, NothingSent
  <1>4. ASSUME NEW m \in wire, Arrive(m)  PROVE BrowserInv'
    <2>1. Submit(m) /\ wire' \subseteq wire
      BY <1>4 DEF Arrive
    <2>2. /\ m.id \in Reference /\ m.text \in Text /\ m.id[1] \in Visitor
          /\ \/ /\ Status(m) = 200 /\ m.id \notin Stored
                /\ enquiry' = [enquiry EXCEPT ![m.id] = m.text]
                /\ mail' = [mail EXCEPT ![m.id] = Queued]
             \/ /\ Status(m) = 200 => m.id \in Stored /\ enquiry[m.id] = m.text
                /\ enquiry' = enquiry /\ mail' = mail
      BY <2>1, SubmitIs
    <2>3. WireInv(m) /\ m.id = <<m.id[1], m.id[2]>>
      BY <2>2 DEF BrowserInv, Reference
    <2>4. \A id \in Reference :
             /\ id \in Stored' <=> mail'[id].state # "none"
             /\ id \in Stored => id \in Stored'
             /\ enquiry'[id] = enquiry[id] \/ \E n \in wire : n.id = id /\ enquiry'[id] = n.text
      <3>1. CASE enquiry' = [enquiry EXCEPT ![m.id] = m.text] /\ mail' = [mail EXCEPT ![m.id] = Queued]
        <4>1. mail'[m.id].state # "none" /\ enquiry'[m.id] = m.text /\ m.text # NoText
          BY <2>2, <3>1, QueuedFacts, TextAssumption DEF TypeOK
        <4>2. \A id \in Reference : id # m.id => enquiry'[id] = enquiry[id] /\ mail'[id] = mail[id]
          BY <3>1 DEF TypeOK
        <4>3. \A id \in Reference : id \in Stored <=> mail[id].state # "none"
          BY DEF BrowserInv, StoredInv
        <4> QED BY <2>2, <4>1, <4>2, <4>3 DEF Stored
      <3>2. CASE enquiry' = enquiry /\ mail' = mail
        BY <1>s, <3>2
      <3> QED BY <2>2, <3>1, <3>2
    <2>5. Status(m) = 200 => m.id \in Stored'
      <3>1. CASE enquiry' = [enquiry EXCEPT ![m.id] = m.text]
        BY <2>2, <3>1, TextAssumption DEF TypeOK, Stored
      <3>2. CASE enquiry' = enquiry /\ (Status(m) = 200 => m.id \in Stored)
        BY <3>2 DEF Stored
      <3> QED BY <2>2, <3>1, <3>2
    <2>6. \A v \in Visitor : Follows(v)
      <3>1. CASE UNCHANGED form
        BY <2>4, <3>1, FormStays
      <3> DEFINE v == m.id[1]
      <3>2. CASE /\ form[v].pc = "sending" /\ form[v].sends = m.send
                 /\ form' = [form EXCEPT ![v] = Answered(v, Status(m))]
        <4>1. PICK f : f = form[v]
          OBVIOUS
        <4>2. f \in Form /\ FormInv(v) /\ f.held /\ f.last = m.id[2]
          BY <1>0, <2>2, <2>3, <3>2, <4>1 DEF FormInv, WireInv
        <4>3. PICK g : g = Answered(v, Status(m))
          OBVIOUS
        <4>4. \/ Status(m) = 200 /\ g = Turned(f, "done")
              \/ g = Dropped(f)
              \/ g = Turned(f, "editing")
          BY <2>2, <4>1, <4>3, AnsweredIs
        <4>5. /\ g \in Form /\ g.last = f.last /\ g.sends = f.sends /\ g.pc # "sending"
              /\ g.held => g.kept = f.kept /\ g.shown = f.shown
              /\ g.pc = "done" => Status(m) = 200 /\ g.held
          BY <4>2, <4>4, FormFacts
        <4>6. g.pc = "done" => g.held /\ <<v, g.last>> \in Stored'
          BY <2>3, <2>5, <4>2, <4>5
        <4>7. form' = [form EXCEPT ![v] = g]
          BY <3>2, <4>3
        <4> HIDE DEF v
        <4>8. v \in Visitor
          BY <2>2 DEF v
        <4> QED BY <2>4, <4>1, <4>2, <4>5, <4>6, <4>7, <4>8, FormTurns
      <3> QED BY <1>4, <3>1, <3>2 DEF Arrive
    <2> QED BY <2>1, <2>4, <2>6, NothingSent
  <1>5. ASSUME NEW m \in wire, LoseRequest(m)  PROVE BrowserInv'
    <2>1. wire' \subseteq wire /\ UNCHANGED form /\ UNCHANGED enquiry /\ UNCHANGED mail
      BY <1>5 DEF LoseRequest, database
    <2>2. \A v \in Visitor : Follows(v)
      BY <1>s, <2>1, FormStays
    <2> QED BY <1>s, <2>1, <2>2, NothingSent
  <1>6. ASSUME NEW k \in Key, HourPasses(k)  PROVE BrowserInv'
    BY <1>6, BrowserStays DEF HourPasses, browser
  <1> QED BY <1>1, <1>2, <1>3, <1>4, <1>5, <1>6 DEF Browser
-------------------------------------------------------------------------------
(***************************************************************************)
(* Copies: those accepted, and those that may yet be posted.               *)
(***************************************************************************)
\* No lane more has a copy to post.
LEMMA FewerPosts ==
  ASSUME TypeOK, TypeOK', NEW id \in Reference, Budget(id), Posts(id)' \subseteq Posts(id),
         accepted'[id] + Allowed(id)' + asked[id] <= accepted[id] + Allowed(id) + asked'[id]
  PROVE  Budget(id)'
  <1>1. /\ IsFiniteSet(Posts(id)') /\ Cardinality(Posts(id)') <= Cardinality(Posts(id))
        /\ Cardinality(Posts(id)) \in Nat /\ Cardinality(Posts(id)') \in Nat
    BY FS_Subset, FS_CardinalityType DEF Budget
  <1>2. /\ accepted[id] \in Nat /\ accepted'[id] \in Nat /\ asked[id] \in Nat /\ asked'[id] \in Nat
    BY DEF TypeOK
  <1>3. Allowed(id) \in Nat /\ Allowed(id)' \in Nat
    BY DEF Allowed
  <1> QED BY <1>1, <1>2, <1>3 DEF Budget

\* A lane has posted its copy, or knows that it was refused.
LEMMA PostSpent ==
  ASSUME TypeOK, TypeOK', NEW id \in Reference, Budget(id), NEW w \in Posts(id),
         Posts(id)' \subseteq Posts(id) \ {w},
         accepted'[id] + Allowed(id)' + asked[id] <= 1 + accepted[id] + Allowed(id) + asked'[id]
  PROVE  Budget(id)'
  <1>1. /\ IsFiniteSet(Posts(id) \ {w})
        /\ Cardinality(Posts(id) \ {w}) = Cardinality(Posts(id)) - 1
    BY FS_RemoveElement DEF Budget
  <1>2. /\ IsFiniteSet(Posts(id)') /\ Cardinality(Posts(id)') <= Cardinality(Posts(id)) - 1
        /\ Cardinality(Posts(id)) \in Nat /\ Cardinality(Posts(id)') \in Nat
    BY <1>1, FS_Subset, FS_CardinalityType DEF Budget
  <1>3. /\ accepted[id] \in Nat /\ accepted'[id] \in Nat /\ asked[id] \in Nat /\ asked'[id] \in Nat
    BY DEF TypeOK
  <1>4. Allowed(id) \in Nat /\ Allowed(id)' \in Nat
    BY DEF Allowed
  <1> QED BY <1>2, <1>3, <1>4 DEF Budget

\* A lane takes a copy to post.
LEMMA PostTaken ==
  ASSUME TypeOK, TypeOK', NEW id \in Reference, Budget(id), NEW w \in Worker,
         Posts(id)' \subseteq Posts(id) \cup {w},
         1 + accepted'[id] + Allowed(id)' + asked[id] <= accepted[id] + Allowed(id) + asked'[id]
  PROVE  Budget(id)'
  <1>1. /\ IsFiniteSet(Posts(id) \cup {w})
        /\ \/ Cardinality(Posts(id) \cup {w}) = Cardinality(Posts(id)) + 1
           \/ Cardinality(Posts(id) \cup {w}) = Cardinality(Posts(id))
    BY FS_AddElement DEF Budget
  <1>2. /\ IsFiniteSet(Posts(id)') /\ Cardinality(Posts(id)') <= Cardinality(Posts(id)) + 1
        /\ Cardinality(Posts(id)) \in Nat /\ Cardinality(Posts(id)') \in Nat
    BY <1>1, FS_Subset, FS_CardinalityType DEF Budget
  <1>3. /\ accepted[id] \in Nat /\ accepted'[id] \in Nat /\ asked[id] \in Nat /\ asked'[id] \in Nat
    BY DEF TypeOK
  <1>4. Allowed(id) \in Nat /\ Allowed(id)' \in Nat
    BY DEF Allowed
  <1> QED BY <1>2, <1>3, <1>4 DEF Budget

\* A lane that is delivering a notification after the step did so before it.
LanesKeep(id) ==
    \A w \in Worker : Delivering(w, id)' => Delivering(w, id) /\ worker'[w] = worker[w]

LEMMA KeptPosts ==
  ASSUME NEW id \in Reference, LanesKeep(id)
  PROVE  /\ Posts(id)' \subseteq Posts(id)
         /\ \A w \in Worker : Pending(w, id)' => Pending(w, id)
  BY DEF LanesKeep, Posts, Pending, Delivering

\* What does not concern a notification: at most its dates change, and it is
\* overtaken, or its lease runs out when nobody delivers it.
LEMMA Quiet ==
  ASSUME TypeOK, TypeOK', NEW id \in Reference, MailInv(id), LanesKeep(id),
         accepted'[id] = accepted[id], inbox'[id] = inbox[id], asked'[id] = asked[id],
         mail'[id].state = mail[id].state, mail'[id].revision = mail[id].revision,
         mail'[id].token = mail[id].token,
         mail'[id] = mail[id] \/ mail[id].state # "none",
         mail[id].overtaken => mail'[id].overtaken,
         mail'[id].lapsed =>
            \/ mail[id].lapsed \/ mail'[id].overtaken
            \/ ~\E w \in Worker : Delivering(w, id)
  PROVE  MailInv(id)'
  <1>1. Posts(id)' \subseteq Posts(id) /\ \A w \in Worker : Pending(w, id)' => Pending(w, id)
    BY KeptPosts
  <1>2. accepted[id] \in Nat /\ asked[id] \in Nat
    BY DEF TypeOK
  <1>3. Allowed(id)' = Allowed(id) /\ Allowed(id) \in Nat
    BY DEF Allowed
  <1>4. Budget(id)'
    BY <1>1, <1>2, <1>3, FewerPosts DEF MailInv
  <1>5. Undisturbed(id)'
    <2>1. SUFFICES ASSUME ~mail'[id].overtaken  PROVE Undisturbed(id)'
      BY DEF Undisturbed
    <2>2. ~mail[id].overtaken
      BY <2>1
    <2> QED BY <1>1, <2>1, <2>2 DEF MailInv, Undisturbed, LanesKeep
  <1>6. Seen(id)'
    BY DEF MailInv, Seen
  <1> QED BY <1>4, <1>5, <1>6 DEF MailInv

\* A claim whose lease has run out is written off.
LEMMA WrittenOff ==
  ASSUME TypeOK, TypeOK', NEW id \in Reference, MailInv(id), LanesKeep(id), Expired(id),
         mail'[id] = Interrupted(mail[id]),
         accepted'[id] = accepted[id], inbox'[id] = inbox[id], asked'[id] = asked[id]
  PROVE  MailInv(id)'
  <1>1. Posts(id)' \subseteq Posts(id) /\ \A w \in Worker : Pending(w, id)' => Pending(w, id)
    BY KeptPosts
  <1>2. accepted[id] \in Nat /\ asked[id] \in Nat /\ mail[id] \in Notification
    BY DEF TypeOK
  <1>3. /\ mail'[id].state = "uncertain" /\ mail'[id].revision = mail[id].revision + 1
        /\ (mail'[id].overtaken <=> mail[id].overtaken)
    BY <1>2, InterruptedFacts
  <1>4. Allowed(id)' = 0 /\ Allowed(id) \in Nat
    BY <1>3 DEF Allowed
  <1>5. Budget(id)'
    BY <1>1, <1>2, <1>4, FewerPosts DEF MailInv
  <1>6. inbox[id].revision <= mail[id].revision /\ inbox[id].revision \in Nat /\ mail[id].revision \in Nat
    BY <1>2 DEF MailInv, Seen, TypeOK, Notification
  <1>7. Undisturbed(id)'
    <2>1. SUFFICES ASSUME ~mail'[id].overtaken  PROVE Undisturbed(id)'
      BY DEF Undisturbed
    <2>2. ~mail[id].overtaken /\ mail[id].lapsed
      BY <1>3, <2>1 DEF Expired
    <2>3. ~\E w \in Worker : Delivering(w, id)
      BY <2>2 DEF MailInv, Undisturbed
    <2>4. mail'[id].revision # inbox[id].revision
      BY <1>3, <1>6
    <2> QED BY <1>1, <1>3, <2>2, <2>3, <2>4 DEF MailInv, Undisturbed, LanesKeep
  <1>8. Seen(id)'
    BY <1>3, <1>6 DEF Seen
  <1> QED BY <1>5, <1>7, <1>8 DEF MailInv

\* The owner decides about a notification nobody delivers.
LEMMA Decision ==
  ASSUME TypeOK, TypeOK', NEW id \in Reference, MailInv(id), UNCHANGED worker,
         accepted'[id] = accepted[id], inbox'[id] = inbox[id],
         mail[id].state # "sending",
         mail'[id].state \in {"sent", "queued"}, mail'[id].revision = mail[id].revision + 1,
         mail'[id].overtaken <=> mail[id].overtaken,
         mail'[id].state = "queued" /\ ~mail[id].overtaken => accepted[id] = 0,
         Allowed(id)' + asked[id] <= Allowed(id) + asked'[id]
  PROVE  MailInv(id)'
  <1>1. Posts(id)' = Posts(id) /\ \A w \in Worker : Pending(w, id)' <=> Pending(w, id)
    BY DEF Posts, Pending
  <1>2. accepted[id] \in Nat /\ asked[id] \in Nat /\ asked'[id] \in Nat
    BY DEF TypeOK
  <1>3. Allowed(id)' \in Nat /\ Allowed(id) \in Nat
    BY DEF Allowed
  <1>4. Budget(id)'
    BY <1>1, <1>2, <1>3, FewerPosts DEF MailInv
  <1>5. Undisturbed(id)'
    <2>1. SUFFICES ASSUME ~mail'[id].overtaken  PROVE Undisturbed(id)'
      BY DEF Undisturbed
    <2>2. ~mail[id].overtaken /\ ~\E w \in Worker : Delivering(w, id)
      BY <2>1 DEF MailInv, Undisturbed
    <2>3. ~\E w \in Worker : Delivering(w, id)'
      BY <2>2 DEF Delivering
    <2>4. ~\E w \in Worker : Pending(w, id)'
      BY <2>3 DEF Pending, Delivering
    <2> QED BY <2>2, <2>3, <2>4 DEF MailInv, Undisturbed
  <1>6. Seen(id)'
    <2>1. inbox[id].revision <= mail[id].revision /\ inbox[id].revision \in Nat /\ mail[id].revision \in Nat
      BY DEF MailInv, Seen, TypeOK, Notification
    <2> QED BY <2>1 DEF Seen
  <1> QED BY <1>4, <1>5, <1>6 DEF MailInv
-------------------------------------------------------------------------------
(***************************************************************************)
(* One step for each action of the mail lane, the owner and time.          *)
(***************************************************************************)
AllMail == \A id \in Reference : MailInv(id)
AllLanes == \A w \in Worker : LaneInv(w)

LEMMA ClaimStep ==
  ASSUME TypeOK, TypeOK', BrowserInv, AllMail, AllLanes,
         NEW w \in Worker, NEW id \in Reference, Claim(w, id)
  PROVE  BrowserInv' /\ AllMail' /\ AllLanes'
  <1>1. /\ worker' = [worker EXCEPT ![w] = Claiming(worker[w], id, mail[id].revision + 1,
                                                     mail[id].attempts + 1)]
        /\ mail' = [i \in Reference |->
                       IF i = id THEN Taken(mail[i], worker[w].address)
                       ELSE IF Expired(i) THEN Interrupted(mail[i]) ELSE mail[i]]
    BY ClaimIs
  <1>2. /\ worker[w].pc = "idle" /\ Ready(id)
        /\ UNCHANGED <<browser, enquiry, window, owner>>
    BY Zenon DEF Claim
  <1>3. /\ UNCHANGED form /\ UNCHANGED wire /\ UNCHANGED enquiry
        /\ UNCHANGED accepted /\ UNCHANGED inbox /\ UNCHANGED asked
    BY <1>2 DEF browser, owner
  <1>4. PICK m : m = mail[id]
    OBVIOUS
  <1>5. /\ m \in Notification /\ m.state = "queued" /\ m.attempts < MaxAttempts
        /\ worker[w] \in Lane /\ worker[w].address \in Address
        /\ m.revision \in Nat
    BY <1>2, <1>4 DEF TypeOK, Ready, Lane, Notification
  <1>6. PICK n : n = Taken(m, worker[w].address)
    OBVIOUS
  <1>7. /\ n.state = "sending" /\ n.revision = m.revision + 1 /\ (n.overtaken <=> m.overtaken)
        /\ ~n.lapsed /\ n.token = m.revision + 1
    BY <1>5, <1>6, TakenFacts
  <1>8. mail'[id] = n
    BY <1>1, <1>4, <1>6
  <1>9. PICK l : l = Claiming(worker[w], id, m.revision + 1, m.attempts + 1)
    OBVIOUS
  <1>10. l.pc = "claimed" /\ l.id = id /\ l.token = m.revision + 1
    <2>1. m.revision + 1 \in Nat /\ m.attempts + 1 \in 0..MaxAttempts
      BY <1>5, Limits DEF Notification
    <2> QED BY <1>5, <1>9, <2>1, ClaimingFacts
  <1>11. worker'[w] = l /\ \A u \in Worker : u # w => worker'[u] = worker[u]
    BY <1>1, <1>4, <1>9 DEF TypeOK
  <1>12. ASSUME NEW i \in Reference, i # id  PROVE LanesKeep(i)
    BY <1>10, <1>11, <1>12 DEF LanesKeep, Delivering
  <1>13. ASSUME NEW i \in Reference, i # id  PROVE MailInv(i)' /\ (mail'[i].state = "none" <=> mail[i].state = "none")
    <2>1. CASE Expired(i)
      <3>1. mail'[i] = Interrupted(mail[i]) /\ mail[i] \in Notification
        BY <1>1, <1>13, <2>1 DEF TypeOK
      <3>2. mail'[i].state = "uncertain" /\ mail[i].state = "sending"
        BY <2>1, <3>1, InterruptedFacts DEF Expired
      <3>3. MailInv(i)'
        BY <1>3, <1>12, <1>13, <2>1, <3>1, WrittenOff DEF AllMail
      <3> QED BY <3>2, <3>3
    <2>2. CASE ~Expired(i)
      <3>1. mail'[i] = mail[i]
        BY <1>1, <1>13, <2>2
      <3>2. MailInv(i)'
        BY <1>3, <1>12, <1>13, <3>1, Quiet DEF AllMail
      <3> QED BY <3>1, <3>2
    <2> QED BY <2>1, <2>2
  <1>14. MailInv(id)'
    <2>1. MailInv(id) /\ accepted[id] \in Nat /\ asked[id] \in Nat
      BY DEF AllMail, TypeOK
    <2>2. Posts(id)' \subseteq Posts(id) \cup {w}
      BY <1>11 DEF Posts, Pending
    <2>3. Allowed(id) = 1 /\ Allowed(id)' = 0
      BY <1>4, <1>5, <1>7, <1>8 DEF Allowed
    <2>4. Budget(id)'
      BY <1>3, <2>1, <2>2, <2>3, PostTaken DEF MailInv
    <2>5. Undisturbed(id)'
      <3>1. SUFFICES ASSUME ~n.overtaken  PROVE Undisturbed(id)'
        BY <1>8 DEF Undisturbed
      <3>2. /\ ~m.overtaken /\ accepted[id] = 0 /\ ~\E u \in Worker : Delivering(u, id)
        BY <1>4, <1>5, <1>7, <2>1, <3>1 DEF MailInv, Undisturbed
      <3>3. \A u \in Worker : Delivering(u, id)' => u = w
        BY <1>11, <3>2 DEF Delivering
      <3> QED BY <1>3, <1>7, <1>8, <1>10, <1>11, <3>2, <3>3 DEF Undisturbed
    <2>6. Seen(id)'
      <3>1. inbox[id].revision <= m.revision /\ inbox[id].revision \in Nat
        BY <1>4, <2>1 DEF MailInv, Seen, TypeOK
      <3> QED BY <1>3, <1>5, <1>7, <1>8, <3>1 DEF Seen
    <2> QED BY <2>4, <2>5, <2>6 DEF MailInv
  <1>15. AllLanes'
    BY <1>10, <1>11 DEF AllLanes, LaneInv
  <1>16. BrowserInv'
    BY <1>3, <1>4, <1>5, <1>7, <1>8, <1>13, BrowserStays
  <1> QED BY <1>13, <1>14, <1>15, <1>16 DEF AllMail

LEMMA SweepStep ==
  ASSUME TypeOK, TypeOK', BrowserInv, AllMail, AllLanes, NEW w \in Worker, Sweep(w)
  PROVE  BrowserInv' /\ AllMail' /\ AllLanes'
  <1>1. /\ UNCHANGED form /\ UNCHANGED wire /\ UNCHANGED enquiry /\ UNCHANGED worker
        /\ UNCHANGED accepted /\ UNCHANGED inbox /\ UNCHANGED asked
    BY DEF Sweep, browser, owner
  <1>2. ASSUME NEW i \in Reference
        PROVE  MailInv(i)' /\ (mail'[i].state = "none" <=> mail[i].state = "none")
    <2>1. LanesKeep(i)
      BY <1>1 DEF LanesKeep, Delivering
    <2>2. CASE Expired(i)
      <3>1. mail'[i] = Interrupted(mail[i]) /\ mail[i] \in Notification
        BY <2>2 DEF TypeOK, Sweep
      <3>2. mail'[i].state = "uncertain" /\ mail[i].state = "sending"
        BY <2>2, <3>1, InterruptedFacts DEF Expired
      <3>3. MailInv(i)'
        BY <1>1, <2>1, <2>2, <3>1, WrittenOff DEF AllMail
      <3> QED BY <3>2, <3>3
    <2>3. CASE ~Expired(i)
      <3>1. mail'[i] = mail[i]
        BY <2>3 DEF Sweep
      <3>2. MailInv(i)'
        BY <1>1, <2>1, <3>1, Quiet DEF AllMail
      <3> QED BY <3>1, <3>2
    <2> QED BY <2>2, <2>3
  <1>3. AllLanes'
    BY <1>1 DEF AllLanes, LaneInv
  <1>4. BrowserInv'
    BY <1>1, <1>2, BrowserStays
  <1> QED BY <1>2, <1>3, <1>4 DEF AllMail

LEMMA PostStep ==
  ASSUME TypeOK, TypeOK', BrowserInv, AllMail, AllLanes, NEW w \in Worker, Post(w)
  PROVE  BrowserInv' /\ AllMail' /\ AllLanes'
  <1>1. PICK outcome \in {"sent", "limited", "refused", "unknown"} :
            /\ worker' = [worker EXCEPT ![w] = Posted(worker[w], outcome)]
            /\ \/ /\ outcome \notin {"limited", "refused"}
                  /\ accepted' = [accepted EXCEPT ![worker[w].id] = @ + 1]
               \/ UNCHANGED accepted
    BY PostIs
  <1>2. /\ worker[w].pc = "claimed" /\ UNCHANGED form /\ UNCHANGED wire /\ UNCHANGED enquiry
        /\ UNCHANGED mail /\ UNCHANGED inbox /\ UNCHANGED asked
    BY DEF Post, browser, database
  <1>3. PICK id \in Reference : id = worker[w].id
    BY <1>2 DEF AllLanes, LaneInv
  <1>4. PICK l : l = Posted(worker[w], outcome)
    OBVIOUS
  <1>5. l.pc = "answered" /\ l.id = id /\ l.token = worker[w].token /\ l.outcome = outcome
    BY <1>3, <1>4, PostedFacts DEF TypeOK
  <1>6. worker'[w] = l /\ \A u \in Worker : u # w => worker'[u] = worker[u]
    BY <1>1, <1>4 DEF TypeOK
  <1>7. \A i \in Reference : i # id => accepted'[i] = accepted[i]
    BY <1>1, <1>3 DEF TypeOK
  <1>8. /\ accepted[id] \in Nat
        /\ \/ outcome \notin {"limited", "refused"} /\ accepted'[id] = accepted[id] + 1
           \/ accepted'[id] = accepted[id]
    BY <1>1, <1>3 DEF TypeOK
  <1>9. ASSUME NEW i \in Reference, i # id  PROVE MailInv(i)'
    <2>1. LanesKeep(i)
      BY <1>3, <1>5, <1>6, <1>9 DEF LanesKeep, Delivering
    <2> QED BY <1>2, <1>7, <1>9, <2>1, Quiet DEF AllMail
  <1>10. MailInv(id)'
    <2>1. MailInv(id) /\ Allowed(id)' = Allowed(id) /\ Allowed(id) \in Nat /\ asked[id] \in Nat
      BY <1>2 DEF AllMail, Allowed, TypeOK
    <2>2. Pending(w, id) /\ \A u \in Worker : u # w => (Pending(u, id)' <=> Pending(u, id))
      BY <1>2, <1>3, <1>6 DEF Pending
    <2>3. Budget(id)'
      <3>1. CASE accepted'[id] = accepted[id]
        <4>1. Posts(id)' \subseteq Posts(id)
          BY <2>2 DEF Posts
        <4> QED BY <1>2, <1>8, <2>1, <3>1, <4>1, FewerPosts DEF MailInv
      <3>2. CASE outcome \notin {"limited", "refused"} /\ accepted'[id] = accepted[id] + 1
        <4>1. ~Pending(w, id)'
          BY <1>5, <1>6, <3>2 DEF Pending
        <4>2. w \in Posts(id) /\ Posts(id)' \subseteq Posts(id) \ {w}
          BY <2>2, <4>1 DEF Posts
        <4>3. accepted'[id] + Allowed(id)' + asked[id] <= 1 + accepted[id] + Allowed(id) + asked'[id]
          BY <1>2, <1>8, <2>1, <3>2
        <4> QED BY <2>1, <4>2, <4>3, PostSpent DEF MailInv
      <3> QED BY <1>8, <3>1, <3>2
    <2>4. Undisturbed(id)'
      <3>1. SUFFICES ASSUME ~mail[id].overtaken  PROVE Undisturbed(id)'
        BY <1>2 DEF Undisturbed
      <3>2. Delivering(w, id) /\ \A u \in Worker : Delivering(u, id)' <=> Delivering(u, id)
        BY <1>2, <1>3, <1>5, <1>6 DEF Delivering
      <3>3. /\ mail[id].state = "sending" /\ accepted[id] = 0
            /\ \A u \in Worker : Delivering(u, id) => u = w
        BY <2>1, <2>2, <3>1, <3>2 DEF MailInv, Undisturbed
      <3>4. ASSUME NEW u \in Worker, Pending(u, id)'  PROVE accepted'[id] = 0
        <4>1. u = w
          BY <3>2, <3>3, <3>4 DEF Pending, Delivering
        <4> QED BY <1>5, <1>6, <1>8, <3>3, <3>4, <4>1 DEF Pending
      <3>5. accepted'[id] <= 1
        BY <1>8, <3>3
      <3>6. \A u \in Worker : Delivering(u, id)' =>
               mail[id].state = "sending" /\ ~mail[id].lapsed /\ worker'[u].token = mail[id].token
        BY <1>5, <1>6, <2>1, <3>1, <3>2 DEF MailInv, Undisturbed
      <3> QED BY <1>2, <3>2, <3>3, <3>4, <3>5, <3>6 DEF Undisturbed
    <2>5. Seen(id)'
      BY <1>2, <2>1 DEF MailInv, Seen
    <2> QED BY <2>3, <2>4, <2>5 DEF MailInv
  <1>11. AllLanes'
    BY <1>1, <1>3, <1>5, <1>6 DEF AllLanes, LaneInv
  <1>12. BrowserInv'
    BY <1>2, BrowserStays
  <1> QED BY <1>9, <1>10, <1>11, <1>12 DEF AllMail
LEMMA RecordStep ==
  ASSUME TypeOK, TypeOK', BrowserInv, AllMail, AllLanes, NEW w \in Worker, Record(w)
  PROVE  BrowserInv' /\ AllMail' /\ AllLanes'
  <1>1. /\ worker[w].pc = "answered" /\ worker' = [worker EXCEPT ![w] = Idle(worker[w].address)]
        /\ UNCHANGED <<browser, enquiry, window, owner>>
        /\ OwnsMail(w) \/ mail' = mail
    BY Zenon DEF Record
  <1>2. /\ UNCHANGED form /\ UNCHANGED wire /\ UNCHANGED enquiry
        /\ UNCHANGED accepted /\ UNCHANGED inbox /\ UNCHANGED asked
    BY <1>1 DEF browser, owner
  <1>3. PICK id \in Reference : id = worker[w].id
    BY <1>1 DEF AllLanes, LaneInv
  <1>4. LaneInv(w) /\ Idle(worker[w].address).pc = "idle"
    BY IdleFacts DEF AllLanes, TypeOK, Lane
  <1>5. worker'[w].pc = "idle" /\ \A u \in Worker : u # w => worker'[u] = worker[u]
    BY <1>1, <1>4 DEF TypeOK
  <1>6. \A i \in Reference : LanesKeep(i)
    BY <1>5 DEF LanesKeep, Delivering
  <1>7. AllLanes'
    BY <1>5 DEF AllLanes, LaneInv
  <1>8. CASE mail' = mail
    <2>1. AllMail'
      BY <1>2, <1>6, <1>8, Quiet DEF AllMail
    <2> QED BY <1>2, <1>7, <1>8, <2>1, BrowserStays
  <1>9. CASE OwnsMail(w)
    <2>1. PICK due \in BOOLEAN : mail' = [mail EXCEPT ![id] = Settled(mail[id], Result(w), due)]
      BY <1>3, <1>4, <1>9, RecordIs
    <2>2. PICK m : m = mail[id]
      OBVIOUS
    <2>3. PICK n : n = Settled(m, Result(w), due)
      OBVIOUS
    <2>4. /\ m \in Notification /\ m.revision \in Nat /\ m.state = "sending"
          /\ m.token = worker[w].token
      BY <1>3, <1>9, <2>2 DEF TypeOK, OwnsMail, Notification
    <2>5. /\ Result(w) \in {"sent", "queued", "failed", "uncertain"}
          /\ Result(w) \in {"queued", "failed"} => worker[w].outcome \in {"limited", "refused"}
      BY <1>1, <1>4, ResultIs
    <2>6. n.state = Result(w) /\ n.revision = m.revision + 1 /\ (n.overtaken <=> m.overtaken)
      <3>1. Result(w) \in MailStates
        BY <2>5 DEF MailStates
      <3> QED BY <2>3, <2>4, <3>1, SettledFacts, Zenon
    <2>7. mail'[id] = n /\ \A i \in Reference : i # id => mail'[i] = mail[i]
      BY <2>1, <2>2, <2>3 DEF TypeOK
    <2>8. ASSUME NEW i \in Reference, i # id  PROVE MailInv(i)'
      BY <1>2, <1>6, <2>7, <2>8, Quiet DEF AllMail
    <2>9. MailInv(id)'
      <3>1. MailInv(id) /\ accepted[id] \in Nat /\ asked[id] \in Nat
        BY DEF AllMail, TypeOK
      <3>2. Posts(id)' \subseteq Posts(id) \ {w}
        BY <1>5 DEF Posts, Pending
      <3>3. Allowed(id) = 0
        BY <2>2, <2>4 DEF Allowed
      <3>4. Budget(id)'
        <4>1. CASE Result(w) \in {"queued", "failed"}
          <5>1. w \in Posts(id)
            BY <1>1, <1>3, <2>5, <4>1 DEF Posts, Pending
          <5>2. Allowed(id)' = 1
            BY <2>6, <2>7, <4>1 DEF Allowed
          <5> QED BY <1>2, <3>1, <3>2, <3>3, <5>1, <5>2, PostSpent DEF MailInv
        <4>2. CASE Result(w) \notin {"queued", "failed"}
          <5>1. Allowed(id)' = 0
            BY <2>5, <2>6, <2>7, <4>2 DEF Allowed
          <5>2. Posts(id)' \subseteq Posts(id)
            BY <3>2
          <5> QED BY <1>2, <3>1, <3>3, <5>1, <5>2, FewerPosts DEF MailInv
        <4> QED BY <4>1, <4>2
      <3>5. Undisturbed(id)'
        <4>1. SUFFICES ASSUME ~n.overtaken  PROVE Undisturbed(id)'
          BY <2>7 DEF Undisturbed
        <4>2. ~m.overtaken /\ Delivering(w, id)
          BY <1>1, <1>3, <2>6, <4>1 DEF Delivering
        <4>3. /\ accepted[id] <= 1 /\ \A u \in Worker : Delivering(u, id) => u = w
              /\ Pending(w, id) => accepted[id] = 0
          BY <2>2, <3>1, <4>2 DEF MailInv, Undisturbed
        <4>4. ~\E u \in Worker : Delivering(u, id)'
          BY <1>5, <4>3 DEF Delivering
        <4>5. ~\E u \in Worker : Pending(u, id)'
          BY <4>4 DEF Pending, Delivering
        <4>6. n.state \in {"none", "queued", "failed"} => accepted[id] = 0
          BY <1>1, <1>3, <2>5, <2>6, <4>3 DEF Pending
        <4>7. n.revision # inbox[id].revision
          <5>1. inbox[id].revision <= m.revision /\ inbox[id].revision \in Nat
            BY <2>2, <3>1 DEF MailInv, Seen, TypeOK
          <5> QED BY <2>4, <2>6, <5>1
        <4> QED BY <1>2, <2>7, <4>3, <4>4, <4>5, <4>6, <4>7 DEF Undisturbed
      <3>6. Seen(id)'
        <4>1. inbox[id].revision <= m.revision /\ inbox[id].revision \in Nat
          BY <2>2, <3>1 DEF MailInv, Seen, TypeOK
        <4> QED BY <1>2, <2>4, <2>5, <2>6, <2>7, <4>1 DEF Seen
      <3> QED BY <3>4, <3>5, <3>6 DEF MailInv
    <2>10. BrowserInv'
      BY <1>2, <2>2, <2>4, <2>5, <2>6, <2>7, BrowserStays
    <2> QED BY <1>7, <2>8, <2>9, <2>10 DEF AllMail
  <1> QED BY <1>1, <1>8, <1>9

LEMMA LaneEndsStep ==
  ASSUME TypeOK, TypeOK', BrowserInv, AllMail, AllLanes, NEW w \in Worker, NEW a \in Address,
         worker' = [worker EXCEPT ![w] = Idle(a)],
         UNCHANGED <<browser, database, owner>>
  PROVE  BrowserInv' /\ AllMail' /\ AllLanes'
  <1>1. worker'[w].pc = "idle" /\ \A u \in Worker : u # w => worker'[u] = worker[u]
    BY IdleFacts DEF TypeOK
  <1>2. \A i \in Reference : LanesKeep(i)
    BY <1>1 DEF LanesKeep, Delivering
  <1>3. /\ UNCHANGED form /\ UNCHANGED wire /\ UNCHANGED enquiry /\ UNCHANGED mail
        /\ UNCHANGED accepted /\ UNCHANGED inbox /\ UNCHANGED asked
    BY DEF browser, database, owner
  <1>4. AllMail'
    BY <1>2, <1>3, Quiet DEF AllMail
  <1>5. AllLanes'
    BY <1>1 DEF AllLanes, LaneInv
  <1> QED BY <1>3, <1>4, <1>5, BrowserStays

\* A step that touches one notification, and no lane.
LEMMA OneMailStep ==
  ASSUME TypeOK, TypeOK', BrowserInv, AllMail, AllLanes, NEW id \in Reference,
         UNCHANGED <<browser, enquiry, worker, accepted>>,
         \A i \in Reference :
            i # id => mail'[i] = mail[i] /\ inbox'[i] = inbox[i] /\ asked'[i] = asked[i],
         mail'[id].state = "none" <=> mail[id].state = "none",
         MailInv(id)'
  PROVE  BrowserInv' /\ AllMail' /\ AllLanes'
  <1>1. UNCHANGED form /\ UNCHANGED wire /\ UNCHANGED enquiry /\ UNCHANGED worker /\ UNCHANGED accepted
    BY DEF browser
  <1>2. \A i \in Reference : LanesKeep(i)
    BY <1>1 DEF LanesKeep, Delivering
  <1>3. ASSUME NEW i \in Reference, i # id  PROVE MailInv(i)'
    BY <1>1, <1>2, <1>3, Quiet DEF AllMail
  <1>4. AllLanes'
    BY <1>1 DEF AllLanes, LaneInv
  <1> QED BY <1>1, <1>3, <1>4, BrowserStays DEF AllMail

LEMMA OwnerStep ==
  ASSUME TypeOK, TypeOK', BrowserInv, AllMail, AllLanes, Owner
  PROVE  BrowserInv' /\ AllMail' /\ AllLanes'
  <1>1. ASSUME NEW id \in Reference, Look(id)  PROVE BrowserInv' /\ AllMail' /\ AllLanes'
    <2>1. /\ UNCHANGED <<browser, database, worker, accepted, asked>>
          /\ inbox' = [inbox EXCEPT ![id] = [revision |-> mail[id].revision,
                                             copies |-> accepted[id]]]
      BY <1>1 DEF Look
    <2>2. /\ inbox'[id].revision = mail[id].revision /\ inbox'[id].copies = accepted[id]
          /\ \A i \in Reference : i # id => inbox'[i] = inbox[i]
      BY <2>1 DEF TypeOK
    <2>3. UNCHANGED <<browser, enquiry, worker, accepted>> /\ UNCHANGED mail /\ UNCHANGED asked
      BY <2>1 DEF database
    <2>4. MailInv(id)'
      <3>1. MailInv(id) /\ mail[id].revision \in Nat
        BY DEF AllMail, TypeOK, Notification
      <3>2. Budget(id)'
        BY <2>3, <3>1 DEF MailInv, Budget, Posts, Pending, Allowed
      <3>3. Undisturbed(id)'
        BY <2>2, <2>3, <3>1 DEF MailInv, Undisturbed, Delivering, Pending
      <3>4. Seen(id)'
        BY <2>2, <2>3, <3>1 DEF MailInv, Seen
      <3> QED BY <3>2, <3>3, <3>4 DEF MailInv
    <2> QED BY <2>2, <2>3, <2>4, OneMailStep
  <1>2. ASSUME NEW id \in Reference, NEW state \in {"sent", "queued"}, Decide(id, state),
               UNCHANGED <<browser, enquiry, worker, accepted, inbox>>,
               mail[id].state \in {"uncertain", "failed"},
               state = "queued" /\ ~mail[id].overtaken => accepted[id] = 0,
               \A i \in Reference : i # id => asked'[i] = asked[i],
               \/ state = "sent" /\ asked'[id] = asked[id]
               \/ mail[id].state = "failed" /\ asked'[id] = asked[id]
               \/ asked'[id] = asked[id] + 1
        PROVE  BrowserInv' /\ AllMail' /\ AllLanes'
    <2>1. mail' = [mail EXCEPT ![id] = Decided(mail[id], state)]
      BY <1>2, DecideIs
    <2>2. PICK m : m = mail[id]
      OBVIOUS
    <2>3. PICK n : n = Decided(m, state)
      OBVIOUS
    <2>4. m \in Notification
      BY <2>2 DEF TypeOK
    <2>5. n.state = state /\ n.revision = m.revision + 1 /\ (n.overtaken <=> m.overtaken)
      BY <2>3, <2>4, DecidedFacts DEF MailStates
    <2>6. mail'[id] = n /\ \A i \in Reference : i # id => mail'[i] = mail[i]
      BY <2>1, <2>2, <2>3 DEF TypeOK
    <2>7. Allowed(id)' + asked[id] <= Allowed(id) + asked'[id]
      <3>1. asked[id] \in Nat
        BY DEF TypeOK
      <3>2. /\ Allowed(id) \in {0, 1} /\ Allowed(id)' \in {0, 1}
            /\ state = "sent" => Allowed(id)' = 0
            /\ mail[id].state = "failed" => Allowed(id) = 1
        BY <2>5, <2>6 DEF Allowed
      <3>3. CASE asked'[id] = asked[id] + 1
        BY <3>1, <3>2, <3>3
      <3>4. CASE asked'[id] = asked[id] /\ Allowed(id)' <= Allowed(id)
        BY <3>1, <3>2, <3>4
      <3>5. (state = "sent" \/ mail[id].state = "failed") => Allowed(id)' <= Allowed(id)
        BY <3>2
      <3> QED BY <1>2, <3>3, <3>4, <3>5
    <2>8. MailInv(id)'
      BY <1>2, <2>2, <2>5, <2>6, <2>7, Decision DEF AllMail
    <2> QED BY <1>2, <2>2, <2>5, <2>6, <2>8, OneMailStep
  <1>3. ASSUME NEW id \in Reference, MarkSent(id)  PROVE BrowserInv' /\ AllMail' /\ AllLanes'
    <2>1. /\ Decide(id, "sent") /\ mail[id].state = "uncertain"
          /\ UNCHANGED <<browser, enquiry, worker, accepted, inbox>> /\ UNCHANGED asked
      BY <1>3 DEF MarkSent, owner
    <2> QED BY <1>2, <2>1
  <1>4. ASSUME NEW id \in Reference, Retry(id)  PROVE BrowserInv' /\ AllMail' /\ AllLanes'
    <2>1. /\ Decide(id, "queued") /\ mail[id].state = "failed"
          /\ UNCHANGED <<browser, enquiry, worker, accepted, inbox>> /\ UNCHANGED asked
      BY <1>4 DEF Retry, owner
    <2>2. ~mail[id].overtaken => accepted[id] = 0
      BY <2>1 DEF AllMail, MailInv, Undisturbed
    <2> QED BY <1>2, <2>1, <2>2
  <1>5. ASSUME NEW id \in Reference, SendAgain(id)  PROVE BrowserInv' /\ AllMail' /\ AllLanes'
    <2>1. /\ Decide(id, "queued") /\ mail[id].state = "uncertain" /\ Unchanged(id)
          /\ inbox[id].copies = 0
          /\ UNCHANGED <<browser, enquiry, worker, accepted, inbox>>
          /\ asked' = [asked EXCEPT ![id] = asked[id] + 1]
      BY <1>5 DEF SendAgain
    <2>2. ~mail[id].overtaken => accepted[id] = 0
      BY <2>1 DEF AllMail, MailInv, Undisturbed, Unchanged
    <2>3. asked'[id] = asked[id] + 1 /\ \A i \in Reference : i # id => asked'[i] = asked[i]
      BY <2>1 DEF TypeOK
    <2> QED BY <1>2, <2>1, <2>2, <2>3
  <1> QED BY <1>1, <1>3, <1>4, <1>5 DEF Owner

LEMMA TimeStep ==
  ASSUME TypeOK, TypeOK', BrowserInv, AllMail, AllLanes,
         Time \/ \E id \in Reference : LeaseLapses(id)
  PROVE  BrowserInv' /\ AllMail' /\ AllLanes'
  <1>1. ASSUME NEW id \in Reference, NEW n, mail' = [mail EXCEPT ![id] = n],
               UNCHANGED <<browser, enquiry, window, worker, owner>>,
               mail[id].state # "none", n.state = mail[id].state,
               n.revision = mail[id].revision, n.token = mail[id].token,
               mail[id].overtaken => n.overtaken,
               n.lapsed => \/ mail[id].lapsed \/ n.overtaken
                           \/ ~\E w \in Worker : Delivering(w, id)
        PROVE  BrowserInv' /\ AllMail' /\ AllLanes'
    <2>1. mail'[id] = n /\ \A i \in Reference : i # id => mail'[i] = mail[i]
      BY <1>1 DEF TypeOK
    <2>2. /\ UNCHANGED <<browser, enquiry, worker, accepted>>
          /\ UNCHANGED inbox /\ UNCHANGED asked /\ UNCHANGED accepted /\ UNCHANGED worker
      BY <1>1 DEF owner
    <2>3. LanesKeep(id)
      BY <2>2 DEF LanesKeep, Delivering
    <2>4. MailInv(id)'
      BY <1>1, <2>1, <2>2, <2>3, Quiet DEF AllMail
    <2> QED BY <1>1, <2>1, <2>2, <2>4, OneMailStep
  <1>2. \A id \in Reference : mail[id] \in Notification
    BY DEF TypeOK
  <1>3. ASSUME NEW id \in Reference, BecomeDue(id)  PROVE BrowserInv' /\ AllMail' /\ AllLanes'
    <2>1. /\ mail[id].state = "queued" /\ UNCHANGED <<browser, enquiry, window, worker, owner>>
          /\ mail' = [mail EXCEPT ![id] = Dated(mail[id])]
      BY <1>3, BecomeDueIs, Zenon DEF BecomeDue
    <2>2. PICK n : n = Dated(mail[id])
      OBVIOUS
    <2>3. /\ n.state = mail[id].state /\ n.revision = mail[id].revision /\ n.token = mail[id].token
          /\ (n.overtaken <=> mail[id].overtaken) /\ (n.lapsed <=> mail[id].lapsed)
      BY <1>2, <2>2, DatedFacts
    <2> QED BY <1>1, <2>1, <2>2, <2>3
  <1>4. ASSUME NEW id \in Reference, LeaseExpires(id)  PROVE BrowserInv' /\ AllMail' /\ AllLanes'
    <2>1. /\ mail[id].state = "sending" /\ UNCHANGED <<browser, enquiry, window, worker, owner>>
          /\ ~\E w \in Worker : Delivering(w, id)
          /\ mail' = [mail EXCEPT ![id] = Lapsed(mail[id])]
      BY <1>4, LeaseExpiresIs, Zenon DEF LeaseExpires
    <2>2. PICK n : n = Lapsed(mail[id])
      OBVIOUS
    <2>3. /\ n.state = mail[id].state /\ n.revision = mail[id].revision /\ n.token = mail[id].token
          /\ (n.overtaken <=> mail[id].overtaken)
      BY <1>2, <2>2, LapsedFacts
    <2> QED BY <1>1, <2>1, <2>2, <2>3
  <1>5. ASSUME NEW id \in Reference, LeaseLapses(id)  PROVE BrowserInv' /\ AllMail' /\ AllLanes'
    <2>1. /\ mail[id].state = "sending" /\ UNCHANGED <<browser, enquiry, window, worker, owner>>
          /\ mail' = [mail EXCEPT ![id] = Overtaken(mail[id])]
      BY <1>5, LeaseLapsesIs, Zenon DEF LeaseLapses
    <2>2. PICK n : n = Overtaken(mail[id])
      OBVIOUS
    <2>3. /\ n.state = mail[id].state /\ n.revision = mail[id].revision /\ n.token = mail[id].token
          /\ n.overtaken
      BY <1>2, <2>2, OvertakenFacts
    <2> QED BY <1>1, <2>1, <2>2, <2>3
  <1> QED BY <1>3, <1>4, <1>5 DEF Time
LEMMA BrowserMailStep ==
  ASSUME TypeOK, TypeOK', BrowserInv, AllMail, AllLanes, Browser
  PROVE  AllMail' /\ AllLanes'
  <1>1. UNCHANGED worker /\ UNCHANGED accepted /\ UNCHANGED inbox /\ UNCHANGED asked
    BY Zenon DEF Browser, Send, TimeOut, Edit, Arrive, LoseRequest, HourPasses, owner
  <1>2. AllLanes'
    BY <1>1 DEF AllLanes, LaneInv
  <1>3. \A i \in Reference : LanesKeep(i)
    BY <1>1 DEF LanesKeep, Delivering
  <1>4. ASSUME UNCHANGED mail  PROVE AllMail'
    BY <1>1, <1>3, <1>4, Quiet DEF AllMail
  <1>5. ASSUME NEW m \in wire, Arrive(m)  PROVE AllMail'
    <2>1. Submit(m)
      BY <1>5 DEF Arrive
    <2>2. /\ m.id \in Reference
          /\ \/ m.id \notin Stored /\ mail' = [mail EXCEPT ![m.id] = Queued]
             \/ mail' = mail
      BY <2>1, SubmitIs
    <2>3. CASE m.id \notin Stored /\ mail' = [mail EXCEPT ![m.id] = Queued]
      <3>1. PICK id \in Reference : id = m.id
        BY <2>2
      <3>2. mail'[id] = Queued /\ \A i \in Reference : i # id => mail'[i] = mail[i]
        BY <2>3, <3>1 DEF TypeOK
      <3>3. mail[id].state = "none" /\ MailInv(id)
        BY <2>3, <3>1 DEF BrowserInv, StoredInv, AllMail
      <3>4. mail[id] = NoMail
        BY <3>3 DEF MailInv, Seen
      <3>5. /\ ~mail[id].overtaken /\ mail[id].revision = 0 /\ ~mail'[id].overtaken
            /\ mail'[id].state = "queued" /\ mail'[id].revision = 1
        BY <3>2, <3>4, NoMailFacts, QueuedFacts
      <3>6. accepted[id] = 0 /\ ~\E w \in Worker : Delivering(w, id)
        BY <3>3, <3>5 DEF MailInv, Undisturbed
      <3>7. MailInv(id)'
        <4>1. Allowed(id) = 1 /\ Allowed(id)' = 1 /\ accepted[id] \in Nat /\ asked[id] \in Nat
          BY <3>3, <3>5 DEF Allowed, TypeOK
        <4>2. Posts(id)' \subseteq Posts(id)
          BY <1>1 DEF Posts, Pending
        <4>3. Budget(id)'
          BY <1>1, <3>3, <4>1, <4>2, FewerPosts DEF MailInv
        <4>4. ~\E w \in Worker : Delivering(w, id)'
          BY <1>1, <3>6 DEF Delivering
        <4>5. ~\E w \in Worker : Pending(w, id)'
          BY <4>4 DEF Delivering, Pending
        <4>6. Undisturbed(id)'
          BY <1>1, <3>5, <3>6, <4>4, <4>5 DEF Undisturbed
        <4>7. Seen(id)'
          <5>1. inbox[id].revision \in Nat /\ inbox[id].revision <= 0
            BY <3>3, <3>5 DEF MailInv, Seen, TypeOK
          <5> QED BY <1>1, <3>5, <5>1 DEF Seen
        <4> QED BY <4>3, <4>6, <4>7 DEF MailInv
      <3>8. ASSUME NEW i \in Reference, i # id  PROVE MailInv(i)'
        BY <1>1, <1>3, <3>2, <3>8, Quiet DEF AllMail
      <3> QED BY <3>7, <3>8 DEF AllMail
    <2> QED BY <1>4, <2>2, <2>3
  <1>6. UNCHANGED mail \/ \E m \in wire : Arrive(m)
    BY Zenon DEF Browser, Send, TimeOut, Edit, LoseRequest, HourPasses, database
  <1> QED BY <1>2, <1>4, <1>5, <1>6
-------------------------------------------------------------------------------
(***************************************************************************)
(* The invariant holds at first, and every step keeps it.                  *)
(***************************************************************************)
LEMMA InitHolds ==
  ASSUME Init
  PROVE  IInv
  <1>1. PICK t \in Text : form = [v \in Visitor |-> Empty(t)]
    BY DEF Init
  <1>2. PICK a \in Address : worker = [w \in Worker |-> Idle(a)]
    BY DEF Init
  <1>3. \A v \in Visitor : /\ form[v] \in Form /\ form[v].pc = "editing" /\ ~form[v].held
                           /\ form[v].last = 0
    BY <1>1, EmptyFacts
  <1>4. \A w \in Worker : worker[w] \in Lane /\ worker[w].pc = "idle"
    BY <1>2, IdleFacts
  <1>5. /\ wire = {} /\ window = [k \in Key |-> 0]
        /\ inbox = [id \in Reference |-> [revision |-> 0, copies |-> 0]]
        /\ enquiry = [id \in Reference |-> NoText] /\ mail = [id \in Reference |-> NoMail]
        /\ accepted = [id \in Reference |-> 0] /\ asked = [id \in Reference |-> 0]
    BY DEF Init
  <1>6. TypeOK
    <2>1. form \in [Visitor -> Form] /\ worker \in [Worker -> Lane]
      BY <1>1, <1>2, <1>3, <1>4
    <2>2. mail \in [Reference -> Notification]
      BY <1>5, NoMailFacts
    <2> QED BY <1>5, <2>1, <2>2 DEF TypeOK
  <1>7. Stored = {}
    BY <1>5 DEF Stored
  <1>8. BrowserInv
    <2>1. \A v \in Visitor : FormInv(v)
      BY <1>3 DEF FormInv
    <2>2. \A id \in Reference : StoredInv(id)
      BY <1>5, <1>7, NoMailFacts DEF StoredInv
    <2> QED BY <1>5, <2>1, <2>2 DEF BrowserInv
  <1>9. AllLanes
    BY <1>4 DEF AllLanes, LaneInv
  <1>10. ASSUME NEW id \in Reference  PROVE MailInv(id)
    <2>1. Posts(id) = {} /\ ~\E w \in Worker : Delivering(w, id) \/ Pending(w, id)
      BY <1>4 DEF Posts, Pending, Delivering
    <2>2. Allowed(id) = 1
      BY <1>5, NoMailFacts DEF Allowed
    <2>3. Budget(id)
      BY <1>5, <2>1, <2>2, FS_EmptySet DEF Budget
    <2>4. Undisturbed(id)
      BY <1>5, <2>1, NoMailFacts DEF Undisturbed
    <2>5. Seen(id)
      BY <1>5, NoMailFacts DEF Seen
    <2> QED BY <2>3, <2>4, <2>5 DEF MailInv
  <1> QED BY <1>6, <1>8, <1>9, <1>10 DEF IInv, AllLanes

LEMMA StepTyping ==
  ASSUME IInv, StallNext
  PROVE  TypeOK'
  BY TypingBrowser, TypingDeliver, TypingRest DEF IInv, StallNext, Next

LEMMA StepHolds ==
  ASSUME IInv, StallNext
  PROVE  IInv'
  <1>1. TypeOK /\ TypeOK' /\ BrowserInv /\ AllMail /\ AllLanes
    BY StepTyping DEF IInv, AllMail, AllLanes
  <1>2. SUFFICES BrowserInv' /\ AllMail' /\ AllLanes'
    BY <1>1 DEF IInv, AllMail, AllLanes
  <1>3. CASE Browser
    BY <1>1, <1>3, BrowserStep, BrowserMailStep
  <1>4. CASE Deliver
    <2>1. ASSUME NEW w \in Worker, SaveFails(w)  PROVE BrowserInv' /\ AllMail' /\ AllLanes'
      <3>1. worker[w].address \in Address
        BY <1>1 DEF TypeOK, Lane
      <3> QED BY <1>1, <2>1, <3>1, LaneEndsStep DEF SaveFails
    <2> QED BY <1>1, <1>4, <2>1, ClaimStep, SweepStep, PostStep, RecordStep DEF Deliver
  <1>5. CASE Owner
    BY <1>1, <1>5, OwnerStep
  <1>6. CASE Time \/ \E id \in Reference : LeaseLapses(id)
    BY <1>1, <1>6, TimeStep
  <1>7. CASE \E w \in Worker : Restart(w)
    BY <1>1, <1>7, LaneEndsStep DEF Restart
  <1> QED BY <1>3, <1>4, <1>5, <1>6, <1>7 DEF StallNext, Next

LEMMA StutterHolds ==
  ASSUME IInv, UNCHANGED vars
  PROVE  IInv'
  <1> USE DEF vars
  <1>1. Stored' = Stored /\ TypeOK'
    BY DEF Stored, TypeOK, IInv
  <1>2. BrowserInv'
    BY <1>1 DEF IInv, BrowserInv, FormInv, StoredInv, WireInv
  <1>3. \A w \in Worker : LaneInv(w)'
    BY DEF IInv, LaneInv
  <1>4. ASSUME NEW id \in Reference  PROVE MailInv(id)'
    <2>1. Posts(id)' = Posts(id) /\ Allowed(id)' = Allowed(id)
      BY DEF Posts, Pending, Allowed
    <2>2. Budget(id)' /\ Undisturbed(id)' /\ Seen(id)'
      BY <2>1 DEF IInv, MailInv, Budget, Undisturbed, Seen, Delivering, Pending
    <2> QED BY <2>2 DEF MailInv
  <1> QED BY <1>1, <1>2, <1>3, <1>4 DEF IInv

\* The inductive invariant, with processes that may be suspended.
THEOREM Invariant == StallSpec => []IInv
  <1>1. IInv /\ [StallNext]_vars => IInv'
    BY StepHolds, StutterHolds
  <1>2. [Next \/ \E id \in Reference : LeaseLapses(id)]_vars => [StallNext]_vars
    BY DEF StallNext
  <1> QED BY InitHolds, <1>1, <1>2, PTL DEF StallSpec

\* ... and without; the steps are among those.
THEOREM CalmInvariant == Spec => []IInv
  <1>1. IInv /\ [StallNext]_vars => IInv'
    BY StepHolds, StutterHolds
  <1>2. [Next]_vars => [StallNext]_vars
    BY DEF StallNext
  <1> QED BY InitHolds, <1>1, <1>2, PTL DEF Spec
-------------------------------------------------------------------------------
(***************************************************************************)
(* What follows.                                                           *)
(***************************************************************************)
LEMMA CopiesAreAskedFor == IInv => OneCopy
  <1> SUFFICES ASSUME IInv  PROVE OneCopy
    OBVIOUS
  <1>1. ASSUME NEW id \in Reference
        PROVE  accepted[id] <= 1 + asked[id] /\ (~mail[id].overtaken => accepted[id] <= 1)
    <2>1. MailInv(id) /\ accepted[id] \in Nat /\ asked[id] \in Nat
      BY DEF IInv, TypeOK
    <2>2. Cardinality(Posts(id)) \in Nat
      BY <2>1, FS_CardinalityType DEF MailInv, Budget
    <2>3. Allowed(id) \in Nat
      BY DEF Allowed
    <2>4. accepted[id] <= 1 + asked[id]
      BY <2>1, <2>2, <2>3 DEF MailInv, Budget
    <2> QED BY <2>1, <2>4 DEF MailInv, Undisturbed
  <1> QED BY <1>1 DEF OneCopy, IInv

\* The owner never receives a copy that was not asked for, nor two of an enquiry
\* whose delivery no suspended process disturbed.
THEOREM CopiesAsAsked == StallSpec => []OneCopy
  BY Invariant, CopiesAreAskedFor, PTL

\* A visitor is thanked only for what is stored as shown, and will be notified.
THEOREM ThanksAreTrue == Spec => []ThankedForWhatIsStored
  <1>1. IInv => ThankedForWhatIsStored
    <2> SUFFICES ASSUME IInv, NEW v \in Visitor, form[v].pc = "done"
                 PROVE  enquiry[<<v, form[v].last>>] = form[v].shown
                        /\ mail[<<v, form[v].last>>].state # "none"
      BY DEF ThankedForWhatIsStored
    <2>1. FormInv(v)
      BY DEF IInv, BrowserInv
    <2>2. PICK id \in Reference : id = <<v, form[v].last>>
      BY <2>1 DEF FormInv, Stored
    <2>3. StoredInv(id) /\ id \in Stored /\ id[1] = v /\ id[2] = form[v].last
      BY <2>1, <2>2 DEF IInv, BrowserInv, FormInv
    <2> QED BY <2>1, <2>2, <2>3 DEF FormInv, StoredInv
  <1> QED BY CalmInvariant, <1>1, PTL

\* A repeated request is never refused as somebody else's.
THEOREM ReferencesAreTheirOwn == Spec => []ReferenceIsItsOwn
  <1>1. IInv => ReferenceIsItsOwn
    BY DEF IInv, BrowserInv, WireInv, ReferenceIsItsOwn
  <1> QED BY CalmInvariant, <1>1, PTL
\* What a step may do to a notification.
Lawful(id) ==
    \/ mail'[id] = mail[id]
    \/ /\ mail[id].state # "sent"
       /\ mail[id].recipient # NoAddress => mail'[id].recipient = mail[id].recipient

LEMMA StepsAreLawful ==
  ASSUME IInv, StallNext, NEW id \in Reference
  PROVE  Lawful(id)
  <1>1. /\ TypeOK /\ AllLanes /\ mail[id] \in Notification
        /\ id \in Stored <=> mail[id].state # "none"
        /\ mail[id].state = "none" => mail[id] = NoMail
    BY DEF IInv, AllLanes, TypeOK, BrowserInv, StoredInv, MailInv, Seen
  <1>2. CASE UNCHANGED mail
    BY <1>2 DEF Lawful
  <1>3. ASSUME NEW m \in wire, Arrive(m)  PROVE Lawful(id)
    <2>1. Submit(m)
      BY <1>3 DEF Arrive
    <2>2. /\ m.id \in Reference
          /\ \/ m.id \notin Stored /\ mail' = [mail EXCEPT ![m.id] = Queued]
             \/ mail' = mail
      BY <1>1, <2>1, SubmitIs
    <2>3. CASE m.id = id /\ m.id \notin Stored
      BY <1>1, <2>3, NoMailFacts DEF Lawful
    <2>4. CASE ~(m.id = id /\ m.id \notin Stored)
      BY <1>1, <2>2, <2>4 DEF Lawful, TypeOK
    <2> QED BY <2>3, <2>4
  <1>4. ASSUME Expired(id), mail'[id] = Interrupted(mail[id])  PROVE Lawful(id)
    BY <1>1, <1>4, InterruptedFacts DEF Lawful, Expired
  <1>5. ASSUME NEW w \in Worker, NEW i \in Reference, Claim(w, i)  PROVE Lawful(id)
    <2>1. mail' = [j \in Reference |->
                       IF j = i THEN Taken(mail[j], worker[w].address)
                       ELSE IF Expired(j) THEN Interrupted(mail[j]) ELSE mail[j]]
      BY <1>1, <1>5, ClaimIs
    <2>2. Ready(i) /\ worker[w].address \in Address
      BY <1>1, <1>5 DEF Claim, TypeOK, Lane
    <2>3. CASE i = id
      <3>1. mail'[id] = Taken(mail[id], worker[w].address)
        BY <2>1, <2>3
      <3>2. mail[id].state = "queued" /\ mail[id].attempts < MaxAttempts
        BY <2>2, <2>3 DEF Ready
      <3> QED BY <1>1, <2>2, <3>1, <3>2, TakenFacts DEF Lawful
    <2>4. CASE i # id /\ Expired(id)
      BY <1>4, <2>1, <2>4
    <2>5. CASE i # id /\ ~Expired(id)
      BY <2>1, <2>5 DEF Lawful
    <2> QED BY <2>3, <2>4, <2>5
  <1>6. ASSUME NEW w \in Worker, Sweep(w)  PROVE Lawful(id)
    <2>1. mail'[id] = IF Expired(id) THEN Interrupted(mail[id]) ELSE mail[id]
      BY <1>6 DEF Sweep
    <2> QED BY <1>4, <2>1 DEF Lawful
  <1>7. ASSUME NEW w \in Worker, Record(w)  PROVE Lawful(id)
    <2>1. worker[w].pc = "answered" /\ LaneInv(w) /\ (OwnsMail(w) \/ mail' = mail)
      BY <1>1, <1>7, Zenon DEF Record, AllLanes
    <2>2. CASE mail' = mail
      BY <2>2 DEF Lawful
    <2>3. CASE OwnsMail(w)
      <3>1. PICK due \in BOOLEAN :
              mail' = [mail EXCEPT ![worker[w].id] = Settled(mail[worker[w].id], Result(w), due)]
        BY <1>1, <1>7, <2>1, <2>3, RecordIs
      <3>2. Result(w) \in MailStates
        BY <1>1, <2>1, ResultIs DEF MailStates
      <3>3. CASE worker[w].id = id
        <4>1. Settled(mail[id], Result(w), due).recipient = mail[id].recipient
          <5>1. PICK m \in Notification : m = mail[id]
            BY <1>1
          <5>2. PICK outcome \in MailStates : outcome = Result(w)
            BY <3>2
          <5>3. Settled(m, outcome, due).recipient = m.recipient
            BY SettledFacts
          <5> QED BY <5>1, <5>2, <5>3
        <4>2. mail'[id] = Settled(mail[id], Result(w), due) /\ mail[id].state = "sending"
          BY <2>3, <3>1, <3>3 DEF TypeOK, IInv, OwnsMail
        <4> QED BY <4>1, <4>2 DEF Lawful
      <3>4. CASE worker[w].id # id
        BY <1>1, <3>1, <3>4 DEF TypeOK, Lawful
      <3> QED BY <3>3, <3>4
    <2> QED BY <2>1, <2>2, <2>3
  <1>8. ASSUME NEW i \in Reference, NEW n, mail' = [mail EXCEPT ![i] = n],
               mail[i].state # "sent", n.recipient = mail[i].recipient
        PROVE  Lawful(id)
    BY <1>1, <1>8 DEF Lawful, TypeOK
  <1>9. ASSUME NEW i \in Reference, MarkSent(i) \/ SendAgain(i) \/ Retry(i)  PROVE Lawful(id)
    <2>1. PICK state \in MailStates : Decide(i, state)
      BY <1>9 DEF MarkSent, SendAgain, Retry, MailStates
    <2>2. PICK n : n = Decided(mail[i], state)
      OBVIOUS
    <2>3. mail' = [mail EXCEPT ![i] = n]
      BY <1>1, <2>1, <2>2, DecideIs
    <2>4. n.recipient = mail[i].recipient
      BY <1>1, <2>1, <2>2, DecidedFacts DEF TypeOK
    <2>5. mail[i].state # "sent"
      BY <1>9 DEF MarkSent, SendAgain, Retry
    <2> QED BY <1>8, <2>3, <2>4, <2>5
  <1>10. ASSUME NEW i \in Reference, BecomeDue(i)  PROVE Lawful(id)
    <2>1. mail' = [mail EXCEPT ![i] = Dated(mail[i])] /\ mail[i].state = "queued"
      BY <1>1, <1>10, BecomeDueIs, Zenon DEF BecomeDue
    <2>2. Dated(mail[i]).recipient = mail[i].recipient
      BY <1>1, DatedFacts DEF TypeOK
    <2> QED BY <1>8, <2>1, <2>2
  <1>11. ASSUME NEW i \in Reference, LeaseExpires(i)  PROVE Lawful(id)
    <2>1. mail' = [mail EXCEPT ![i] = Lapsed(mail[i])] /\ mail[i].state = "sending"
      BY <1>1, <1>11, LeaseExpiresIs, Zenon DEF LeaseExpires
    <2>2. Lapsed(mail[i]).recipient = mail[i].recipient
      BY <1>1, LapsedFacts DEF TypeOK
    <2> QED BY <1>8, <2>1, <2>2
  <1>12. ASSUME NEW i \in Reference, LeaseLapses(i)  PROVE Lawful(id)
    <2>1. mail' = [mail EXCEPT ![i] = Overtaken(mail[i])] /\ mail[i].state = "sending"
      BY <1>1, <1>12, LeaseLapsesIs, Zenon DEF LeaseLapses
    <2>2. Overtaken(mail[i]).recipient = mail[i].recipient
      BY <1>1, OvertakenFacts DEF TypeOK
    <2> QED BY <1>8, <2>1, <2>2
  <1>13. CASE Browser
    <2>1. UNCHANGED mail \/ \E m \in wire : Arrive(m)
      BY <1>13, Zenon DEF Browser, Send, TimeOut, Edit, LoseRequest, HourPasses, database
    <2> QED BY <1>2, <1>3, <2>1
  <1>14. CASE Deliver
    BY <1>2, <1>5, <1>6, <1>7, <1>14 DEF Deliver, Post, SaveFails, database
  <1>15. CASE Owner
    BY <1>2, <1>9, <1>15 DEF Owner, Look, database
  <1>16. CASE Time
    BY <1>10, <1>11, <1>16 DEF Time
  <1>17. CASE \E w \in Worker : Restart(w)
    BY <1>2, <1>17 DEF Restart, database
  <1> QED BY <1>12, <1>13, <1>14, <1>15, <1>16, <1>17 DEF StallNext, Next

\* Nothing changes a notification that is known to be sent, not even its dates.
THEOREM SentStays ==
  StallSpec => [][\A id \in Reference : mail[id].state = "sent" => mail'[id] = mail[id]]_vars
  <1>1. IInv /\ [StallNext]_vars =>
           [\A id \in Reference : mail[id].state = "sent" => mail'[id] = mail[id]]_vars
    BY StepsAreLawful DEF Lawful
  <1>2. [Next \/ \E id \in Reference : LeaseLapses(id)]_vars => [StallNext]_vars
    BY DEF StallNext
  <1> QED BY Invariant, <1>1, <1>2, PTL DEF StallSpec

\* The address of the first attempt is that of every later one.
THEOREM RecipientStays == StallSpec => RecipientIsKept
  <1>1. IInv /\ [StallNext]_vars =>
           [\A id \in Reference :
              mail[id].recipient # NoAddress => mail'[id].recipient = mail[id].recipient]_vars
    BY StepsAreLawful DEF Lawful
  <1>2. [Next \/ \E id \in Reference : LeaseLapses(id)]_vars => [StallNext]_vars
    BY DEF StallNext
  <1> QED BY Invariant, <1>1, <1>2, PTL DEF StallSpec, RecipientIsKept
-------------------------------------------------------------------------------
(***************************************************************************)
(* What is promised of each notification (Notice).                         *)
(*                                                                         *)
(* That a copy is due is what Budget counts; where it goes, and that a     *)
(* lane which reports success has had one accepted, is what a lane leaves  *)
(* a trace of (Traced).                                                    *)
(***************************************************************************)
Traced(w) ==
    LET id == worker[w].id IN
    /\ worker[w].pc # "idle" => mail[id].recipient # NoAddress
    /\ worker[w].pc = "answered" /\ worker[w].outcome = "sent" => accepted[id] > 0

AllTraced == \A w \in Worker : Traced(w)

TInv == IInv /\ AllTraced

LEMMA TracedStays ==
  ASSUME TInv, StallNext, NEW w \in Worker, worker'[w] = worker[w],
         \A id \in Reference : accepted'[id] >= accepted[id]
  PROVE  Traced(w)'
  <1>1. CASE worker[w].pc = "idle"
    BY <1>1 DEF Traced
  <1>2. CASE worker[w].pc # "idle"
    <2>1. PICK id \in Reference : worker[w].id = id
      BY <1>2 DEF TInv, IInv, LaneInv
    <2>2. Lawful(id) /\ Traced(w)
      BY StepsAreLawful DEF TInv, AllTraced
    <2>3. accepted[id] \in Nat /\ accepted'[id] \in Nat /\ accepted'[id] >= accepted[id]
      BY StepTyping DEF TInv, IInv, TypeOK
    <2> QED BY <2>1, <2>2, <2>3 DEF Traced, Lawful
  <1> QED BY <1>1, <1>2

LEMMA TracedHolds ==
  ASSUME TInv, StallNext
  PROVE  AllTraced'
  <1>1. /\ TypeOK /\ \A w \in Worker : worker[w] \in Lane /\ LaneInv(w) /\ Traced(w)
        /\ \A id \in Reference : accepted[id] \in Nat /\ mail[id] \in Notification
    BY DEF TInv, IInv, TypeOK, AllTraced
  <1>2. CASE UNCHANGED worker /\ UNCHANGED accepted
    BY <1>1, <1>2, TracedStays DEF AllTraced
  <1>3. ASSUME NEW w \in Worker, NEW id \in Reference, Claim(w, id)  PROVE AllTraced'
    <2>1. PICK t, a : /\ worker' = [worker EXCEPT ![w] = Claiming(worker[w], id, t, a)]
                      /\ t = mail[id].revision + 1 /\ a = mail[id].attempts + 1
      BY <1>1, <1>3, ClaimIs
    <2>2. UNCHANGED accepted /\ Ready(id)
      BY <1>3 DEF Claim, owner
    <2>3. t \in Nat /\ a \in 0..MaxAttempts
      BY <1>1, <2>1, <2>2, Limits DEF Ready, Notification
    <2>4. worker'[w].id = id /\ worker'[w].pc = "claimed"
      BY <1>1, <2>1, <2>3, ClaimingFacts DEF TypeOK
    <2>5. mail'[id].recipient # NoAddress
      <3>1. mail'[id] = Taken(mail[id], worker[w].address) /\ worker[w].address \in Address
        BY <1>1, <1>3, ClaimIs DEF Lane
      <3> QED BY <1>1, <2>2, <3>1, TakenFacts, AddressAssumption DEF Ready
    <2>6. Traced(w)'
      BY <2>4, <2>5 DEF Traced
    <2>7. ASSUME NEW u \in Worker, u # w  PROVE Traced(u)'
      BY <1>1, <2>1, <2>2, <2>7, TracedStays DEF TypeOK
    <2> QED BY <2>6, <2>7 DEF AllTraced
  <1>4. ASSUME NEW w \in Worker, Post(w)  PROVE AllTraced'
    <2>1. PICK outcome \in {"sent", "limited", "refused", "unknown"} :
            /\ worker' = [worker EXCEPT ![w] = Posted(worker[w], outcome)]
            /\ \/ /\ outcome \notin {"limited", "refused"}
                  /\ accepted' = [accepted EXCEPT ![worker[w].id] = @ + 1]
               \/ UNCHANGED accepted /\ outcome # "sent"
      BY <1>1, <1>4, PostIs
    <2>2. PICK id \in Reference : id = worker[w].id
      BY <1>1, <1>4 DEF Post, LaneInv
    <2>3. /\ \A i \in Reference : accepted'[i] >= accepted[i]
          /\ outcome = "sent" => accepted'[id] > 0
      BY <1>1, <2>1, <2>2 DEF TypeOK
    <2>4. worker'[w].id = id /\ worker'[w].pc = "answered" /\ worker'[w].outcome = outcome
      BY <1>1, <2>1, <2>2, PostedFacts DEF TypeOK
    <2>5. mail'[id].recipient # NoAddress
      <3>1. mail[id].recipient # NoAddress
        BY <1>1, <1>4, <2>2 DEF Traced, Post
      <3> QED BY <1>4, <3>1 DEF Post, database
    <2>6. Traced(w)'
      BY <2>3, <2>4, <2>5 DEF Traced
    <2>7. ASSUME NEW u \in Worker, u # w  PROVE Traced(u)'
      BY <1>1, <2>1, <2>3, <2>7, TracedStays DEF TypeOK
    <2> QED BY <2>6, <2>7 DEF AllTraced
  <1>5. ASSUME NEW w \in Worker, NEW a \in Address, worker' = [worker EXCEPT ![w] = Idle(a)],
               UNCHANGED accepted
        PROVE  AllTraced'
    <2>1. Traced(w)'
      BY <1>1, <1>5, IdleFacts DEF TypeOK, Traced
    <2>2. ASSUME NEW u \in Worker, u # w  PROVE Traced(u)'
      BY <1>1, <1>5, <2>2, TracedStays DEF TypeOK
    <2> QED BY <2>1, <2>2 DEF AllTraced
  <1>6. CASE Deliver
    <2>1. ASSUME NEW w \in Worker, Record(w) \/ SaveFails(w)  PROVE AllTraced'
      <3>1. worker' = [worker EXCEPT ![w] = Idle(worker[w].address)] /\ UNCHANGED owner
        BY <2>1, Zenon DEF Record, SaveFails
      <3> QED BY <1>1, <1>5, <3>1 DEF Lane, owner
    <2> QED BY <1>2, <1>3, <1>4, <1>6, <2>1 DEF Deliver, Sweep, owner
  <1>7. CASE \E w \in Worker : Restart(w)
    BY <1>5, <1>7 DEF Restart, owner
  <1>8. CASE Browser
    <2>1. UNCHANGED worker /\ UNCHANGED owner
      BY <1>8, Zenon DEF Browser, Send, TimeOut, Edit, Arrive, LoseRequest, HourPasses
    <2> QED BY <1>2, <2>1 DEF owner
  <1>9. CASE Owner
    BY <1>2, <1>9, Zenon DEF Owner, Look, MarkSent, SendAgain, Retry, owner
  <1>10. CASE Time \/ \E id \in Reference : LeaseLapses(id)
    <2>1. UNCHANGED worker /\ UNCHANGED owner
      BY <1>10, Zenon DEF Time, BecomeDue, LeaseExpires, LeaseLapses
    <2> QED BY <1>2, <2>1 DEF owner
  <1> QED BY <1>6, <1>7, <1>8, <1>9, <1>10 DEF StallNext, Next

LEMMA TracedInvariant == StallSpec => []TInv
  <1>1. Init => AllTraced
    BY IdleFacts DEF Init, AllTraced, Traced
  <1>2. TInv /\ [StallNext]_vars => AllTraced'
    <2>1. ASSUME TInv, UNCHANGED vars  PROVE AllTraced'
      BY <2>1 DEF vars, TInv, AllTraced, Traced
    <2> QED BY <2>1, TracedHolds
  <1>3. [Next \/ \E id \in Reference : LeaseLapses(id)]_vars => [StallNext]_vars
    BY DEF StallNext
  <1>4. TInv <=> IInv /\ AllTraced
    BY DEF TInv
  <1> QED BY Invariant, <1>1, <1>2, <1>3, <1>4, PTL DEF StallSpec

\* A copy is due while a notification is to be sent, and while a lane may post one.
LEMMA CopyIsDue ==
  ASSUME IInv, NEW id \in Reference,
         mail[id].state \in {"none", "queued", "failed"} \/ \E w \in Worker : Pending(w, id)
  PROVE  accepted[id] <= asked[id]
  <1>1. /\ Budget(id) /\ accepted[id] \in Nat /\ asked[id] \in Nat
        /\ Cardinality(Posts(id)) \in Nat /\ Allowed(id) \in {0, 1}
    BY FS_CardinalityType DEF IInv, MailInv, TypeOK, Budget, Allowed
  <1>2. CASE mail[id].state \in {"none", "queued", "failed"}
    <2>1. Allowed(id) = 1
      BY <1>2 DEF Allowed
    <2> QED BY <1>1, <2>1 DEF Budget
  <1>3. ASSUME NEW w \in Worker, Pending(w, id)  PROVE accepted[id] <= asked[id]
    <2>1. /\ Cardinality(Posts(id) \ {w}) = Cardinality(Posts(id)) - 1
          /\ Cardinality(Posts(id) \ {w}) \in Nat
      BY <1>1, <1>3, FS_RemoveElement, FS_CardinalityType DEF Budget, Posts
    <2> QED BY <1>1, <2>1 DEF Budget
  <1> QED BY <1>2, <1>3

\* What a step does to one notification, as Notice sees it.
KeepsPromise(id) == [Promised(id)!Next]_(Promised(id)!vars)

Same(id) ==
    /\ mail'[id].state = mail[id].state /\ mail'[id].recipient = mail[id].recipient
    /\ accepted'[id] = accepted[id] /\ asked'[id] = asked[id]

LEMMA SameKeeps ==
  ASSUME NEW id \in Reference, Same(id)
  PROVE  KeepsPromise(id)
  BY DEF Same, KeepsPromise, Promised!vars

LEMMA OrderKeeps ==
  ASSUME NEW id \in Reference,
         mail[id].state = "none", mail'[id].state = "queued",
         mail'[id].recipient = mail[id].recipient,
         accepted'[id] = accepted[id], asked'[id] = asked[id]
  PROVE  KeepsPromise(id)
  BY DEF KeepsPromise, Promised!Next, Promised!Order

LEMMA AttemptKeeps ==
  ASSUME NEW id \in Reference,
         mail[id].state = "queued", accepted[id] <= asked[id], mail'[id].state = "sending",
         mail'[id].recipient \in IF mail[id].recipient = NoAddress THEN Address
                                 ELSE {mail[id].recipient},
         accepted'[id] = accepted[id], asked'[id] = asked[id]
  PROVE  KeepsPromise(id)
  BY DEF KeepsPromise, Promised!Next, Promised!Attempt, Promised!Due

LEMMA AcceptKeeps ==
  ASSUME NEW id \in Reference,
         accepted[id] <= asked[id], mail[id].recipient # NoAddress,
         accepted'[id] = accepted[id] + 1, mail'[id] = mail[id], asked'[id] = asked[id]
  PROVE  KeepsPromise(id)
  BY DEF KeepsPromise, Promised!Next, Promised!Accept, Promised!Due

LEMMA ConcludeKeeps ==
  ASSUME NEW id \in Reference, NEW outcome \in {"queued", "sent", "failed", "uncertain"},
         mail[id].state = "sending", mail'[id].state = outcome,
         outcome = "sent" => accepted[id] > 0,
         outcome \in {"queued", "failed"} => accepted[id] <= asked[id],
         mail'[id].recipient = mail[id].recipient,
         accepted'[id] = accepted[id], asked'[id] = asked[id]
  PROVE  KeepsPromise(id)
  <1>1. Promised(id)!Conclude(outcome)
    BY DEF Promised!Conclude, Promised!Due
  <1> QED BY <1>1 DEF KeepsPromise, Promised!Next

LEMMA DecisionKeeps ==
  ASSUME NEW id \in Reference,
         mail'[id].recipient = mail[id].recipient, accepted'[id] = accepted[id],
         \/ /\ mail[id].state = "uncertain" /\ mail'[id].state = "sent"
            /\ asked'[id] = asked[id]
         \/ /\ mail[id].state = "uncertain" /\ mail'[id].state = "queued"
            /\ asked'[id] = asked[id] + 1
         \/ /\ mail[id].state = "failed" /\ mail'[id].state = "queued"
            /\ accepted[id] <= asked[id] /\ asked'[id] = asked[id]
  PROVE  KeepsPromise(id)
  BY DEF KeepsPromise, Promised!Next, Promised!MarkSent, Promised!SendAgain, Promised!Retry,
         Promised!Due

\* A notification no lane has to do with is left alone, or written off.
LEMMA UnclaimedKeeps ==
  ASSUME TypeOK, NEW id \in Reference, accepted' = accepted, asked' = asked,
         mail'[id] = mail[id] \/ (Expired(id) /\ mail'[id] = Interrupted(mail[id]))
  PROVE  KeepsPromise(id)
  <1>1. CASE mail'[id] = mail[id]
    BY <1>1, SameKeeps DEF Same
  <1>2. CASE Expired(id) /\ mail'[id] = Interrupted(mail[id])
    <2>1. mail[id] \in Notification
      BY DEF TypeOK
    <2> QED BY <1>2, <2>1, InterruptedFacts, ConcludeKeeps DEF Expired
  <1> QED BY <1>1, <1>2

LEMMA DeliverKeeps ==
  ASSUME TInv, Deliver, NEW id \in Reference
  PROVE  KeepsPromise(id)
  <1>1. /\ IInv /\ TypeOK /\ mail[id] \in Notification
        /\ \A w \in Worker : worker[w] \in Lane /\ LaneInv(w) /\ Traced(w)
    BY DEF TInv, AllTraced, IInv, TypeOK
  <1>2. ASSUME NEW w \in Worker, NEW i \in Reference, Claim(w, i)  PROVE KeepsPromise(id)
    <2>1. /\ mail' = [j \in Reference |->
                        IF j = i THEN Taken(mail[j], worker[w].address)
                        ELSE IF Expired(j) THEN Interrupted(mail[j]) ELSE mail[j]]
          /\ Ready(i) /\ accepted' = accepted /\ asked' = asked /\ worker[w].address \in Address
      BY <1>1, <1>2, ClaimIs DEF Claim, owner, Lane
    <2>2. CASE i = id
      <3>1. mail'[id] = Taken(mail[id], worker[w].address)
        BY <2>1, <2>2
      <3>2. mail[id].state = "queued" /\ mail[id].attempts < MaxAttempts
        BY <2>1, <2>2 DEF Ready
      <3>3. accepted[id] <= asked[id]
        BY <1>1, <3>2, CopyIsDue
      <3>4. /\ mail'[id].state = "sending"
            /\ mail'[id].recipient \in IF mail[id].recipient = NoAddress THEN Address
                                       ELSE {mail[id].recipient}
        BY <1>1, <2>1, <3>1, <3>2, TakenFacts
      <3> QED BY <2>1, <3>2, <3>3, <3>4, AttemptKeeps
    <2>3. CASE i # id
      BY <1>1, UnclaimedKeeps, <2>1, <2>3
    <2> QED BY <2>2, <2>3
  <1>3. ASSUME NEW w \in Worker, Sweep(w)  PROVE KeepsPromise(id)
    BY <1>1, UnclaimedKeeps, <1>3 DEF Sweep, owner
  <1>4. ASSUME NEW w \in Worker, Post(w)  PROVE KeepsPromise(id)
    <2>1. /\ worker[w].pc = "claimed" /\ UNCHANGED mail /\ UNCHANGED asked
          /\ \/ accepted' = [accepted EXCEPT ![worker[w].id] = @ + 1]
             \/ UNCHANGED accepted
      BY <1>4 DEF Post, database
    <2>2. CASE accepted'[id] = accepted[id]
      BY <2>1, <2>2, SameKeeps DEF Same
    <2>3. CASE worker[w].id = id /\ accepted' = [accepted EXCEPT ![worker[w].id] = @ + 1]
      <3>1. accepted[id] <= asked[id]
        BY <1>1, <2>1, <2>3, CopyIsDue DEF Pending
      <3>2. mail[id].recipient # NoAddress
        BY <1>1, <2>1, <2>3 DEF Traced
      <3>3. accepted'[id] = accepted[id] + 1
        BY <1>1, <2>3 DEF TypeOK
      <3> QED BY <2>1, <3>1, <3>2, <3>3, AcceptKeeps
    <2>4. accepted'[id] = accepted[id]
          \/ (worker[w].id = id /\ accepted' = [accepted EXCEPT ![worker[w].id] = @ + 1])
      BY <1>1, <2>1 DEF TypeOK
    <2> QED BY <2>2, <2>3, <2>4
  <1>5. ASSUME NEW w \in Worker, Record(w)  PROVE KeepsPromise(id)
    <2>1. /\ worker[w].pc = "answered" /\ accepted' = accepted /\ asked' = asked
          /\ OwnsMail(w) \/ mail' = mail
      BY <1>5, Zenon DEF Record, owner
    <2>2. CASE mail' = mail
      BY <1>1, UnclaimedKeeps, <2>1, <2>2
    <2>3. CASE OwnsMail(w)
      <3>1. PICK due \in BOOLEAN :
              mail' = [mail EXCEPT ![worker[w].id] = Settled(mail[worker[w].id], Result(w), due)]
        BY <1>1, <1>5, <2>3, RecordIs
      <3>2. CASE worker[w].id # id
        BY <1>1, UnclaimedKeeps, <2>1, <3>1, <3>2 DEF TypeOK
      <3>3. CASE worker[w].id = id
        <4>1. PICK outcome : outcome = Result(w)
          OBVIOUS
        <4>2. /\ outcome \in {"queued", "sent", "failed", "uncertain"}
              /\ outcome \in {"queued", "failed"} => worker[w].outcome \in {"limited", "refused"}
              /\ outcome = "sent" => worker[w].outcome = "sent"
          BY <1>1, <2>1, <4>1, ResultIs
        <4>3. mail[id].state = "sending" /\ mail'[id] = Settled(mail[id], outcome, due)
          BY <1>1, <2>3, <3>1, <3>3, <4>1 DEF TypeOK, OwnsMail
        <4>4. mail'[id].state = outcome /\ mail'[id].recipient = mail[id].recipient
          <5>1. PICK m \in Notification : m = mail[id]
            BY <1>1
          <5>2. outcome \in MailStates
            BY <4>2 DEF MailStates
          <5>3. Settled(m, outcome, due).state = outcome
                /\ Settled(m, outcome, due).recipient = m.recipient
            BY <3>1, <5>1, <5>2, SettledFacts
          <5> QED BY <4>3, <5>1, <5>3
        <4>5. outcome = "sent" => accepted[id] > 0
          BY <1>1, <2>1, <3>3, <4>2 DEF Traced
        <4>6. outcome \in {"queued", "failed"} => accepted[id] <= asked[id]
          BY <1>1, <2>1, <3>3, <4>2, CopyIsDue DEF Pending
        <4> QED BY <2>1, <4>2, <4>3, <4>4, <4>5, <4>6, ConcludeKeeps
      <3> QED BY <3>2, <3>3
    <2> QED BY <2>1, <2>2, <2>3
  <1>6. ASSUME NEW w \in Worker, SaveFails(w)  PROVE KeepsPromise(id)
    BY <1>1, UnclaimedKeeps, <1>6 DEF SaveFails, owner, database
  <1> QED BY <1>2, <1>3, <1>4, <1>5, <1>6 DEF Deliver

LEMMA OwnerKeeps ==
  ASSUME TInv, Owner, NEW id \in Reference
  PROVE  KeepsPromise(id)
  <1>1. IInv /\ TypeOK /\ mail[id] \in Notification
    BY DEF TInv, IInv, TypeOK
  <1>2. ASSUME NEW i \in Reference, NEW state \in MailStates, Decide(i, state)
        PROVE  /\ i # id => mail'[id] = mail[id]
               /\ i = id => mail'[id].state = state /\ mail'[id].recipient = mail[id].recipient
    <2>1. mail' = [mail EXCEPT ![i] = Decided(mail[i], state)]
      BY <1>1, <1>2, DecideIs
    <2>2. i # id => mail'[id] = mail[id]
      BY <1>1, <2>1 DEF TypeOK
    <2>3. i = id => mail'[id] = Decided(mail[id], state)
      BY <1>1, <2>1 DEF TypeOK
    <2> QED BY <1>1, <1>2, <2>2, <2>3, DecidedFacts
  <1>3. ASSUME NEW i \in Reference, Look(i)  PROVE KeepsPromise(id)
    BY <1>3, SameKeeps DEF Look, database, Same
  <1>4. ASSUME NEW i \in Reference, MarkSent(i)  PROVE KeepsPromise(id)
    <2>1. Decide(i, "sent") /\ mail[i].state = "uncertain" /\ UNCHANGED <<accepted, asked>>
      BY <1>4 DEF MarkSent, owner
    <2> QED BY <1>2, <2>1, SameKeeps, DecisionKeeps DEF Same, MailStates
  <1>5. ASSUME NEW i \in Reference, SendAgain(i)  PROVE KeepsPromise(id)
    <2>1. /\ Decide(i, "queued") /\ mail[i].state = "uncertain" /\ UNCHANGED accepted
          /\ asked' = [asked EXCEPT ![i] = @ + 1]
      BY <1>5 DEF SendAgain
    <2>2. asked'[id] = IF i = id THEN asked[id] + 1 ELSE asked[id]
      BY <1>1, <2>1 DEF TypeOK
    <2> QED BY <1>2, <2>1, <2>2, SameKeeps, DecisionKeeps DEF Same, MailStates
  <1>6. ASSUME NEW i \in Reference, Retry(i)  PROVE KeepsPromise(id)
    <2>1. Decide(i, "queued") /\ mail[i].state = "failed" /\ UNCHANGED <<accepted, asked>>
      BY <1>6 DEF Retry, owner
    <2>2. i = id => accepted[id] <= asked[id]
      BY <1>1, <2>1, CopyIsDue
    <2> QED BY <1>2, <2>1, <2>2, SameKeeps, DecisionKeeps DEF Same, MailStates
  <1> QED BY <1>3, <1>4, <1>5, <1>6 DEF Owner

LEMMA BrowserKeeps ==
  ASSUME TInv, Browser, NEW id \in Reference
  PROVE  KeepsPromise(id)
  <1>1. /\ TypeOK
        /\ id \in Stored <=> mail[id].state # "none"
        /\ mail[id].state = "none" => mail[id] = NoMail
    BY DEF TInv, IInv, BrowserInv, StoredInv, MailInv, Seen
  <1>2. UNCHANGED <<accepted, asked>> /\ (UNCHANGED mail \/ \E m \in wire : Arrive(m))
    BY Zenon DEF Browser, Send, TimeOut, Edit, Arrive, LoseRequest, HourPasses, database, owner
  <1>3. CASE mail'[id] = mail[id]
    BY <1>2, <1>3, SameKeeps DEF Same
  <1>4. ASSUME NEW m \in wire, Arrive(m)  PROVE KeepsPromise(id)
    <2>1. /\ m.id \in Reference
          /\ \/ m.id \notin Stored /\ mail' = [mail EXCEPT ![m.id] = Queued]
             \/ mail' = mail
      BY <1>1, <1>4, SubmitIs DEF Arrive
    <2>2. CASE m.id = id /\ id \notin Stored /\ mail' = [mail EXCEPT ![m.id] = Queued]
      <3>1. mail'[id] = Queued /\ mail[id] = NoMail
        BY <1>1, <2>2 DEF TypeOK
      <3> QED BY <1>2, <3>1, QueuedFacts, NoMailFacts, OrderKeeps
    <2>3. CASE m.id # id \/ mail' = mail
      BY <1>1, <1>3, <2>1, <2>3 DEF TypeOK
    <2> QED BY <2>1, <2>2, <2>3
  <1> QED BY <1>2, <1>3, <1>4

LEMMA TimeKeeps ==
  ASSUME TInv, NEW id \in Reference,
         Time \/ (\E i \in Reference : LeaseLapses(i)) \/ \E w \in Worker : Restart(w)
  PROVE  KeepsPromise(id)
  <1>1. TypeOK /\ \A i \in Reference : mail[i] \in Notification
    BY DEF TInv, IInv, TypeOK
  <1>2. UNCHANGED <<accepted, asked>>
    BY Zenon DEF Time, BecomeDue, LeaseExpires, LeaseLapses, Restart, owner
  <1>3. ASSUME NEW i \in Reference, NEW n, mail' = [mail EXCEPT ![i] = n],
               n.state = mail[i].state, n.recipient = mail[i].recipient
        PROVE  KeepsPromise(id)
    BY <1>1, <1>2, <1>3, SameKeeps DEF Same, TypeOK
  <1>4. ASSUME NEW i \in Reference, BecomeDue(i)  PROVE KeepsPromise(id)
    BY <1>1, <1>3, <1>4, BecomeDueIs, DatedFacts
  <1>5. ASSUME NEW i \in Reference, LeaseExpires(i)  PROVE KeepsPromise(id)
    BY <1>1, <1>3, <1>5, LeaseExpiresIs, LapsedFacts
  <1>6. ASSUME NEW i \in Reference, LeaseLapses(i)  PROVE KeepsPromise(id)
    BY <1>1, <1>3, <1>6, LeaseLapsesIs, OvertakenFacts
  <1>7. CASE \E w \in Worker : Restart(w)
    BY <1>2, <1>7, SameKeeps DEF Restart, database, Same
  <1> QED BY <1>4, <1>5, <1>6, <1>7 DEF Time

\* The form, the lanes, their claims and restarts implement what is promised of
\* each notification, also when lanes are suspended beyond their claims.
THEOREM DeliveryKeepsItsPromise == StallSpec => DeliveredAsPromised
  <1>1. Init => \A id \in Reference : Promised(id)!Init
    BY DEF Init, Promised!Init, NoMail
  <1>2. TInv /\ [StallNext]_vars =>
           [\A id \in Reference : [Promised(id)!Next]_(Promised(id)!vars)]_vars
    <2> SUFFICES ASSUME TInv, StallNext, NEW id \in Reference  PROVE KeepsPromise(id)
      BY DEF KeepsPromise
    <2> QED BY DeliverKeeps, OwnerKeeps, BrowserKeeps, TimeKeeps DEF StallNext, Next
  <1>3. [Next \/ \E id \in Reference : LeaseLapses(id)]_vars => [StallNext]_vars
    BY DEF StallNext
  <1> QED BY TracedInvariant, <1>1, <1>2, <1>3, PTL DEF StallSpec, DeliveredAsPromised
===============================================================================
