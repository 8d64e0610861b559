--------------------------- MODULE EnquiryDelivery ----------------------------
(***************************************************************************)
(* An enquiry on its way from the visitor to the owner: the form in the    *)
(* browser, which sends again what it could not get confirmed; the web     *)
(* process, which stores the enquiry and queues one notification in the    *)
(* same transaction; the mail lane of the worker processes, which claims a *)
(* notification, posts it to Brevo and records the outcome; and the owner, *)
(* who decides about those whose outcome is unknown.                       *)
(*                                                                         *)
(* Names, statuses and the grouping by customer are data nothing here      *)
(* depends on; one execution scope is modelled.  That a form is opened     *)
(* again after a reload is another element of Visitor.                     *)
(***************************************************************************)
EXTENDS Naturals, FiniteSets

CONSTANTS
    Visitor,      \* forms opened on the site
    Email,        \* e-mail addresses
    EmailOf,      \* the address each visitor gives
    Text,         \* what the fields of the form may hold
    TooLong,      \* texts the server refuses
    NoText,       \* what is stored under a reference nobody has used
    Worker,       \* worker processes with a mail lane
    Address,      \* what COMPANY_EMAIL may be set to
    NoAddress,    \* recipient of a notification that was never attempted
    MaxAttempts,  \* posts of a notification before it fails
    PerAddress,   \* admissions of one address within the hour
    PerHour,      \* admissions of all addresses within the hour
    Capacity,     \* enquiries the inbox holds
    MaxRequests,  \* bound: references a form makes up
    MaxSends,     \* bound: times a form is sent
    MaxRevision   \* bound: the owner leaves a notification revised this often alone

ASSUME EmailAssumption == EmailOf \in [Visitor -> Email]
ASSUME TextAssumption == TooLong \subseteq Text /\ NoText \notin Text
ASSUME AddressAssumption == NoAddress \notin Address
ASSUME LimitsAssumption == {MaxAttempts, PerAddress, PerHour, Capacity} \subseteq Nat \ {0}
ASSUME BoundsAssumption == {MaxRequests, MaxSends, MaxRevision} \subseteq Nat

VARIABLES
    form,      \* the enquiry form in each browser
    wire,      \* requests on their way to the web process
    enquiry,   \* rows of enquiries: the text stored under each reference
    window,    \* rows of enquiry_windows: admissions within the hour
    mail,      \* rows of enquiry_notifications
    worker,    \* the mail lane of each worker process
    accepted,  \* copies Brevo has accepted (what its log shows)
    inbox,     \* what the owner last saw of each notification
    asked      \* times the owner had a notification queued again (observer)

browser == <<form, wire>>
database == <<enquiry, window, mail>>
owner == <<accepted, inbox, asked>>
vars == <<form, wire, enquiry, window, mail, worker, accepted, inbox, asked>>

Reference == Visitor \X (1..MaxRequests)
Everybody == "everybody"
Key == Email \cup {Everybody}
NoReference == <<>>

Form == [pc : {"editing", "sending", "done"},
         shown : Text,             \* what the fields hold
         held : BOOLEAN,           \* pendingRequest is set ...
         kept : Text,              \* ... to a request with this text
         last : 0..MaxRequests,    \* references made up so far
         sends : 0..MaxSends]
Message == [id : Reference, text : Text, send : 1..MaxSends]
Notification == [state : {"none", "queued", "sending", "sent", "failed", "uncertain"},
                 revision : Nat, attempts : 0..MaxAttempts,
                 due : BOOLEAN,     \* available_at has passed
                 lapsed : BOOLEAN,  \* lease_until has passed
                 overtaken : BOOLEAN, \* history: it once passed in mid-delivery
                 token : Nat,       \* claim_token: the revision its claim made
                 recipient : Address \cup {NoAddress}]
Lane == [pc : {"idle", "claimed", "answered"},
         address : Address,         \* as configured when the process started
         id : Reference \cup {NoReference}, token : Nat, attempts : 0..MaxAttempts,
         outcome : {"none", "sent", "limited", "refused", "unknown"}]

TypeOK ==
    /\ form \in [Visitor -> Form]
    /\ wire \subseteq Message
    /\ enquiry \in [Reference -> Text \cup {NoText}]
    /\ window \in [Key -> Nat]
    /\ mail \in [Reference -> Notification]
    /\ worker \in [Worker -> Lane]
    /\ accepted \in [Reference -> Nat]
    /\ inbox \in [Reference -> [revision : Nat, copies : Nat]]
    /\ asked \in [Reference -> Nat]

Empty(t) == [pc |-> "editing", shown |-> t, held |-> FALSE, kept |-> t, last |-> 0, sends |-> 0]
NoMail == [state |-> "none", revision |-> 0, attempts |-> 0, due |-> FALSE,
           lapsed |-> FALSE, overtaken |-> FALSE, token |-> 0, recipient |-> NoAddress]
Idle(address) == [pc |-> "idle", address |-> address, id |-> NoReference, token |-> 0,
                  attempts |-> 0, outcome |-> "none"]

Init ==
    /\ \E t \in Text : form = [v \in Visitor |-> Empty(t)]
    /\ wire = {}
    /\ enquiry = [id \in Reference |-> NoText]
    /\ window = [k \in Key |-> 0]
    /\ mail = [id \in Reference |-> NoMail]
    /\ \E a \in Address : worker = [w \in Worker |-> Idle(a)]
    /\ accepted = [id \in Reference |-> 0]
    /\ inbox = [id \in Reference |-> [revision |-> 0, copies |-> 0]]
    /\ asked = [id \in Reference |-> 0]

Stored == {id \in Reference : enquiry[id] # NoText}
-------------------------------------------------------------------------------
(***************************************************************************)
(* The form.                                                               *)
(***************************************************************************)
\* Fault: the fields are enabled whenever nothing is being sent.
EditAnytime(v, text) ==
    /\ form[v].pc = "editing" /\ form[v].shown # text
    /\ form' = [form EXCEPT ![v].shown = text]
    /\ UNCHANGED <<wire, database, worker, owner>>

\* The fields are disabled while a request awaits its confirmation.
Edit(v, text) ==
    /\ form[v].pc = "editing" /\ ~form[v].held /\ form[v].shown # text
    /\ form' = [form EXCEPT ![v].shown = text]
    /\ UNCHANGED <<wire, database, worker, owner>>

\* Fault: a request that is sent again is made up anew under its reference.
RebuiltOften(v) ==
    [form[v] EXCEPT !.held = TRUE, !.kept = CHOOSE t \in Text : form[v].held => t # @,
                    !.last = IF form[v].held THEN @ ELSE @ + 1]

\* A request that awaits its confirmation is sent again as it was.
Prepared(v) ==
    IF form[v].held THEN form[v]
    ELSE [form[v] EXCEPT !.held = TRUE, !.kept = form[v].shown, !.last = @ + 1]

Send(v) ==
    /\ form[v].pc = "editing" /\ form[v].sends < MaxSends
    /\ form[v].held \/ form[v].last < MaxRequests
    /\ LET f == [Prepared(v) EXCEPT !.pc = "sending", !.sends = @ + 1] IN
       /\ form' = [form EXCEPT ![v] = f]
       /\ wire' = wire \cup {[id |-> <<v, f.last>>, text |-> f.kept, send |-> f.sends]}
    /\ UNCHANGED <<database, worker, owner>>

\* What the form makes of an answer.  Below 500 the server has refused the
\* request for good; above, the request may have been stored.
Answered(v, status) ==
    CASE status = 200 -> [form[v] EXCEPT !.pc = "done"]
      [] status \in {400, 409, 429} -> [form[v] EXCEPT !.pc = "editing", !.held = FALSE]
      [] OTHER -> [form[v] EXCEPT !.pc = "editing"]

\* No answer in time.  The request may still be on its way.
TimeOut(v) ==
    /\ form[v].pc = "sending"
    /\ form' = [form EXCEPT ![v].pc = "editing"]
    /\ UNCHANGED <<wire, database, worker, owner>>
-------------------------------------------------------------------------------
(***************************************************************************)
(* The web process: submit, in one transaction.                            *)
(***************************************************************************)
Keys(id) == {EmailOf[id[1]], Everybody}
Full(id) == window[EmailOf[id[1]]] >= PerAddress \/ window[Everybody] >= PerHour

Status(m) ==
    IF m.text \in TooLong THEN 400
    ELSE IF m.id \in Stored THEN IF enquiry[m.id] = m.text THEN 200 ELSE 409
    ELSE IF Cardinality(Stored) >= Capacity THEN 503
    ELSE IF Full(m.id) THEN 429
    ELSE 200

\* A repeated request is confirmed without being counted or stored again.
Counted(m) == Status(m) = 200 /\ m.id \notin Stored

Submit(m) ==
    /\ enquiry' = IF Status(m) = 200 THEN [enquiry EXCEPT ![m.id] = m.text] ELSE enquiry
    /\ window' = [k \in Key |-> window[k] + IF Counted(m) /\ k \in Keys(m.id) THEN 1 ELSE 0]
    /\ mail' = IF Status(m) = 200 /\ m.id \notin Stored
               THEN [mail EXCEPT ![m.id] = [NoMail EXCEPT !.state = "queued", !.revision = 1,
                                                          !.due = TRUE]]
               ELSE mail

\* A request arrives, at once or late, and its answer reaches the form or not.
Arrive(m) ==
    LET v == m.id[1] IN
    /\ wire' = wire \ {m}
    /\ Submit(m)
    /\ \/ UNCHANGED form
       \/ /\ form[v].pc = "sending" /\ form[v].sends = m.send
          /\ form' = [form EXCEPT ![v] = Answered(v, Status(m))]
    /\ UNCHANGED <<worker, owner>>

LoseRequest(m) ==
    /\ wire' = wire \ {m}
    /\ UNCHANGED <<form, database, worker, owner>>

\* An hour has passed since the first admission of a window.
HourPasses(k) ==
    /\ window[k] > 0
    /\ window' = [window EXCEPT ![k] = 0]
    /\ UNCHANGED <<browser, enquiry, mail, worker, owner>>
-------------------------------------------------------------------------------
(***************************************************************************)
(* The mail lane.                                                          *)
(***************************************************************************)
Interrupted(m) == [m EXCEPT !.state = "uncertain", !.revision = @ + 1]

Attempted(m) ==
    [m EXCEPT !.state = "sending", !.attempts = @ + 1, !.revision = @ + 1,
              !.token = m.revision + 1, !.lapsed = FALSE]

\* Fault: the copy goes to the address the process is configured with.
TakenHere(m, address) == [Attempted(m) EXCEPT !.recipient = address]

Taken(m, address) ==
    [Attempted(m) EXCEPT !.recipient = IF @ = NoAddress THEN address ELSE @]

\* Fault: a claim for the last attempt is not looked at again.
ExpiredBeforeLast(id) ==
    mail[id].state = "sending" /\ mail[id].lapsed /\ mail[id].attempts < MaxAttempts

Expired(id) == mail[id].state = "sending" /\ mail[id].lapsed
Ready(id) == mail[id].state = "queued" /\ mail[id].due /\ mail[id].attempts < MaxAttempts

\* One transaction writes off the claims that have expired and claims the
\* next notification.
Claim(w, id) ==
    /\ worker[w].pc = "idle" /\ Ready(id)
    /\ mail' = [i \in Reference |->
                  IF i = id THEN Taken(mail[i], worker[w].address)
                  ELSE IF Expired(i) THEN Interrupted(mail[i]) ELSE mail[i]]
    /\ worker' = [worker EXCEPT ![w].pc = "claimed", ![w].id = id,
                                ![w].token = mail[id].revision + 1,
                                ![w].attempts = mail[id].attempts + 1]
    /\ UNCHANGED <<browser, enquiry, window, owner>>

Sweep(w) ==
    /\ worker[w].pc = "idle"
    /\ \E i \in Reference : Expired(i)
    /\ ~\E i \in Reference : Ready(i)
    /\ mail' = [i \in Reference |-> IF Expired(i) THEN Interrupted(mail[i]) ELSE mail[i]]
    /\ UNCHANGED <<browser, enquiry, window, worker, owner>>

\* Brevo accepts the copy and says so; or refuses it, for now or for good; or
\* nobody can tell: a timeout, a failure of the server, an unreadable receipt,
\* or the refusal of a duplicate.
Post(w) ==
    LET id == worker[w].id IN
    /\ worker[w].pc = "claimed"
    /\ \/ /\ accepted' = [accepted EXCEPT ![id] = @ + 1]
          /\ \E outcome \in {"sent", "unknown"} :
                worker' = [worker EXCEPT ![w].pc = "answered", ![w].outcome = outcome]
       \/ /\ \E outcome \in {"limited", "refused", "unknown"} :
                worker' = [worker EXCEPT ![w].pc = "answered", ![w].outcome = outcome]
          /\ UNCHANGED accepted
    /\ UNCHANGED <<browser, database, inbox, asked>>

Limited(attempts) == IF attempts < MaxAttempts THEN "queued" ELSE "failed"

Result(w) ==
    CASE worker[w].outcome = "sent" -> "sent"
      [] worker[w].outcome = "refused" -> "failed"
      [] worker[w].outcome = "limited" -> Limited(worker[w].attempts)
      [] worker[w].outcome = "unknown" -> "uncertain"

\* Fault: the token alone decides, which expiry and the owner leave in place.
OwnsByToken(w) == mail[worker[w].id].token = worker[w].token

OwnsMail(w) == LET m == mail[worker[w].id] IN m.state = "sending" /\ m.token = worker[w].token

Record(w) ==
    LET id == worker[w].id IN
    /\ worker[w].pc = "answered"
    /\ mail' = IF OwnsMail(w)
               THEN [mail EXCEPT ![id].state = Result(w), ![id].revision = @ + 1,
                                 ![id].due = worker[w].outcome # "limited",
                                 ![id].lapsed = FALSE, ![id].token = 0]
               ELSE mail
    /\ worker' = [worker EXCEPT ![w] = Idle(worker[w].address)]
    /\ UNCHANGED <<browser, enquiry, window, owner>>

\* The outcome cannot be saved.
SaveFails(w) ==
    /\ worker[w].pc = "answered"
    /\ worker' = [worker EXCEPT ![w] = Idle(worker[w].address)]
    /\ UNCHANGED <<browser, database, owner>>

\* The process crashes, or is restarted with another configuration.
Restart(w) ==
    /\ \E a \in Address :
          /\ worker[w] # Idle(a)
          /\ worker' = [worker EXCEPT ![w] = Idle(a)]
    /\ UNCHANGED <<browser, database, owner>>

\* Time passes: a notification that was put off becomes due ...
BecomeDue(id) ==
    /\ mail[id].state = "queued" /\ ~mail[id].due
    /\ mail' = [mail EXCEPT ![id].due = TRUE]
    /\ UNCHANGED <<browser, enquiry, window, worker, owner>>

\* ... and the lease of a claim runs out, which is longer than a post may
\* take, so its process is gone ...
Delivering(w, id) == worker[w].pc # "idle" /\ worker[w].id = id
LeaseExpires(id) ==
    /\ mail[id].state = "sending" /\ ~mail[id].lapsed
    /\ ~\E w \in Worker : Delivering(w, id)
    /\ mail' = [mail EXCEPT ![id].lapsed = TRUE]
    /\ UNCHANGED <<browser, enquiry, window, worker, owner>>

\* ... or is suspended.
LeaseLapses(id) ==
    /\ mail[id].state = "sending" /\ ~mail[id].lapsed
    /\ \E w \in Worker : Delivering(w, id)
    /\ mail' = [mail EXCEPT ![id].lapsed = TRUE, ![id].overtaken = TRUE]
    /\ UNCHANGED <<browser, enquiry, window, worker, owner>>
-------------------------------------------------------------------------------
(***************************************************************************)
(* The owner, who looks at the inbox and at Brevo's log and then decides.  *)
(***************************************************************************)
Look(id) ==
    /\ id \in Stored /\ mail[id].revision < MaxRevision
    /\ inbox[id] # [revision |-> mail[id].revision, copies |-> accepted[id]]
    /\ inbox' = [inbox EXCEPT ![id] = [revision |-> mail[id].revision,
                                       copies |-> accepted[id]]]
    /\ UNCHANGED <<browser, database, worker, accepted, asked>>

\* Fault: the revision the owner saw is not compared.
UnseenToo(id) == mail[id].revision < MaxRevision

Unchanged(id) == inbox[id].revision = mail[id].revision

Decide(id, state) ==
    mail' = [mail EXCEPT ![id].state = state, ![id].revision = @ + 1, ![id].attempts = 0,
                         ![id].due = TRUE]

\* resolveNotification
MarkSent(id) ==
    /\ mail[id].state = "uncertain" /\ Unchanged(id)
    /\ Decide(id, "sent")
    /\ UNCHANGED <<browser, enquiry, window, worker, owner>>

SendAgain(id) ==
    /\ mail[id].state = "uncertain" /\ Unchanged(id)
    /\ inbox[id].copies = 0
    /\ Decide(id, "queued")
    /\ asked' = [asked EXCEPT ![id] = @ + 1]
    /\ UNCHANGED <<browser, enquiry, window, worker, accepted, inbox>>

\* retryNotification
Retry(id) ==
    /\ mail[id].state = "failed" /\ Unchanged(id)
    /\ Decide(id, "queued")
    /\ UNCHANGED <<browser, enquiry, window, worker, owner>>
-------------------------------------------------------------------------------
Browser ==
    \/ \E v \in Visitor : Send(v) \/ TimeOut(v) \/ \E t \in Text : Edit(v, t)
    \/ \E m \in wire : Arrive(m) \/ LoseRequest(m)
    \/ \E k \in Key : HourPasses(k)

Deliver ==
    \/ \E w \in Worker : Sweep(w) \/ Post(w) \/ Record(w) \/ SaveFails(w)
    \/ \E w \in Worker, id \in Reference : Claim(w, id)

Owner == \E id \in Reference : Look(id) \/ MarkSent(id) \/ SendAgain(id) \/ Retry(id)

Time == \E id \in Reference : BecomeDue(id) \/ LeaseExpires(id)

Next == Browser \/ Deliver \/ Owner \/ Time \/ \E w \in Worker : Restart(w)

Spec == Init /\ [][Next]_vars

\* With processes that may be suspended beyond the lease of their claim; the
\* lane polls every two seconds, posts time out, and time passes.
StallSpec ==
    /\ Init
    /\ [][Next \/ \E id \in Reference : LeaseLapses(id)]_vars
    /\ WF_vars(Deliver)
    /\ \A id \in Reference : WF_vars(BecomeDue(id) \/ LeaseExpires(id))
-------------------------------------------------------------------------------
(***************************************************************************)
(* Properties.                                                             *)
(***************************************************************************)
\* An owner who has a notification queued again only when Brevo's log shows
\* no copy of it never receives two copies; if a process was suspended while it
\* delivered one, there is still no second copy the owner has not asked for.
\* (With the types of the variables.)
OneCopy ==
    /\ TypeOK
    /\ \A id \in Reference :
          /\ accepted[id] <= 1 + asked[id]
          /\ ~mail[id].overtaken => accepted[id] <= 1

Promised(id) == INSTANCE Notice WITH
    state <- mail[id].state, recipient <- mail[id].recipient,
    copies <- accepted[id], asked <- asked[id]

\* A lost response never becomes an automatic second e-mail (enquiry-mail.ts:53):
\* what happens to a notification, whoever comes back late with what outcome, is
\* what Notice allows.  (This is \A id \in Reference : Promised(id)!Spec.)
DeliveredAsPromised ==
    /\ \A id \in Reference : Promised(id)!Init
    /\ [][\A id \in Reference : [Promised(id)!Next]_(Promised(id)!vars)]_vars

\* Every copy of a notification goes to the address of the first one.
RecipientIsKept ==
    [][\A id \in Reference :
          mail[id].recipient # NoAddress => mail'[id].recipient = mail[id].recipient]_vars

\* A visitor is thanked only for what is stored, as it was shown to be sent,
\* and of which the owner will be notified.
ThankedForWhatIsStored ==
    \A v \in Visitor : form[v].pc = "done" =>
        LET id == <<v, form[v].last>> IN
        enquiry[id] = form[v].shown /\ mail[id].state # "none"

\* A form that sends again is never told that its reference belongs to
\* another enquiry.
ReferenceIsItsOwn ==
    \A m \in wire : m.id \in Stored => enquiry[m.id] = m.text

\* Every notification is delivered, refused, or left to the owner: none waits in
\* the queue for an attempt it no longer has, none is lost with its process.
NotificationSettles ==
    \A id \in Reference :
        mail[id].state \in {"queued", "sending"} ~>
            mail[id].state \in {"sent", "failed", "uncertain"}
===============================================================================
