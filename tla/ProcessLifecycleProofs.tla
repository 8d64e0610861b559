------------------------ MODULE ProcessLifecycleProofs -----------------------
(* Proofs about ProcessLifecycle, for every setting a process can be started
   with, every file it may find, and any number of requests in flight.

   The invariant follows the two sequences of a process.  StartInv and ClosingInv
   say what each step of the start, and each step of the shutdown, leaves behind;
   RoleInv what each of the two processes never does.  The steps of the start and
   those of the shutdown overlap when a step fails: DatabaseInv is what both keep,
   that the database is open from its opening to the last step of the shutdown,
   whichever way that was reached, and that the file is verified meanwhile. *)
EXTENDS ProcessLifecycle, TLAPS

--------------------------------------------------------------------------------
(* The inductive invariant. *)

Quiet == ~accepting /\ ~lane /\ work = {}

(* What keeps a process alive that is ready and was not asked to go. *)
Anchor ==
  IF settings.role = "web" THEN "server"
  ELSE IF settings.validation THEN "channel"
  ELSE IF Production THEN "lease" ELSE "lifetime"

Before == {"load", "open", "migrate", "compose", "listen"}
Running == {"announce", "ready", "failing"}

RoleInv ==
  /\ settings.role = "web" => ~lane /\ work \subseteq Requests /\ held \subseteq {"server"}
  /\ settings.role = "worker" => InFlight = {}
  /\ Validating => Quiet /\ "timers" \notin held
  /\ start = "listen" => settings.role = "web"
  /\ start \in {"acquire", "recover"} => settings.role = "worker" /\ ~settings.validation
  /\ start = "announce" => Validating

(* One step of the start after the other: what it leaves behind. *)
StartInv ==
  /\ start \in Before \cup {"killed"} => held = {} /\ Quiet
  /\ start \in Before \cup {"bind", "acquire", "recover"} => faults = {} /\ exit = 0
  /\ start \in Before \cup {"bind", "acquire", "recover", "killed"} => closing = "no"
  /\ start = "bind" => ~lane /\ (accepting <=> settings.role = "web")
  /\ start = "bind" /\ settings.role = "web" => "server" \in held
  /\ start \in {"acquire", "recover"} => Quiet
  /\ start = "recover" => Anchor \in held
  /\ start = "ready" /\ closing = "no" => Anchor \in held
  /\ "timers" \in held /\ Production => "lease" \in held
  /\ work # {} => start = "ready"
  /\ start \in {"announce", "failed", "aborted"} => Quiet
  /\ start = "failing" => closing # "no" /\ ~lane

(* The database is open from its opening to the last step of the shutdown. *)
DatabaseInv ==
  /\ closes.closed <= closes.opened
  /\ start \in {"load", "open"} => closes.opened = 0
  /\ start \in {"migrate", "compose", "listen", "bind", "acquire", "recover"} => Opened
  /\ start \in Running => (Opened <=> closing # "done")
  /\ start \in {"failed", "exited", "aborted"} => ~Opened
  /\ start \in Running \cup {"compose", "listen", "bind", "acquire", "recover"} => file = Current

(* One step of the shutdown after the other: what it leaves behind. *)
ClosingInv ==
  /\ closing = "http" => settings.role = "web"
  /\ closing \in {"mail", "release", "drain"} => settings.role = "worker" /\ ~settings.validation
  /\ closing # "no" => ~lane /\ (settings.role = "web" => ~accepting)
  /\ closing \in {"release", "drain", "dispose", "done"} => "mail" \notin work
  /\ closing \in {"drain", "dispose", "done"} => ~accepting
  /\ closing \in {"dispose", "done"} =>
       /\ "job" \in work => "drain" \in faults
       /\ InFlight # {} => "http" \in faults
  /\ start \in {"failed", "exited", "aborted"} => closing \in {"no", "done"}
  /\ start \in {"announce", "ready", "exited"} /\ closing # "no" => asked
  /\ start \in Running /\ closing # "done" => exit = 0
  /\ start \in Running /\ closing = "done" => (exit = 1 <=> faults # {})
  /\ start \in {"failed", "aborted"} => exit = 1
  /\ start = "exited" => Quiet /\ asked /\ (exit = 1 <=> faults # {})

IInv == TypeOK /\ RoleInv /\ StartInv /\ DatabaseInv /\ ClosingInv
--------------------------------------------------------------------------------
(* The database file. *)

LEMMA CurrentFacts ==
  /\ Current \in Files
  /\ Current.ledger = "current" /\ Current.sound /\ Current.canonical /\ Current.quiet
  /\ [Current EXCEPT !.ledger = "empty"] \in Files
  BY DEF Current, Files

(* Which files there are. *)
LEMMA FileFacts ==
  ASSUME NEW f \in Files
  PROVE  /\ f = [ledger |-> f.ledger, sound |-> f.sound, canonical |-> f.canonical,
                 quiet |-> f.quiet]
         /\ f.ledger \in {"missing", "empty", "older", "current", "unknown"}
         /\ {f.sound, f.canonical, f.quiet} \subseteq BOOLEAN
         /\ f.ledger \in {"missing", "empty"} => f = [Current EXCEPT !.ledger = f.ledger]
  BY DEF Current, Files

(* Only the current file is verified. *)
LEMMA VerifiedFacts ==
  ASSUME NEW f \in Files, f.ledger = "current", f.sound, f.canonical, f.quiet
  PROVE  f = Current
  BY FileFacts DEF Current

LEMMA ClosesFacts ==
  ASSUME NEW c \in [opened : 0..1, closed : 0..1]
  PROVE  /\ c.opened \in 0..1 /\ c.closed \in 0..1
         /\ c.closed = 0 => [c EXCEPT !.closed = @ + 1] \in [opened : 0..1, closed : 0..1]
         /\ [c EXCEPT !.closed = @ + 1].closed = c.closed + 1
         /\ [c EXCEPT !.closed = @ + 1].opened = c.opened
         /\ [c EXCEPT !.opened = 1] \in [opened : 0..1, closed : 0..1]
         /\ [c EXCEPT !.opened = 1].opened = 1 /\ [c EXCEPT !.opened = 1].closed = c.closed
  OBVIOUS

--------------------------------------------------------------------------------
(* Each action keeps each part of it. *)

LEMMA Booleans ==
  ASSUME TypeOK
  PROVE  bound \in BOOLEAN /\ asked \in BOOLEAN /\ accepting \in BOOLEAN /\ lane \in BOOLEAN
  BY DEF TypeOK

LEMMA CloseFacts ==
  ASSUME TypeOK, Close
  PROVE  /\ closing' \in {"no", "http", "mail", "release", "drain", "dispose", "done"}
         /\ accepting' \in BOOLEAN /\ lane' \in BOOLEAN
         /\ closing # "no" => UNCHANGED <<closing, accepting, lane>>
         /\ closing = "no" =>
              /\ closing' = First /\ ~lane'
              /\ settings.role = "web" => ~accepting'
              /\ settings.role = "worker" => accepting' = accepting
  <1>1. accepting \in BOOLEAN /\ lane \in BOOLEAN /\ settings.role \in {"web", "worker"}
    BY DEF TypeOK, Settings
  <1>2. CASE closing # "no"
    <2>1. UNCHANGED <<closing, accepting, lane>>
      BY <1>2, Zenon DEF Close
    <2> QED BY <1>1, <1>2, <2>1 DEF TypeOK
  <1>3. CASE closing = "no"
    <2>1. closing' = First /\ accepting' = (accepting /\ First # "http") /\ lane' = FALSE
      BY <1>3, Zenon DEF Close
    <2>2. accepting' \in BOOLEAN
      BY <2>1, Zenon
    <2>3. First \in {"http", "mail", "dispose"} /\ (settings.role = "web" <=> First = "http")
      BY <1>1 DEF First
    <2>4. settings.role = "worker" => accepting' = accepting
      BY <1>1, <2>1, <2>3, Zenon
    <2>5. settings.role = "web" => ~accepting'
      BY <2>1, <2>3, Zenon
    <2> QED BY <1>3, <2>1, <2>2, <2>3, <2>4, <2>5
  <1> QED BY <1>2, <1>3

LEMMA Switches ==
  ASSUME TypeOK
  PROVE  Mails \in BOOLEAN /\ Claims \in BOOLEAN
  <1>1. /\ settings.mail \in BOOLEAN /\ settings.validation \in BOOLEAN
        /\ settings.key \in BOOLEAN
    BY DEF TypeOK, Settings
  <1> QED BY <1>1, Zenon DEF Mails, Claims

LEMMA LoadInv ==
  ASSUME IInv, Load
  PROVE  IInv'
  <1>1. TypeOK'
    BY DEF Load, Fail, IInv, TypeOK
  <1>2. RoleInv'
    BY DEF Load, Fail, IInv, RoleInv, StartInv, Quiet, Before, InFlight
  <1>3. StartInv'
    BY DEF Load, Fail, IInv, StartInv, Quiet, Before
  <1>4. DatabaseInv'
    BY DEF Load, Fail, IInv, TypeOK, DatabaseInv, Running, Opened
  <1>5. ClosingInv'
    BY DEF Load, Fail, IInv, StartInv, ClosingInv, Before, Running
  <1> QED BY <1>1, <1>2, <1>3, <1>4, <1>5 DEF IInv

LEMMA OpenInv ==
  ASSUME IInv, Open
  PROVE  IInv'
  <1>1. TypeOK'
    BY CurrentFacts, FileFacts DEF Open, Fail, IInv, TypeOK
  <1>2. RoleInv'
    BY DEF Open, Fail, IInv, RoleInv, Quiet, InFlight, Validating
  <1>3. StartInv'
    BY DEF Open, Fail, IInv, StartInv, Quiet, Before
  <1>4. DatabaseInv'
    BY DEF Open, Fail, IInv, TypeOK, DatabaseInv, Running, Opened
  <1>5. ClosingInv'
    BY DEF Open, Fail, IInv, StartInv, ClosingInv, Before, Running
  <1> QED BY <1>1, <1>2, <1>3, <1>4, <1>5 DEF IInv

LEMMA MigrateInv ==
  ASSUME IInv, Migrate
  PROVE  IInv'
  <1>1. TypeOK'
    BY CurrentFacts, FileFacts DEF Migrate, Fail, Closed, Verified,
         SchemaIsCanonical, Ready, Migrated, IInv, TypeOK, DatabaseInv, Opened
  <1>2. RoleInv'
    BY DEF Migrate, Fail, IInv, RoleInv, StartInv, Quiet, Before, InFlight
  <1>3. StartInv'
    BY DEF Migrate, Fail, IInv, StartInv, Quiet, Before
  <1>4. DatabaseInv'
    BY CurrentFacts, FileFacts DEF Migrate, Fail, Closed, Verified,
         SchemaIsCanonical, Ready, Migrated, IInv, TypeOK, DatabaseInv, Running,
         Opened
  <1>5. ClosingInv'
    BY DEF Migrate, Fail, IInv, StartInv, ClosingInv, Before, Running
  <1> QED BY <1>1, <1>2, <1>3, <1>4, <1>5 DEF IInv

LEMMA ComposeInv ==
  ASSUME IInv, Compose
  PROVE  IInv'
  <1>1. TypeOK'
    BY DEF Compose, Fail, Closed, IInv, TypeOK, DatabaseInv, Opened
  <1>2. RoleInv'
    BY DEF Compose, Fail, IInv, RoleInv, Quiet, InFlight, Validating
  <1>3. StartInv'
    BY DEF Compose, Fail, IInv, StartInv, Quiet, Before
  <1>4. DatabaseInv'
    BY DEF Compose, Fail, Closed, IInv, TypeOK, DatabaseInv, Running, Opened
  <1>5. ClosingInv'
    BY DEF Compose, Fail, IInv, StartInv, ClosingInv, Before, Running
  <1> QED BY <1>1, <1>2, <1>3, <1>4, <1>5 DEF IInv

LEMMA ListenInv ==
  ASSUME IInv, Listen
  PROVE  IInv'
  <1>1. TypeOK'
    <2>1. accepting' \in BOOLEAN
      BY Booleans, Zenon DEF IInv, Listen
    <2> QED BY <2>1 DEF Listen, Fail, Closed, IInv, TypeOK, DatabaseInv, Opened
  <1>2. RoleInv'
    BY DEF Listen, Fail, Closed, IInv, RoleInv, Validating
  <1>3. StartInv'
    BY DEF Listen, Fail, IInv, RoleInv, StartInv, Quiet, Before
  <1>4. DatabaseInv'
    BY DEF Listen, Fail, Closed, IInv, TypeOK, DatabaseInv, Running, Opened
  <1>5. ClosingInv'
    BY DEF Listen, Fail, IInv, StartInv, ClosingInv, Before, Running
  <1> QED BY <1>1, <1>2, <1>3, <1>4, <1>5 DEF IInv

LEMMA BindInv ==
  ASSUME IInv, Bind
  PROVE  IInv'
  <1>1. TypeOK'
    <2>1. bound' \in BOOLEAN
      BY Booleans, Zenon DEF IInv, Bind
    <2> QED BY <2>1, CloseFacts DEF Bind, Abort, IInv, TypeOK
  <1>2. RoleInv'
    BY CloseFacts DEF Bind, Abort, IInv, TypeOK, RoleInv, Quiet, InFlight,
         Validating, Settings
  <1>3. StartInv'
    BY CloseFacts DEF Bind, Abort, First, IInv, StartInv, Quiet, Anchor, Before,
         Production
  <1>4. DatabaseInv'
    BY CloseFacts DEF Bind, Abort, First, IInv, StartInv, DatabaseInv, Opened
  <1>5. ClosingInv'
    BY CloseFacts DEF Bind, Abort, First, IInv, TypeOK, StartInv, ClosingInv,
         InFlight, Settings
  <1> QED BY <1>1, <1>2, <1>3, <1>4, <1>5 DEF IInv

LEMMA AcquireInv ==
  ASSUME IInv, Acquire
  PROVE  IInv'
  <1>1. TypeOK'
    BY ClosesFacts, CloseFacts DEF Acquire, Abort, IInv, TypeOK
  <1>2. RoleInv'
    BY DEF Acquire, Abort, IInv, RoleInv, InFlight, Validating
  <1>3. StartInv'
    BY CloseFacts DEF Acquire, Abort, First, IInv, RoleInv, StartInv, Quiet,
         Anchor, Before, Production
  <1>4. DatabaseInv'
    BY CloseFacts DEF Acquire, Abort, First, IInv, StartInv, DatabaseInv, Opened
  <1>5. ClosingInv'
    BY CloseFacts DEF Acquire, Abort, First, IInv, RoleInv, StartInv, ClosingInv
  <1> QED BY <1>1, <1>2, <1>3, <1>4, <1>5 DEF IInv

LEMMA RecoverInv ==
  ASSUME IInv, Recover
  PROVE  IInv'
  <1>1. TypeOK'
    BY ClosesFacts, CloseFacts, Switches DEF Recover, Abort, Scheduled, IInv,
         TypeOK
  <1>2. RoleInv'
    BY DEF Recover, Abort, IInv, RoleInv, InFlight, Validating
  <1>3. StartInv'
    BY CloseFacts DEF Recover, Abort, First, IInv, RoleInv, StartInv, Anchor,
         Before, Production
  <1>4. DatabaseInv'
    BY CloseFacts DEF Recover, Abort, First, IInv, StartInv, DatabaseInv, Opened
  <1>5. ClosingInv'
    BY CloseFacts DEF Recover, Abort, First, IInv, RoleInv, StartInv, ClosingInv
  <1> QED BY <1>1, <1>2, <1>3, <1>4, <1>5 DEF IInv

LEMMA AnnounceInv ==
  ASSUME IInv, Announce
  PROVE  IInv'
  <1>1. TypeOK'
    BY CloseFacts DEF Announce, Abort, IInv, TypeOK
  <1>2. RoleInv'
    BY CloseFacts DEF Announce, Abort, IInv, RoleInv, Quiet, InFlight,
         Validating
  <1>3. StartInv'
    BY CloseFacts DEF Announce, Abort, First, IInv, RoleInv, StartInv, Quiet,
         Anchor, Before, Validating
  <1>4. DatabaseInv'
    BY CloseFacts DEF Announce, Abort, First, IInv, DatabaseInv, Running, Opened
  <1>5. ClosingInv'
    BY CloseFacts DEF Announce, Abort, First, IInv, RoleInv, ClosingInv, Quiet,
         Running, InFlight, Validating
  <1> QED BY <1>1, <1>2, <1>3, <1>4, <1>5 DEF IInv

LEMMA FailedInv ==
  ASSUME IInv, Failed
  PROVE  IInv'
  <1>1. TypeOK'
    BY DEF Failed, Fail, CloseIfOpen, Closed, IInv, TypeOK, Opened
  <1>2. RoleInv'
    BY DEF Failed, Fail, IInv, RoleInv, Quiet, InFlight, Validating
  <1>3. StartInv'
    BY DEF Failed, Fail, IInv, StartInv, ClosingInv, Quiet, Before, Production
  <1>4. DatabaseInv'
    BY DEF Failed, Fail, CloseIfOpen, IInv, DatabaseInv, Running, Opened
  <1>5. ClosingInv'
    BY DEF Failed, Fail, IInv, ClosingInv, Running, InFlight
  <1> QED BY <1>1, <1>2, <1>3, <1>4, <1>5 DEF IInv

LEMMA MaintainInv ==
  ASSUME IInv, Maintain
  PROVE  IInv'
  <1>1. TypeOK'
    BY CurrentFacts, FileFacts DEF Maintain, Verified, SchemaIsCanonical, Ready,
         IInv, TypeOK
  <1>2. RoleInv'
    BY DEF Maintain, IInv, RoleInv, StartInv, Quiet, Before, InFlight
  <1>3. StartInv'
    BY DEF Maintain, IInv, StartInv, Quiet, Production
  <1>4. DatabaseInv'
    BY DEF Maintain, IInv, DatabaseInv, Running
  <1>5. ClosingInv'
    BY DEF Maintain, IInv, ClosingInv, InFlight
  <1> QED BY <1>1, <1>2, <1>3, <1>4, <1>5 DEF IInv

LEMMA ClaimInv ==
  ASSUME IInv, Claim
  PROVE  IInv'
  <1>1. TypeOK'
    BY DEF Claim, IInv, TypeOK
  <1>2. RoleInv'
    BY RequestsAssumption DEF Claim, IInv, RoleInv, InFlight, Validating
  <1>3. StartInv'
    BY DEF Claim, IInv, StartInv, Anchor, Production
  <1>4. DatabaseInv'
    BY DEF Claim, IInv, DatabaseInv, Opened
  <1>5. ClosingInv'
    BY DEF Claim, IInv, ClosingInv
  <1> QED BY <1>1, <1>2, <1>3, <1>4, <1>5 DEF IInv

LEMMA SettleInv ==
  ASSUME IInv, Settle
  PROVE  IInv'
  <1>1. TypeOK'
    BY DEF Settle, IInv, TypeOK
  <1>2. RoleInv'
    BY RequestsAssumption DEF Settle, IInv, RoleInv, Quiet, InFlight, Validating
  <1>3. StartInv'
    BY DEF Settle, IInv, StartInv, Anchor, Production
  <1>4. DatabaseInv'
    BY DEF Settle, IInv, DatabaseInv, Opened
  <1>5. ClosingInv'
    BY RequestsAssumption DEF Settle, IInv, ClosingInv, Quiet, InFlight
  <1> QED BY <1>1, <1>2, <1>3, <1>4, <1>5 DEF IInv

LEMMA UpkeepInv ==
  ASSUME IInv, Upkeep
  PROVE  IInv'
  <1>1. TypeOK'
    BY DEF Upkeep, IInv, TypeOK
  <1>2. RoleInv'
    BY DEF Upkeep, IInv, RoleInv, Quiet, InFlight, Validating
  <1>3. StartInv'
    BY DEF Upkeep, IInv, StartInv, Anchor, Production
  <1>4. DatabaseInv'
    BY DEF Upkeep, IInv, DatabaseInv, Opened
  <1>5. ClosingInv'
    BY DEF Upkeep, IInv, ClosingInv, Quiet, InFlight
  <1> QED BY <1>1, <1>2, <1>3, <1>4, <1>5 DEF IInv

LEMMA PostInv ==
  ASSUME IInv, Post
  PROVE  IInv'
  <1>1. TypeOK'
    BY DEF Post, IInv, TypeOK
  <1>2. RoleInv'
    BY RequestsAssumption DEF Post, IInv, RoleInv, Quiet, InFlight, Validating
  <1>3. StartInv'
    BY DEF Post, IInv, StartInv, Anchor, Production
  <1>4. DatabaseInv'
    BY DEF Post, IInv, DatabaseInv, Opened
  <1>5. ClosingInv'
    BY DEF Post, IInv, ClosingInv
  <1> QED BY <1>1, <1>2, <1>3, <1>4, <1>5 DEF IInv

LEMMA PostedInv ==
  ASSUME IInv, Posted
  PROVE  IInv'
  <1>1. TypeOK'
    BY ClosesFacts DEF Posted, IInv, TypeOK, Steps
  <1>2. RoleInv'
    BY DEF Posted, IInv, RoleInv, Quiet, InFlight, Validating
  <1>3. StartInv'
    BY DEF Posted, IInv, StartInv, Anchor, Production
  <1>4. DatabaseInv'
    BY DEF Posted, IInv, DatabaseInv, Opened
  <1>5. ClosingInv'
    BY DEF Posted, IInv, ClosingInv, Quiet
  <1> QED BY <1>1, <1>2, <1>3, <1>4, <1>5 DEF IInv

LEMMA RequestInv ==
  ASSUME IInv, NEW r \in Requests, Request(r)
  PROVE  IInv'
  <1>1. TypeOK'
    BY ClosesFacts DEF Request, IInv, TypeOK
  <1>2. RoleInv'
    BY ClosesFacts DEF Request, IInv, RoleInv, Validating
  <1>3. StartInv'
    BY DEF Request, IInv, RoleInv, StartInv, Anchor
  <1>4. DatabaseInv'
    BY DEF Request, IInv, DatabaseInv, Opened
  <1>5. ClosingInv'
    BY DEF Request, IInv, ClosingInv
  <1> QED BY <1>1, <1>2, <1>3, <1>4, <1>5 DEF IInv

LEMMA RespondInv ==
  ASSUME IInv, NEW r \in Requests, Respond(r)
  PROVE  IInv'
  <1>1. TypeOK'
    BY DEF Respond, IInv, TypeOK
  <1>2. RoleInv'
    BY DEF Respond, IInv, RoleInv, InFlight, Validating
  <1>3. StartInv'
    BY DEF Respond, IInv, StartInv, Anchor, Production
  <1>4. DatabaseInv'
    BY DEF Respond, IInv, DatabaseInv, Opened
  <1>5. ClosingInv'
    BY DEF Respond, IInv, ClosingInv, Quiet, InFlight
  <1> QED BY <1>1, <1>2, <1>3, <1>4, <1>5 DEF IInv

LEMMA SignalInv ==
  ASSUME IInv, Signal
  PROVE  IInv'
  <1>1. TypeOK'
    <2>1. asked' \in BOOLEAN /\ accepting' \in BOOLEAN /\ lane' \in BOOLEAN
      BY Booleans, Zenon DEF IInv, Signal, Killed
    <2> QED BY <2>1, ClosesFacts DEF Signal, Killed, IInv, TypeOK
  <1>2. RoleInv'
    BY ClosesFacts DEF Signal, Killed, IInv, RoleInv, Quiet, InFlight,
         Validating
  <1>3. StartInv'
    BY ClosesFacts DEF Signal, Killed, IInv, StartInv, Quiet, Anchor, Before,
         Production
  <1>4. DatabaseInv'
    BY DEF Signal, Killed, IInv, DatabaseInv, Running, Opened
  <1>5. ClosingInv'
    BY DEF Signal, Killed, IInv, ClosingInv, Running, InFlight
  <1> QED BY <1>1, <1>2, <1>3, <1>4, <1>5 DEF IInv

LEMMA AskedInv ==
  ASSUME IInv, Asked
  PROVE  IInv'
  <1>1. TypeOK'
    BY CloseFacts DEF Asked, IInv, TypeOK
  <1>2. RoleInv'
    BY CloseFacts DEF Asked, IInv, RoleInv, Quiet, InFlight, Validating
  <1>3. StartInv'
    BY CloseFacts DEF Asked, IInv, RoleInv, StartInv, Quiet, Anchor, Before,
         Production, Validating
  <1>4. DatabaseInv'
    BY CloseFacts DEF Asked, First, IInv, DatabaseInv, Opened
  <1>5. ClosingInv'
    BY CloseFacts DEF Asked, First, IInv, TypeOK, RoleInv, ClosingInv, Quiet,
         InFlight, Validating, Settings
  <1> QED BY <1>1, <1>2, <1>3, <1>4, <1>5 DEF IInv

LEMMA CloseHttpInv ==
  ASSUME IInv, CloseHttp
  PROVE  IInv'
  <1>1. TypeOK'
    BY ClosesFacts DEF CloseHttp, IInv, TypeOK, Steps
  <1>2. RoleInv'
    BY DEF CloseHttp, IInv, RoleInv, ClosingInv, Validating
  <1>3. StartInv'
    BY DEF CloseHttp, IInv, RoleInv, StartInv, ClosingInv, Quiet
  <1>4. DatabaseInv'
    BY DEF CloseHttp, IInv, DatabaseInv, Opened
  <1>5. ClosingInv'
    BY RequestsAssumption DEF CloseHttp, IInv, RoleInv, ClosingInv, InFlight
  <1> QED BY <1>1, <1>2, <1>3, <1>4, <1>5 DEF IInv

LEMMA CloseMailInv ==
  ASSUME IInv, CloseMail
  PROVE  IInv'
  <1>1. TypeOK'
    BY DEF CloseMail, IInv, TypeOK
  <1>2. RoleInv'
    BY DEF CloseMail, IInv, RoleInv, Quiet, InFlight, Validating
  <1>3. StartInv'
    BY DEF CloseMail, IInv, StartInv, Quiet, Production
  <1>4. DatabaseInv'
    BY DEF CloseMail, IInv, DatabaseInv, Opened
  <1>5. ClosingInv'
    BY DEF CloseMail, IInv, ClosingInv
  <1> QED BY <1>1, <1>2, <1>3, <1>4, <1>5 DEF IInv

LEMMA ReleaseInv ==
  ASSUME IInv, Release
  PROVE  IInv'
  <1>1. TypeOK'
    <2>1. accepting' \in BOOLEAN
      BY Zenon DEF Release
    <2> QED BY <2>1 DEF Release, IInv, TypeOK, Steps
  <1>2. RoleInv'
    BY DEF Release, IInv, RoleInv, Quiet, InFlight, Validating
  <1>3. StartInv'
    BY DEF Release, IInv, StartInv, Quiet
  <1>4. DatabaseInv'
    BY DEF Release, IInv, DatabaseInv, Opened
  <1>5. ClosingInv'
    BY DEF Release, IInv, ClosingInv
  <1> QED BY <1>1, <1>2, <1>3, <1>4, <1>5 DEF IInv

LEMMA DrainInv ==
  ASSUME IInv, Drain
  PROVE  IInv'
  <1>1. TypeOK'
    BY ClosesFacts DEF Drain, IInv, TypeOK, Steps
  <1>2. RoleInv'
    BY DEF Drain, IInv, RoleInv, Quiet, InFlight, Validating
  <1>3. StartInv'
    BY DEF Drain, IInv, StartInv, Quiet, Production
  <1>4. DatabaseInv'
    BY DEF Drain, IInv, DatabaseInv, Opened
  <1>5. ClosingInv'
    BY DEF Drain, IInv, RoleInv, ClosingInv, InFlight
  <1> QED BY <1>1, <1>2, <1>3, <1>4, <1>5 DEF IInv

LEMMA DisposeInv ==
  ASSUME IInv, Dispose
  PROVE  IInv'
  <1>1. TypeOK'
    <2>1. bound' \in BOOLEAN
      BY Zenon DEF Dispose
    <2> QED BY <2>1 DEF Dispose, CloseIfOpen, Closed, IInv, TypeOK, Opened, Steps
  <1>2. RoleInv'
    BY DEF Dispose, IInv, RoleInv, Quiet, InFlight, Validating
  <1>3. StartInv'
    BY DEF Dispose, IInv, StartInv, Quiet, Production
  <1>4. DatabaseInv'
    BY DEF Dispose, CloseIfOpen, Closed, IInv, TypeOK, StartInv, DatabaseInv,
         Before, Opened
  <1>5. ClosingInv'
    BY DEF Dispose, IInv, ClosingInv, InFlight
  <1> QED BY <1>1, <1>2, <1>3, <1>4, <1>5 DEF IInv

LEMMA ExitInv ==
  ASSUME IInv, Exit
  PROVE  IInv'
  <1>1. TypeOK'
    BY DEF Exit, IInv, TypeOK
  <1>2. RoleInv'
    BY DEF Exit, IInv, RoleInv, Quiet, InFlight, Validating
  <1>3. StartInv'
    BY DEF Exit, IInv, StartInv, Quiet, Before
  <1>4. DatabaseInv'
    BY DEF Exit, IInv, TypeOK, StartInv, DatabaseInv, Running, Opened
  <1>5. ClosingInv'
    BY DEF Exit, IInv, TypeOK, StartInv, ClosingInv, Quiet, Running, InFlight
  <1> QED BY <1>1, <1>2, <1>3, <1>4, <1>5 DEF IInv

LEMMA RestartInv ==
  ASSUME IInv, Restart
  PROVE  IInv'
  <1>1. TypeOK'
    <2>1. bound' \in BOOLEAN /\ asked' \in BOOLEAN /\ accepting' \in BOOLEAN /\ lane' \in BOOLEAN
      BY Zenon DEF Restart
    <2> QED BY <2>1 DEF Restart, IInv, TypeOK
  <1>2. RoleInv'
    BY DEF Restart, RoleInv, Quiet, InFlight
  <1>3. StartInv'
    BY DEF Restart, StartInv, Quiet
  <1>4. DatabaseInv'
    BY DEF Restart, DatabaseInv, Running
  <1>5. ClosingInv'
    BY DEF Restart, ClosingInv
  <1> QED BY <1>1, <1>2, <1>3, <1>4, <1>5 DEF IInv
--------------------------------------------------------------------------------
(* The invariant holds. *)

LEMMA InitHolds == Init => IInv
  <1> SUFFICES ASSUME Init  PROVE IInv
    OBVIOUS
  <1>1. closes \in [opened : 0..1, closed : 0..1] /\ closes.opened = 0 /\ closes.closed = 0
    BY DEF Init
  <1>2. TypeOK
    BY <1>1 DEF Init, TypeOK
  <1>3. RoleInv /\ StartInv /\ ClosingInv
    BY DEF Init, RoleInv, StartInv, ClosingInv, Quiet, InFlight, Validating, Before, Running
  <1>4. DatabaseInv
    BY <1>1 DEF Init, DatabaseInv, Opened, Running
  <1> QED BY <1>2, <1>3, <1>4 DEF IInv

LEMMA StutterHolds ==
  ASSUME IInv, UNCHANGED vars
  PROVE  IInv'
  <1>1. UNCHANGED Opened /\ UNCHANGED InFlight /\ UNCHANGED Quiet /\ UNCHANGED Anchor
    BY DEF vars, Opened, InFlight, Quiet, Anchor, Production
  <1>2. TypeOK'
    BY DEF vars, IInv, TypeOK
  <1>3. RoleInv' /\ StartInv' /\ DatabaseInv' /\ ClosingInv'
    BY <1>1 DEF vars, IInv, RoleInv, StartInv, DatabaseInv, ClosingInv, Validating, Production
  <1> QED BY <1>2, <1>3 DEF IInv

LEMMA StepHolds ==
  ASSUME IInv, Next
  PROVE  IInv'
  <1>1. CASE Starting
    BY <1>1, LoadInv, OpenInv, MigrateInv, ComposeInv, ListenInv, BindInv, AcquireInv,
       RecoverInv, AnnounceInv, FailedInv DEF Starting
  <1>2. CASE Working
    BY <1>2, ClaimInv, SettleInv, UpkeepInv, PostInv, PostedInv, RequestInv, RespondInv
    DEF Working
  <1>3. CASE Stopping
    BY <1>3, AskedInv, CloseHttpInv, CloseMailInv, ReleaseInv, DrainInv, DisposeInv, ExitInv
    DEF Stopping
  <1>4. CASE Signal \/ Maintain \/ Restart
    BY <1>4, SignalInv, MaintainInv, RestartInv
  <1> QED BY <1>1, <1>2, <1>3, <1>4 DEF Next

(* The inductive invariant holds in every state of every process, with any number
   of requests in flight and across its restarts. *)
THEOREM Invariant == Spec => []IInv
  <1>1. IInv /\ [Next]_vars => IInv'
    BY StepHolds, StutterHolds
  <1> QED BY InitHolds, <1>1, PTL DEF Spec
--------------------------------------------------------------------------------
(* What follows. *)

(* The timers, the jobs they claim and the upkeep after them are those of a
   worker with claims. *)
ClaimsInv == "timers" \in held \/ "job" \in work \/ "upkeep" \in work => Claims

LEMMA ClaimsStay ==
  ASSUME ClaimsInv, UNCHANGED settings,
         "timers" \in held' => "timers" \in held,
         "job" \in work' => "job" \in work \/ "timers" \in held,
         "upkeep" \in work' => "upkeep" \in work \/ "job" \in work
  PROVE  ClaimsInv'
  <1>1. Claims => Claims'
    BY Zenon DEF Claims
  <1> QED BY <1>1 DEF ClaimsInv

LEMMA ClaimsKept ==
  ASSUME ClaimsInv, IInv, Next
  PROVE  ClaimsInv'
  <1>1. CASE Recover
    <2>1. UNCHANGED <<settings, work>> /\ held' \in {held \cup Scheduled, held}
      BY <1>1 DEF Recover
    <2>2. "timers" \in held' => "timers" \in held \/ Claims
      BY <2>1 DEF Scheduled
    <2>3. Claims => Claims'
      BY <2>1, Zenon DEF Claims
    <2> QED BY <2>1, <2>2, <2>3 DEF ClaimsInv
  <1>2. CASE Starting /\ ~Recover
    BY <1>2, ClaimsStay
    DEF Starting, Load, Open, Migrate, Compose, Listen, Bind, Acquire, Announce, Failed
  <1>3. CASE Working
    BY <1>3, ClaimsStay, RequestsAssumption
    DEF Working, Claim, Settle, Upkeep, Post, Posted, Request, Respond
  <1>4. CASE Stopping
    BY <1>4, ClaimsStay
    DEF Stopping, Asked, CloseHttp, CloseMail, Release, Drain, Dispose, Exit
  <1>5. CASE Signal \/ Maintain \/ Restart
    BY <1>5, ClaimsStay DEF Signal, Killed, Maintain, Restart
  <1> QED BY <1>1, <1>2, <1>3, <1>4, <1>5 DEF Next

LEMMA ClaimsInvariant == Spec => []ClaimsInv
  <1>1. Init => ClaimsInv
    BY DEF Init, ClaimsInv
  <1>2. ClaimsInv /\ IInv /\ [Next]_vars => ClaimsInv'
    <2>1. ASSUME ClaimsInv, UNCHANGED vars  PROVE ClaimsInv'
      BY <2>1, ClaimsStay DEF vars
    <2> QED BY <2>1, ClaimsKept
  <1> QED BY <1>1, <1>2, Invariant, PTL DEF Spec

LEMMA ClosedWhenUnused == IInv /\ ClaimsInv => OnlyLateWorkOutlivesTheDatabase
  <1> SUFFICES ASSUME IInv, ClaimsInv, ~Opened  PROVE OnlyLateWorkOutlivesTheDatabase
    BY DEF OnlyLateWorkOutlivesTheDatabase
  <1>1. \/ start \in {"load", "open", "failed", "exited", "aborted", "killed"}
        \/ start \in Running /\ closing = "done"
    BY DEF IInv, TypeOK, DatabaseInv, Running
  <1>2. CASE start \in {"load", "open", "killed"}
    BY <1>2, RequestsAssumption
    DEF IInv, StartInv, Before, Quiet, InFlight, OnlyLateWorkOutlivesTheDatabase
  <1>3. CASE start \in {"failed", "aborted", "exited"}
    <2>1. Quiet
      BY <1>3 DEF IInv, StartInv, ClosingInv
    <2> QED BY <2>1 DEF Quiet, InFlight, OnlyLateWorkOutlivesTheDatabase
  <1>4. CASE start \in Running /\ closing = "done"
    <2>1. ~accepting /\ ~lane /\ work \subseteq {"job", "upkeep"} \cup Requests
      BY <1>4 DEF IInv, TypeOK, ClosingInv
    <2>2. ("job" \in work => "drain" \in faults) /\ (InFlight # {} => "http" \in faults)
      BY <1>4 DEF IInv, ClosingInv
    <2>3. ASSUME "upkeep" \in work
          PROVE  settings.role = "worker" /\ Claims /\ start = "ready"
      BY <2>3, RequestsAssumption DEF IInv, TypeOK, Settings, RoleInv, StartInv, ClaimsInv
    <2> QED BY <1>4, <2>1, <2>2, <2>3 DEF OnlyLateWorkOutlivesTheDatabase
  <1> QED BY <1>1, <1>2, <1>3, <1>4

(* Once the database is closed, the only ones left who would use it are a job or
   a request that did not end in the time it was given, which was reported, and
   the upkeep of a worker with claims, which is neither awaited nor reported. *)
THEOREM WorkLeftAtTheClose == Spec => []OnlyLateWorkOutlivesTheDatabase
  BY Invariant, ClaimsInvariant, ClosedWhenUnused, PTL

(* A process that was not killed has closed its database exactly once, and its
   exit code tells whether a step of its start or its shutdown failed. *)
THEOREM ProcessesEndProperly == Spec => []EndsProperly
  <1>1. IInv => EndsProperly
    <2> SUFFICES ASSUME IInv  PROVE EndsProperly
      OBVIOUS
    <2>1. ASSUME start \in {"exited", "aborted"}  PROVE closes.closed = closes.opened
      <3>1. closes.closed \in Nat /\ closes.opened \in Nat /\ closes.closed <= closes.opened
        BY DEF IInv, TypeOK, DatabaseInv
      <3>2. ~(closes.opened > closes.closed)
        BY <2>1 DEF IInv, DatabaseInv, Opened
      <3> QED BY <3>1, <3>2
    <2>2. ASSUME start \in {"exited", "aborted"}
          PROVE  exit = 1 <=> start = "aborted" \/ faults # {}
      BY <2>2 DEF IInv, ClosingInv
    <2>3. start = "exited" => asked
      BY DEF IInv, ClosingInv
    <2> QED BY <2>1, <2>2, <2>3 DEF EndsProperly, IInv
  <1> QED BY Invariant, <1>1, PTL

LEMMA OnlyClaimsBeginJobs ==
  ASSUME Next, "job" \in work', "job" \notin work
  PROVE  Claim
  <1>1. CASE Starting
    BY <1>1 DEF Starting, Load, Open, Migrate, Compose, Listen, Bind, Acquire, Recover,
                Announce, Failed
  <1>2. CASE Working
    BY <1>2, RequestsAssumption
    DEF Working, Settle, Upkeep, Post, Posted, Request, Respond
  <1>3. CASE Stopping
    BY <1>3 DEF Stopping, Asked, CloseHttp, CloseMail, Release, Drain, Dispose, Exit
  <1>4. CASE Signal \/ Maintain \/ Restart
    BY <1>4 DEF Signal, Killed, Maintain, Restart
  <1> QED BY <1>1, <1>2, <1>3, <1>4 DEF Next

(* In production no job is begun without the lease on readiness. *)
THEOREM JobsAreClaimedUnderTheLease == Spec => ClaimsUnderTheLease
  <1>1. IInv /\ [Next]_vars =>
           [("job" \in work' /\ "job" \notin work /\ Production) => "lease" \in held]_vars
    <2> SUFFICES ASSUME IInv, Next, "job" \in work', "job" \notin work, Production
                 PROVE  "lease" \in held
      OBVIOUS
    <2>1. Claim
      BY OnlyClaimsBeginJobs
    <2> QED BY <2>1 DEF Claim, IInv, StartInv
  <1> QED BY Invariant, <1>1, PTL DEF Spec, ClaimsUnderTheLease

LEMMA FilesChange ==
  ASSUME IInv, Next
  PROVE  file' # file => \/ start = "load"
                         \/ ~settings.shared /\ file'.ledger = "empty"
                         \/ ~settings.shared /\ file' = Current
  <1>1. CASE Open
    <2> SUFFICES ASSUME file' # file  PROVE ~settings.shared /\ file'.ledger = "empty"
      BY <1>1
    <2>1. file \in Files /\ file.ledger = "missing"
      BY <1>1 DEF Open, IInv, TypeOK
    <2>2. file' = [file EXCEPT !.ledger = "empty"] /\ (settings.shared => Verified)
      BY <1>1 DEF Open, MustExist
    <2>3. file'.ledger = "empty"
      BY <2>1, <2>2, FileFacts
    <2> QED BY <2>1, <2>2, <2>3 DEF Verified, LedgerIsCurrent
  <1>2. CASE Migrate
    <2> SUFFICES ASSUME file' # file  PROVE ~settings.shared /\ file' = Current
      BY <1>2
    <2>1. file' = Migrated /\ Verified'
      BY <1>2 DEF Migrate
    <2>2. Pending
      BY <2>1 DEF Migrated
    <2>3. file' \in Files
      BY <1>2, MigrateInv DEF IInv, TypeOK
    <2>4. file' = Current
      BY <2>1, <2>3, VerifiedFacts DEF Verified, LedgerIsCurrent, SchemaIsCanonical, Ready
    <2> QED BY <2>2, <2>4 DEF Pending, MustExist
  <1>3. CASE Maintain
    BY <1>3 DEF Maintain
  <1>4. CASE UNCHANGED file
    BY <1>4
  <1>5. CASE Starting
    BY <1>1, <1>2, <1>4, <1>5
    DEF Starting, Load, Compose, Listen, Bind, Acquire, Recover, Announce, Failed
  <1>6. CASE Working
    BY <1>4, <1>6 DEF Working, Claim, Settle, Upkeep, Post, Posted, Request, Respond
  <1>7. CASE Stopping
    BY <1>4, <1>7 DEF Stopping, Asked, CloseHttp, CloseMail, Release, Drain, Dispose, Exit
  <1>8. CASE Signal \/ Restart
    BY <1>4, <1>8 DEF Signal, Restart
  <1> QED BY <1>3, <1>5, <1>6, <1>7, <1>8 DEF Next

(* The start of a process leaves shared data alone, and isolated data as it was,
   new or current; work is done on a verified file only. *)
THEOREM ServedFilesAreVerified == Spec => OnlyAVerifiedFileIsServed
  <1>1. IInv /\ IInv' /\ [Next]_vars =>
           [/\ file' # file => \/ start = "load"
                               \/ ~settings.shared /\ file'.ledger = "empty"
                               \/ ~settings.shared /\ file' = Current
            /\ work' # {} => file' = Current]_vars
    <2>1. IInv' => (work' # {} => file' = Current)
      BY DEF IInv, StartInv, DatabaseInv, Running
    <2> QED BY <2>1, FilesChange
  <1> QED BY Invariant, <1>1, PTL DEF Spec, OnlyAVerifiedFileIsServed
===============================================================================
