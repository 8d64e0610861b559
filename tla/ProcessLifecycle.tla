-------------------------- MODULE ProcessLifecycle --------------------------
(* Start and end of the two processes of the product: the web process
   (runtime.ts) and the background worker (worker-runtime.ts), the latter also
   in the mode in which a release is validated.  One behaviour is the lives of
   one process on one database file: its settings are read, the database is
   opened, the owners of work are started one after the other, a signal, or a
   step of the start that fails, takes everything down again, and it may be
   started anew on the file its predecessor left.

   A stretch of code without an await is one action, or several that only a
   signal sent before the handlers are bound can come between.  What a library
   does inside one step is external: each step may succeed or fail. *)
EXTENDS Naturals

CONSTANT Requests   \* what browsers may ask of the web process at one time

ASSUME RequestsAssumption == Requests \cap {"job", "upkeep", "mail"} = {}

VARIABLES
  settings,   \* the environment variables the process was started with
  start,      \* how far the start has come
  closing,    \* how far the shutdown has come: "no" until somebody asks for it
  file,       \* the database file
  closes,     \* how often the database was opened and closed
  bound,      \* the handlers of SIGINT and SIGTERM are installed
  asked,      \* a signal has arrived
  held,       \* what keeps the process alive without any work
  accepting,  \* new claims (worker) or requests (web) are taken on
  lane,       \* the mail lane is started and not stopped
  work,       \* what is being worked on between two turns of the event loop
  faults,     \* the steps of the shutdown that failed
  exit        \* the exit code

vars == <<settings, start, closing, file, closes, bound, asked, held, accepting,
          lane, work, faults, exit>>

Settings ==
  [role : {"web", "worker"}, mode : {"development", "production", "test"},
   validation : BOOLEAN, shared : BOOLEAN, identity : BOOLEAN,
   root : BOOLEAN, switch : {"unset", "off", "on"}, key : BOOLEAN,
   mail : BOOLEAN, odd : {"nothing", "origin", "directory", "endpoint",
                          "browser", "secret"}]

Steps == {"http", "mail", "lease", "claims", "abort", "drain", "signals",
          "database", "channel"}

Production == settings.mode = "production"
Validating == settings.role = "worker" /\ settings.validation

(* What the settings decide.  Generation is a switch; outside shared data it
   defaults to whether there is a key. *)
Claims == \/ settings.switch = "on"
          \/ settings.switch = "unset" /\ settings.key
Mails  == settings.mail /\ ~settings.validation

(* The database file: how its list of applied migrations compares with that of
   this release, whether SQLite finds it intact, whether its schema is the one
   its migrations make, and whether the guard of the retention is set down. *)
Current == [ledger |-> "current", sound |-> TRUE, canonical |-> TRUE, quiet |-> TRUE]

Files == {[Current EXCEPT !.ledger = l] :
            l \in {"missing", "empty", "older", "current", "unknown"}}
         \cup {[Current EXCEPT !.sound = FALSE], [Current EXCEPT !.quiet = FALSE]}
         \cup {[Current EXCEPT !.ledger = l, !.canonical = FALSE] :
                 l \in {"older", "current"}}

LedgerIsCurrent   == file.ledger = "current"
SchemaIsCanonical == file.canonical
Ready             == file.ledger = "current" /\ file.quiet

(* Before it may be served; before it may be migrated where it must exist. *)
\* Fault: the schema is not compared.
VerifiedByItsLedger == file.sound /\ LedgerIsCurrent
Verified == file.sound /\ LedgerIsCurrent /\ SchemaIsCanonical /\ Ready
VerifiedBeforeWrite ==
  file.sound /\ file.ledger \in {"older", "current"} /\ SchemaIsCanonical

(* The settings a process is started with: at most one of the values that are
   odd in some modes ("odd"), or a credential that is missing. *)
LocalCredentials == ~Production /\ ~settings.shared

RootAccepted == settings.root = settings.validation

CommonAccepted ==
  /\ Production => settings.odd # "origin"
  /\ Production \/ settings.shared => settings.odd # "directory"
  /\ settings.shared => settings.switch # "unset"

WorkerAccepted ==
  settings.role = "worker" => (settings.odd = "endpoint" => settings.mode = "test")

WebAccepted ==
  settings.role = "web" =>
    /\ settings.odd = "secret" => settings.validation \/ LocalCredentials
    /\ settings.odd = "browser" => ~Production \/ settings.validation

Identified == Production \/ settings.validation => settings.identity

Init ==
  /\ settings \in Settings
  /\ file \in Files
  /\ start = "load" /\ closing = "no"
  /\ closes = [opened |-> 0, closed |-> 0]
  /\ bound = FALSE /\ asked = FALSE
  /\ held = {} /\ accepting = FALSE /\ lane = FALSE /\ work = {}
  /\ faults = {} /\ exit = 0

---------------------------------------------------------------------------
(* The start. *)

Opened == closes.opened > closes.closed
Closed == [closes EXCEPT !.closed = @ + 1]
\* Fault: nobody remembers that it was closed.
CloseAgain == Closed
CloseIfOpen == IF Opened THEN Closed ELSE closes
Over == start \in {"exited", "aborted", "killed"}

(* The entry point reports an error that reached it. *)
Fail == start' = "failed" /\ exit' = 1

Load ==
  /\ start = "load"
  /\ IF RootAccepted /\ CommonAccepted /\ WorkerAccepted /\ WebAccepted /\ Identified
       THEN start' = "open" /\ UNCHANGED exit
       ELSE Fail
  /\ UNCHANGED <<settings, file, closing, closes, bound, asked, held, accepting,
                 lane, work, faults>>

(* Shared data must be there, and what is there is verified on the connection
   that stays, before anything is written; isolated data is created. *)
MustExist == settings.shared

Open ==
  /\ start = "open"
  /\ \/ /\ MustExist => Verified
        /\ start' = "migrate" /\ closes' = [closes EXCEPT !.opened = 1]
        /\ file' = IF file.ledger = "missing" THEN [file EXCEPT !.ledger = "empty"]
                   ELSE file
        /\ UNCHANGED exit
     \/ Fail /\ UNCHANGED <<closes, file>>
  /\ UNCHANGED <<settings, closing, bound, asked, held, accepting, lane, work, faults>>

(* All pending migrations and the verification of their result are one
   transaction; the storage is looked at once more after it. *)
Pending  == ~MustExist /\ file.ledger \in {"empty", "older"}
Migrated == IF Pending THEN [file EXCEPT !.ledger = "current"] ELSE file

Migrate ==
  /\ start = "migrate"
  /\ \/ /\ file' = Migrated /\ Verified'
        /\ \/ start' = "compose" /\ UNCHANGED <<closes, exit>>
           \/ Fail /\ closes' = Closed
     \/ Fail /\ closes' = Closed /\ UNCHANGED file
  /\ UNCHANGED <<settings, closing, bound, asked, held, accepting, lane, work, faults>>

(* The services or the worker are composed; claims need a key. *)
Compose ==
  /\ start = "compose"
  /\ IF settings.role = "worker" /\ ~Validating /\ Claims /\ ~settings.key
       THEN Fail /\ closes' = Closed
       ELSE /\ start' = IF settings.role = "web" THEN "listen" ELSE "bind"
            /\ UNCHANGED <<closes, exit>>
  /\ UNCHANGED <<settings, file, closing, bound, asked, held, accepting, lane,
                 work, faults>>

(* The first turn of the event loop of the web process; the port may be taken. *)
Listen ==
  /\ start = "listen"
  /\ \/ start' = "bind" /\ held' = held \cup {"server"} /\ accepting' = TRUE
        /\ UNCHANGED <<closes, exit>>
     \/ Fail /\ closes' = Closed /\ UNCHANGED <<held, accepting>>
  /\ UNCHANGED <<settings, file, closing, bound, asked, lane, work, faults>>

(* The shutdown begins with what must not take on more work. *)
First == IF settings.role = "web" THEN "http"
         ELSE IF settings.validation THEN "dispose" ELSE "mail"

Close ==
  IF closing # "no"
    THEN UNCHANGED <<closing, accepting, lane>>
    ELSE /\ closing' = First
         /\ accepting' = (accepting /\ First # "http")
         /\ lane' = FALSE

(* A step of the start failed: everything is closed before it is reported. *)
Abort == start' = "failing" /\ Close

Bind ==
  /\ start = "bind"
  /\ \/ /\ bound' = TRUE
        /\ start' = IF settings.role = "web" THEN "ready"
                    ELSE IF settings.validation THEN "announce" ELSE "acquire"
        /\ UNCHANGED <<closing, accepting, lane>>
     \/ Abort /\ UNCHANGED bound
  /\ UNCHANGED <<settings, file, closes, asked, held, work, faults, exit>>

(* The lease on readiness in production, a plain reference elsewhere. *)
Acquire ==
  /\ start = "acquire"
  /\ \/ /\ start' = "recover"
        /\ held' = held \cup {IF Production THEN "lease" ELSE "lifetime"}
        /\ UNCHANGED <<closing, accepting, lane>>
     \/ Production /\ Abort /\ UNCHANGED held
  /\ UNCHANGED <<settings, file, closes, bound, asked, work, faults, exit>>

(* A worker without claims only notes that it runs. *)
Scheduled == IF Claims THEN {"timers"} ELSE {}

(* start of the generation worker (recovery, then its two timers) and of the
   mail lane. *)
Recover ==
  /\ start = "recover"
  /\ \/ /\ start' = "ready" /\ lane' = Mails
        /\ accepting' = Claims
        /\ held' = held \cup Scheduled
        /\ UNCHANGED closing
     \/ Claims /\ Abort /\ UNCHANGED held
  /\ UNCHANGED <<settings, file, closes, bound, asked, work, faults, exit>>

(* A release that is validated tells its parent; the answer is awaited. *)
Announce ==
  /\ start = "announce"
  /\ \/ start' = "ready" /\ UNCHANGED <<closing, accepting, lane>>
     \/ Abort
  /\ held' = IF closing = "no" THEN held \cup {"channel"} ELSE held
  /\ UNCHANGED <<settings, file, closes, bound, asked, work, faults, exit>>

Failed ==
  /\ start = "failing" /\ closing = "done"
  /\ Fail /\ closes' = CloseIfOpen
  /\ UNCHANGED <<settings, file, closing, bound, asked, held, accepting, lane,
                 work, faults>>

(* The maintenance command, for which every process is stopped. *)
Maintain ==
  /\ start = "load" /\ VerifiedBeforeWrite
  /\ file' = [file EXCEPT !.ledger = "current"] /\ Verified'
  /\ UNCHANGED <<settings, start, closing, closes, bound, asked, held, accepting,
                 lane, work, faults, exit>>
---------------------------------------------------------------------------
(* Work. *)

(* The durable worker claims one job at a time, at the first poll and at every
   tick; runUntilIdle claims again before it looks after what was finished. *)
Claim ==
  /\ start = "ready" /\ settings.role = "worker"
  /\ accepting /\ "timers" \in held /\ "job" \notin work
  /\ work' = work \cup {"job"}
  /\ UNCHANGED <<settings, file, start, closing, closes, bound, asked, held,
                 accepting, lane, faults, exit>>

(* The handler ends and its job is settled, unless the database is gone. *)
Settle ==
  /\ "job" \in work
  /\ work' = (work \ {"job"}) \cup (IF Opened THEN {"upkeep"} ELSE {})
  /\ UNCHANGED <<settings, file, start, closing, closes, bound, asked, held,
                 accepting, lane, faults, exit>>

(* Reconciliation and retention after a batch.  The shutdown does not await it,
   and an error in it is told to onError and to nobody else. *)
Upkeep ==
  /\ "upkeep" \in work /\ "job" \notin work
  /\ work' = work \ {"upkeep"}
  /\ UNCHANGED <<settings, file, start, closing, closes, bound, asked, held,
                 accepting, lane, faults, exit>>

(* A tick of the mail lane, whose timer does not keep the process alive. *)
Post ==
  /\ start = "ready" /\ lane /\ "mail" \notin work
  /\ work' = work \cup {"mail"}
  /\ UNCHANGED <<settings, file, start, closing, closes, bound, asked, held,
                 accepting, lane, faults, exit>>

(* It ends with a write; close awaits it, and with it an error of the write. *)
Posted ==
  /\ "mail" \in work
  /\ work' = work \ {"mail"}
  /\ \/ UNCHANGED faults
     \/ closing = "mail" /\ faults' = faults \cup {"mail"}
  /\ UNCHANGED <<settings, file, start, closing, closes, bound, asked, held,
                 accepting, lane, exit>>

Request(r) ==
  /\ start = "ready" /\ settings.role = "web" /\ accepting /\ r \notin work
  /\ work' = work \cup {r}
  /\ UNCHANGED <<settings, file, start, closing, closes, bound, asked, held,
                 accepting, lane, faults, exit>>

Respond(r) ==
  /\ r \in work
  /\ work' = work \ {r}
  /\ UNCHANGED <<settings, file, start, closing, closes, bound, asked, held,
                 accepting, lane, faults, exit>>

---------------------------------------------------------------------------
(* The end. *)

(* A signal ends a process that has not bound its handlers, or has given them
   up, with whatever it was doing; otherwise it asks for the shutdown, once. *)
Killed ==
  /\ start' = "killed" /\ closing' = "no"
  /\ held' = {} /\ accepting' = FALSE /\ lane' = FALSE /\ work' = {}

Signal ==
  /\ ~Over /\ ~asked
  /\ asked' = TRUE
  /\ \/ ~bound /\ Killed
     \/ bound /\ UNCHANGED <<start, closing, held, accepting, lane, work>>
  /\ UNCHANGED <<settings, file, closes, bound, faults, exit>>

Asked ==
  /\ asked /\ bound /\ closing = "no" /\ start \in {"announce", "ready"}
  /\ Close
  /\ UNCHANGED <<settings, file, start, closes, bound, asked, held, work, faults,
                 exit>>

(* Requests in flight are given ten seconds. *)
InFlight == work \cap Requests

CloseHttp ==
  /\ closing = "http"
  /\ \/ InFlight = {} /\ UNCHANGED faults
     \/ InFlight # {} /\ faults' = faults \cup {"http"}
  /\ held' = held \ {"server"}
  /\ closing' = "dispose"
  /\ UNCHANGED <<settings, file, start, closes, bound, asked, accepting, lane,
                 work, exit>>

\* Fault: the post in flight is not awaited.
CloseMailAtOnce ==
  /\ closing = "mail"
  /\ closing' = "release"
  /\ UNCHANGED <<settings, file, start, closes, bound, asked, held, accepting,
                 lane, work, faults, exit>>

(* The post in flight is aborted and awaited, before anything else is given up. *)
CloseMail ==
  /\ closing = "mail" /\ "mail" \notin work
  /\ closing' = "release"
  /\ UNCHANGED <<settings, file, start, closes, bound, asked, held, accepting,
                 lane, work, faults, exit>>

\* Fault: the lease is given up on its own.
ReleaseLease ==
  /\ closing = "release"
  /\ held' = held \ {"lease", "lifetime"}
  /\ \E failed \in SUBSET {"lease", "claims", "abort"} : faults' = faults \cup failed
  /\ closing' = "drain"
  /\ UNCHANGED <<settings, file, start, closes, bound, asked, accepting, lane,
                 work, exit>>

\* Fault: a step that fails ends the sequence.
ReleaseUntilOneFails ==
  /\ closing = "release"
  /\ \/ faults' = faults \cup {"lease"} /\ UNCHANGED <<held, accepting>>
     \/ UNCHANGED faults /\ held' = held \ {"lease", "lifetime", "timers"} /\ accepting' = FALSE
  /\ closing' = "drain"
  /\ UNCHANGED <<settings, file, start, closes, bound, asked, lane, work, exit>>

(* Without an await: the lease, the timers and the claims, the job at work.
   Whichever of them fails, the others are still taken. *)
Release ==
  /\ closing = "release"
  /\ held' = held \ {"lease", "lifetime", "timers"}
  /\ accepting' = FALSE
  /\ \E failed \in SUBSET {"lease", "claims", "abort"} : faults' = faults \cup failed
  /\ closing' = "drain"
  /\ UNCHANGED <<settings, file, start, closes, bound, asked, lane, work, exit>>

(* The job at work is given ten seconds. *)
Drain ==
  /\ closing = "drain"
  /\ \/ "job" \notin work /\ UNCHANGED faults
     \/ "job" \in work /\ faults' = faults \cup {"drain"}
  /\ closing' = "dispose"
  /\ UNCHANGED <<settings, file, start, closes, bound, asked, held, accepting,
                 lane, work, exit>>

(* The handlers of signals, the database and the channel; then what failed on
   the way is reported. *)
Dispose ==
  /\ closing = "dispose"
  /\ bound' = FALSE
  /\ closes' = CloseIfOpen
  /\ held' = held \ {"channel"}
  /\ \E failed \in SUBSET {"signals", "database"} : faults' = faults \cup failed
  /\ exit' = IF faults' = {} THEN exit ELSE 1
  /\ closing' = "done"
  /\ UNCHANGED <<settings, file, start, asked, accepting, lane, work>>

(* Nothing is left that would keep the event loop turning. *)
Exit ==
  /\ start \in {"ready", "failed"} /\ held = {} /\ work = {}
  /\ closing \notin {"http", "mail", "release", "drain", "dispose"}
  /\ start' = IF start = "ready" THEN "exited" ELSE "aborted"
  /\ UNCHANGED <<settings, file, closing, closes, bound, asked, held, accepting,
                 lane, work, faults, exit>>

(* The same process again, on the file that is left. *)
Restart ==
  /\ Over
  /\ start' = "load" /\ closing' = "no"
  /\ closes' = [opened |-> 0, closed |-> 0]
  /\ bound' = FALSE /\ asked' = FALSE
  /\ held' = {} /\ accepting' = FALSE /\ lane' = FALSE /\ work' = {}
  /\ faults' = {} /\ exit' = 0
  /\ UNCHANGED <<settings, file>>

Starting == Load \/ Open \/ Migrate \/ Compose \/ Listen \/ Bind \/ Acquire \/ Recover
            \/ Announce \/ Failed
Working  == Claim \/ Settle \/ Upkeep \/ Post \/ Posted
            \/ \E r \in Requests : Request(r) \/ Respond(r)
Stopping == Asked \/ CloseHttp \/ CloseMail \/ Release \/ Drain \/ Dispose \/ Exit
Next == Starting \/ Working \/ Signal \/ Stopping \/ Maintain \/ Restart

(* What was begun goes on, and every answer of the provider, the mail service
   and a browser is bounded by a timeout; claims and requests are choices of
   the outside. *)
Spec == /\ Init /\ [][Next]_vars
        /\ WF_vars(Starting) /\ WF_vars(Stopping)
        /\ WF_vars(Settle) /\ WF_vars(Upkeep) /\ WF_vars(Posted)
        /\ WF_vars(\E r \in Requests : Respond(r))

---------------------------------------------------------------------------
(* Properties. *)

TypeOK ==
  /\ settings \in Settings /\ file \in Files
  /\ start \in {"load", "open", "migrate", "compose", "listen", "bind", "acquire",
                "recover", "announce", "ready", "failing", "failed", "exited", "aborted", "killed"}
  /\ closing \in {"no", "http", "mail", "release", "drain", "dispose", "done"}
  /\ closes \in [opened : 0..1, closed : 0..1]
  /\ held \subseteq {"lease", "lifetime", "timers", "server", "channel"}
  /\ work \subseteq {"job", "upkeep", "mail"} \cup Requests
  /\ faults \subseteq Steps
  /\ bound \in BOOLEAN /\ asked \in BOOLEAN /\ accepting \in BOOLEAN /\ lane \in BOOLEAN
  /\ exit \in 0..1

(* Whoever may still write finds the database open, but for three: once it is
   closed no claim is accepted, no mail is posted and nothing is at work except
   a job or a request whose ten seconds ran out, which is reported
   (closeWorkerRuntime, closeWebRuntime), and the upkeep after the last batch of
   a worker with claims.  Nobody awaits that: drain waits for the inner worker,
   runUntilIdle goes on to maintain() when that has answered
   (generation-worker.ts:118-128, 205), so it may find the database closed, and
   its error reaches onError alone. *)
OnlyLateWorkOutlivesTheDatabase ==
  ~Opened => /\ ~accepting /\ ~lane
             /\ work \subseteq {"job", "upkeep"} \cup Requests
             /\ "job" \in work => "drain" \in faults
             /\ InFlight # {} => "http" \in faults
             /\ "upkeep" \in work =>
                  settings.role = "worker" /\ Claims /\ start = "ready" /\ closing = "done"

(* A process that was not killed has closed the database it opened, exactly
   once, whichever steps of its start and its shutdown failed, and its exit
   code tells whether any did (persistenceOpen; the aggregated errors).  One
   that was ready stays until it is asked to go, even with claims and mail
   disabled, when there is no timer to keep it (worker-lifetime.test.ts). *)
EndsProperly ==
  /\ TypeOK
  /\ start \in {"exited", "aborted"} =>
       /\ closes.closed = closes.opened
       /\ exit = 1 <=> start = "aborted" \/ faults # {}
  /\ start = "exited" => asked

(* In production a job is begun only by a process that holds the lease on
   readiness: the lease is given up when no claim can follow any more. *)
ClaimsUnderTheLease ==
  [][("job" \in work' /\ "job" \notin work /\ Production) => "lease" \in held]_vars

(* Shared data is never changed by the start of a process, whatever it finds;
   and a start that fails or is killed never leaves isolated data half way: the
   next one finds it as it was, new and empty, or current.  Whatever the file
   was, work is done on a verified one only (README.md:123). *)
OnlyAVerifiedFileIsServed ==
  [][/\ file' # file => \/ start = "load"
                        \/ ~settings.shared /\ file'.ledger = "empty"
                        \/ ~settings.shared /\ file' = Current
     /\ work' # {} => file' = Current]_vars

(* A process that is asked to go does, even if its job or its request does not
   end in time, or a step of the shutdown fails. *)
GoesWhenAsked == asked ~> Over
=============================================================================
