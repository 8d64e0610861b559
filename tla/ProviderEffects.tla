--------------------------- MODULE ProviderEffects ----------------------------
(***************************************************************************)
(* The paid provider work of one generation run: the durable job that      *)
(* carries it, the worker processes that claim the job, and the receipts   *)
(* (rows of provider_effects) that fence every request which creates a     *)
(* response at the provider.                                               *)
(*                                                                         *)
(* A worker executes the run as a sequence of SQLite statements and        *)
(* network calls, one action each; between two actions the process may     *)
(* crash, be asked to stop, or another process may run.  The job store and *)
(* its leases are @mikaelcedergren/cx-framework, which is not part of the  *)
(* repository: its operations are modelled from how the code and its tests *)
(* use them.                                                               *)
(***************************************************************************)
EXTENDS Naturals

CONSTANTS
    Worker,       \* worker processes
    NoWorker,     \* holder of a job nobody has claimed
    MaxAttempts,  \* attempts of a job before it fails
    MaxRevision,  \* bound: a receipt polled this often is not written again
    MaxStops      \* bound: crashes and stop requests in a behaviour

ASSUME AttemptsAssumption == MaxAttempts \in Nat \ {0}
ASSUME RevisionAssumption == MaxRevision \in Nat
ASSUME StopsAssumption == MaxStops \in Nat
ASSUME NoWorkerAssumption == NoWorker \notin Worker

VARIABLES
    effect,     \* receipt of each request of the stage
    run,        \* the row of generation_runs
    job,        \* the durable job the run is linked to
    recovered,  \* a row of generation_receipt_recoveries exists for the run
    worker,     \* what each worker process is doing
    creates,    \* requests sent to the provider (observer)
    stops       \* crashes and stop requests so far (bound)

vars == <<effect, run, job, recovered, worker, creates, stops>>

\* The original request and the one correction that generateStructured makes.
Ordinal == 1..2

EffectState == {"absent", "prepared", "creating", "submitted", "polling",
                "succeeded", "rejected", "ambiguous"}
Unresolved == {"creating", "submitted", "polling"}
RunTerminal == {"succeeded", "failed", "ambiguous"}
Cause == {"none", "provider", "invalid", "capacity", "campaign", "job", "unexpected"}

Effect == [state : EffectState, revision : Nat, responseId : Nat,
           output : {"none", "valid", "invalid"}]
Run == [state : {"queued", "running"} \cup RunTerminal, revision : Nat, cause : Cause]
Job == [status : {"queued", "running", "succeeded", "failed"}, attempts : 0..MaxAttempts,
        holder : Worker \cup {NoWorker}, lease : {"none", "live", "expired"}]

\* The program counter of a worker names the next thing it does.
InHandler == {"begin", "load", "quarantine", "prepared", "fenced", "posted", "poll",
              "apply", "terminal", "lostRun", "pending", "exhausted", "conflict",
              "complete", "retry", "delay", "giveUp"}
PC == {"down", "recover", "maintain", "idle"} \cup InHandler
Process == [pc : PC,
            stopping : BOOLEAN,     \* its abort signal has fired
            ordinal : Ordinal,
            revision : Nat,         \* of the receipt, as last read
            runRevision : Nat,      \* of the run, as last read
            attempt : 0..MaxAttempts,
            sent : Nat,             \* the request whose answer it awaits
            verdict : {"failed", "ambiguous"}, cause : Cause]

TypeOK ==
    /\ effect \in [Ordinal -> Effect]
    /\ run \in Run
    /\ job \in Job
    /\ recovered \in BOOLEAN
    /\ worker \in [Worker -> Process]
    /\ creates \in [Ordinal -> Nat]
    /\ stops \in Nat

NoEffect == [state |-> "absent", revision |-> 0, responseId |-> 0, output |-> "none"]
Down == [pc |-> "down", stopping |-> FALSE, ordinal |-> 1, revision |-> 0, runRevision |-> 0,
         attempt |-> 0, sent |-> 0, verdict |-> "failed", cause |-> "none"]

\* An admitted run: the run and its job were inserted together.
Init ==
    /\ effect = [o \in Ordinal |-> NoEffect]
    /\ run = [state |-> "queued", revision |-> 1, cause |-> "none"]
    /\ job = [status |-> "queued", attempts |-> 0, holder |-> NoWorker, lease |-> "none"]
    /\ recovered = FALSE
    /\ worker = [w \in Worker |-> Down]
    /\ creates = [o \in Ordinal |-> 0]
    /\ stops = 0

\* What a worker becomes when it moves on, when it has read a receipt, and
\* when it has decided how the run ends.
At(w, pc) == [worker[w] EXCEPT !.pc = pc]
Seen(w, pc, revision) == [worker[w] EXCEPT !.pc = pc, !.revision = revision]
Ending(w, verdict, cause) ==
    [worker[w] EXCEPT !.pc = "terminal", !.verdict = verdict, !.cause = cause]
Become(w, process) == worker' = [worker EXCEPT ![w] = process]
Goto(w, pc) == Become(w, At(w, pc))

\* The receipt worker w is concerned with, and a receipt rewritten.
Current(w) == effect[worker[w].ordinal]
Rewritten(e, state, responseId, output) ==
    [state |-> state, revision |-> e.revision + 1, responseId |-> responseId, output |-> output]
WrittenOff(e) == Rewritten(e, "ambiguous", e.responseId, "none")

\* What is on record about a run and its cause.
RunIn(state, cause) == [state |-> state, revision |-> run.revision + 1, cause |-> cause]
-------------------------------------------------------------------------------
(***************************************************************************)
(* The job store.                                                          *)
(***************************************************************************)
Leased == job.status = "running" /\ job.lease = "live"
Holds(w) == Leased /\ job.holder = w
Claimed(attempts, holder, lease) ==
    [status |-> "running", attempts |-> attempts, holder |-> holder, lease |-> lease]
Freed(status, attempts) ==
    [status |-> status, attempts |-> attempts, holder |-> NoWorker, lease |-> "none"]

Claim(w) ==
    /\ worker[w].pc = "idle" /\ ~worker[w].stopping
    /\ job.status = "queued"
    /\ job' = Claimed(job.attempts + 1, w, "live")
    /\ Become(w, [At(w, "begin") EXCEPT !.attempt = job.attempts + 1])
    /\ UNCHANGED <<effect, run, recovered, creates, stops>>

\* The heartbeat of a process that is executing keeps its lease alive, so a
\* lease runs out once its process is gone ...
LeaseExpires ==
    /\ Leased
    /\ \A w \in Worker : job.holder = w => worker[w].pc \notin InHandler
    /\ job' = Claimed(job.attempts, job.holder, "expired")
    /\ UNCHANGED <<effect, run, recovered, worker, creates, stops>>

\* ... or while the process is suspended for longer than the lease.
LeaseLapses ==
    /\ Leased
    /\ job' = Claimed(job.attempts, job.holder, "expired")
    /\ UNCHANGED <<effect, run, recovered, worker, creates, stops>>

\* recoverExpired: on startup, and whenever an accepting worker polls.
RecoverExpired(w) ==
    /\ \/ worker[w].pc = "recover" /\ Goto(w, "maintain")
       \/ worker[w].pc = "idle" /\ ~worker[w].stopping /\ job.lease = "expired" /\ Goto(w, "idle")
    /\ job' = IF job.lease = "expired"
              THEN Freed(IF job.attempts < MaxAttempts THEN "queued" ELSE "failed", job.attempts)
              ELSE job
    /\ UNCHANGED <<effect, run, recovered, creates, stops>>

\* Fault: the job of a run that was given up counts as done.
SettledKindly(pc) ==
    CASE pc \in {"complete", "giveUp"} -> Freed("succeeded", job.attempts)
      [] pc = "retry" -> Freed(IF job.attempts < MaxAttempts THEN "queued" ELSE "failed",
                               job.attempts)
      [] pc = "delay" -> Freed("queued", job.attempts - 1)

\* What the store does with the result of a handler.  Only the holder of a
\* live lease is heard; a delay gives the attempt back.
Settled(pc) ==
    CASE pc = "complete" -> Freed("succeeded", job.attempts)
      [] pc = "retry" -> Freed(IF job.attempts < MaxAttempts THEN "queued" ELSE "failed",
                               job.attempts)
      [] pc = "delay" -> Freed("queued", job.attempts - 1)
      [] pc = "giveUp" -> Freed("failed", job.attempts)

Release(w) ==
    /\ worker[w].pc \in {"complete", "retry", "delay", "giveUp"}
    /\ job' = IF Holds(w) THEN Settled(worker[w].pc) ELSE job
    /\ Goto(w, "maintain")
    /\ UNCHANGED <<effect, run, recovered, creates, stops>>
-------------------------------------------------------------------------------
(***************************************************************************)
(* transitionEffect: a compare-and-swap on the revision of the receipt.    *)
(* A caller one revision behind that asks for what is already recorded is  *)
(* told that it succeeded; any other mismatch is an error.  The code and   *)
(* the message of an error are compared too: of two errors on a receipt    *)
(* the second may be the same or another.                                  *)
(***************************************************************************)
Swaps(w) == Current(w).revision = worker[w].revision /\ Current(w).state # "ambiguous"

Repeats(w, state, responseId, output) ==
    /\ Current(w).revision = worker[w].revision + 1
    /\ Current(w).state = state
    /\ Current(w).responseId = responseId
    /\ Current(w).output = output

Differs(w, state, responseId, output) ==
    ~Repeats(w, state, responseId, output) \/ state \in {"rejected", "ambiguous"}

Transition(w, state, responseId, output, after) ==
    LET o == worker[w].ordinal IN
    \/ /\ Swaps(w)
       /\ effect' = [effect EXCEPT ![o] = Rewritten(@, state, responseId, output)]
       /\ Become(w, [after EXCEPT !.revision = effect[o].revision + 1])
    \/ /\ ~Swaps(w) /\ Repeats(w, state, responseId, output)
       /\ Become(w, [after EXCEPT !.revision = effect[o].revision])
       /\ UNCHANGED effect
    \/ /\ ~Swaps(w) /\ Differs(w, state, responseId, output)
       /\ Goto(w, "conflict")
       /\ UNCHANGED effect

\* generateStructured: an invalid answer earns one correction, not two.
Judged(w, output) ==
    IF output = "valid" THEN At(w, "apply")
    ELSE IF worker[w].ordinal = 1 THEN [At(w, "load") EXCEPT !.ordinal = 2]
    ELSE Ending(w, "failed", "invalid")
-------------------------------------------------------------------------------
(***************************************************************************)
(* The handler.                                                            *)
(***************************************************************************)
\* Fault: a handler that finds its run failed starts over.
BeginAgain(w) ==
    /\ worker[w].pc = "begin"
    /\ \/ run.state = "succeeded" /\ Goto(w, "complete") /\ UNCHANGED run
       \/ /\ run.state # "succeeded"
          /\ run' = RunIn("running", "none")
          /\ Become(w, [At(w, "load") EXCEPT !.ordinal = 1, !.runRevision = run'.revision])
    /\ UNCHANGED <<effect, job, recovered, creates, stops>>

Begin(w) ==
    /\ worker[w].pc = "begin"
    /\ \/ /\ run.state = "succeeded"
          /\ Goto(w, "complete")
          /\ UNCHANGED run
       \/ /\ run.state \in {"failed", "ambiguous"}
          /\ Goto(w, "giveUp")
          /\ UNCHANGED run
       \/ /\ run.state \in {"queued", "running"}
          /\ run' = IF run.state = "queued" THEN RunIn("running", "none") ELSE run
          /\ \/ Become(w, [At(w, "load") EXCEPT !.ordinal = 1, !.runRevision = run'.revision])
             \* requiredCampaign: the campaign is gone or has another revision.
             \/ Become(w, [Ending(w, "failed", "campaign") EXCEPT !.runRevision = run'.revision])
    /\ UNCHANGED <<effect, job, recovered, creates, stops>>

\* getEffect, and prepareEffect where there is none.
Load(w) ==
    LET o == worker[w].ordinal
        e == effect[o] IN
    /\ worker[w].pc = "load"
    /\ \/ /\ e.state = "absent"
          /\ effect' = [effect EXCEPT ![o] = Rewritten(NoEffect, "prepared", 0, "none")]
          /\ Become(w, Seen(w, IF worker[w].stopping THEN "delay" ELSE "prepared", 1))
       \* The table of receipts is full.
       \/ /\ e.state = "absent"
          /\ Become(w, IF worker[w].attempt < MaxAttempts THEN At(w, "retry")
                       ELSE Ending(w, "failed", "capacity"))
          /\ UNCHANGED effect
       \/ /\ e.state = "prepared"
          /\ Become(w, Seen(w, IF worker[w].stopping THEN "delay" ELSE "prepared", e.revision))
          /\ UNCHANGED effect
       \/ /\ e.state = "creating"
          /\ Become(w, Seen(w, "quarantine", e.revision))
          /\ UNCHANGED effect
       \/ /\ e.state \in {"submitted", "polling"}
          /\ Become(w, Seen(w, "poll", e.revision))
          /\ UNCHANGED effect
       \/ /\ e.state = "succeeded"
          /\ Become(w, Judged(w, e.output))
          /\ UNCHANGED effect
       \/ /\ e.state = "rejected"
          /\ Become(w, Ending(w, "failed", "provider"))
          /\ UNCHANGED effect
       \/ /\ e.state = "ambiguous"
          /\ Become(w, Ending(w, "ambiguous", "provider"))
          /\ UNCHANGED effect
    /\ UNCHANGED <<run, job, recovered, creates, stops>>

\* A receipt found in "creating" may already have been sent.
Quarantine(w) ==
    /\ worker[w].pc = "quarantine"
    /\ Transition(w, "ambiguous", Current(w).responseId, "none",
                  Ending(w, "ambiguous", "provider"))
    /\ UNCHANGED <<run, job, recovered, creates, stops>>

\* Fault: the request is sent before the receipt says so.
FenceSkipped(w) ==
    /\ worker[w].pc = "prepared"
    /\ Goto(w, "fenced")
    /\ UNCHANGED <<effect, run, job, recovered, creates, stops>>

Fence(w) ==
    /\ worker[w].pc = "prepared"
    /\ Transition(w, "creating", Current(w).responseId, "none", At(w, "fenced"))
    /\ UNCHANGED <<run, job, recovered, creates, stops>>

Post(w) ==
    LET o == worker[w].ordinal IN
    /\ worker[w].pc = "fenced"
    /\ creates' = [creates EXCEPT ![o] = @ + 1]
    /\ Become(w, [At(w, "posted") EXCEPT !.sent = creates[o] + 1])
    /\ UNCHANGED <<effect, run, job, recovered, stops>>

\* No body that could be read arrives: a transport error, a timeout, an abort, or
\* more bytes than are taken.  A body without an id ends the same way.
Unanswered(w) ==
    Transition(w, "ambiguous", Current(w).responseId, "none",
               Ending(w, "ambiguous", "provider"))

\* The answer to the request: a response with an id, a definitive refusal, or
\* anything else.
Answer(w) ==
    /\ worker[w].pc = "posted"
    /\ \/ Transition(w, "submitted", worker[w].sent, "none", At(w, "poll"))
       \/ Transition(w, "rejected", Current(w).responseId, "none",
                     Ending(w, "failed", "provider"))
       \/ Unanswered(w)
    /\ UNCHANGED <<run, job, recovered, creates, stops>>

\* The text of a completed response is a JSON document of the stage, or not.
Output == {"valid", "invalid"}

\* pollResponse: the response completed, ended without result, is in progress,
\* the deadline passed (or there is no room for the result), or the worker is
\* stopping.  A failed retrieval changes nothing and is not a step.
Poll(w) ==
    LET id == Current(w).responseId IN
    /\ worker[w].pc = "poll"
    /\ \/ \E output \in Output :
            Transition(w, "succeeded", id, output, Judged(w, output))
       \/ Transition(w, "rejected", id, "none", Ending(w, "failed", "provider"))
       \/ /\ worker[w].revision < MaxRevision
          /\ Transition(w, "polling", id, "none", At(w, "poll"))
       \/ Goto(w, "pending") /\ UNCHANGED effect
       \/ worker[w].stopping /\ Goto(w, "delay") /\ UNCHANGED effect
    /\ UNCHANGED <<run, job, recovered, creates, stops>>

\* Fault: the last attempt fails the run without looking at its receipt again.
PendingForgotten(w) ==
    /\ worker[w].pc = "pending"
    /\ Become(w, IF worker[w].attempt < MaxAttempts THEN At(w, "retry")
                 ELSE Ending(w, "failed", "provider"))
    /\ UNCHANGED <<effect, run, job, recovered, creates, stops>>

\* providerFailure for a response that did not finish in time.
Pending(w) ==
    /\ worker[w].pc = "pending"
    /\ Goto(w, IF worker[w].attempt < MaxAttempts THEN "retry" ELSE "exhausted")
    /\ UNCHANGED <<effect, run, job, recovered, creates, stops>>

\* quarantinePending re-reads the receipt before it gives the response up.
QuarantinePending(w) ==
    LET o == worker[w].ordinal
        e == effect[o] IN
    /\ worker[w].pc = "exhausted"
    /\ Become(w, Ending(w, "ambiguous", IF e.state \in {"submitted", "polling", "ambiguous"}
                                        THEN "provider" ELSE "unexpected"))
    /\ effect' = IF e.state \in {"submitted", "polling"}
                 THEN [effect EXCEPT ![o] = WrittenOff(e)]
                 ELSE effect
    /\ UNCHANGED <<run, job, recovered, creates, stops>>

\* providerFailure for an error nobody expected.
Conflict(w) ==
    /\ worker[w].pc = "conflict"
    /\ Become(w, IF worker[w].attempt < MaxAttempts THEN At(w, "retry")
                 ELSE Ending(w, "ambiguous", "unexpected"))
    /\ UNCHANGED <<effect, run, job, recovered, creates, stops>>

\* finalizeStage, called with the revision of the run the handler began with.
OwnsRun(w) == run.state = "running" /\ run.revision = worker[w].runRevision

Terminalize(w) ==
    /\ worker[w].pc = "terminal"
    /\ \/ /\ OwnsRun(w)
          /\ run' = RunIn(worker[w].verdict, worker[w].cause)
          /\ Goto(w, "giveUp")
       \/ /\ ~OwnsRun(w)
          /\ Goto(w, "lostRun")
          /\ UNCHANGED run
    /\ UNCHANGED <<effect, job, recovered, creates, stops>>

Apply(w) ==
    /\ worker[w].pc = "apply"
    /\ \/ /\ OwnsRun(w)
          /\ run' = RunIn("succeeded", "none")
          /\ Goto(w, "complete")
       \* The campaign changed while the stage was being generated.
       \/ /\ OwnsRun(w)
          /\ Become(w, Ending(w, "failed", "campaign"))
          /\ UNCHANGED run
       \* There is no room for the next stage, or for the campaign itself.
       \/ /\ OwnsRun(w)
          /\ \/ worker[w].attempt < MaxAttempts /\ Goto(w, "retry")
             \/ Become(w, Ending(w, "failed", "capacity"))
          /\ UNCHANGED run
       \/ /\ ~OwnsRun(w)
          /\ Goto(w, "lostRun")
          /\ UNCHANGED run
    /\ UNCHANGED <<effect, job, recovered, creates, stops>>

\* The handler re-reads a run that somebody else changed.
LostRun(w) ==
    /\ worker[w].pc = "lostRun"
    /\ \/ run.state = "succeeded" /\ Goto(w, "complete") /\ UNCHANGED run
       \/ run.state \in {"failed", "ambiguous"} /\ Goto(w, "giveUp") /\ UNCHANGED run
       \/ /\ run.state \in {"queued", "running"} /\ worker[w].attempt < MaxAttempts
          /\ Goto(w, "retry")
          /\ UNCHANGED run
       \/ /\ run.state = "running" /\ worker[w].attempt >= MaxAttempts
          /\ run' = RunIn("ambiguous", "unexpected")
          /\ Goto(w, "giveUp")
    /\ UNCHANGED <<effect, job, recovered, creates, stops>>
-------------------------------------------------------------------------------
(***************************************************************************)
(* The life of a worker process.                                           *)
(***************************************************************************)
\* Fault: startup gives every receipt up, not only those of open requests.
BootForgetful(w) ==
    /\ worker[w].pc = "down"
    /\ Goto(w, "recover")
    /\ effect' = [o \in Ordinal |->
                    IF effect[o].state # "absent" /\ ~Leased
                    THEN WrittenOff(effect[o])
                    ELSE effect[o]]
    /\ UNCHANGED <<run, job, recovered, creates, stops>>

\* Startup begins by quarantining the receipts of requests that no live claim
\* can be waiting for; RecoverExpired and Maintain complete it.
Boot(w) ==
    /\ worker[w].pc = "down"
    /\ Goto(w, "recover")
    /\ effect' = [o \in Ordinal |->
                    IF effect[o].state = "creating" /\ ~Leased
                    THEN WrittenOff(effect[o])
                    ELSE effect[o]]
    /\ UNCHANGED <<run, job, recovered, creates, stops>>

\* Fault: only runs that had started are reconciled with their jobs.
OrphanedOnlyRunning == run.state = "running" /\ job.status = "failed"
\* reconcileTerminalJobs, on startup, after productive work and periodically.
Orphaned == run.state \in {"queued", "running"} /\ job.status = "failed"
Uncertain == \E o \in Ordinal : effect[o].state \in Unresolved \cup {"ambiguous"}
Receipted == \E o \in Ordinal : effect[o].state = "succeeded"
\* Fault: only a correction counts as a paid answer.
ResumableByCorrection ==
    effect[2].state = "succeeded" /\ run.state = "running" /\ ~Uncertain /\ ~recovered

Resumable == Receipted /\ run.state = "running" /\ ~Uncertain /\ ~recovered

Resume ==
    /\ Orphaned /\ Resumable
    /\ recovered' = TRUE
    /\ job' = Freed("queued", 0)
    /\ run' = RunIn("running", run.cause)
    /\ UNCHANGED effect

CloseOrphan ==
    /\ Orphaned /\ ~Resumable
    /\ effect' = [o \in Ordinal |->
                    IF effect[o].state \in Unresolved
                    THEN WrittenOff(effect[o])
                    ELSE effect[o]]
    /\ run' = IF Uncertain THEN RunIn("ambiguous", "job") ELSE RunIn("failed", "job")
    /\ UNCHANGED <<job, recovered>>

Maintain(w) ==
    /\ \/ worker[w].pc = "maintain" /\ Goto(w, "idle")
       \/ /\ worker[w].pc \in {"idle"} \cup InHandler /\ ~worker[w].stopping
          /\ Orphaned
          /\ UNCHANGED worker
    /\ \/ Resume
       \/ CloseOrphan
       \/ ~Orphaned /\ UNCHANGED <<effect, run, job, recovered>>
    /\ UNCHANGED <<creates, stops>>

\* A graceful stop: no further claims, and the abort signal of the handler.
Stop(w) ==
    /\ worker[w].pc # "down" /\ ~worker[w].stopping
    /\ stops < MaxStops /\ stops' = stops + 1
    /\ Become(w, [At(w, worker[w].pc) EXCEPT !.stopping = TRUE])
    /\ UNCHANGED <<effect, run, job, recovered, creates>>

Exit(w) ==
    /\ worker[w].pc = "idle" /\ worker[w].stopping
    /\ Become(w, Down)
    /\ UNCHANGED <<effect, run, job, recovered, creates, stops>>

\* A crash, or a drain that ran out of time.
Crash(w) ==
    /\ worker[w].pc # "down"
    /\ stops < MaxStops /\ stops' = stops + 1
    /\ Become(w, Down)
    /\ UNCHANGED <<effect, run, job, recovered, creates>>
-------------------------------------------------------------------------------
Handle(w) ==
    \/ Begin(w) \/ Load(w) \/ Quarantine(w) \/ Fence(w) \/ Post(w) \/ Answer(w) \/ Poll(w)
    \/ Pending(w) \/ QuarantinePending(w) \/ Terminalize(w) \/ Apply(w) \/ Release(w)

Work(w) == Handle(w) \/ Claim(w) \/ RecoverExpired(w) \/ Maintain(w) \/ Boot(w) \/ Exit(w)

Next == LeaseExpires \/ \E w \in Worker : Work(w) \/ Stop(w) \/ Crash(w)

\* launchd restarts the worker, its intervals keep firing, requests time out
\* and leases run out.
Fairness == WF_vars(LeaseExpires) /\ \A w \in Worker : WF_vars(Work(w))

Spec == Init /\ [][Next]_vars
FairSpec == Spec /\ Fairness

\* With processes that may also be suspended beyond their lease.  Only then can a
\* handler find its receipt or its run moved on by somebody else.
Late(w) == Conflict(w) \/ LostRun(w)
StallNext == Next \/ LeaseLapses \/ \E w \in Worker : Late(w)
StallSpec == Init /\ [][StallNext]_vars
-------------------------------------------------------------------------------
(***************************************************************************)
(* Properties.                                                             *)
(***************************************************************************)
\* No request is sent to the provider twice, whatever crashes and however
\* often the job is claimed again: the receipt is fenced before the request.
AtMostOneCreate == \A o \in Ordinal : creates[o] <= 1

\* A run ends as failed, which tells the owner that nothing is outstanding,
\* only when no paid request is still unresolved.  A campaign that changed
\* between two attempts is the exception the code makes: requiredCampaign
\* ends the run without looking at its receipts.
FailedMeansSettled ==
    run.state = "failed" /\ run.cause # "campaign" =>
        \A o \in Ordinal : effect[o].state \notin Unresolved

\* A run whose job died after the provider's answer was on record is closed
\* as failed only after its one recovery has been used as well.
PaidAnswerGetsSecondChance ==
    run.state = "failed" /\ run.cause = "job" /\ Receipted => recovered

\* The job store never counts as done a job whose run is not: a crash between
\* the two commits leaves the job to be claimed again.
CompletedJobMeansSucceededRun == job.status = "succeeded" => run.state = "succeeded"

\* What is on record about a request is final, and so is the response it is
\* being polled for, whoever still executes the job: a suspended worker that
\* comes back cannot rewrite either.
ReceiptIsFinal ==
    [][\A o \in Ordinal :
        /\ effect[o].state \in {"succeeded", "rejected", "ambiguous"} => effect'[o] = effect[o]
        /\ effect[o].responseId # 0 => effect'[o].responseId = effect[o].responseId]_vars

\* Every admitted run comes to an end, and so does its job, so that the
\* campaign can be retried or deleted.
RunSettles ==
    <>[](run.state \in RunTerminal /\ job.status \in {"succeeded", "failed"})

\* What the owner can tell about a request and about the stage.
OutcomeOf(state) ==
    CASE state = "succeeded" -> "answered"
      [] state = "rejected" -> "refused"
      [] state = "ambiguous" -> "unknown"
      [] OTHER -> "open"
StageOf(state) ==
    CASE state = "succeeded" -> "delivered"
      [] state \in {"failed", "ambiguous"} -> "abandoned"
      [] OTHER -> "open"

Outcomes == [o \in Ordinal |-> OutcomeOf(effect[o].state)]
Stage == StageOf(run.state)

Paid == INSTANCE PaidCreate WITH sent <- creates, outcome <- Outcomes, stage <- Stage

\* The owner is never charged twice, never after a verdict, and never for a
\* correction of an answer that is not on record.
ChargesAsPromised == Paid!Spec
===============================================================================
