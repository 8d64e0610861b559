--------------------------- MODULE CampaignPipeline ---------------------------
(***************************************************************************)
(* One campaign from the idea to the finished texts and prompts: what the  *)
(* owner may ask for (create, refine, retry, continue, edit, delete), the  *)
(* chain of generation runs that carry it out (strategy, copy, prompts),   *)
(* the durable job of each run, its reconciliation with the run, and the   *)
(* retention that deletes finished rows.  The web process and the workers  *)
(* meet only in the database, one transaction per action.                  *)
(*                                                                         *)
(* How a single request is paid for is the business of ProviderEffects;    *)
(* here the receipts of a run are reduced to the answer to each request    *)
(* and to whether any of them was paid for.  Campaigns interact only       *)
(* through the limits on storage and on admissions, so one is enough.      *)
(***************************************************************************)
EXTENDS Naturals, FiniteSets

CONSTANTS
    Worker,       \* worker processes
    Nobody,       \* holder of a job nobody has claimed
    MaxAttempts,  \* attempts of a job before it fails
    Found,        \* what the database may hold of the campaign at first
    MaxRuns,      \* bound: runs of the campaign
    MaxRevision   \* bound: a campaign this often revised is not edited again

ASSUME AttemptsAssumption == MaxAttempts \in Nat \ {0}
ASSUME RunsAssumption == MaxRuns \in Nat \ {0}
ASSUME RevisionAssumption == MaxRevision \in Nat
ASSUME NobodyAssumption == Nobody \notin Worker

VARIABLES
    campaign,  \* the row of campaigns
    last,      \* run_sequence of the newest run ever inserted
    run,       \* rows of generation_runs, by run_sequence
    job,       \* the job each run is linked to
    receipt,   \* what provider_effects holds for each run
    leftover,  \* runs whose first, failed job is stored but no longer linked
    worker     \* what each worker process is doing

vars == <<campaign, last, run, job, receipt, leftover, worker>>

RunId == 1..MaxRuns
Language == {"en", "sv"}
Stage == {"strategy", "copy", "prompts"}
Active == {"queued", "running"}
Failed == {"failed", "ambiguous"}

Text == [by : {"nobody", "provider", "owner"}, at : Nat]
Campaign == [stage : {"absent", "strategy", "copy", "complete"}, revision : Nat,
             copy : [Language -> Text], prompts : BOOLEAN]
\* The owner's words a refinement starts from, and the revision they were
\* taken at.
Draft == [language : Language \cup {"none"}, taken : Nat]
Run == [state : {"absent", "succeeded"} \cup Active \cup Failed, stage : Stage,
        expected : Nat, attempt : Nat, draft : Draft, revision : Nat, recovered : BOOLEAN]
Job == [status : {"absent", "queued", "running", "succeeded", "failed"},
        tries : 0..MaxAttempts, holder : Worker \cup {Nobody}]
Receipt == [paid : BOOLEAN,
            answer : [Language -> {"none", "open", "valid", "failed", "ambiguous"}]]
Process == [pc : {"idle", "begin", "read", "ask", "save", "fail", "lost",
                  "complete", "retry", "giveUp"},
            run : RunId, revision : Nat, tries : 0..MaxAttempts,
            seen : Campaign,            \* the campaign as the handler read it
            have : [Language -> Text],  \* the texts it has
            verdict : Failed]

TypeOK ==
    /\ campaign \in Campaign
    /\ last \in 0..MaxRuns
    /\ run \in [RunId -> Run]
    /\ job \in [RunId -> Job]
    /\ receipt \in [RunId -> Receipt]
    /\ leftover \subseteq RunId
    /\ worker \in [Worker -> Process]

NoText == [by |-> "nobody", at |-> 0]
NoCopy == [l \in Language |-> NoText]
NoCampaign == [stage |-> "absent", revision |-> 0, copy |-> NoCopy, prompts |-> FALSE]
NoDraft == [language |-> "none", taken |-> 0]
NoRun == [state |-> "absent", stage |-> "strategy", expected |-> 0, attempt |-> 0,
          draft |-> NoDraft, revision |-> 0, recovered |-> FALSE]
NoJob == [status |-> "absent", tries |-> 0, holder |-> Nobody]
NoReceipt == [paid |-> FALSE, answer |-> [l \in Language |-> "none"]]
Idle == [pc |-> "idle", run |-> 1, revision |-> 0, tries |-> 0, seen |-> NoCampaign,
         have |-> NoCopy, verdict |-> "failed"]

\* assertReachableState: the campaigns that the legacy import and the demo data
\* have left behind, without any run, and possibly incomplete.
Imported ==
    {c \in [stage : {"strategy", "copy", "complete"}, revision : {1}, prompts : BOOLEAN,
           copy : {[l \in Language |-> IF l \in ls THEN [by |-> "provider", at |-> 1] ELSE NoText] :
                       ls \in {{}, {"en"}, Language}}] :
        /\ c.stage = "strategy" => ~c.prompts /\ c.copy = NoCopy
        /\ c.stage = "copy" => c.copy # NoCopy
        /\ c.stage = "complete" => c.prompts}

ASSUME FoundAssumption == Found \subseteq {NoCampaign} \cup Imported

Init ==
    /\ campaign \in Found
    /\ last = 0
    /\ run = [r \in RunId |-> NoRun]
    /\ job = [r \in RunId |-> NoJob]
    /\ receipt = [r \in RunId |-> NoReceipt]
    /\ leftover = {}
    /\ worker = [w \in Worker |-> Idle]

Rows == {r \in RunId : run[r].state # "absent"}
Latest(r) == r \in Rows /\ \A s \in Rows : s <= r
Exists == campaign.stage # "absent"
Written(copy) == {l \in Language : copy[l].by # "nobody"}
\* A campaign after one more change.
Revised(c, stage, copy, prompts) ==
    [stage |-> stage, revision |-> c.revision + 1, copy |-> copy, prompts |-> prompts]
\* Only a refinement carries a draft.
Refining(r) == run[r].draft.language # "none"
-------------------------------------------------------------------------------
(***************************************************************************)
(* Admission.  insertRun refuses a second active run of a campaign and     *)
(* enqueues the job of the new one in the same transaction.                *)
(***************************************************************************)
\* Fault: only a run that has started counts.
BusyRunning == \E r \in RunId : run[r].state = "running"

Busy == \E r \in RunId : run[r].state \in Active

NewRun(stage, expected, attempt, draft) ==
    [state |-> "queued", stage |-> stage, expected |-> expected, attempt |-> attempt,
     draft |-> draft, revision |-> 1, recovered |-> FALSE]
NewJob == [status |-> "queued", tries |-> 0, holder |-> Nobody]

Admit(stage, expected, attempt, draft) ==
    /\ ~Busy
    /\ last < MaxRuns
    /\ last' = last + 1
    /\ run' = [run EXCEPT ![last + 1] = NewRun(stage, expected, attempt, draft)]
    /\ job' = [job EXCEPT ![last + 1] = NewJob]
    /\ UNCHANGED <<campaign, receipt, leftover, worker>>

\* A campaign is created under an identity that was never used before.
CreateCampaign ==
    /\ ~Exists /\ last = 0
    /\ Admit("strategy", 0, 1, NoDraft)

\* A failed run with a paid receipt is never followed by another one.
Spent(r) == run[r].state \in Failed /\ receipt[r].paid

RefineCopy(l) ==
    /\ campaign.stage = "complete" /\ {"en", l} \subseteq Written(campaign.copy)
    /\ ~\E r \in RunId : Latest(r) /\ Spent(r)
    /\ Admit("copy", campaign.revision, 1, [language |-> l, taken |-> campaign.revision])

\* retryAdmission: the latest run, and it failed.
Retryable(r) ==
    /\ Latest(r) /\ run[r].state \in Failed
    /\ Exists <=> run[r].stage # "strategy"

\* assertAdmissionState: and nothing that was paid for hangs on it.
Unpaid(r) == ~receipt[r].paid

Retry(r) ==
    /\ Retryable(r) /\ Unpaid(r)
    /\ Admit(run[r].stage, campaign.revision, run[r].attempt + 1, run[r].draft)

\* classifyCampaignContinuation
Continuation ==
    IF campaign.stage = "strategy" THEN "copy"
    ELSE IF ~campaign.prompts /\ Written(campaign.copy) # {} THEN "prompts"
    ELSE IF campaign.prompts /\ Written(campaign.copy) # Language THEN "copy"
    ELSE "none"

Continue ==
    /\ Exists /\ Rows = {} /\ Continuation # "none"
    /\ Admit(Continuation, campaign.revision, 1, NoDraft)
-------------------------------------------------------------------------------
(***************************************************************************)
(* What the owner does to the campaign itself.                             *)
(***************************************************************************)
EditCopy(l) ==
    /\ l \in Written(campaign.copy) /\ campaign.revision < MaxRevision
    /\ campaign' = Revised(campaign, campaign.stage,
                           [campaign.copy EXCEPT ![l] = [by |-> "owner", at |-> campaign.revision + 1]],
                           campaign.prompts)
    /\ UNCHANGED <<last, run, job, receipt, leftover, worker>>

\* The runs go with their receipts, recoveries and terminal jobs; a job that
\* was replaced by a recovery is not linked to its run any more.
Removed(rs) ==
    /\ run' = [r \in RunId |-> IF r \in rs THEN NoRun ELSE run[r]]
    /\ job' = [r \in RunId |-> IF r \in rs THEN NoJob ELSE job[r]]
    /\ receipt' = [r \in RunId |-> IF r \in rs THEN NoReceipt ELSE receipt[r]]

Deletable == ~Busy /\ \A r \in Rows : job[r].status \notin {"queued", "running"}

Delete ==
    /\ Exists /\ Deletable
    /\ Removed(Rows)
    /\ campaign' = NoCampaign
    /\ UNCHANGED <<last, leftover, worker>>
-------------------------------------------------------------------------------
(***************************************************************************)
(* The job store, as in ProviderEffects.                                   *)
(***************************************************************************)
Become(w, process) == worker' = [worker EXCEPT ![w] = process]
Executing(w, r) == worker[w].pc # "idle" /\ worker[w].run = r
Holds(w) == LET j == job[worker[w].run] IN j.status = "running" /\ j.holder = w
JobOf(status, tries, holder) == [status |-> status, tries |-> tries, holder |-> holder]
JobBecomes(r, status, holder) ==
    job' = [job EXCEPT ![r] = JobOf(status, @.tries, holder)]

\* A job that is given up for now is queued again while it has attempts left.
Requeued(r) == IF job[r].tries < MaxAttempts THEN "queued" ELSE "failed"

Claim(w, r) ==
    /\ worker[w].pc = "idle" /\ job[r].status = "queued"
    /\ job' = [job EXCEPT ![r] = JobOf("running", @.tries + 1, w)]
    /\ Become(w, [Idle EXCEPT !.pc = "begin", !.run = r, !.tries = job[r].tries + 1])
    /\ UNCHANGED <<campaign, last, run, receipt, leftover>>

\* The lease of a job whose worker crashed or lost it runs out.
RecoverExpired(r) ==
    /\ job[r].status = "running" /\ ~Executing(job[r].holder, r)
    /\ JobBecomes(r, Requeued(r), Nobody)
    /\ UNCHANGED <<campaign, last, run, receipt, leftover, worker>>

\* The worker is suspended for longer than its lease.
Lapse(r) ==
    /\ job[r].status = "running"
    /\ JobBecomes(r, Requeued(r), Nobody)
    /\ UNCHANGED <<campaign, last, run, receipt, leftover, worker>>

Release(w) ==
    LET r == worker[w].run IN
    /\ worker[w].pc \in {"complete", "retry", "giveUp"}
    /\ IF ~Holds(w) THEN UNCHANGED job
       ELSE JobBecomes(r, CASE worker[w].pc = "complete" -> "succeeded"
                            [] worker[w].pc = "retry" -> Requeued(r)
                            [] worker[w].pc = "giveUp" -> "failed", Nobody)
    /\ Become(w, Idle)
    /\ UNCHANGED <<campaign, last, run, receipt, leftover>>

Crash(w) ==
    /\ worker[w].pc # "idle"
    /\ Become(w, Idle)
    /\ UNCHANGED <<campaign, last, run, job, receipt, leftover>>
-------------------------------------------------------------------------------
(***************************************************************************)
(* The handler.                                                            *)
(***************************************************************************)
At(w, pc) == [worker[w] EXCEPT !.pc = pc]
Goto(w, pc) == Become(w, At(w, pc))
\* The handler returns, or throws, and its local state is gone.
Leave(w, pc) == Become(w, [Idle EXCEPT !.pc = pc, !.run = worker[w].run])
Ending(w, verdict) == Become(w, [At(w, "fail") EXCEPT !.verdict = verdict])

\* What it has generated is lost with it.
GivesUp(w) ==
    Become(w, [At(w, "fail") EXCEPT !.verdict = "failed", !.have = worker[w].seen.copy])

\* An error nobody expected: retried while attempts remain.
Unexpected(w) ==
    IF worker[w].tries < MaxAttempts THEN Leave(w, "retry") ELSE Ending(w, "ambiguous")

\* What the provider writes goes into the next revision of the campaign.
Generated(w) == [by |-> "provider", at |-> worker[w].seen.revision + 1]

\* A copy run works through the languages the campaign lacks, English first;
\* every other run makes one request.
FillsCopy(r) == run[r].stage = "copy" /\ ~Refining(r)
Wanted(w) ==
    LET missing == (IF FillsCopy(worker[w].run) THEN Language ELSE {"en"})
                   \ Written(worker[w].have)
    IN IF "en" \in missing THEN {"en"} ELSE missing

\* transitionRun
Turned(r, state) == [run[r] EXCEPT !.state = state, !.revision = @ + 1]

Begin(w) ==
    LET r == worker[w].run IN
    /\ worker[w].pc = "begin"
    /\ \/ /\ run[r].state = "succeeded"
          /\ Leave(w, "complete")
          /\ UNCHANGED run
       \/ /\ run[r].state \in Failed \cup {"absent"}
          /\ Leave(w, "giveUp")
          /\ UNCHANGED run
       \/ /\ run[r].state \in Active
          /\ run' = IF run[r].state = "queued"
                    THEN [run EXCEPT ![r] = Turned(r, "running")] ELSE run
          /\ Become(w, [At(w, IF run[r].stage = "strategy" THEN "ask" ELSE "read")
                        EXCEPT !.revision = run'[r].revision])
    /\ UNCHANGED <<campaign, last, job, receipt, leftover>>

\* Fault: a copy run starts from nothing.
ReadAfresh(w) ==
    LET r == worker[w].run IN
    /\ worker[w].pc = "read"
    /\ \/ /\ campaign.revision # run[r].expected
          /\ Ending(w, "failed")
       \/ /\ campaign.revision = run[r].expected
          /\ Become(w, [At(w, "ask") EXCEPT !.seen = campaign])
    /\ UNCHANGED <<campaign, last, run, job, receipt, leftover>>

\* requiredCampaign
Read(w) ==
    LET r == worker[w].run IN
    /\ worker[w].pc = "read"
    /\ \/ /\ campaign.revision # run[r].expected
          /\ Ending(w, "failed")
       \/ /\ campaign.revision = run[r].expected
          /\ Become(w, [At(w, "ask") EXCEPT !.seen = campaign,
                            !.have = IF FillsCopy(r) THEN campaign.copy ELSE NoCopy])
    /\ UNCHANGED <<campaign, last, run, job, receipt, leftover>>

Answered(r, l, answer, paid) ==
    receipt' = [receipt EXCEPT ![r] = [paid |-> paid, answer |-> [@.answer EXCEPT ![l] = answer]]]

\* generateStructured, for the next request the run has to make.
Ask(w) ==
    LET r == worker[w].run IN
    /\ worker[w].pc = "ask"
    /\ \/ Wanted(w) = {} /\ Goto(w, "save") /\ UNCHANGED receipt
       \/ run[r].state = "absent" /\ Wanted(w) # {} /\ Unexpected(w) /\ UNCHANGED receipt
       \/ run[r].state # "absent" /\ \E l \in Wanted(w) :
            LET is == receipt[r].answer[l] IN
            \/ /\ is = "none"
               /\ Answered(r, l, "open", receipt[r].paid)
               /\ UNCHANGED worker
            \/ /\ is = "open"
               /\ Answered(r, l, "valid", TRUE)
               /\ UNCHANGED worker
            \* Refused, or answered (and paid for) twice with something invalid.
            \/ /\ is = "open"
               /\ \E paid \in {receipt[r].paid, TRUE} : Answered(r, l, "failed", paid)
               /\ UNCHANGED worker
            \/ /\ is = "open"
               /\ Answered(r, l, "ambiguous", receipt[r].paid)
               /\ UNCHANGED worker
            \/ /\ is = "valid"
               /\ Become(w, [At(w, "ask") EXCEPT !.have = [@ EXCEPT ![l] = Generated(w)]])
               /\ UNCHANGED receipt
            \/ /\ is \in Failed
               /\ Ending(w, is)
               /\ UNCHANGED receipt
            \* The table of receipts is full.
            \/ /\ is = "none"
               /\ IF worker[w].tries < MaxAttempts THEN Leave(w, "retry") ELSE Ending(w, "failed")
               /\ UNCHANGED receipt
            \* No answer within the time for polling, or a surprise.
            \/ /\ is \in {"none", "open"}
               /\ Unexpected(w)
               /\ IF is = "open" /\ worker[w].tries >= MaxAttempts
                  THEN Answered(r, l, "ambiguous", receipt[r].paid) ELSE UNCHANGED receipt
    /\ UNCHANGED <<campaign, last, run, job, leftover>>

\* Fault: the run is not looked at again.
OwnsAnyRun(w) == TRUE

\* finalizeStage checks the run against the revision the handler began with.
OwnsRun(w) ==
    LET r == worker[w].run IN run[r].state = "running" /\ run[r].revision = worker[w].revision

WithCopy(c, copy) == Revised(c, IF c.prompts THEN "complete" ELSE "copy", copy, c.prompts)
WithPrompts(c) == Revised(c, "complete", c.copy, TRUE)

\* The campaign a successful run leaves behind.  Refining English also
\* refreshes Swedish.
Result(w) ==
    LET r == worker[w].run
        c == worker[w].seen
    IN IF run[r].stage = "strategy"
       THEN [stage |-> "strategy", revision |-> 1, copy |-> NoCopy, prompts |-> FALSE]
       ELSE IF Refining(r)
       THEN Revised(c, c.stage,
                    [l \in Language |-> IF run[r].draft.language \in {l, "en"} THEN Generated(w) ELSE c.copy[l]],
                    c.prompts)
       ELSE IF FillsCopy(r) THEN WithCopy(c, worker[w].have)
       ELSE WithPrompts(c)

\* successfulNextStage
Handoff(r) ==
    IF run[r].stage = "strategy" THEN "copy"
    ELSE IF FillsCopy(r) /\ ~campaign.prompts THEN "prompts"
    ELSE "none"

\* nextRunInput: the run that continues a successful one.
NextRun(r, revision) == NewRun(Handoff(r), revision, 1, NoDraft)

\* Fault: no compare, just swap.
MatchesAnything(w) == TRUE

\* The compare-and-swap of persistCampaignMutation.
Matches(w) == campaign.revision = worker[w].seen.revision

Save(w) ==
    LET r == worker[w].run IN
    /\ worker[w].pc = "save"
    /\ \/ /\ OwnsRun(w) /\ Matches(w) /\ Handoff(r) = "none"
          /\ campaign' = Result(w)
          /\ run' = [run EXCEPT ![r] = Turned(r, "succeeded")]
          /\ Leave(w, "complete")
          /\ UNCHANGED <<last, job>>
       \/ /\ OwnsRun(w) /\ Matches(w) /\ Handoff(r) # "none" /\ last < MaxRuns
          /\ campaign' = Result(w)
          /\ last' = last + 1
          /\ run' = [run EXCEPT ![r] = Turned(r, "succeeded"),
                           ![last + 1] = NextRun(r, campaign'.revision)]
          /\ job' = [job EXCEPT ![last + 1] = NewJob]
          /\ Leave(w, "complete")
       \* No room for the campaign or for the next run.
       \/ /\ OwnsRun(w) /\ Matches(w)
          /\ IF worker[w].tries < MaxAttempts THEN Leave(w, "retry") ELSE GivesUp(w)
          /\ UNCHANGED <<campaign, last, run, job>>
       \/ /\ OwnsRun(w) /\ ~Matches(w)
          /\ GivesUp(w)
          /\ UNCHANGED <<campaign, last, run, job>>
       \/ /\ ~OwnsRun(w)
          /\ Goto(w, "lost")
          /\ UNCHANGED <<campaign, last, run, job>>
    /\ UNCHANGED <<receipt, leftover>>

\* partialCopy keeps the languages finished before the failure.
Partial(w) ==
    FillsCopy(worker[w].run) /\ Written(worker[w].have) # Written(worker[w].seen.copy)
PartialCopy(w) ==
    Revised(worker[w].seen, "copy", worker[w].have, worker[w].seen.prompts)

Fail(w) ==
    LET r == worker[w].run IN
    /\ worker[w].pc = "fail"
    /\ \/ /\ OwnsRun(w) /\ (Partial(w) => Matches(w))
          /\ run' = [run EXCEPT ![r] = Turned(r, worker[w].verdict)]
          /\ campaign' = IF Partial(w) THEN PartialCopy(w) ELSE campaign
          /\ Leave(w, "giveUp")
       \/ /\ OwnsRun(w) /\ Partial(w) /\ ~Matches(w)
          /\ GivesUp(w)
          /\ UNCHANGED <<campaign, run>>
       \/ /\ ~OwnsRun(w)
          /\ Goto(w, "lost")
          /\ UNCHANGED <<campaign, run>>
    /\ UNCHANGED <<last, job, receipt, leftover>>

\* The handler re-reads a run that somebody else changed.
Lost(w) ==
    LET r == worker[w].run IN
    /\ worker[w].pc = "lost"
    /\ \/ run[r].state = "succeeded" /\ Leave(w, "complete") /\ UNCHANGED run
       \/ run[r].state \in Failed /\ Leave(w, "giveUp") /\ UNCHANGED run
       \/ /\ run[r].state \in Active \cup {"absent"} /\ worker[w].tries < MaxAttempts
          /\ Leave(w, "retry")
          /\ UNCHANGED run
       \/ /\ run[r].state \in {"running", "absent"} /\ worker[w].tries >= MaxAttempts
          /\ run' = IF run[r].state = "running"
                    THEN [run EXCEPT ![r] = Turned(r, "ambiguous")] ELSE run
          /\ Leave(w, "giveUp")
    /\ UNCHANGED <<campaign, last, job, receipt, leftover>>
-------------------------------------------------------------------------------
(***************************************************************************)
(* Maintenance, by any worker process.                                     *)
(***************************************************************************)
Orphaned(r) == run[r].state \in Active /\ job[r].status = "failed"
Uncertain(r) == \E l \in Language : receipt[r].answer[l] \in {"open", "ambiguous"}
Resumable(r) ==
    receipt[r].paid /\ run[r].state = "running" /\ ~Uncertain(r) /\ ~run[r].recovered

\* reconcileTerminalJobs: a paid answer earns the run one more job ...
Resume(r) ==
    /\ Orphaned(r) /\ Resumable(r)
    /\ run' = [run EXCEPT ![r] = [Turned(r, "running") EXCEPT !.recovered = TRUE]]
    /\ job' = [job EXCEPT ![r] = NewJob]
    /\ leftover' = leftover \cup {r}
    /\ UNCHANGED <<campaign, last, receipt, worker>>

\* ... and every other run whose job failed is closed.
CloseOrphan(r) ==
    /\ Orphaned(r) /\ ~Resumable(r)
    /\ run' = [run EXCEPT ![r] = Turned(r, IF Uncertain(r) THEN "ambiguous" ELSE "failed")]
    /\ receipt' = [receipt EXCEPT ![r] =
          [paid |-> @.paid,
           answer |-> [l \in Language |-> IF @.answer[l] = "open" THEN "ambiguous" ELSE @.answer[l]]]]
    /\ UNCHANGED <<campaign, last, job, leftover, worker>>

\* Fault: only a definite failure is kept.
LineageFailed(r) == Latest(r) /\ run[r].state = "failed" /\ Exists

\* maintainTerminalStorage: the run a retry would start from is kept as long
\* as the campaign exists; if there is none, it is kept for a while.
Lineage(r) == Latest(r) /\ run[r].state \in Failed /\ Exists
Disposable(r) ==
    /\ run[r].state \in Failed \cup {"succeeded"}
    /\ ~Lineage(r)
    /\ job[r].status \notin {"queued", "running"}

\* Oldest first.
PruneRun(r) ==
    /\ Disposable(r) /\ ~\E s \in 1..(r - 1) : Disposable(s)
    /\ Removed({r})
    /\ UNCHANGED <<campaign, last, leftover, worker>>

\* Fault: any terminal job is pruned.
PruneAnyJob(r) ==
    /\ job[r].status \in {"succeeded", "failed"}
    /\ job' = [job EXCEPT ![r] = NoJob]
    /\ UNCHANGED <<campaign, last, run, receipt, leftover, worker>>

\* Terminal jobs that no active run is linked to.
PruneJob(r) ==
    /\ job[r].status \in {"succeeded", "failed"} /\ run[r].state \notin Active
    /\ job' = [job EXCEPT ![r] = NoJob]
    /\ UNCHANGED <<campaign, last, run, receipt, leftover, worker>>

PruneLeftover(r) ==
    /\ r \in leftover
    /\ leftover' = leftover \ {r}
    /\ UNCHANGED <<campaign, last, run, job, receipt, worker>>
-------------------------------------------------------------------------------
Owner ==
    \/ CreateCampaign \/ Continue \/ Delete
    \/ \E l \in Language : RefineCopy(l) \/ EditCopy(l)
    \/ \E r \in RunId : Retry(r)

Handle(w) ==
    Begin(w) \/ Read(w) \/ Ask(w) \/ Save(w) \/ Fail(w) \/ Lost(w) \/ Release(w)

Work ==
    \/ \E w \in Worker : Handle(w) \/ \E r \in RunId : Claim(w, r)
    \/ \E r \in RunId : RecoverExpired(r) \/ Resume(r) \/ CloseOrphan(r)

Retention == \E r \in RunId : PruneRun(r) \/ PruneJob(r) \/ PruneLeftover(r)

\* Workers may also be suspended beyond their lease.
Next ==
    \/ Owner \/ Work \/ Retention
    \/ \E w \in Worker : Crash(w)
    \/ \E r \in RunId : Lapse(r)

Spec == Init /\ [][Next]_vars
-------------------------------------------------------------------------------
(***************************************************************************)
(* Properties.                                                             *)
(***************************************************************************)
\* Handoffs, retries and refinements never leave a campaign with two runs at
\* work on it.  (With the types of the variables.)
OneActiveRun ==
    TypeOK /\ \A r, s \in RunId : run[r].state \in Active /\ run[s].state \in Active => r = s

\* An active run can always be carried on or closed: its job is still to be
\* worked on, or is a failure that reconciliation will find.  A job that was
\* pruned, or counted as done, would leave the campaign busy for ever.
ActiveRunHasItsJob ==
    \A r \in RunId : run[r].state \in Active => job[r].status \in {"queued", "running", "failed"}

\* An answer that was paid for and could not be used blocks its campaign: no
\* later run pays for it again, and retention does not forget about it.
PaidWorkIsNotOrderedAgain ==
    [][\A r \in RunId : Latest(r) /\ Spent(r) =>
          /\ last' = last
          /\ campaign'.stage # "absent" => Spent(r)']_vars

\* A result never replaces words the owner wrote after the run was admitted,
\* and only a refinement replaces the owner's words at all.
StaleResultNeverWins ==
    [][\A l \in Language :
          campaign.copy[l].by = "owner" /\ campaign'.copy[l].by = "provider" =>
            \E r \in RunId :
                /\ run[r].state = "running" /\ run'[r].state = "succeeded"
                /\ run[r].draft.language \in {l, "en"}
                /\ run[r].expected >= campaign.copy[l].at]_vars

\* Words that exist are not generated again by a retry of the copy stage.
FinishedCopyIsKept ==
    [][\A r \in RunId, l \in Written(campaign.copy) :
          run[r].state = "running" /\ run'[r].state # "running" /\ FillsCopy(r) =>
              campaign'.copy[l] = campaign.copy[l]]_vars

\* Once a campaign and its runs are gone, no worker that was still busy with
\* one of them brings the campaign back.
DeletedStaysDeleted ==
    [][~Exists /\ Rows = {} /\ last > 0 => campaign' = campaign]_vars

\* The README's promise that a failed translation preserves the English copy
\* for a targeted retry.
TranslationCanBeRetried ==
    \A r \in RunId :
        /\ Latest(r) /\ FillsCopy(r) /\ run[r].state = "failed"
        /\ "en" \in Written(campaign.copy) /\ "sv" \notin Written(campaign.copy)
        => Retryable(r) /\ Unpaid(r)
===============================================================================
