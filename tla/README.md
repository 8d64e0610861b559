# Verification of faunapoolen.se

TLA+ models of the stateful parts of faunapoolen.se, checked by TLC and partly
proved with TLAPS.  The source is the reference: every definition translates code,
and `PROJECT.json` (`map`) names the lines it stands for.  Paths below are those of
the repository; server files are in `server/src/`.

## 1. The system

One Mac runs a **web process** (Express: public pages, the enquiry form's endpoint,
the owner's private studio) and a **worker process** without a listener.  They share
one SQLite database in WAL mode and nothing else.  Every operation of the web process
is one synchronous `BEGIN IMMEDIATE` transaction.  The worker awaits the network, so its
handlers are sequences of transactions with gaps, and launchd restarts it after a crash.

| Component | State it keeps | Operations | Talks to |
|---|---|---|---|
| Provider requests (`openai-provider.ts`, `generation-handlers.ts`) | `provider_effects`: one receipt per request, with revision, response id and answer | prepare, fence (`creating`), submit, poll, succeed / reject / quarantine | OpenAI's Responses API; receipts in the repository |
| Campaign repository (`campaign-repository.ts`) | `campaigns`, `generation_runs`, `generation_receipt_recoveries`, `cx_jobs` | admit, begin run, finalize stage, transition receipt, reconcile terminal jobs, retention, delete | everything, through transactions |
| Generation service (`generation-service.ts`) | none | create, refine, retry, continue | repository |
| Generation worker (`generation-worker.ts`) | the claim it holds | boot recovery, claim, run, maintain, stop, exit | job store, handlers |
| Durable jobs (`generation-jobs.ts`, library) | `cx_jobs`: status, attempts, lease | enqueue, claim, heartbeat, complete, fail, delay, recover | SQLite |
| Enquiries (`enquiry-service.ts`) | `enquiries`, `enquiry_windows`, `enquiry_notifications` | submit, list, resolve, retry | form, inbox, mail lane |
| Mail lane (`enquiry-mail.ts`) | its claim | claim, post, record, close | Brevo |
| Enquiry form, inbox (browser) | the request that awaits confirmation; the revisions last shown | edit, send, send again; look, decide | web process |
| Social posts (`social-service.ts`, `social-ai.ts`) | `social_posts`, `social_adaptations`, `social_effects` | create, save, media, remove; adapt, poll | job store, provider |
| Editor of posts (browser, `social-posts.component.ts`) | the words in the editor, the revision they are based on, one loop that saves, polls | type, save, upload, apply a suggestion, leave, delete | web process |
| Campaign studio (browser, `admin.component.ts`) | edits by field with their state, the campaign on the screen, one sequence number of what the screen waits for | type, save, change language or section, order a run, follow it, open, leave | web process |
| Owner sign-in (`auth-service.ts`, `app.ts`) | `owner_sessions`, `login_failure_windows` | sign in, resolve, touch, sign out | web process, studio |
| Process lifecycles (`worker-runtime.ts`, `runtime.ts`, `environment.ts`) | what keeps the process alive, what it takes on, the handlers of signals | start, bind, recover, announce, drain, close | launchd, database file |
| Migrations and maintenance (`database*.ts`, `scope-migration.ts`) | the schema and the list of applied migrations | verify, migrate | the file, while the system is stopped |
| Generation allowance (in the repository) | one window of admissions | consume | campaigns and social posts |
| Package catalogue (`package-service.ts`) | one row | read, compare-and-swap | web process |

### What is hard here

* **Money.**  A request to the provider costs money as soon as it is accepted, and may
  be accepted without an answer arriving.  The code never repeats one; what it does not
  know it calls *ambiguous* and leaves to the owner.  The same holds for Brevo's e-mails.
* **Crashes between statements** of a handler, after which another process continues
  from what the database says.
* **Two clocks.**  A claim is exclusive only while its lease lives; a process that is
  suspended past its lease comes back and continues with what it knew.
* **Three repairs** (expired leases, boot quarantine, reconciliation of failed jobs) that
  overlap, plus a retention that deletes the evidence they work from.
* **Stale reads.**  A stage reads the campaign, works for minutes and writes; the owner
  edits meanwhile, and a retry carries an older draft.
* **Lost answers** between browser and server: the form sends again under the same
  reference, with limits on admissions in between; the editors read back what they may
  have saved.
* **Screens with several requests on their way**: a save, a poll and an order overlap, the
  owner goes on typing, and each answer finds a screen that has moved on.
* **Awaited statements.**  The sign-in awaits each statement of its repository, so that
  parallel requests of one session, a sign-out and the clock come in between.
* **Ends.**  A signal may come at any step of a start, any step of a shutdown may fail or
  not end in time, and the next start finds whatever file is left.

`PROJECT.json` (`hazards`) lists each of these at the line where it bites, with the
properties that would catch it going wrong.

### What makes each component correct

* Provider requests: paid at most once; never "failed" with a request outstanding; what
  is on record is final; every run ends.
* Campaign pipeline: one active run; an active run always has a job somebody will look
  at; paid work is neither forgotten nor ordered again; results never replace newer words.
* Enquiries: thanked only for what is stored; repeats are free; at most one notification,
  to one address; every notification ends somewhere the owner sees.
* Social posts: paid at most once per text; what was paid for is used; nothing is bought
  for a removed post; a suggestion belongs to the post it is shown with.
* Editors: "saved" means stored; words that were not saved are neither replaced nor dropped
  unasked; other people's words are not replaced unseen; nothing stays locked.
* Sign-in: every verdict on a session is true; a session that was signed out stays so; a
  block is earned and kept.
* Lifecycles: only a verified file is served; readiness is given up when no claim can follow;
  the database is closed once, and what may still be at work then is known; a process that is
  asked to go goes.

## 2. Plan

In the order of importance, each module standing on its own variables:

1. `PaidCreate`, `ProviderEffects`, `ProviderEffectsProofs` - done.
2. `CampaignPipeline`, `CampaignPipelineProofs` - done for one campaign.
3. `Notice`, `EnquiryDelivery`, `EnquiryDeliveryProofs` - done.
4. `SocialAdaptation`, `SocialAdaptationProofs` - done.
5. `ProcessLifecycle`, with the database file, and `ProcessLifecycleProofs` - done.
6. `SocialEditor` and `CampaignStudio`, the two screens that keep state, with
   `SocialEditorProofs` and `CampaignStudioProofs` - done.
7. `OwnerAuth`, `OwnerAuthProofs` - done.

Left: two campaigns that share the storage limits.

Abstract specifications: `PaidCreate` says what the owner is promised about money, and
`ProviderEffects` implements it; `Notice` says what he is promised about the notification of one
enquiry, and `EnquiryDelivery` implements it for every reference.  `SocialAdaptation` is no
refinement of `PaidCreate`: removing a post erases its receipts (`social-service.ts:228-252`), and
a worker that was suspended between the fence and the request may still send it when the
adaptation has been given up.  What is promised there is stated, and proved, property by property.

## 3. The modules

### PaidCreate - the promise

Three variables: how often each of the two requests of a stage was sent, what is on record
about each, and about the stage.  `Send`, `Record`, `Deliver`, `Abandon`.

### ProviderEffects - one run and its money

| TLA+ | Code |
|---|---|
| `effect[o]` | row of `provider_effects` for the original request (1) or its correction (2): state, revision, response id, and whether the stored answer is valid |
| `run` | row of `generation_runs`; `cause` condenses its error code |
| `job`, `recovered` | the linked row of `cx_jobs`; a row of `generation_receipt_recoveries` |
| `worker[w].pc` | the next thing the process does: one value per suspension point of handler, worker loop and start |
| `creates[o]` | requests that left the process (observer) |

One action is one SQLite statement or transaction, or one network call, with the
synchronous code around it.  The fence (`openai-provider.ts:289`), the request and the
record of its answer are three actions.  `Transition` is `transitionEffect` with its
compare-and-swap *and* its tolerance for a repeated call one revision behind.  The job
store is a library outside the repository: claim, recovery, completion by the holder
only, and the attempt given back by a delay are modelled from how the code uses them.

`LeaseExpires` needs the holder to have left the handler (the heartbeat keeps a live
process's lease); `LeaseLapses` does not.  It is a step of `StallSpec` only, together with
`Conflict` and `LostRun`, which deal with a receipt or a run that somebody else has changed:
as long as the holder is alone (`Exclusive`) neither ever happens.  `Spec` is the
specification of the run `effects`; `StallSpec` is that of the second part of
`ProviderEffectsProofs`.

### CampaignPipeline - one campaign and its runs

| TLA+ | Code |
|---|---|
| `campaign` | row of `campaigns`: stage, revision, who wrote each language and at which revision, prompts |
| `run[r]`, `last` | `generation_runs` by `run_sequence`; the newest ever inserted |
| `job[r]`, `leftover` | the linked job; failed first jobs of recovered runs, linked to nothing |
| `receipt[r]` | whether the run paid for an answer, and the answer per request (per language in a copy run) |
| `worker[w]` | what a handler has read and generated |

Owner: `CreateCampaign`, `RefineCopy`, `Retry`, `Continue`, `EditCopy`, `Delete`.
Handler: `Begin`, `Read`, `Ask`, `Save`, `Fail`, `Lost`, `Release`.  Maintenance:
`RecoverExpired`, `Resume`, `CloseOrphan`; retention: `PruneRun`, `PruneJob`,
`PruneLeftover`.  What `ProviderEffects` shows about one request (paid once, final) is
used here: a receipt is reduced to its outcome.  Other campaigns appear only as "no room";
the allowance, other execution scopes and the graceful `delay` are left out.

### Notice - the promise

What there is of one notification on record, where its copies go, how many were accepted, and how
often the owner asked for another.  `Order`, `Attempt`, `Accept`, `Conclude`, and the owner's
`MarkSent`, `SendAgain`, `Retry`.  A copy is *due* while no more were accepted than he asked for.

### EnquiryDelivery - from the form to the owner

| TLA+ | Code |
|---|---|
| `form[v]` | the signals of the form: what the fields show, the pending request, sending, submitted |
| `wire` | requests not yet handled, which may be lost, or arrive late or after their successor |
| `enquiry`, `window`, `mail` | the three tables of `enquiry-service.ts` |
| `worker[w]` | the mail lane: claim, post, record; the address it was started with |
| `accepted` | what Brevo's log shows |
| `inbox`, `asked` | what the owner last saw; how often he asked for another copy (observer) |

`Submit` is the whole transaction: conflict, capacity, both windows, enquiry and
notification.  `Post` covers every answer of Brevo the code tells apart, including
acceptance without a readable receipt.  `LeaseLapses` again only in `StallSpec`.
`Promised(id)` is `Notice` for one reference, read off `mail`, `accepted` and `asked`: a claim is an
attempt, a claim that is written off and an outcome that is recorded conclude it, and everything
the form does after the first request with a reference is a stuttering step.
Customers' names and statuses, the legacy form and other scopes are left out.

### SocialAdaptation - one post and the adaptations of its texts

| TLA+ | Code |
|---|---|
| `post` | row of `social_posts`: whether it exists, and its wording (name and texts) |
| `adaptation[t]` | row of `social_adaptations` for a wording: pending, complete, failed |
| `job[t]` | its row of `cx_jobs`, which the retention of campaigns deletes when it is terminal |
| `effect[t, o]` | row of `social_effects`: the receipt of the original request or its correction |
| `worker[w]` | what the handler does next, the revision of the receipt it read, its signal |
| `creates[t, o]` | requests that left the process (observer) |

Owner: `Create`, `Save`, `Admit`, `Remove`.  Handler: `Begin`, `Load`, `Quarantine`, `Fence`,
`Send`, `Answer`, `Poll`, `Apply`, `Catch`, `Release`.  The provider is the same code as in
`ProviderEffects`, over another repository of receipts: `fenced` (`social-ai.ts:230`) puts
every write in one transaction with a heartbeat, and `transitionEffect` (`:276`) tolerates
no repetition.  That is why suspension (`Lapse`) is an ordinary step here.

### ProcessLifecycle - the two processes and the file they work on

| TLA+ | Code |
|---|---|
| `settings` | the environment as `environment.ts` and `enquiry-mail.ts` read it, down to what makes them refuse it |
| `start` | how far `startFaunapoolenWorker` or the web runtime has come |
| `closing`, `faults` | the step of `closeWorkerRuntime` or `closeWebRuntime` that is next; the steps that failed |
| `file` | the list of migrations in the database, its soundness, its schema, the guard of the retention |
| `held`, `work`, `accepting`, `lane` | timers, server, lease and channel; jobs, mail and requests on their way; what is still taken on |

One behaviour is the successive lives of one process under one set of settings.  `Load`,
`Open`, `Migrate`, `Compose`, `Listen`, `Bind`, `Acquire`, `Recover`, `Announce` are the start,
each of which may fail; `Requests` is the one constant, those the web process may have in flight; `Close`, `CloseHttp`, `CloseMail`, `Release`, `Drain`, `Dispose`, `Exit`
the shutdown.  `Signal` comes at any moment and kills a process that has not bound its
handlers, together with whatever it was doing (`Killed`).  `Maintain` is the maintenance command, run while nothing else is; `Restart` begins
again on the file that is left.  Only the outcome of a migration is modelled.

### SocialEditor - one tab over the store of posts

| TLA+ | Code |
|---|---|
| `stored`, `advice` | posts and their adaptations, as the routes serve them |
| `post`, `draft`, `dirty`, `file`, `error`, `dialog`, `shown` | the signals of the component |
| `saver`, `waiting` | `saveLoop` and those who await `save` |
| `task` | the request that makes the editor busy (open, adapt, export, media, remove) |
| `timer`, `pollTimer`, `polls` | the two timers, and the polls on their way |
| `seen` | words of each post this tab has shown or sent (observer) |

Words carry the post they were written for, and whether the name has white space around it: the
server takes it away (`Trimmed`, `social-service.ts:52-54`), and the editor goes on with what it
sent, never with what was stored.  Another tab saves and deletes.  Who waited for the loop goes on
in one order: a request is sent before the editor is left, because `canLeave` stands in between.
The upload is two steps, as the server compares the revision before and after inspection.

### CampaignStudio - one tab over one campaign

| TLA+ | Code |
|---|---|
| `stored`, `run`, `session` | the campaign, its latest run, and whether the server knows the session |
| `edits` | `copyEdits`: by language and field, the words and dirty / saving / saved / failed |
| `shown`, `generating`, `refining`, `retry`, `view`, `language`, `dialog` | the signals of the component |
| `req` | what is on its way: the loop that saves, what the screen follows, an order |
| `late` | what is still to come of requests that were overtaken, and of the workspace |
| `waiting` | leaving, refining, retrying: what awaits the loop that saves |
| `written` | edits the server has accepted (observer) |

`generationPollSequence` is the one slot `follow`, which a newer request takes over.  The older one
is dropped with its answer where the code compares the sequence again; where it does not - after
`refreshOpenCampaign` in `openCampaign` and `pollGeneration`, and in `refreshCampaigns` - what is
still to come of it is kept in `late` and takes effect whenever it likes: it sets or clears
`generating` and `retry`, but follows nothing (`Overtaken`, `LateAnswered`).  `Load` in `late` is the
workspace after a sign-in, whose lists may come after a campaign was opened.  Keeping an overtaken
answer is one of the counted events; left uncounted it is as good as lost.  An order that is
declined for what it asks (400, 404, 429, 503) is an event, too (`Declined`).  `Resume` goes before
everything else, because the awaiting code runs as a microtask.  The three stages of a campaign are one run here, which
`CampaignPipeline` tells apart.

### OwnerAuth - sessions, failures and blocks

| TLA+ | Code |
|---|---|
| `token`, `session` | the sessions issued, as their cookies say; rows of `owner_sessions` |
| `window` | rows of `login_failure_windows` |
| `browser[b]` | the form or the studio, the cookie, and the call on its way |
| `request[r]` | how far `requireOwnerSession` and `resolve` have come, and what they have read |
| `clock` | seconds, the same for everybody |
| `failures`, `barred` | the last failures counted, and until when a client is to be blocked (observers) |

Every call of the repository is one step, since the service awaits each.  `Consider` has the
three readings of `resolve`: the third is decided without another touch.  A failure that began
before the window it would be counted in is refused by the table itself
(`LOGIN_FAILURE_TABLE_SQL`), which the browser is told as an error.

## 4. The runs

| Run | Instance | Shows |
|---|---|---|
| `effects` | 2 workers, 2 attempts, 2 crashes or stops, 4 revisions of a receipt, fairness | paid at most once; *failed* means settled; the one recovery of a paid answer; receipts are final; a job is done only if its run is; refinement of `PaidCreate`; every run ends for good with its job |
| `pipeline` | 1 worker with crashes and suspension, a campaign to be created, an incomplete and a complete one, 2 runs, owner's edits up to revision 2, retention | one active run, which keeps its job; stale results lose; finished languages are kept; paid work blocks and is remembered; a deleted campaign stays deleted |
| `enquiry_admission` | 2 visitors with one address, 3 texts (one too long), 2 references and 3 sends each, 1 admission per address, 2 in all, inbox of 2 | thanked for what is stored; a reference is never disputed |
| `enquiry_delivery` | 2 lanes with crashes and suspension, 2 addresses of the company, 2 attempts, owner's decisions up to revision 6, fairness | one copy, and no other that was not asked for; one address; refinement of `Notice`: nothing uncertain is repeated and nothing sent reopened, whoever comes back late; every notification settles |
| `social` | 1 worker with crashes, stops and suspension, 2 wordings, 2 attempts, one round of polling, fairness | paid once; nothing bought next to an uncertain request or for a removed post; a paid answer is used; outcomes are final; every job ends |
| `lifecycle` | every setting of both processes, every file, 1 job, 1 post and 2 requests at a time, fairness | once the database is closed, only work that ran out of its time, which is reported, and the upkeep nobody awaits are left; it is closed once and failures are told; claims under the lease; only a verified file is served; who is asked to go goes |
| `social_editor` | 2 posts, 3 edits of either tab, 1 loss, fairness | *saved* means stored, up to the space around the name; no words replaced unseen; changes are saved or reported |
| `campaign_studio` | 2 languages with one field, 2 runs, 2 events (edits, losses, another tab, the end of the session, requests declined, answers that come although they were overtaken), fairness | pending words stay; *saved* means stored; unsaved words are not dropped unasked; what is followed is released, and only an overtaken answer locks the studio for what nobody follows |
| `owner_auth` | 2 browsers, 2 addresses, 2 requests, 3 tries, 4 seconds, sessions of 3, windows and blocks of 2, 2 failures, 1 session stored, 1 client counted | true verdicts; sessions end once; blocks are earned and kept |

A module's type invariant is a conjunct of a property of its run: of `OneActiveRun` in
`pipeline`, `OneCopy` in `enquiry_delivery`, `EndsProperly` in `lifecycle`, `SavedMeansStored`
in `social_editor`, `PendingWordsStay` in `campaign_studio`, `BlocksAreEarnedAndKept` in
`owner_auth`.  Those of `ProviderEffects` and `SocialAdaptation` are proved, and no run
evaluates them again.  All are proved.

Three runs are expected to be violated; each refutes a sentence of the repository:

| Run | The sentence | What the code does |
|---|---|---|
| `translation_retry` | README: a failed translation preserves English "for a targeted retry" | English and Swedish are requests of one run; its succeeded English receipt makes every retry refused, for ever |
| `social_mixup` | SOCIAL-POSTS.md: saved suggestions are applied "protecting intervening edits" | a poll that is answered after another post was opened offers its suggestion there, and it is saved in the wrong post |
| `refinement_drops_edits` | README: "a stale result cannot replace newer edits" | when the last read after a refinement is lost, the poller takes the same success for news and drops what was written since |

### Why the bounds are enough

* Two workers: every rule about receipts and mail is about the holder of something and one
  other.  In `pipeline` and `social` the other is the same worker after its lease: who lost
  the lease goes on with what it knew, and the job is claimed again once it is idle.  A second
  worker that overtakes the first is not in these two runs; the theorems about both modules
  are about any number of workers.
* Two attempts: the code distinguishes the last attempt from the others.
* Two runs of a campaign cover a stage and its successor, or a run and its retry;
  `translation_retry` needs a third.  Identities are never reused, so nothing wraps round.
* Revisions are only compared; a receipt has at most four before polling repeats itself,
  and a notification that the owner has queued again is where it was.
* Two wordings, posts, languages, browsers, addresses: one, and another it must not be taken
  for.
* The limits of the inbox (1,000; 100 and 5 an hour; 5 attempts) and of the sign-in
  (sessions, counted clients, failures) are replaced by 1 or 2: each run reaches them and
  goes one beyond.  A window and a block last 2 seconds and a session 3, of 4 that are
  counted, so that each boundary is met, before, at and after.
* Three edits and one loss in the editor of posts: a change on its way, one typed meanwhile,
  one of another tab.  Two events in the studio suffice for each of its properties to be
  violated by the fault listed for it, and for an open campaign to be locked by the answer to
  an overtaken request (section 6).
* A worker that is suspended beyond its lease is not in `effects`: `ReceiptIsFinal` and
  `CompletedJobMeansSucceededRun` are proved with it, of `StallSpec` (section 5).

`CHECK_DEADLOCK FALSE` everywhere: a settled run, a finished campaign, a delivered
notification, a process that is gone and an editor that is left are places where the system
rightly stops.

### Fairness

* `ProviderEffects`: weak fairness of each worker's own steps and of the expiry of leases.
  launchd restarts the process, its timers keep firing, every network call has a timeout.
  Nothing is assumed of the provider: any answer, or none, is a step.  Crashes and stop
  requests are bounded in number there; infinitely many could keep any program from
  finishing.
* `SocialAdaptation`: weak fairness of all workers and the recovery taken together.  Crashes,
  stops and suspensions are unlimited; each costs the job an attempt.
* `EnquiryDelivery`: weak fairness of the lane's steps together, and of time passing for
  each notification.  Restarts are unlimited, and the owner need not act.
* `ProcessLifecycle`: weak fairness of the start, of the shutdown, and of what is being
  worked on, each of which has a timeout; not of signals, claims or requests.
* `SocialEditor`, `CampaignStudio`: a request is answered or given up after its timeout, a
  timer fires, the worker ends its run; the owner need not act.
* `CampaignPipeline` and `OwnerAuth` are checked for safety only.  That runs end is
  `RunSettles` of `ProviderEffects`.

## 5. The proofs

`ProviderEffectsProofs` proves, for any set of workers, any number of attempts, stops and
revisions, and both requests of a run:

| Theorem | Statement |
|---|---|
| `TypeCorrect` | `Spec => []TypeOK` |
| `NeverChargedTwice` | `Spec => []AtMostOneCreate` |
| `FailureIsSettled` | `Spec => []FailedMeansSettled` |
| `SecondChance` | `Spec => []PaidAnswerGetsSecondChance` |
| `Refinement` | `Spec => ChargesAsPromised`, that is `Paid!Spec` |

They rest on the assumptions on the constants and on nothing else.  None of the
properties is inductive.  `AtMostOneCreate` fails if a process can be about to send a
request that another has sent; to exclude that one has to know that the process is alone
(`Exclusive`: whoever is in the handler holds a live lease, which is what `LeaseExpires`
assumes), that what it last read of the run and of the receipt is still there
(`RunIsCurrent`, `ReceiptAt`, one line per program counter), that the number of requests
agrees with the state of the receipt, and that a correction exists only after an invalid
original answer (`Receipts`).  `IInv` is their conjunction with `Attempts` and the
properties; there is one lemma per action, grouped by what an action may disturb, and
the refinement is a second case analysis that uses `IInv` on both sides of a step.

`Exclusive` is also the reason the theorems are about `Spec`: under `StallSpec`
`AtMostOneCreate` is **not** an invariant, because `transitionEffect` accepts a repeated
`creating` (`campaign-repository.ts:1488-1502`).  It takes a process suspended for longer
than its lease between the fence and the request, which no await separates.

The second part of the module proves what holds all the same, for the specification with
suspension:

| Theorem | Statement |
|---|---|
| `TypeCorrectWhenSuspended` | `StallSpec => []TypeOK` |
| `CompletionIsEarned` | `StallSpec => []CompletedJobMeansSucceededRun` |
| `ReceiptsAreFinal` | `StallSpec => ReceiptIsFinal` |

(`Spec` implies `StallSpec`, so these hold of it too.)  The invariant `SInv` says nothing
about leases.  The revision of a receipt never decreases, and every write demands the one
that was read, or the write it would repeat: a worker is therefore either behind, and its
write is refused, or it knows the state (`Knows`), and nothing it may write from there leaves
a final state.  A worker reports success only when it has seen its run succeed, which no step
undoes.

`CampaignPipelineProofs` proves, for any set of workers and every bound, with crashes,
suspension and several workers that execute one run at once:

| Theorem | Statement |
|---|---|
| `RunsOneAtATime` | `Spec => []OneActiveRun` (with the types of the variables) |
| `RunsAreNotForgotten` | `Spec => []ActiveRunHasItsJob` |
| `PaidOnceOrNotAgain` | `Spec => PaidWorkIsNotOrderedAgain` |
| `NewerWordsWin` | `Spec => StaleResultNeverWins` |
| `FinishedWordsStay` | `Spec => FinishedCopyIsKept` |
| `DeletedForGood` | `Spec => DeletedStaysDeleted` |

The invariant `PInv` dates what everybody holds.  A run that is at work is the newest one
(`RunsInOrder`), and identities are not used again (`Known`), so a worker cannot take the run
of somebody else for its own.  What a worker has read is still the campaign, unless the
campaign has another revision or is gone together with its runs (`SeenIsDated`); what it has
generated contains the words it has read and is one revision newer (`HaveIsDated`).  With
that, the two comparisons of `finalizeStage` - of the run and of the campaign - are enough:
whoever passes both replaces exactly what it has read.  A step keeps what *other* workers hold
if it keeps the rows of their runs or removes them, and does not bring an old revision back
(`RunsKept`, `CampaignKept`); `StaysDated` is that argument, once for all actions.

`SocialAdaptationProofs` proves, for any set of workers and wordings and any number of
attempts, **with** suspension:

| Theorem | Statement |
|---|---|
| `TypeCorrect` | `Spec => []TypeOK` |
| `NeverPaidTwice` | `Spec => []PaidOnce` |
| `RemovedIsNotBilled` | `Spec => RemovedPostIsNotBilled` |
| `UncertaintyStopsSpending` | `Spec => NoSpendingOnUncertainty` |
| `OutcomesAreFinal` | `Spec => OutcomeIsFinal` |
| `AnswersAreReplayed` | `Spec => PaidAnswerIsReplayed` |

Here nobody may be assumed to be alone in the handler.  Instead: whoever *still* holds the
lease works on a pending adaptation (`HoldersWork`), and only he can write; at most one
wording is pending, and only that one can become uncertain (`OnePending`); a receipt is
uncertain from before its request is sent until its sender has written down the answer, and
no two workers are about to send the same request (`SenderIsAlone`); and the revision of a
receipt tells how far it is (`RevisionTells`), so that a worker that read an older state
cannot write the answer in the sender's place.  Removal demands that nothing is uncertain or
pending, hence finds nobody about to send.  The steps of the handler are reduced to three:
a move (`MoveKeeps`), a write of the receipt (`WriteKeeps`) and a settlement
(`SettleKeeps`); those of the job store to parking a job (`ParkKeeps`).  What distinguishes
this from `ProviderEffects` is exactly the intolerance of `transitionEffect` for repetition.

`EnquiryDeliveryProofs` proves, for any number of visitors, references, texts and lanes, and any
limits of the inbox:

| Theorem | Statement |
|---|---|
| `Invariant`, `CalmInvariant` | `StallSpec => []IInv`, `Spec => []IInv` |
| `CopiesAsAsked` | `StallSpec => []OneCopy` |
| `DeliveryKeepsItsPromise` | `StallSpec => DeliveredAsPromised`, that is `Promised(id)!Spec` for every `id` |
| `SentStays` | `StallSpec => [][...]_vars`: a notification that was sent changes no more, not even its dates |
| `RecipientStays` | `StallSpec => RecipientIsKept` |
| `ThanksAreTrue` | `Spec => []ThankedForWhatIsStored` |
| `ReferencesAreTheirOwn` | `Spec => []ReferenceIsItsOwn` |

`OneCopy` counts copies, and so does its invariant: a lane that is about to post is a copy that
may yet be, and so is the next claim of a notification that is queued or failed.  The copies
accepted and those that may be never exceed one and those the owner asked for (`Budget`).
Suspension moves a copy from the lane to the uncertain, and only a decision of the owner gives
out another.  That there is no second copy at all as long as no lane was overtaken in
mid-delivery needs another part: the notification then has one process, which owns it, and what
the owner saw of it before he asked is still true (`Undisturbed`, `Seen`).

The refinement of `Notice` has three obligations that no single action shows.  An attempt is begun
and a copy accepted only when one is due: that is `Budget` again (`CopyIsDue`), and it holds of a
lane that comes back after its claim was written off, since its copy is still counted.  An outcome
that queues or fails the notification must come from a lane that posted nothing, and *sent* from
one whose copy was accepted: the invariant `Traced` says that a lane which reports success has had
one accepted, and that whoever delivers has fixed the address.  With these, each action is one of
`Notice`'s or leaves alone what `Notice` sees (`DeliverKeeps`, `OwnerKeeps`, `BrowserKeeps`,
`TimeKeeps`).

The two theorems about the form rest on all
requests with one reference saying the same, whether on their way, in the form or stored
(`WireInv`, `FormInv`, `StoredInv`), however late, lost or doubled they are.

`OwnerAuthProofs` proves, for any set of browsers, clients and requests in parallel, and any
limits of which a block is no shorter than a window:

| Theorem | Statement |
|---|---|
| `Invariant` | `Spec => []IInv` |
| `BlocksAreJust` | `Spec => []BlocksAreEarnedAndKept` |
| `VerdictsHold` | `Spec => VerdictsAreTrue` |
| `SessionsEnd` | `Spec => SessionsEndOnce` |

Each statement of the service is awaited, so anything may happen between what a request reads
and what it does with it.  `RequestInv` says what is left of each reading: a row that is gone
stays gone, and a session of which anything was found was live at some moment since the request
came - which is all that a verdict promises.  A studio that signs out holds a cookie whose
session is not honoured any more (`BrowserInv`); sessions are issued to forms that were sent
(`TriesInv`), hence never twice; what a row counts are the last failures of its client, all
within the window it opened (`WindowInv`).

`SocialEditorProofs` proves, for any set of posts and any number of edits and lost answers:

| Theorem | Statement |
|---|---|
| `Invariant` | `Spec => []IInv` |
| `SavedIsTrue` | `Spec => []SavedMeansStored` |
| `UnseenWordsStay` | `Spec => UnseenWordsSurvive` |

A copy of a post, in the editor or in the loop that saves, is true as long as its revision is
the stored one, and was seen (`CopyInv`).  Revisions begin anew when a post is removed and its
identity is used again, which would make an old copy pass for a new one: it is excluded because
a post saved for the first time is alone in the editor, with nothing else going on (`SaverInv`).
A save whose answer was lost is found again by its words; that these are not somebody else's by
coincidence is `WordsInv`: words of another tab are held only once they were shown, and what is
stored has no space around its name.  `SavedMeansStored` compares the stored words with the trimmed
ones of the editor, which is all the code gives.  The proof
found an omission of the model: a timer that fires, or an action that saves first, while there
is nothing to save was disabled, where the code (`social-posts.component.ts:405`) does nothing
and goes on.  It is a step now.

`CampaignStudioProofs` proves, for one or both languages, any number of runs and of events (edits,
losses, another tab, the end of the session):

| Theorem | Statement |
|---|---|
| `Invariant` | `Spec => []IInv` |
| `WordsStay` | `Spec => []PendingWordsStay` |
| `SavedIsStored` | `Spec => []SavedMeansStored` |
| `UnsavedStays` | `Spec => UnsavedIsKept` |

Every answer that is shown passes through the same overlay of the edits that are pending, so
that the screen is not the difficulty.  An edit is called saved when its request is answered:
the invariant says that an accepted request is in the history, and that what is on its way is not
called saved before (`SaverInv`).  A campaign that is opened drops all edits, so there must be
none: it is opened only from the list, and the list has no edits (`ListInv`).  Finally, what the
server sends is a campaign only once there is one (`ServerInv`).

`ProcessLifecycleProofs` proves, for every setting, every file and any number of requests in flight:

| Theorem | Statement |
|---|---|
| `Invariant` | `Spec => []IInv` |
| `WorkLeftAtTheClose` | `Spec => []OnlyLateWorkOutlivesTheDatabase` |
| `ProcessesEndProperly` | `Spec => []EndsProperly` (with the types of the variables) |
| `JobsAreClaimedUnderTheLease` | `Spec => ClaimsUnderTheLease` |
| `ServedFilesAreVerified` | `Spec => OnlyAVerifiedFileIsServed` |

None of the properties says in which step of the start or the shutdown the process is, and none is
inductive for that reason: that a job which outlives the database was reported needs to know that
only `Drain` goes past it (`ClosingInv`); that a process which was not asked stays needs to know
what keeps each role alive (`Anchor`, in `StartInv`); and a shutdown may begin in the middle of a
start.  `DatabaseInv` is what start and shutdown agree on: from the opening on the database is
open, unless the last step of the shutdown was taken or the start has failed, and it is the
current file from the composition on.  Each action keeps each of the five parts, in one step of the
proof each.  Of the upkeep that may be left at the close, a further invariant, `ClaimsInv`, says that
it is the upkeep of a worker with claims: only timers begin jobs, and only jobs leave upkeep.  The proof found an omission of the model: a signal that kills a process whose
handlers are not bound yet, or not any more, left it the server it held and the requests it was
answering; they go with it (`Killed`).

The theorems assume, besides the bounds, only that `None` stands for absence and is none of the
values it is used next to (`NoneAssumption`), in the studio that the languages are English
and Swedish, and that a request is not a job (`RequestsAssumption`).  Each inductive invariant was first checked by TLC on the instance of the run of its
module.

Every safety property of a passing run is a theorem.  Only model-checked: liveness (`RunSettles`,
`NotificationSettles`, `WorkEnds`, `GoesWhenAsked`, `ChangesAreSavedOrReported`, `Released`), as
fairness and `ENABLED` are beyond TLAPS.  What TLC adds for the rest is that the theorems are about
something: each property is also seen to fail with the fault listed for it.

## 6. Abstractions and what is not modelled

* Adjacent synchronous statements of one handler step are one action.  Inside a
  transaction nothing can intervene.  Where two adjacent transactions are merged, a crash
  between them leaves the state of a crash before or after, and another process that acts
  between them is seen by the second, which checks again (a revision, the lease) what the
  first had read; its failure is among the steps of the model.
* Time is a choice, except in `OwnerAuth`: a lease may expire, a window may pass, a
  notification may become due.
* A campaign's strategy and prompts are present or absent; copy is who wrote it and when.
* `CampaignPipeline`: other campaigns appear only as "no room"; other execution scopes and
  the graceful `delay` are left out.
* Brevo accepts a copy when it is posted or never.  A copy accepted long after the lane
  gave it up, and after the owner looked at the log, would be a second one.  A lane that is
  suspended between its claim and its post can make a second copy too, but only after the
  owner has asked for one, which is what `OneCopy` says.
* `SocialEditor`: marks of publication, the preview and the list are left out.  The words of a
  post are one value, as they are saved together.
* The editor never takes over the name as it was stored, without the white space around it
  (`social-service.ts:52`, `social-posts.component.ts:439-440`): the post is called saved while
  the two differ by it.  When the answer to such a save is lost, the comparison after reading
  back (`:432-436`) fails although the save was made: the failure is shown, and later saves
  conflict with it until the post is opened again.  A name that `prepare` cuts from the text
  (`:378`, 80 characters) may end with a space as well.
* `CampaignStudio`: one campaign; signing out of the studio, with its own question about
  unsaved words, and reloading the page are left out.  A save that is queued when the campaign
  is closed fails, as it does in the code.  Words are told apart up to the white space around
  them, which the server takes away (`app.ts:440-461`); words that do not fit are declined.
* The code can lock an open campaign for good, and `Released` says where it cannot.
  `openCampaign` goes on after `refreshOpenCampaign`, which alone compares the sequence again
  (`admin.component.ts:1551`, `:1556`): if the campaign was left and opened again before that
  answer, the older opening sets `generating` and starts a poll whose loop never runs
  (`:1177-1185`).  The recovery after a sign-in may take the sequence from a poll and then find
  nothing to follow (`:1459-1476`).  In the list, an opening that fails drops the poll it replaced,
  and the button for a new campaign stays hidden (`:1144`).  `Released` excludes these three by
  name - a step that sets `generating` with nobody following is the effect of an overtaken answer,
  and what is followed ends unless the list is shown or a recovery takes over - and nothing else.
* `ProcessLifecycle`: the database does not outlive all its users.  `drain` of the generation worker
  (`generation-worker.ts:205`) waits for the inner worker alone; `runUntilIdle` (118-128) goes on to
  reconciliation and retention when that one has answered.  Nothing orders this upkeep before the
  close of the database, except what the library's promises happen to take; it would then fail, be
  told to `onError` and leave the exit code as it is, and the next start would do the same work.
  `OnlyLateWorkOutlivesTheDatabase` names it next to the job and the requests whose time ran out.
* `OwnerAuth`: nobody forges a cookie, and a password is right or wrong.  A block is assumed to
  last at least as long as a window (both are fifteen minutes).
* Not promised, because the code does not do it: that an adaptation whose job failed in its
  last attempt stops being *pending*.  `status` shows it as failed while the job is on record,
  but the row changes only when another wording is adapted.  Until then the post cannot be
  removed, and the advice given ("Wait for text adaptation to finish before removing this
  post.", `social-service.ts:237`) does not help.  Likewise nothing in the code resolves an
  *ambiguous* request of a post; such a post stays, and is not adapted again.
* A refinement that failed keeps its draft, and its retry carries it to the current revision
  (`generation-service.ts:208`), over words saved since; opening the campaign shows the draft
  in their place.
* A campaign whose creation was not answered may have been created; asking again creates, and
  pays for, another (`admin.component.ts:929`).
* Deleting a campaign whose run was recovered leaves the run's first, failed job behind until
  retention prunes it (`campaign-repository.ts:776`); a run that failed in `finalizeStage` with
  its answer on record is refused a retry with a message about a recovery it never had
  (`:359-366`, `:1094`).
* `README.md` still says that enquiries trigger no automated e-mail;
  `docs/CUSTOMER-ENQUIRIES.md` and the code agree that the owner is notified.

### Not modelled

* The generation allowance: one counter in one row, compared and incremented in the
  transaction that admits.  A refusal changes nothing, and nothing else depends on it.
* The package catalogue, customers' names and statuses, and the follow-up status of an
  enquiry: each one compare-and-swap on one row, which a test reaches completely.
* HTTP parsing and routing, rendering, prompts and the validation of generated words, media
  conversion, the statements of each migration, and the release and launchd scripts: data,
  pure functions or sequences outside the running system.

## 7. Running

    tlc -workers 2 -config ProviderEffects.cfg MCProviderEffects
    tlapm ProviderEffectsProofs.tla
    tlapm CampaignPipelineProofs.tla
    tlapm SocialAdaptationProofs.tla
    tlapm EnquiryDeliveryProofs.tla
    tlapm OwnerAuthProofs.tla
    tlapm SocialEditorProofs.tla
    tlapm CampaignStudioProofs.tla
    tlapm ProcessLifecycleProofs.tla

`PROJECT.json` lists each run with its module and configuration, the faults
(`mutants`) with which each property is seen to fail, and the disagreements found.
