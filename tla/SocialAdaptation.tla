--------------------------- MODULE SocialAdaptation ---------------------------
(***************************************************************************)
(* A social post and the paid adaptation of its texts to each platform:    *)
(* what the owner does to the post (save, publish, adapt, remove), and the *)
(* durable job that carries an adaptation out.  An adaptation belongs to   *)
(* one wording of the post (its name and texts), and is made at most once  *)
(* for it.                                                                 *)
(*                                                                         *)
(* The provider is the one of ProviderEffects, over another repository of  *)
(* receipts, whose every write is fenced: it happens in one transaction    *)
(* with a heartbeat, which only the holder of the job's lease can make.    *)
(* Other posts meet this one only at the limits on admissions and storage, *)
(* which appear as admissions that do not happen.                          *)
(***************************************************************************)
EXTENDS Naturals

CONSTANTS
    Worker,       \* worker processes
    Nobody,       \* holder of a job nobody has claimed
    Text,         \* wordings of the post
    MaxAttempts,  \* attempts of a job before it fails
    MaxRevision   \* bound: a receipt polled this often is not written again

ASSUME AttemptsAssumption == MaxAttempts \in Nat \ {0}
ASSUME RevisionAssumption == MaxRevision \in Nat
ASSUME NobodyAssumption == Nobody \notin Worker
ASSUME TextAssumption == Text # {}

VARIABLES
    post,        \* the row of social_posts
    adaptation,  \* the row of social_adaptations for each wording
    job,         \* the durable job of each adaptation
    effect,      \* rows of social_effects: a receipt for each request
    creates,     \* requests sent to the provider (observer)
    worker       \* what each worker process is doing

vars == <<post, adaptation, job, effect, creates, worker>>

\* The original request and the one correction that generateStructured makes.
Ordinal == 1..2
Request == Text \X Ordinal

Uncertain == {"creating", "ambiguous"}
Polled == {"submitted", "polling"}
Final == {"succeeded", "rejected", "ambiguous"}

Post == [state : {"new", "saved", "removed"}, text : Text]
Job == [status : {"absent", "queued", "running", "succeeded", "failed"},
        tries : 0..MaxAttempts, holder : Worker \cup {Nobody}]
Effect == [state : {"absent", "prepared"} \cup Uncertain \cup Polled \cup Final,
           revision : Nat, output : {"none", "valid", "invalid"}]

\* The program counter of a worker names the next thing it does.
Process == [pc : {"idle", "begin", "load", "quarantine", "prepared", "fenced", "posted",
                  "poll", "apply", "pending", "caught", "complete", "retry"},
            text : Text, ordinal : Ordinal, attempt : 0..MaxAttempts,
            revision : Nat,      \* of the receipt, as last read
            aborted : BOOLEAN]   \* the signal of the handler has fired

TypeOK ==
    /\ post \in Post
    /\ adaptation \in [Text -> {"none", "pending", "complete", "failed"}]
    /\ job \in [Text -> Job]
    /\ effect \in [Request -> Effect]
    /\ creates \in [Request -> Nat]
    /\ worker \in [Worker -> Process]

\* The wording the post is first saved with.
Draft == CHOOSE t \in Text : TRUE

NoJob == [status |-> "absent", tries |-> 0, holder |-> Nobody]
NoEffect == [state |-> "absent", revision |-> 0, output |-> "none"]
Idle == [pc |-> "idle", text |-> Draft, ordinal |-> 1, attempt |-> 0, revision |-> 0,
         aborted |-> FALSE]

Init ==
    /\ post = [state |-> "new", text |-> Draft]
    /\ adaptation = [t \in Text |-> "none"]
    /\ job = [t \in Text |-> NoJob]
    /\ effect = [q \in Request |-> NoEffect]
    /\ creates = [q \in Request |-> 0]
    /\ worker = [w \in Worker |-> Idle]
-------------------------------------------------------------------------------
(***************************************************************************)
(* The owner, through the web process: one transaction each.               *)
(***************************************************************************)
\* create, under an identity the browser has chosen; repeating it is free.
Create ==
    /\ post.state = "new"
    /\ post' = [state |-> "saved", text |-> post.text]
    /\ UNCHANGED <<adaptation, job, effect, creates, worker>>

\* update.  A version marked as published is not changed and lets nothing be
\* adapted, which is one more reason for an edit or an admission not to happen.
Save(t) ==
    /\ post.state = "saved"
    /\ post' = [state |-> "saved", text |-> t]
    /\ UNCHANGED <<adaptation, job, effect, creates, worker>>

\* An adaptation whose job failed is noted as failed by the next admission.
Noted(t) ==
    IF adaptation[t] = "pending" /\ job[t].status = "failed" THEN "failed" ELSE adaptation[t]

\* Fault: only the newest state of the job counts, not the receipts.
AdmitUncertain ==
    LET t == post.text IN
    /\ post.state = "saved"
    /\ adaptation[t] = "none"
    /\ \A s \in Text : Noted(s) # "pending"
    /\ adaptation' = [s \in Text |-> IF s = t THEN "pending" ELSE Noted(s)]
    /\ job' = [job EXCEPT ![t] = [status |-> "queued", tries |-> 0, holder |-> Nobody]]
    /\ UNCHANGED <<post, effect, creates, worker>>

\* admit.  The same wording is not adapted again; whatever else is refused is
\* refused without a trace.
Admit ==
    LET t == post.text IN
    /\ post.state = "saved"
    /\ adaptation[t] = "none"
    /\ \A q \in Request : effect[q].state \notin Uncertain
    /\ \A s \in Text : Noted(s) # "pending"
    /\ adaptation' = [s \in Text |-> IF s = t THEN "pending" ELSE Noted(s)]
    /\ job' = [job EXCEPT ![t] = [status |-> "queued", tries |-> 0, holder |-> Nobody]]
    /\ UNCHANGED <<post, effect, creates, worker>>

\* Fault: a post is removed whatever its adaptations are doing.
RemovableAlways == TRUE

Removable ==
    /\ \A t \in Text : adaptation[t] # "pending"
    /\ \A q \in Request : effect[q].state \notin Uncertain \cup Polled

\* remove: the post goes with its adaptations and receipts; jobs stay.
Remove ==
    /\ post.state = "saved" /\ Removable
    /\ post' = [state |-> "removed", text |-> post.text]
    /\ adaptation' = [t \in Text |-> "none"]
    /\ effect' = [q \in Request |-> NoEffect]
    /\ UNCHANGED <<job, creates, worker>>
-------------------------------------------------------------------------------
(***************************************************************************)
(* The job store, which executes one job at a time.                        *)
(***************************************************************************)
Holds(w) == LET j == job[worker[w].text] IN j.status = "running" /\ j.holder = w
Working(w, t) == worker[w].pc # "idle" /\ worker[w].text = t

\* A job that is given up for now is queued again while it has attempts left.
Requeued(t) ==
    [status |-> IF job[t].tries < MaxAttempts THEN "queued" ELSE "failed",
     tries |-> job[t].tries, holder |-> Nobody]

Claim(w, t) ==
    /\ worker[w].pc = "idle" /\ job[t].status = "queued"
    /\ \A s \in Text : job[s].status # "running"
    /\ job' = [job EXCEPT ![t] = [status |-> "running", tries |-> job[t].tries + 1,
                                  holder |-> w]]
    /\ worker' = [worker EXCEPT ![w] = [pc |-> "begin", text |-> t, ordinal |-> 1,
                                        attempt |-> job[t].tries + 1, revision |-> 0,
                                        aborted |-> FALSE]]
    /\ UNCHANGED <<post, adaptation, effect, creates>>

\* Fault: the last attempt is not given up when its lease runs out.
RecoverBeforeLast(t) ==
    /\ job[t].status = "running" /\ ~Working(job[t].holder, t)
    /\ job[t].tries < MaxAttempts
    /\ job' = [job EXCEPT ![t] = Requeued(t)]
    /\ UNCHANGED <<post, adaptation, effect, creates, worker>>

\* The lease of a job whose worker is gone runs out.
RecoverExpired(t) ==
    /\ job[t].status = "running" /\ ~Working(job[t].holder, t)
    /\ job' = [job EXCEPT ![t] = Requeued(t)]
    /\ UNCHANGED <<post, adaptation, effect, creates, worker>>

\* The worker is suspended for longer than its lease.
Lapse(t) ==
    /\ job[t].status = "running"
    /\ job' = [job EXCEPT ![t] = Requeued(t)]
    /\ UNCHANGED <<post, adaptation, effect, creates, worker>>

\* The result of a handler; only the holder of the lease is heard.
Release(w) ==
    LET t == worker[w].text IN
    /\ worker[w].pc \in {"complete", "retry"}
    /\ job' = IF ~Holds(w) THEN job
              ELSE [job EXCEPT ![t] =
                      IF worker[w].pc = "retry" THEN Requeued(t)
                      ELSE [status |-> "succeeded", tries |-> job[t].tries, holder |-> Nobody]]
    /\ worker' = [worker EXCEPT ![w] = Idle]
    /\ UNCHANGED <<post, adaptation, effect, creates>>

Signalled(w) ==
    [pc |-> worker[w].pc, text |-> worker[w].text, ordinal |-> worker[w].ordinal,
     attempt |-> worker[w].attempt, revision |-> worker[w].revision, aborted |-> TRUE]

\* A graceful stop fires the signal of the handler; a crash ends the process.
Stop(w) ==
    /\ worker[w].pc \notin {"idle", "complete", "retry"} /\ ~worker[w].aborted
    /\ worker' = [worker EXCEPT ![w] = Signalled(w)]
    /\ UNCHANGED <<post, adaptation, job, effect, creates>>

Crash(w) ==
    /\ worker[w].pc # "idle"
    /\ worker' = [worker EXCEPT ![w] = Idle]
    /\ UNCHANGED <<post, adaptation, job, effect, creates>>

\* maintainTerminalStorage deletes the terminal jobs that no generation run of
\* a campaign is linked to.
PruneJob(t) ==
    /\ job[t].status \in {"succeeded", "failed"}
    /\ job' = [job EXCEPT ![t] = NoJob]
    /\ UNCHANGED <<post, adaptation, effect, creates, worker>>
-------------------------------------------------------------------------------
(***************************************************************************)
(* The receipts.  A write of the handler happens while its signal has not  *)
(* fired and its lease is live, both looked at in the same transaction.    *)
(***************************************************************************)
\* Fault: the lease is not looked at.
FencedBySignal(w) == ~worker[w].aborted

Fenced(w) == ~worker[w].aborted /\ Holds(w)

Asked(w) == <<worker[w].text, worker[w].ordinal>>
Current(w) == effect[Asked(w)]
\* The next thing a worker does, with the revision it has read; what is not
\* looked at again is forgotten.
Reads(w, pc, revision) ==
    [pc |-> pc, text |-> worker[w].text, ordinal |-> worker[w].ordinal,
     attempt |-> worker[w].attempt, revision |-> revision, aborted |-> worker[w].aborted]
Corrects(w) ==
    [pc |-> "load", text |-> worker[w].text, ordinal |-> 2,
     attempt |-> worker[w].attempt, revision |-> 0, aborted |-> worker[w].aborted]
Ends(w, pc) ==
    [pc |-> pc, text |-> worker[w].text, ordinal |-> 1,
     attempt |-> worker[w].attempt, revision |-> 0, aborted |-> worker[w].aborted]
At(w, pc) == Reads(w, pc, worker[w].revision)
Advances(w, pc) == Reads(w, pc, worker[w].revision + 1)
Seen(w, pc) == Reads(w, pc, Current(w).revision)
Become(w, process) == worker' = [worker EXCEPT ![w] = process]

\* The transitions a receipt may make; a final one makes none.
Allowed ==
    ({"prepared"} \X {"creating"})
    \cup ({"creating"} \X {"submitted", "rejected", "ambiguous"})
    \cup (Polled \X {"polling", "succeeded", "rejected", "ambiguous"})

\* transitionEffect: a compare-and-swap on the revision of the receipt.
Swaps(w, state) ==
    /\ Fenced(w)
    /\ Current(w).revision = worker[w].revision
    /\ <<Current(w).state, state>> \in Allowed

Transition(w, state, output, after) ==
    \/ /\ Swaps(w, state)
       /\ effect' = [effect EXCEPT ![Asked(w)] =
                       [state |-> state, revision |-> worker[w].revision + 1, output |-> output]]
       /\ Become(w, after)
    \/ /\ ~Swaps(w, state)
       /\ Become(w, Ends(w, "caught"))
       /\ UNCHANGED effect

\* generateStructured: an invalid answer earns one correction, not two.
Judged(w, output) ==
    IF output = "valid" THEN Ends(w, "apply")
    ELSE IF worker[w].ordinal = 1 THEN Corrects(w)
    ELSE Ends(w, "caught")
-------------------------------------------------------------------------------
(***************************************************************************)
(* The handler.                                                            *)
(***************************************************************************)
\* The row is gone, was settled by an earlier attempt, or waits for this one.
Begin(w) ==
    LET is == adaptation[worker[w].text] IN
    /\ worker[w].pc = "begin"
    /\ \/ is = "none" /\ Become(w, Ends(w, "retry"))
       \/ is \in {"complete", "failed"} /\ Become(w, Ends(w, "complete"))
       \/ is = "pending" /\ Become(w, At(w, "load"))
    /\ UNCHANGED <<post, adaptation, job, effect, creates>>

\* getEffect, and prepareEffect where there is none.
Load(w) ==
    LET is == Current(w).state IN
    /\ worker[w].pc = "load"
    /\ \/ /\ is = "absent" /\ Fenced(w)
          /\ effect' = [effect EXCEPT ![Asked(w)] =
                          [state |-> "prepared", revision |-> 1, output |-> "none"]]
          /\ Become(w, Reads(w, "prepared", 1))
       \/ /\ is = "absent" /\ ~Fenced(w)
          /\ Become(w, Ends(w, "caught"))
          /\ UNCHANGED effect
       \/ /\ \/ is = "prepared" /\ worker[w].aborted /\ Become(w, Ends(w, "pending"))
             \/ is = "prepared" /\ ~worker[w].aborted /\ Become(w, Seen(w, "prepared"))
             \/ is = "creating" /\ Become(w, Seen(w, "quarantine"))
             \/ is \in Polled /\ Become(w, Seen(w, "poll"))
             \/ is = "succeeded" /\ Become(w, Judged(w, Current(w).output))
             \/ is \in {"rejected", "ambiguous"} /\ Become(w, Ends(w, "caught"))
          /\ UNCHANGED effect
    /\ UNCHANGED <<post, adaptation, job, creates>>

\* A receipt found in "creating" may already have been sent.
Quarantine(w) ==
    /\ worker[w].pc = "quarantine"
    /\ Transition(w, "ambiguous", "none", Ends(w, "caught"))
    /\ UNCHANGED <<post, adaptation, job, creates>>

\* Fault: the request is sent before the receipt says so.
FenceSkipped(w) ==
    /\ worker[w].pc = "prepared"
    /\ Become(w, At(w, "fenced"))
    /\ UNCHANGED <<post, adaptation, job, effect, creates>>

Fence(w) ==
    /\ worker[w].pc = "prepared"
    /\ Transition(w, "creating", "none", Advances(w, "fenced"))
    /\ UNCHANGED <<post, adaptation, job, creates>>

Send(w) ==
    /\ worker[w].pc = "fenced"
    /\ creates' = [creates EXCEPT ![Asked(w)] = creates[Asked(w)] + 1]
    /\ Become(w, At(w, "posted"))
    /\ UNCHANGED <<post, adaptation, job, effect>>

\* A response with an id, a definitive refusal, or anything else.
Answer(w) ==
    /\ worker[w].pc = "posted"
    /\ \/ Transition(w, "submitted", "none", Advances(w, "poll"))
       \/ \E verdict \in {"rejected", "ambiguous"} :
             Transition(w, verdict, "none", Ends(w, "caught"))
    /\ UNCHANGED <<post, adaptation, job, creates>>

\* pollResponse.  A response above the limit of the receipt is an error like
\* any other, here; a failed retrieval changes nothing and is not a step.
Poll(w) ==
    /\ worker[w].pc = "poll"
    /\ \/ \E output \in {"valid", "invalid"} :
             Transition(w, "succeeded", output, Judged(w, output))
       \/ Transition(w, "rejected", "none", Ends(w, "caught"))
       \/ worker[w].revision < MaxRevision /\ Transition(w, "polling", "none", Advances(w, "poll"))
       \/ \E pc \in {"caught", "pending"} : Become(w, Ends(w, pc)) /\ UNCHANGED effect
    /\ UNCHANGED <<post, adaptation, job, creates>>

Apply(w) ==
    /\ worker[w].pc = "apply"
    /\ \/ /\ Fenced(w)
          /\ adaptation' = [adaptation EXCEPT ![worker[w].text] = "complete"]
          /\ Become(w, Ends(w, "complete"))
       \* The lease is lost, or the result cannot be written.
       \/ /\ Become(w, Ends(w, "caught"))
          /\ UNCHANGED adaptation
    /\ UNCHANGED <<post, job, effect, creates>>

\* Fault: a completed answer does not earn another attempt.
RethrowsUnanswered(w) ==
    \/ worker[w].aborted
    \/ worker[w].attempt < MaxAttempts /\ worker[w].pc = "pending"

\* The errors that end this attempt and not the adaptation.
Rethrows(w) ==
    \/ worker[w].aborted
    \/ /\ worker[w].attempt < MaxAttempts
       /\ \/ worker[w].pc = "pending"
          \/ \E o \in Ordinal : effect[<<worker[w].text, o>>].state = "succeeded"

Catch(w) ==
    /\ worker[w].pc \in {"pending", "caught"}
    /\ IF ~Rethrows(w) /\ Fenced(w)
       THEN /\ adaptation' = [adaptation EXCEPT ![worker[w].text] = "failed"]
            /\ Become(w, Ends(w, "complete"))
       ELSE /\ Become(w, Ends(w, "retry"))
            /\ UNCHANGED adaptation
    /\ UNCHANGED <<post, job, effect, creates>>
-------------------------------------------------------------------------------
Owner ==
    \/ Create \/ Admit \/ Remove
    \/ \E t \in Text : Save(t)

Handle(w) ==
    \/ Begin(w) \/ Load(w) \/ Quarantine(w) \/ Fence(w) \/ Send(w) \/ Answer(w) \/ Poll(w)
    \/ Apply(w) \/ Catch(w) \/ Release(w)

Work ==
    \/ \E w \in Worker : Handle(w) \/ \E t \in Text : Claim(w, t)
    \/ \E t \in Text : RecoverExpired(t)

Next ==
    \/ Owner \/ Work
    \/ \E w \in Worker : Stop(w) \/ Crash(w)
    \/ \E t \in Text : Lapse(t) \/ PruneJob(t)

Spec == Init /\ [][Next]_vars

\* The supervised worker polls, executes and recovers for as long as it runs.
FairSpec == Spec /\ WF_vars(Work)
-------------------------------------------------------------------------------
(***************************************************************************)
(* Properties.                                                             *)
(***************************************************************************)
\* No request of an adaptation is sent twice, not even by a worker that was
\* suspended beyond its lease and overtaken by another.
PaidOnce == \A q \in Request : creates[q] <= 1

\* As long as a request of the post may have been accepted without an answer,
\* nothing is bought for another wording of it: neither by an admission nor
\* by a worker that comes back late.
NoSpendingOnUncertainty ==
    [][\A t, s \in Text, o \in Ordinal :
          creates'[<<t, o>>] # creates[<<t, o>>] /\ s # t =>
              \A p \in Ordinal : effect[<<s, p>>].state \notin Uncertain]_vars

\* The owner is shown one outcome of an adaptation: a late worker does not
\* complete what was given up, or give up what was completed.
OutcomeIsFinal ==
    [][\A t \in Text : adaptation[t] \in {"complete", "failed"} =>
          adaptation'[t] \in {adaptation[t], "none"}]_vars

\* A valid answer that was paid for is given up only by the last attempt; a
\* failed write of the result is repeated from the receipt.
PaidAnswerIsReplayed ==
    [][\A t \in Text, o \in Ordinal :
          /\ adaptation[t] = "pending" /\ adaptation'[t] = "failed"
          /\ effect[<<t, o>>].output = "valid"
          => job[t].tries = MaxAttempts]_vars

\* Nothing is bought for a post that was removed.
RemovedPostIsNotBilled == [][post.state = "removed" => creates' = creates]_vars

\* The job of an adaptation ends, whatever crashes, so that its outcome can be
\* shown and the next campaign or post has its turn.
WorkEnds ==
    \A t \in Text : job[t].status \in {"queued", "running"}
                    ~> job[t].status \notin {"queued", "running"}
===============================================================================
