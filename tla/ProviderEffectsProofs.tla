------------------------ MODULE ProviderEffectsProofs -------------------------
(***************************************************************************)
(* Proofs about ProviderEffects, for every set of workers and every bound. *)
(*                                                                         *)
(* None of the safety properties is inductive as it stands.  What makes    *)
(* them so is that a process in the handler holds a live lease (Exclusive, *)
(* the assumption LeaseExpires states), so that what it last read of the   *)
(* run (RunIsCurrent) and of its receipt (ReceiptAt) is still what is on   *)
(* record, and that the receipts of the two requests depend on each other  *)
(* (Receipts).                                                             *)
(*                                                                         *)
(* The second part does without Exclusive: processes may be suspended for  *)
(* longer than their lease (StallSpec).                                    *)
(***************************************************************************)
EXTENDS ProviderEffects, TLAPS

\* Parts of the handler that act for a run that has not ended.
Executing == {"load", "quarantine", "prepared", "fenced", "posted", "poll", "apply",
              "terminal", "pending", "exhausted"}

\* The attempts of a job never exceed their number.
Attempts ==
    /\ job.status = "queued" => job.attempts < MaxAttempts
    /\ job.status = "running" => job.attempts > 0

Exclusive == \A w \in Worker : worker[w].pc \in InHandler => Holds(w)

RunIsCurrent ==
    /\ \A w \in Worker : worker[w].pc \in Executing => OwnsRun(w)
    /\ \A w \in Worker : worker[w].pc \notin {"conflict", "lostRun"}

Corrected == effect[1].state = "succeeded" /\ effect[1].output = "invalid"

Receipts ==
    /\ \A o \in Ordinal :
        /\ creates[o] <= 1
        /\ effect[o].state \in {"absent", "prepared"} => creates[o] = 0
        /\ effect[o].state \in {"submitted", "polling", "succeeded", "rejected"} => creates[o] = 1
        /\ effect[o].state = "succeeded" => effect[o].output # "none"
        /\ run.state = "queued" => effect[o].state = "absent"
    /\ effect[2].state # "absent" => Corrected

ReceiptAt(w) ==
    LET pc == worker[w].pc
        o == worker[w].ordinal IN
    /\ o = 2 => Corrected
    /\ pc = "quarantine" => effect[o].state = "creating"
    /\ pc = "prepared" => effect[o].state = "prepared"
    /\ pc = "fenced" => effect[o].state = "creating" /\ creates[o] = 0
    /\ pc = "posted" => effect[o].state = "creating" /\ creates[o] = 1
    /\ pc \in {"poll", "pending", "exhausted"} => effect[o].state \in {"submitted", "polling"}
    /\ pc \in {"quarantine", "prepared", "fenced", "posted", "poll"} =>
            effect[o].revision = worker[w].revision
    /\ pc = "apply" => effect[o].state = "succeeded" /\ effect[o].output = "valid"
    /\ pc = "terminal" => worker[w].cause # "job"
    /\ pc = "terminal" /\ worker[w].verdict = "failed" /\ worker[w].cause # "campaign" =>
            \A p \in Ordinal : effect[p].state \notin Unresolved

IInv ==
    /\ TypeOK
    /\ Attempts
    /\ Exclusive
    /\ RunIsCurrent
    /\ Receipts
    /\ \A w \in Worker : ReceiptAt(w)
    /\ FailedMeansSettled
    /\ PaidAnswerGetsSecondChance
-------------------------------------------------------------------------------
(***************************************************************************)
(* What the records that describe a worker contain.                        *)
(***************************************************************************)
LEMMA AtFacts ==
  ASSUME worker \in [Worker -> Process], NEW w \in Worker, NEW pc \in PC
  PROVE  /\ At(w, pc) \in Process
         /\ At(w, pc).pc = pc
         /\ At(w, pc).ordinal = worker[w].ordinal
         /\ At(w, pc).revision = worker[w].revision
         /\ At(w, pc).runRevision = worker[w].runRevision
         /\ At(w, pc).verdict = worker[w].verdict
         /\ At(w, pc).cause = worker[w].cause
  BY Zenon DEF At, Process

LEMMA SeenFacts ==
  ASSUME worker \in [Worker -> Process], NEW w \in Worker, NEW pc \in PC, NEW r \in Nat
  PROVE  /\ Seen(w, pc, r) \in Process
         /\ Seen(w, pc, r).pc = pc
         /\ Seen(w, pc, r).ordinal = worker[w].ordinal
         /\ Seen(w, pc, r).revision = r
         /\ Seen(w, pc, r).runRevision = worker[w].runRevision
         /\ Seen(w, pc, r).verdict = worker[w].verdict
         /\ Seen(w, pc, r).cause = worker[w].cause
  BY Zenon DEF Seen, Process

LEMMA EndingFacts ==
  ASSUME worker \in [Worker -> Process], NEW w \in Worker,
         NEW verdict \in {"failed", "ambiguous"}, NEW cause \in Cause
  PROVE  /\ Ending(w, verdict, cause) \in Process
         /\ Ending(w, verdict, cause).pc = "terminal"
         /\ Ending(w, verdict, cause).ordinal = worker[w].ordinal
         /\ Ending(w, verdict, cause).runRevision = worker[w].runRevision
         /\ Ending(w, verdict, cause).verdict = verdict
         /\ Ending(w, verdict, cause).cause = cause
  <1>1. "terminal" \in PC
    BY DEF PC, InHandler
  <1> QED
    BY <1>1, Zenon DEF Ending, Process

LEMMA CorrectingFacts ==
  ASSUME worker \in [Worker -> Process], NEW w \in Worker, NEW p,
         p = [At(w, "load") EXCEPT !.ordinal = 2]
  PROVE  /\ p \in Process
         /\ p.pc = "load"
         /\ p.ordinal = 2
         /\ p.runRevision = worker[w].runRevision
  <1>1. "load" \in PC /\ 2 \in Ordinal
    BY DEF PC, InHandler, Ordinal
  <1>2. At(w, "load") \in Process /\ At(w, "load").pc = "load"
        /\ At(w, "load").runRevision = worker[w].runRevision
    BY <1>1, AtFacts
  <1> QED
    BY <1>1, <1>2, Zenon DEF Process

LEMMA RereadFacts ==
  ASSUME NEW after \in Process, NEW r \in Nat, NEW p, p = [after EXCEPT !.revision = r]
  PROVE  /\ p \in Process
         /\ p.pc = after.pc
         /\ p.ordinal = after.ordinal
         /\ p.revision = r
         /\ p.runRevision = after.runRevision
         /\ p.verdict = after.verdict
         /\ p.cause = after.cause
  BY Zenon DEF Process

\* The other fields do not matter to the invariant.
LEMMA MarkedFacts ==
  ASSUME NEW after \in Process, NEW p,
         \/ \E n \in Nat : p = [after EXCEPT !.sent = n]
         \/ \E n \in 0..MaxAttempts : p = [after EXCEPT !.attempt = n]
         \/ p = [after EXCEPT !.stopping = TRUE]
  PROVE  /\ p \in Process
         /\ p.pc = after.pc
         /\ p.ordinal = after.ordinal
         /\ p.revision = after.revision
         /\ p.runRevision = after.runRevision
         /\ p.verdict = after.verdict
         /\ p.cause = after.cause
  BY Zenon DEF Process

LEMMA BecomeFacts ==
  ASSUME worker \in [Worker -> Process], NEW w \in Worker, NEW p \in Process, Become(w, p)
  PROVE  /\ worker' \in [Worker -> Process]
         /\ worker'[w] = p
         /\ \A v \in Worker : v # w => worker'[v] = worker[v]
  BY DEF Become

LEMMA RunInFacts ==
  ASSUME run \in Run, NEW state \in {"queued", "running"} \cup RunTerminal, NEW cause \in Cause
  PROVE  /\ RunIn(state, cause) \in Run
         /\ RunIn(state, cause).state = state
         /\ RunIn(state, cause).revision = run.revision + 1
         /\ RunIn(state, cause).cause = cause
  BY DEF RunIn, Run
-------------------------------------------------------------------------------
(***************************************************************************)
(* Steps of the handler.                                                   *)
(***************************************************************************)
LEMMA InitInv == Init => IInv
  <1> SUFFICES ASSUME Init PROVE IInv
    OBVIOUS
  <1> USE AttemptsAssumption, RevisionAssumption, StopsAssumption, NoWorkerAssumption
  <1>1. TypeOK
    <2>1. Down \in Process
      BY DEF Down, Process, PC, Ordinal, Cause
    <2>2. NoEffect \in Effect
      BY DEF NoEffect, Effect, EffectState
    <2>3. run \in Run /\ job \in Job
      BY DEF Init, Run, Job, Cause
    <2> QED
      BY <2>1, <2>2, <2>3 DEF Init, TypeOK
  <1>2. Attempts /\ Exclusive /\ RunIsCurrent
    BY DEF Init, Attempts, Exclusive, RunIsCurrent, Down, InHandler, Executing
  <1>3. Receipts /\ \A w \in Worker : ReceiptAt(w)
    BY DEF Init, Receipts, ReceiptAt, Down, NoEffect, Ordinal
  <1>4. FailedMeansSettled /\ PaidAnswerGetsSecondChance
    BY DEF Init, FailedMeansSettled, PaidAnswerGetsSecondChance
  <1> QED
    BY <1>1, <1>2, <1>3, <1>4 DEF IInv

LEMMA OthersAreIdle ==
  ASSUME Exclusive, NEW w \in Worker, worker[w].pc \in InHandler,
         NEW v \in Worker, v # w
  PROVE  worker[v].pc \notin InHandler
  BY DEF Exclusive, Holds

\* What a step of the handler has to establish.
LEMMA HandlerStep ==
  ASSUME IInv, NEW w \in Worker, worker[w].pc \in InHandler,
         NEW p \in Process, Become(w, p),
         UNCHANGED <<job, stops>>,
         effect' \in [Ordinal -> Effect], run' \in Run, recovered' \in BOOLEAN,
         creates' \in [Ordinal -> Nat],
         p.pc \in Executing => run'.state = "running" /\ run'.revision = p.runRevision,
         p.pc \notin {"conflict", "lostRun"},
         Corrected => Corrected',
         Receipts', ReceiptAt(w)', FailedMeansSettled', PaidAnswerGetsSecondChance'
  PROVE  IInv'
  <1>0. /\ worker' \in [Worker -> Process]
        /\ worker'[w] = p
        /\ \A v \in Worker : v # w => worker'[v] = worker[v]
    BY BecomeFacts DEF IInv, TypeOK
  <1>1. TypeOK'
    BY <1>0 DEF IInv, TypeOK
  <1>2. Attempts'
    BY DEF IInv, Attempts
  <1>3. Exclusive'
    BY <1>0 DEF IInv, Exclusive, Holds, Leased
  <1>4. \A v \in Worker : v # w => worker'[v].pc \notin InHandler
    BY <1>0, OthersAreIdle DEF IInv
  <1>5. RunIsCurrent'
    BY <1>0, <1>4 DEF RunIsCurrent, OwnsRun, Executing, InHandler
  <1>6. ASSUME NEW v \in Worker PROVE ReceiptAt(v)'
    <2>1. CASE v # w
      <3>1. worker'[v] = worker[v] /\ worker[v].pc \notin InHandler
        BY <2>1, <1>0, <1>4
      <3>2. worker[v].ordinal = 2 => Corrected
        BY DEF IInv, ReceiptAt
      <3> QED
        BY <3>1, <3>2 DEF ReceiptAt, InHandler
    <2> QED
      BY <2>1
  <1> QED
    BY <1>1, <1>2, <1>3, <1>5, <1>6 DEF IInv

\* ... while the run is its own.
LEMMA ExecutingStep ==
  ASSUME IInv, NEW w \in Worker, worker[w].pc \in Executing,
         NEW p \in Process, Become(w, p),
         p.pc \notin {"conflict", "lostRun"}, p.runRevision = worker[w].runRevision,
         UNCHANGED <<run, job, recovered, stops>>,
         effect' \in [Ordinal -> Effect], creates' \in [Ordinal -> Nat],
         Corrected => Corrected', Receipts', ReceiptAt(w)'
  PROVE  IInv'
  <1>1. run.state = "running" /\ run.revision = worker[w].runRevision
    BY DEF IInv, RunIsCurrent, OwnsRun
  <1>2. worker[w].pc \in InHandler
    BY DEF Executing, InHandler
  <1>3. FailedMeansSettled' /\ PaidAnswerGetsSecondChance'
    BY <1>1 DEF FailedMeansSettled, PaidAnswerGetsSecondChance
  <1>4. run' \in Run /\ recovered' \in BOOLEAN
    BY DEF IInv, TypeOK
  <1> QED
    BY <1>1, <1>2, <1>3, <1>4, HandlerStep

\* What transitionEffect does for a worker whose reading of the receipt is current.
LEMMA TransitionFacts ==
  ASSUME IInv, NEW w \in Worker, worker[w].pc \in {"quarantine", "prepared", "posted", "poll"},
         NEW state \in EffectState, NEW id \in Nat, NEW output \in {"none", "valid", "invalid"},
         NEW after \in Process,
         Transition(w, state, id, output, after)
  PROVE  /\ effect' \in [Ordinal -> Effect]
         /\ \A o \in Ordinal : o # worker[w].ordinal => effect'[o] = effect[o]
         /\ effect'[worker[w].ordinal].state = state
         /\ effect'[worker[w].ordinal].output = output
         /\ \E p \in Process :
                /\ Become(w, p)
                /\ p.pc = after.pc
                /\ p.ordinal = after.ordinal
                /\ p.revision = effect'[worker[w].ordinal].revision
                /\ p.runRevision = after.runRevision
                /\ p.verdict = after.verdict
                /\ p.cause = after.cause
  <1> DEFINE o == worker[w].ordinal
             next == Rewritten(effect[o], state, id, output)
  <1>1. o \in Ordinal /\ effect[o] \in Effect /\ effect \in [Ordinal -> Effect]
    BY DEF IInv, TypeOK, Process
  <1>2. Swaps(w)
    <2>1. ReceiptAt(w)
      BY DEF IInv
    <2>2. effect[o].revision = worker[w].revision /\ effect[o].state # "ambiguous"
      BY <2>1 DEF ReceiptAt
    <2> QED
      BY <2>2 DEF Swaps, Current
  <1>3. /\ effect' = [effect EXCEPT ![o] = next]
        /\ Become(w, [after EXCEPT !.revision = effect[o].revision + 1])
    BY <1>2, Zenon DEF Transition
  <1>4. /\ next \in Effect
        /\ next.state = state
        /\ next.revision = effect[o].revision + 1
        /\ next.output = output
    BY <1>1 DEF Rewritten, Effect
  <1>5. effect[o].revision + 1 \in Nat
    BY <1>1 DEF Effect
  <1>6. /\ effect' \in [Ordinal -> Effect]
        /\ \A q \in Ordinal : q # o => effect'[q] = effect[q]
        /\ effect'[o] = next
    <2> HIDE DEF next, o
    <2> QED
      BY <1>1, <1>3, <1>4
  <1> DEFINE p == [after EXCEPT !.revision = effect[o].revision + 1]
  <1>7. /\ p \in Process
        /\ p.pc = after.pc
        /\ p.ordinal = after.ordinal
        /\ p.revision = effect[o].revision + 1
        /\ p.runRevision = after.runRevision
        /\ p.verdict = after.verdict
        /\ p.cause = after.cause
    BY <1>5, RereadFacts
  <1>8. Become(w, p)
    BY <1>3
  <1> HIDE DEF p, next
  <1> QED
    BY <1>4, <1>6, <1>7, <1>8

LEMMA TransitionStep ==
  ASSUME IInv, NEW w \in Worker, worker[w].pc \in {"quarantine", "prepared", "posted", "poll"},
         NEW state \in EffectState \ {"absent", "prepared"}, NEW id \in Nat,
         NEW output \in {"none", "valid", "invalid"}, NEW after \in Process,
         Transition(w, state, id, output, after),
         UNCHANGED <<run, job, recovered, creates, stops>>,
         state \in {"submitted", "polling", "succeeded", "rejected"} =>
            creates[worker[w].ordinal] = 1,
         state = "succeeded" => output # "none",
         after.pc \in {"fenced", "poll", "apply", "load", "terminal"},
         after.runRevision = worker[w].runRevision,
         \/ after.ordinal = worker[w].ordinal
         \/ /\ after.ordinal = 2 /\ after.pc = "load" /\ worker[w].ordinal = 1
            /\ state = "succeeded" /\ output = "invalid",
         after.pc = "fenced" => state = "creating" /\ creates[worker[w].ordinal] = 0,
         after.pc = "poll" => state \in {"submitted", "polling"},
         after.pc = "apply" => state = "succeeded" /\ output = "valid",
         after.pc = "terminal" => after.cause # "job",
         after.pc = "terminal" /\ after.verdict = "failed" => state \notin Unresolved
  PROVE  IInv'
  <1> DEFINE o == worker[w].ordinal
  <1>1. PICK p \in Process :
                /\ Become(w, p)
                /\ p.pc = after.pc
                /\ p.ordinal = after.ordinal
                /\ p.revision = effect'[o].revision
                /\ p.runRevision = after.runRevision
                /\ p.verdict = after.verdict
                /\ p.cause = after.cause
    BY TransitionFacts
  <1>2. /\ effect' \in [Ordinal -> Effect]
        /\ \A q \in Ordinal : q # o => effect'[q] = effect[q]
        /\ effect'[o].state = state
        /\ effect'[o].output = output
    BY TransitionFacts
  <1>3. o \in Ordinal /\ worker'[w] = p /\ creates \in [Ordinal -> Nat]
    BY <1>1, BecomeFacts DEF IInv, TypeOK, Process
  <1>4. /\ effect[o].state \in {"prepared", "creating", "submitted", "polling"}
        /\ o = 2 => Corrected
    BY DEF IInv, ReceiptAt
  <1>5. o = 1 => effect[2].state = "absent"
    BY <1>4 DEF IInv, Receipts, Corrected
  <1>6. Corrected => Corrected'
    BY <1>2, <1>3, <1>4 DEF Corrected, Ordinal
  <1>7. run.state = "running"
    BY DEF IInv, RunIsCurrent, OwnsRun, Executing
  <1>8. Receipts'
    <2>1. ASSUME NEW q \in Ordinal
          PROVE  /\ creates[q] <= 1
                 /\ effect'[q].state \in {"absent", "prepared"} => creates[q] = 0
                 /\ effect'[q].state \in {"submitted", "polling", "succeeded", "rejected"} =>
                        creates[q] = 1
                 /\ effect'[q].state = "succeeded" => effect'[q].output # "none"
      BY <1>2, <1>3 DEF IInv, Receipts
    <2>2. effect'[2].state # "absent" => Corrected'
      BY <1>2, <1>3, <1>4, <1>5, <1>6 DEF Ordinal
    <2> QED
      BY <2>1, <2>2, <1>7 DEF Receipts
  <1>9. ReceiptAt(w)'
    <2>1. p.ordinal = 2 => Corrected'
      BY <1>1, <1>2, <1>3, <1>4, <1>6 DEF Corrected, Ordinal
    <2>2. p.pc # "load" => p.ordinal = o
      BY <1>1
    <2>3. ASSUME p.pc = "terminal", p.verdict = "failed", NEW q \in Ordinal
          PROVE  effect'[q].state \notin Unresolved
      <3>1. CASE q = o
        BY <3>1, <2>3, <1>1, <1>2
      <3>2. CASE q # o
        BY <3>2, <1>2, <1>3, <1>4, <1>5 DEF Ordinal, Unresolved, Corrected
      <3> QED
        BY <3>1, <3>2
    <2> HIDE DEF o
    <2> QED
      BY <2>1, <2>2, <2>3, <1>1, <1>2, <1>3 DEF ReceiptAt
  <1> QED
    BY <1>1, <1>2, <1>3, <1>6, <1>8, <1>9, ExecutingStep DEF Executing, IInv, TypeOK

LEMMA QuarantineInv ==
  ASSUME IInv, NEW w \in Worker, Quarantine(w)
  PROVE  IInv'
  <1>1. worker \in [Worker -> Process] /\ Current(w).responseId \in Nat
    BY DEF IInv, TypeOK, Process, Current, Effect
  <1>2. worker[w].pc = "quarantine"
    BY DEF Quarantine
  <1>3. "ambiguous" \in EffectState \ {"absent", "prepared"} /\ "provider" \in Cause
    BY DEF EffectState, Cause
  <1> DEFINE after == Ending(w, "ambiguous", "provider")
  <1>4. /\ after \in Process /\ after.pc = "terminal" /\ after.ordinal = worker[w].ordinal
        /\ after.runRevision = worker[w].runRevision /\ after.verdict = "ambiguous"
        /\ after.cause = "provider"
    BY <1>1, <1>3, EndingFacts
  <1>5. Transition(w, "ambiguous", Current(w).responseId, "none", after)
        /\ UNCHANGED <<run, job, recovered, creates, stops>>
    BY DEF Quarantine
  <1> HIDE DEF after
  <1> QED
    BY <1>1, <1>2, <1>3, <1>4, <1>5, TransitionStep

LEMMA FenceInv ==
  ASSUME IInv, NEW w \in Worker, Fence(w)
  PROVE  IInv'
  <1>1. worker \in [Worker -> Process] /\ Current(w).responseId \in Nat
    BY DEF IInv, TypeOK, Process, Current, Effect
  <1>2. /\ worker[w].pc = "prepared"
        /\ creates[worker[w].ordinal] = 0
    <2>1. worker[w].pc = "prepared" /\ worker[w].ordinal \in Ordinal
      BY DEF IInv, TypeOK, Process, Fence
    <2> QED
      BY <2>1 DEF IInv, ReceiptAt, Receipts
  <1>3. "creating" \in EffectState \ {"absent", "prepared"} /\ "fenced" \in PC
    BY DEF EffectState, PC, InHandler
  <1> DEFINE after == At(w, "fenced")
  <1>4. /\ after \in Process /\ after.pc = "fenced" /\ after.ordinal = worker[w].ordinal
        /\ after.runRevision = worker[w].runRevision
    BY <1>1, <1>3, AtFacts
  <1>5. Transition(w, "creating", Current(w).responseId, "none", after)
        /\ UNCHANGED <<run, job, recovered, creates, stops>>
    BY DEF Fence
  <1> HIDE DEF after
  <1> QED
    BY <1>1, <1>2, <1>3, <1>4, <1>5, TransitionStep

LEMMA AnswerInv ==
  ASSUME IInv, NEW w \in Worker, Answer(w)
  PROVE  IInv'
  <1>1. /\ worker \in [Worker -> Process] /\ Current(w).responseId \in Nat
        /\ worker[w].sent \in Nat
    BY DEF IInv, TypeOK, Process, Current, Effect
  <1>2. worker[w].pc = "posted" /\ creates[worker[w].ordinal] = 1
    BY DEF Answer, IInv, ReceiptAt
  <1>3. /\ {"submitted", "rejected", "ambiguous"} \subseteq EffectState \ {"absent", "prepared"}
        /\ "provider" \in Cause /\ "poll" \in PC
    BY DEF EffectState, Cause, PC, InHandler
  <1>4. UNCHANGED <<run, job, recovered, creates, stops>>
    BY DEF Answer
  <1> DEFINE polls == At(w, "poll")
             fails == Ending(w, "failed", "provider")
             gives == Ending(w, "ambiguous", "provider")
  <1>5. /\ polls \in Process /\ polls.pc = "poll" /\ polls.ordinal = worker[w].ordinal
        /\ polls.runRevision = worker[w].runRevision
    BY <1>1, <1>3, AtFacts
  <1>6. /\ fails \in Process /\ fails.pc = "terminal" /\ fails.ordinal = worker[w].ordinal
        /\ fails.runRevision = worker[w].runRevision /\ fails.cause = "provider"
    BY <1>1, <1>3, EndingFacts
  <1>7. /\ gives \in Process /\ gives.pc = "terminal" /\ gives.ordinal = worker[w].ordinal
        /\ gives.runRevision = worker[w].runRevision /\ gives.verdict = "ambiguous"
        /\ gives.cause = "provider"
    BY <1>1, <1>3, EndingFacts
  <1>8. \/ Transition(w, "submitted", worker[w].sent, "none", polls)
        \/ Transition(w, "rejected", Current(w).responseId, "none", fails)
        \/ Transition(w, "ambiguous", Current(w).responseId, "none", gives)
    BY DEF Answer, Unanswered
  <1> HIDE DEF polls, fails, gives
  <1>9. CASE Transition(w, "submitted", worker[w].sent, "none", polls)
    BY <1>1, <1>2, <1>3, <1>4, <1>5, <1>9, TransitionStep
  <1>10. CASE Transition(w, "rejected", Current(w).responseId, "none", fails)
    BY <1>1, <1>2, <1>3, <1>4, <1>6, <1>10, TransitionStep DEF Unresolved
  <1>11. CASE Transition(w, "ambiguous", Current(w).responseId, "none", gives)
    BY <1>1, <1>2, <1>3, <1>4, <1>7, <1>11, TransitionStep
  <1> QED
    BY <1>8, <1>9, <1>10, <1>11

LEMMA JudgedFacts ==
  ASSUME worker \in [Worker -> Process], NEW w \in Worker, NEW output \in {"valid", "invalid"}
  PROVE  /\ Judged(w, output) \in Process
         /\ Judged(w, output).pc \in {"apply", "load", "terminal"}
         /\ Judged(w, output).runRevision = worker[w].runRevision
         /\ \/ Judged(w, output).ordinal = worker[w].ordinal
            \/ /\ Judged(w, output).ordinal = 2 /\ Judged(w, output).pc = "load"
               /\ worker[w].ordinal = 1 /\ output = "invalid"
         /\ Judged(w, output).pc = "apply" => output = "valid"
         /\ Judged(w, output).pc = "load" => output = "invalid" /\ worker[w].ordinal = 1
         /\ Judged(w, output).pc = "terminal" => Judged(w, output).cause # "job"
         /\ Judged(w, output).pc = "terminal" => output = "invalid" /\ worker[w].ordinal # 1
  <1>1. "apply" \in PC /\ "invalid" \in Cause
    BY DEF PC, InHandler, Cause
  <1>2. CASE output = "valid"
    <2>1. Judged(w, output) = At(w, "apply")
      BY <1>2, Zenon DEF Judged
    <2> QED
      BY <1>1, <1>2, <2>1, AtFacts
  <1>3. CASE output # "valid" /\ worker[w].ordinal = 1
    <2>1. Judged(w, output) = [At(w, "load") EXCEPT !.ordinal = 2]
      BY <1>3, Zenon DEF Judged
    <2> DEFINE p == Judged(w, output)
    <2>2. p \in Process /\ p.pc = "load" /\ p.ordinal = 2 /\ p.runRevision = worker[w].runRevision
      BY <2>1, CorrectingFacts, Zenon
    <2> QED
      BY <1>3, <2>2
  <1>4. CASE output # "valid" /\ worker[w].ordinal # 1
    <2>1. Judged(w, output) = Ending(w, "failed", "invalid")
      BY <1>4, Zenon DEF Judged
    <2> QED
      BY <1>1, <1>4, <2>1, EndingFacts
  <1> QED
    BY <1>2, <1>3, <1>4

LEMMA LoadInv ==
  ASSUME IInv, NEW w \in Worker, Load(w)
  PROVE  IInv'
  <1> DEFINE o == worker[w].ordinal
  <1>1. /\ worker \in [Worker -> Process] /\ o \in Ordinal
        /\ effect \in [Ordinal -> Effect] /\ effect[o] \in Effect
        /\ effect[o].revision \in Nat /\ creates \in [Ordinal -> Nat]
    BY DEF IInv, TypeOK, Process, Effect
  <1>2. worker[w].pc = "load" /\ UNCHANGED <<run, job, recovered, creates, stops>>
    BY DEF Load
  <1>3. /\ o = 2 => Corrected
        /\ effect[2].state # "absent" => Corrected
        /\ Receipts
    BY DEF IInv, ReceiptAt, Receipts
  <1>4. /\ {"delay", "prepared", "retry", "quarantine", "poll"} \subseteq PC
        /\ {"capacity", "provider"} \subseteq Cause
    BY DEF PC, InHandler, Cause
  <1>5. run.state = "running"
    BY <1>2 DEF IInv, RunIsCurrent, OwnsRun, Executing
  \* Reading leaves the receipts alone.
  <1>6. ASSUME UNCHANGED effect, NEW p \in Process, Become(w, p),
               p.runRevision = worker[w].runRevision,
               p.pc \in {"delay", "prepared", "retry", "quarantine", "poll", "apply", "load",
                         "terminal"},
               p.ordinal = o \/ (p.ordinal = 2 /\ p.pc = "load" /\ Corrected),
               p.pc \in {"prepared", "quarantine", "poll"} => p.revision = effect[o].revision,
               p.pc = "prepared" => effect[o].state = "prepared",
               p.pc = "quarantine" => effect[o].state = "creating",
               p.pc = "poll" => effect[o].state \in {"submitted", "polling"},
               p.pc = "apply" => effect[o].state = "succeeded" /\ effect[o].output = "valid",
               p.pc = "terminal" => p.cause # "job",
               p.pc = "terminal" /\ p.verdict = "failed" => effect[o].state \notin Unresolved,
               p.pc = "terminal" /\ p.verdict = "failed" /\ o = 1 => effect[2].state \notin Unresolved
        PROVE  IInv'
    <2>1. worker'[w] = p
      BY <1>1, <1>6, BecomeFacts
    <2>2. Receipts' /\ (Corrected => Corrected')
      BY <1>2, <1>3, <1>6 DEF Receipts, Corrected
    <2>3. p.pc = "terminal" /\ p.verdict = "failed" =>
                \A q \in Ordinal : effect[q].state \notin Unresolved
      BY <1>1, <1>3, <1>6 DEF Corrected, Unresolved, Ordinal
    <2>4. ReceiptAt(w)'
      BY <1>1, <1>3, <1>6, <2>1, <2>2, <2>3 DEF ReceiptAt, Corrected
    <2> QED
      BY <1>1, <1>2, <1>6, <2>2, <2>4, ExecutingStep DEF Executing
  <1>7. ASSUME effect[o].state = "absent",
               effect' = [effect EXCEPT ![o] = Rewritten(NoEffect, "prepared", 0, "none")],
               Become(w, Seen(w, IF worker[w].stopping THEN "delay" ELSE "prepared", 1))
        PROVE  IInv'
    <2> DEFINE next == Rewritten(NoEffect, "prepared", 0, "none")
               p == Seen(w, IF worker[w].stopping THEN "delay" ELSE "prepared", 1)
    <2>1. next \in Effect /\ next.state = "prepared" /\ next.revision = 1
      BY DEF Rewritten, NoEffect, Effect, EffectState
    <2>2. /\ p \in Process /\ p.pc \in {"delay", "prepared"} /\ p.ordinal = o /\ p.revision = 1
          /\ p.runRevision = worker[w].runRevision
      <3>1. CASE worker[w].stopping
        BY <1>1, <1>4, <3>1, SeenFacts
      <3>2. CASE ~worker[w].stopping
        BY <1>1, <1>4, <3>2, SeenFacts
      <3> QED
        BY <3>1, <3>2
    <2>3. Become(w, p) /\ effect' = [effect EXCEPT ![o] = next]
      BY <1>7
    <2> HIDE DEF p, next
    <2>4. /\ effect' \in [Ordinal -> Effect] /\ effect'[o] = next
          /\ \A q \in Ordinal : q # o => effect'[q] = effect[q]
      BY <1>1, <2>1, <2>3
    <2>5. worker'[w] = p
      BY <1>1, <2>2, <2>3, BecomeFacts
    <2>6. (Corrected => Corrected') /\ (o = 2 => Corrected)
      BY <1>1, <1>3, <1>7, <2>4 DEF Corrected, Ordinal
    <2>7. Receipts'
      BY <1>1, <1>2, <1>3, <1>5, <1>7, <2>1, <2>4, <2>6 DEF Receipts, Corrected, Ordinal
    <2>8. ReceiptAt(w)'
      BY <1>1, <1>3, <2>1, <2>2, <2>4, <2>5, <2>6 DEF ReceiptAt
    <2> QED
      BY <1>1, <1>2, <2>2, <2>3, <2>4, <2>6, <2>7, <2>8, ExecutingStep DEF Executing
  <1>8. ASSUME effect[o].state = "absent", UNCHANGED effect,
               Become(w, IF worker[w].attempt < MaxAttempts THEN At(w, "retry")
                         ELSE Ending(w, "failed", "capacity"))
        PROVE  IInv'
    <2>1. CASE worker[w].attempt < MaxAttempts
      <3>1. Become(w, At(w, "retry"))
        BY <1>8, <2>1
      <3> QED
        BY <1>1, <1>4, <1>6, <1>8, <3>1, AtFacts
    <2>2. CASE ~(worker[w].attempt < MaxAttempts)
      <3>1. Become(w, Ending(w, "failed", "capacity"))
        BY <1>8, <2>2
      <3>2. o = 1 => effect[2].state = "absent"
        BY <1>3, <1>8 DEF Corrected
      <3> QED
        BY <1>1, <1>4, <1>6, <1>8, <3>1, <3>2, EndingFacts DEF Unresolved
    <2> QED
      BY <2>1, <2>2
  <1>9. ASSUME effect[o].state = "prepared", UNCHANGED effect,
               Become(w, Seen(w, IF worker[w].stopping THEN "delay" ELSE "prepared",
                              effect[o].revision))
        PROVE  IInv'
    <2>1. PICK pc \in {"delay", "prepared"} : Become(w, Seen(w, pc, effect[o].revision))
      <3>1. CASE worker[w].stopping
        BY <1>9, <3>1
      <3>2. CASE ~worker[w].stopping
        BY <1>9, <3>2
      <3> QED
        BY <3>1, <3>2
    <2>2. pc \in PC
      BY <1>4
    <2> QED
      BY <1>1, <1>6, <1>9, <2>1, <2>2, SeenFacts
  <1>10. ASSUME effect[o].state = "creating", UNCHANGED effect,
                Become(w, Seen(w, "quarantine", effect[o].revision))
         PROVE  IInv'
    <2> DEFINE p == Seen(w, "quarantine", effect[o].revision)
    <2>1. /\ p \in Process /\ p.pc = "quarantine" /\ p.ordinal = o
          /\ p.revision = effect[o].revision /\ p.runRevision = worker[w].runRevision
      BY <1>1, <1>4, SeenFacts
    <2>2. Become(w, p)
      BY <1>10
    <2> HIDE DEF p
    <2> QED
      BY <1>6, <1>10, <2>1, <2>2
  <1>11. ASSUME effect[o].state \in {"submitted", "polling"}, UNCHANGED effect,
                Become(w, Seen(w, "poll", effect[o].revision))
         PROVE  IInv'
    BY <1>1, <1>4, <1>6, <1>11, SeenFacts
  <1>12. ASSUME effect[o].state = "succeeded", UNCHANGED effect,
                Become(w, Judged(w, effect[o].output))
         PROVE  IInv'
    <2>1. effect[o].output \in {"valid", "invalid"}
      BY <1>1, <1>3, <1>12 DEF Receipts, Effect
    <2> QED
      BY <1>1, <1>3, <1>6, <1>12, <2>1, JudgedFacts DEF Corrected, Unresolved, Ordinal
  <1>13. ASSUME effect[o].state = "rejected", UNCHANGED effect,
                Become(w, Ending(w, "failed", "provider"))
         PROVE  IInv'
    <2>1. o = 1 => effect[2].state = "absent"
      BY <1>3, <1>13 DEF Corrected
    <2> QED
      BY <1>1, <1>4, <1>6, <1>13, <2>1, EndingFacts DEF Unresolved
  <1>14. ASSUME effect[o].state = "ambiguous", UNCHANGED effect,
                Become(w, Ending(w, "ambiguous", "provider"))
         PROVE  IInv'
    BY <1>1, <1>4, <1>6, <1>14, EndingFacts
  <1> HIDE DEF o
  <1> QED
    BY <1>7, <1>8, <1>9, <1>10, <1>11, <1>12, <1>13, <1>14, Zenon DEF Load, o

LEMMA PostInv ==
  ASSUME IInv, NEW w \in Worker, Post(w)
  PROVE  IInv'
  <1> DEFINE o == worker[w].ordinal
  <1>1. /\ worker \in [Worker -> Process] /\ o \in Ordinal
        /\ creates \in [Ordinal -> Nat] /\ effect \in [Ordinal -> Effect]
    BY DEF IInv, TypeOK, Process
  <1>2. /\ worker[w].pc = "fenced" /\ effect[o].state = "creating" /\ creates[o] = 0
        /\ o = 2 => Corrected
        /\ Receipts
    BY DEF IInv, ReceiptAt, Post
  <1>3. /\ UNCHANGED <<effect, run, job, recovered, stops>>
        /\ creates' = [creates EXCEPT ![o] = creates[o] + 1]
    BY DEF Post
  <1> DEFINE p == [At(w, "posted") EXCEPT !.sent = creates[o] + 1]
  <1>4. Become(w, p)
    BY DEF Post
  <1>5. /\ p \in Process /\ p.pc = "posted" /\ p.ordinal = o
        /\ p.revision = worker[w].revision /\ p.runRevision = worker[w].runRevision
    <2>1. "posted" \in PC /\ creates[o] + 1 \in Nat
      BY <1>1 DEF PC, InHandler
    <2> QED
      BY <1>1, <2>1, AtFacts, MarkedFacts
  <1> HIDE DEF p
  <1>6. /\ creates' \in [Ordinal -> Nat] /\ creates'[o] = 1
        /\ \A q \in Ordinal : q # o => creates'[q] = creates[q]
        /\ worker'[w] = p
    BY <1>1, <1>2, <1>3, <1>4, <1>5, BecomeFacts
  <1>7. effect[o].revision = worker[w].revision
    BY <1>2 DEF IInv, ReceiptAt
  <1>8. Receipts' /\ (Corrected => Corrected')
    BY <1>1, <1>2, <1>3, <1>6 DEF Receipts, Corrected
  <1>9. ReceiptAt(w)'
    BY <1>2, <1>3, <1>5, <1>6, <1>7, <1>8 DEF ReceiptAt
  <1> QED
    BY <1>1, <1>2, <1>3, <1>4, <1>5, <1>6, <1>8, <1>9, ExecutingStep DEF Executing

\* A step that reads nothing new and records nothing.
LEMMA SilentStep ==
  ASSUME IInv, NEW w \in Worker, worker[w].pc \in Executing, NEW p \in Process, Become(w, p),
         UNCHANGED <<effect, run, job, recovered, creates, stops>>,
         p.runRevision = worker[w].runRevision, p.ordinal = worker[w].ordinal,
         \/ p.pc \in {"retry", "delay", "complete", "giveUp"}
         \/ p.pc = "exhausted" /\ worker[w].pc = "pending"
         \/ p.pc = "pending" /\ worker[w].pc = "poll"
         \/ /\ p.pc = "terminal" /\ p.cause # "job"
            /\ p.verdict # "failed" \/ worker[w].pc = "apply"
  PROVE  IInv'
  <1>1. worker'[w] = p /\ effect \in [Ordinal -> Effect] /\ creates \in [Ordinal -> Nat]
        /\ worker[w].ordinal \in Ordinal
    BY BecomeFacts DEF IInv, TypeOK, Process
  <1>2. Receipts /\ ReceiptAt(w)
    BY DEF IInv
  <1>3. Receipts' /\ (Corrected => Corrected')
    BY <1>2 DEF Receipts, Corrected
  <1>4. worker[w].pc = "apply" => \A q \in Ordinal : effect[q].state \notin Unresolved
    BY <1>1, <1>2 DEF ReceiptAt, Receipts, Corrected, Unresolved, Ordinal
  <1>5. ReceiptAt(w)'
    BY <1>1, <1>2, <1>3, <1>4 DEF ReceiptAt
  <1> QED
    BY <1>1, <1>3, <1>5, ExecutingStep

LEMMA PollInv ==
  ASSUME IInv, NEW w \in Worker, Poll(w)
  PROVE  IInv'
  <1> DEFINE id == Current(w).responseId
             fails == Ending(w, "failed", "provider")
             polls == At(w, "poll")
  <1>1. worker \in [Worker -> Process] /\ id \in Nat
    BY DEF IInv, TypeOK, Process, Current, Effect
  <1>2. worker[w].pc = "poll" /\ creates[worker[w].ordinal] = 1
    <2>1. worker[w].pc = "poll" /\ worker[w].ordinal \in Ordinal
      BY DEF Poll, IInv, TypeOK, Process
    <2> QED
      BY <2>1 DEF IInv, ReceiptAt, Receipts
  <1>3. UNCHANGED <<run, job, recovered, creates, stops>>
    BY DEF Poll
  <1>4. /\ {"succeeded", "rejected", "polling"} \subseteq EffectState \ {"absent", "prepared"}
        /\ "provider" \in Cause /\ {"poll", "pending", "delay"} \subseteq PC
    BY DEF EffectState, Cause, PC, InHandler
  <1>5. /\ fails \in Process /\ fails.pc = "terminal" /\ fails.ordinal = worker[w].ordinal
        /\ fails.runRevision = worker[w].runRevision /\ fails.cause = "provider"
    BY <1>1, <1>4, EndingFacts
  <1>6. /\ polls \in Process /\ polls.pc = "poll" /\ polls.ordinal = worker[w].ordinal
        /\ polls.runRevision = worker[w].runRevision
    BY <1>1, <1>4, AtFacts
  <1>7. ASSUME NEW output \in {"valid", "invalid"},
               Transition(w, "succeeded", id, output, Judged(w, output))
        PROVE  IInv'
    <2>1. "succeeded" \notin Unresolved
      BY DEF Unresolved
    <2> DEFINE after == Judged(w, output)
    <2>2. /\ after \in Process
          /\ after.pc \in {"apply", "load", "terminal"}
          /\ after.runRevision = worker[w].runRevision
          /\ \/ after.ordinal = worker[w].ordinal
             \/ after.ordinal = 2 /\ after.pc = "load" /\ worker[w].ordinal = 1 /\ output = "invalid"
          /\ after.pc = "apply" => output = "valid"
          /\ after.pc = "terminal" => after.cause # "job"
      BY <1>1, JudgedFacts
    <2>3. Transition(w, "succeeded", id, output, after)
      BY <1>7
    <2> HIDE DEF after, id
    <2> QED
      BY <1>1, <1>2, <1>3, <1>4, <2>1, <2>2, <2>3, TransitionStep
  <1>8. ASSUME Transition(w, "rejected", id, "none", fails)
        PROVE  IInv'
    <2> HIDE DEF fails, id
    <2> QED
      BY <1>1, <1>2, <1>3, <1>4, <1>5, <1>8, TransitionStep DEF Unresolved
  <1>9. ASSUME Transition(w, "polling", id, "none", polls)
        PROVE  IInv'
    <2> HIDE DEF polls, id
    <2> QED
      BY <1>1, <1>2, <1>3, <1>4, <1>6, <1>9, TransitionStep
  <1>10. ASSUME NEW pc \in {"pending", "delay"}, Goto(w, pc), UNCHANGED effect
         PROVE  IInv'
    BY <1>1, <1>2, <1>3, <1>4, <1>10, AtFacts, SilentStep DEF Goto, Executing
  <1> QED
    BY <1>7, <1>8, <1>9, <1>10, Zenon DEF Poll, Output

LEMMA PendingInv ==
  ASSUME IInv, NEW w \in Worker, Pending(w)
  PROVE  IInv'
  <1>1. worker \in [Worker -> Process] /\ worker[w].pc = "pending" /\ {"retry", "exhausted"} \subseteq PC
    BY DEF Pending, IInv, TypeOK, PC, InHandler
  <1>2. UNCHANGED <<effect, run, job, recovered, creates, stops>>
    BY DEF Pending
  <1>3. PICK pc \in {"retry", "exhausted"} : Become(w, At(w, pc))
    BY Zenon DEF Pending, Goto
  <1> QED
    BY <1>1, <1>2, <1>3, AtFacts, SilentStep DEF Executing

LEMMA QuarantinePendingInv ==
  ASSUME IInv, NEW w \in Worker, QuarantinePending(w)
  PROVE  IInv'
  <1> DEFINE o == worker[w].ordinal
             p == Ending(w, "ambiguous", "provider")
  <1>1. /\ worker \in [Worker -> Process] /\ o \in Ordinal
        /\ effect \in [Ordinal -> Effect] /\ effect[o] \in Effect
        /\ creates \in [Ordinal -> Nat]
    BY DEF IInv, TypeOK, Process
  <1>2. /\ worker[w].pc = "exhausted" /\ effect[o].state \in {"submitted", "polling"}
        /\ o = 2 => Corrected
        /\ Receipts
    BY DEF QuarantinePending, IInv, ReceiptAt
  <1>3. UNCHANGED <<run, job, recovered, creates, stops>>
    BY DEF QuarantinePending
  <1>4. Become(w, p) /\ effect' = [effect EXCEPT ![o] = WrittenOff(effect[o])]
    BY <1>2 DEF QuarantinePending
  <1>5. /\ p \in Process /\ p.pc = "terminal" /\ p.ordinal = o
        /\ p.runRevision = worker[w].runRevision /\ p.verdict = "ambiguous" /\ p.cause = "provider"
    <2>1. "provider" \in Cause
      BY DEF Cause
    <2> QED
      BY <1>1, <2>1, EndingFacts
  <1>6. WrittenOff(effect[o]) \in Effect /\ WrittenOff(effect[o]).state = "ambiguous"
    BY <1>1 DEF WrittenOff, Rewritten, Effect, EffectState
  <1> HIDE DEF p
  <1>7. /\ worker'[w] = p
        /\ effect' \in [Ordinal -> Effect] /\ effect'[o].state = "ambiguous"
        /\ \A q \in Ordinal : q # o => effect'[q] = effect[q]
    BY <1>1, <1>4, <1>5, <1>6, BecomeFacts
  <1>8. Corrected => Corrected'
    BY <1>1, <1>2, <1>7 DEF Corrected, Ordinal
  <1>9. run.state = "running"
    BY <1>2 DEF IInv, RunIsCurrent, OwnsRun, Executing
  <1>10. Receipts'
    BY <1>1, <1>2, <1>3, <1>7, <1>8, <1>9 DEF Receipts, Corrected, Ordinal
  <1>11. ReceiptAt(w)'
    BY <1>2, <1>5, <1>7, <1>8 DEF ReceiptAt
  <1> QED
    BY <1>1, <1>2, <1>3, <1>4, <1>5, <1>7, <1>8, <1>10, <1>11, ExecutingStep DEF Executing

\* The run is ended by the worker that owns it.
LEMMA EndingStep ==
  ASSUME IInv, NEW w \in Worker, worker[w].pc \in {"terminal", "apply"},
         NEW state \in RunTerminal, NEW cause \in Cause \ {"job"},
         NEW pc \in {"giveUp", "complete"},
         run' = RunIn(state, cause), Goto(w, pc),
         UNCHANGED <<effect, job, recovered, creates, stops>>,
         state = "failed" /\ cause # "campaign" =>
            \A o \in Ordinal : effect[o].state \notin Unresolved
  PROVE  IInv'
  <1> DEFINE p == At(w, pc)
  <1>1. /\ worker \in [Worker -> Process] /\ run \in Run /\ recovered \in BOOLEAN
        /\ effect \in [Ordinal -> Effect] /\ creates \in [Ordinal -> Nat]
    BY DEF IInv, TypeOK
  <1>2. pc \in PC /\ worker[w].pc \in InHandler
    BY DEF PC, InHandler
  <1>3. p \in Process /\ p.pc = pc /\ p.ordinal = worker[w].ordinal /\ Become(w, p)
    BY <1>1, <1>2, AtFacts DEF Goto
  <1> HIDE DEF p
  <1>4. run' \in Run /\ run'.state = state /\ run'.cause = cause
    BY <1>1, RunInFacts
  <1>5. worker'[w] = p
    BY <1>1, <1>3, BecomeFacts
  <1>6. Receipts' /\ (Corrected => Corrected')
    BY <1>4 DEF IInv, Receipts, Corrected, RunTerminal
  <1>7. ReceiptAt(w)'
    <2>1. worker[w].ordinal = 2 => Corrected
      BY DEF IInv, ReceiptAt
    <2> QED
      BY <1>3, <1>5, <1>6, <2>1 DEF ReceiptAt
  <1>8. FailedMeansSettled' /\ PaidAnswerGetsSecondChance'
    BY <1>4 DEF FailedMeansSettled, PaidAnswerGetsSecondChance, Receipted
  <1> QED
    BY <1>1, <1>2, <1>3, <1>4, <1>6, <1>7, <1>8, HandlerStep DEF Executing

LEMMA TerminalizeInv ==
  ASSUME IInv, NEW w \in Worker, Terminalize(w)
  PROVE  IInv'
  <1>1. worker[w].pc = "terminal" /\ UNCHANGED <<effect, job, recovered, creates, stops>>
    BY DEF Terminalize
  <1>2. run' = RunIn(worker[w].verdict, worker[w].cause) /\ Goto(w, "giveUp")
    <2>1. OwnsRun(w)
      BY <1>1 DEF IInv, RunIsCurrent, Executing
    <2> QED
      BY <2>1 DEF Terminalize
  <1>3. worker[w].verdict \in RunTerminal /\ worker[w].cause \in Cause
    BY DEF IInv, TypeOK, Process, RunTerminal
  <1>4. worker[w].cause # "job"
    BY <1>1 DEF IInv, ReceiptAt
  <1>5. worker[w].verdict = "failed" /\ worker[w].cause # "campaign" =>
            \A o \in Ordinal : effect[o].state \notin Unresolved
    BY <1>1 DEF IInv, ReceiptAt
  <1> QED
    BY <1>1, <1>2, <1>3, <1>4, <1>5, EndingStep

LEMMA ApplyInv ==
  ASSUME IInv, NEW w \in Worker, Apply(w)
  PROVE  IInv'
  <1>1. /\ worker[w].pc = "apply" /\ UNCHANGED <<effect, job, recovered, creates, stops>>
        /\ worker \in [Worker -> Process]
    BY DEF Apply, IInv, TypeOK
  <1>2. OwnsRun(w)
    BY <1>1 DEF IInv, RunIsCurrent, Executing
  <1>3. ASSUME run' = RunIn("succeeded", "none"), Goto(w, "complete")
        PROVE  IInv'
    BY <1>1, <1>3, EndingStep DEF RunTerminal, Cause
  <1>4. ASSUME NEW cause \in {"campaign", "capacity"}, Become(w, Ending(w, "failed", cause)),
               UNCHANGED run
        PROVE  IInv'
    <2>1. cause \in Cause
      BY DEF Cause
    <2> QED
      BY <1>1, <1>4, <2>1, EndingFacts, SilentStep DEF Executing
  <1>5. ASSUME Goto(w, "retry"), UNCHANGED run
        PROVE  IInv'
    <2>1. "retry" \in PC
      BY DEF PC, InHandler
    <2> QED
      BY <1>1, <1>5, <2>1, AtFacts, SilentStep DEF Executing, Goto
  <1> QED
    BY <1>2, <1>3, <1>4, <1>5, Zenon DEF Apply

LEMMA BeginInv ==
  ASSUME IInv, NEW w \in Worker, Begin(w)
  PROVE  IInv'
  <1>1. /\ worker[w].pc = "begin" /\ UNCHANGED <<effect, job, recovered, creates, stops>>
        /\ worker[w].pc \in InHandler
    BY DEF Begin, InHandler
  <1>2. /\ worker \in [Worker -> Process] /\ run \in Run /\ recovered \in BOOLEAN
        /\ effect \in [Ordinal -> Effect] /\ creates \in [Ordinal -> Nat]
        /\ run.revision \in Nat /\ run.state \in {"queued", "running"} \cup RunTerminal
        /\ run.cause \in Cause
    BY DEF IInv, TypeOK, Run
  <1>3. worker[w].ordinal = 2 => Corrected
    BY DEF IInv, ReceiptAt
  <1>4. Corrected => Corrected'
    BY <1>1 DEF Corrected
  <1>5. ASSUME NEW pc \in {"complete", "giveUp"}, Goto(w, pc), UNCHANGED run
        PROVE  IInv'
    <2> DEFINE p == At(w, pc)
    <2>1. pc \in PC
      BY DEF PC, InHandler
    <2>2. p \in Process /\ p.pc = pc /\ p.ordinal = worker[w].ordinal /\ Become(w, p)
      BY <1>2, <1>5, <2>1, AtFacts DEF Goto
    <2> HIDE DEF p
    <2>3. worker'[w] = p
      BY <1>2, <2>2, BecomeFacts
    <2>4. Receipts' /\ FailedMeansSettled' /\ PaidAnswerGetsSecondChance'
      BY <1>1, <1>4, <1>5 DEF IInv, Receipts, FailedMeansSettled, PaidAnswerGetsSecondChance, Receipted
    <2>5. ReceiptAt(w)'
      BY <1>3, <1>4, <2>2, <2>3 DEF ReceiptAt
    <2> QED
      BY <1>1, <1>2, <1>4, <1>5, <2>2, <2>4, <2>5, HandlerStep DEF Executing
  <1>6. ASSUME run.state \in {"queued", "running"},
               run' = IF run.state = "queued" THEN RunIn("running", "none") ELSE run,
               NEW p \in Process, Become(w, p), p.runRevision = run'.revision,
               p.ordinal \in {worker[w].ordinal, 1},
               \/ p.pc = "load"
               \/ p.pc = "terminal" /\ p.cause = "campaign"
        PROVE  IInv'
    <2>1. run' \in Run /\ run'.state = "running"
      <3>1. CASE run.state = "queued"
        BY <1>2, <1>6, <3>1, RunInFacts DEF Cause
      <3>2. CASE run.state # "queued"
        BY <1>2, <1>6, <3>2
      <3> QED
        BY <3>1, <3>2
    <2>2. worker'[w] = p
      BY <1>2, <1>6, BecomeFacts
    <2>3. Receipts' /\ FailedMeansSettled' /\ PaidAnswerGetsSecondChance'
      BY <1>1, <1>4, <2>1 DEF IInv, Receipts, FailedMeansSettled, PaidAnswerGetsSecondChance
    <2>4. ReceiptAt(w)'
      BY <1>3, <1>4, <1>6, <2>2 DEF ReceiptAt
    <2> QED
      BY <1>1, <1>2, <1>4, <1>6, <2>1, <2>3, <2>4, HandlerStep
  <1>7. ASSUME run.state \in {"queued", "running"},
               run' = IF run.state = "queued" THEN RunIn("running", "none") ELSE run
        PROVE  run'.revision \in Nat
    BY <1>2, <1>7, RunInFacts DEF Cause, Run
  <1>8. ASSUME run.state \in {"queued", "running"},
               run' = IF run.state = "queued" THEN RunIn("running", "none") ELSE run,
               Become(w, [At(w, "load") EXCEPT !.ordinal = 1, !.runRevision = run'.revision])
        PROVE  IInv'
    <2> DEFINE p == [At(w, "load") EXCEPT !.ordinal = 1, !.runRevision = run'.revision]
    <2>1. "load" \in PC /\ run'.revision \in Nat /\ 1 \in Ordinal
      BY <1>7, <1>8 DEF PC, InHandler, Ordinal
    <2>2. At(w, "load") \in Process /\ At(w, "load").pc = "load"
          /\ At(w, "load").ordinal = worker[w].ordinal
      BY <1>2, <2>1, AtFacts
    <2>3. /\ p \in Process /\ p.pc = "load" /\ p.ordinal = 1
          /\ p.runRevision = run'.revision
      <3> HIDE DEF At
      <3> QED
        BY <2>1, <2>2, Zenon DEF Process
    <2>4. Become(w, p)
      BY <1>8
    <2> HIDE DEF p
    <2> QED
      BY <1>6, <1>8, <2>3, <2>4
  <1>9. ASSUME run.state \in {"queued", "running"},
               run' = IF run.state = "queued" THEN RunIn("running", "none") ELSE run,
               Become(w, [Ending(w, "failed", "campaign") EXCEPT !.runRevision = run'.revision])
        PROVE  IInv'
    <2> DEFINE e == Ending(w, "failed", "campaign")
               p == [e EXCEPT !.runRevision = run'.revision]
    <2>1. "campaign" \in Cause /\ run'.revision \in Nat
      BY <1>7, <1>9 DEF Cause
    <2>2. e \in Process /\ e.pc = "terminal" /\ e.cause = "campaign" /\ e.ordinal = worker[w].ordinal
      BY <1>2, <2>1, EndingFacts
    <2>3. Become(w, p)
      BY <1>9
    <2> HIDE DEF e
    <2>4. /\ p \in Process /\ p.pc = "terminal" /\ p.cause = "campaign"
          /\ p.ordinal = worker[w].ordinal /\ p.runRevision = run'.revision
      BY <2>1, <2>2, Zenon DEF Process
    <2> HIDE DEF p
    <2> QED
      BY <1>6, <1>9, <2>3, <2>4
  <1> QED
    BY <1>5, <1>8, <1>9, Zenon DEF Begin

-------------------------------------------------------------------------------
(***************************************************************************)
(* Steps of the job store and of the life of a process.                    *)
(***************************************************************************)
\* While no process is in the handler, only the records matter.
LEMMA RecordStep ==
  ASSUME IInv, TypeOK', Attempts', Receipts', FailedMeansSettled', PaidAnswerGetsSecondChance',
         Corrected => Corrected',
         \A v \in Worker : worker'[v].ordinal = 2 => Corrected,
         \A v \in Worker : \/ worker'[v].pc \notin InHandler
                           \/ worker'[v].pc = "begin" /\ Holds(v)'
  PROVE  IInv'
  <1>1. Exclusive'
    BY DEF Exclusive
  <1>2. RunIsCurrent'
    BY DEF RunIsCurrent, Executing, InHandler
  <1>3. ASSUME NEW v \in Worker PROVE ReceiptAt(v)'
    BY <1>3 DEF ReceiptAt, InHandler
  <1> QED
    BY <1>1, <1>2, <1>3 DEF IInv

LEMMA NobodyWithoutLease ==
  ASSUME IInv, ~Leased
  PROVE  \A v \in Worker : worker[v].pc \notin InHandler
  BY DEF IInv, Exclusive, Holds

LEMMA OrdinalFacts ==
  ASSUME IInv
  PROVE  \A v \in Worker : worker[v].ordinal = 2 => Corrected
  BY DEF IInv, ReceiptAt

LEMMA DownFacts == Down \in Process /\ Down.pc = "down" /\ Down.ordinal = 1
  BY AttemptsAssumption DEF Down, Process, PC, Ordinal, Cause

\* A process moves and nothing else changes.
LEMMA MoveStep ==
  ASSUME IInv, NEW w \in Worker, NEW p \in Process, Become(w, p),
         UNCHANGED <<effect, run, job, recovered, creates>>, stops' \in Nat,
         \/ p.pc \notin InHandler /\ p.ordinal \in {1, worker[w].ordinal}
         \/ /\ p.pc = worker[w].pc /\ p.ordinal = worker[w].ordinal
            /\ p.revision = worker[w].revision /\ p.runRevision = worker[w].runRevision
            /\ p.verdict = worker[w].verdict /\ p.cause = worker[w].cause
  PROVE  IInv'
  <1>1. /\ worker' \in [Worker -> Process] /\ worker'[w] = p
        /\ \A v \in Worker : v # w => worker'[v] = worker[v]
    BY BecomeFacts DEF IInv, TypeOK
  <1>2. TypeOK'
    BY <1>1 DEF IInv, TypeOK
  <1>3. Attempts' /\ Receipts' /\ FailedMeansSettled' /\ PaidAnswerGetsSecondChance'
    BY DEF IInv, Attempts, Receipts, Corrected, FailedMeansSettled,
           PaidAnswerGetsSecondChance, Receipted
  <1>4. Exclusive'
    BY <1>1 DEF IInv, Exclusive, Holds, Leased
  <1>5. RunIsCurrent'
    BY <1>1 DEF IInv, RunIsCurrent, OwnsRun, Executing, InHandler
  <1>6. ASSUME NEW v \in Worker PROVE ReceiptAt(v)'
    <2>1. ReceiptAt(v)
      BY DEF IInv
    <2>2. CASE worker'[v].pc \notin InHandler
      BY <1>1, <2>1, <2>2 DEF ReceiptAt, InHandler, Corrected
    <2>3. CASE worker'[v].pc \in InHandler
      BY <1>1, <2>1, <2>3 DEF ReceiptAt, Corrected
    <2> QED
      BY <2>2, <2>3
  <1> QED
    BY <1>2, <1>3, <1>4, <1>5, <1>6 DEF IInv

LEMMA LifeInv ==
  ASSUME IInv, NEW w \in Worker, Stop(w) \/ Exit(w) \/ Crash(w)
  PROVE  IInv'
  <1>1. /\ worker \in [Worker -> Process] /\ worker[w] \in Process /\ worker[w].pc \in PC
        /\ stops \in Nat
    BY DEF IInv, TypeOK, Process
  <1>2. CASE Stop(w)
    <2> DEFINE p == [At(w, worker[w].pc) EXCEPT !.stopping = TRUE]
    <2>1. /\ p \in Process /\ p.pc = worker[w].pc /\ p.ordinal = worker[w].ordinal
          /\ p.revision = worker[w].revision /\ p.runRevision = worker[w].runRevision
          /\ p.verdict = worker[w].verdict /\ p.cause = worker[w].cause
      BY <1>1, AtFacts, MarkedFacts
    <2>2. /\ Become(w, p) /\ stops' \in Nat
          /\ UNCHANGED <<effect, run, job, recovered, creates>>
      BY <1>1, <1>2 DEF Stop
    <2> HIDE DEF p
    <2> QED
      BY <2>1, <2>2, MoveStep
  <1>3. CASE Exit(w) \/ Crash(w)
    <2>1. /\ Become(w, Down) /\ stops' \in Nat
          /\ UNCHANGED <<effect, run, job, recovered, creates>>
      BY <1>1, <1>3 DEF Exit, Crash
    <2> QED
      BY <2>1, DownFacts, MoveStep DEF InHandler
  <1> QED
    BY <1>2, <1>3

LEMMA ClaimInv ==
  ASSUME IInv, NEW w \in Worker, Claim(w)
  PROVE  IInv'
  <1> DEFINE p == [At(w, "begin") EXCEPT !.attempt = job.attempts + 1]
  <1>1. /\ worker \in [Worker -> Process] /\ job.attempts + 1 \in 0..MaxAttempts
        /\ job.attempts \in Nat /\ "begin" \in PC
    BY AttemptsAssumption DEF IInv, TypeOK, Attempts, Claim, Job, PC, InHandler
  <1>2. p \in Process /\ p.pc = "begin" /\ p.ordinal = worker[w].ordinal
    BY <1>1, AtFacts, MarkedFacts
  <1>3. /\ Become(w, p) /\ job' = Claimed(job.attempts + 1, w, "live")
        /\ UNCHANGED <<effect, run, recovered, creates, stops>>
    BY DEF Claim
  <1> HIDE DEF p
  <1>4. /\ worker' \in [Worker -> Process] /\ worker'[w] = p
        /\ \A v \in Worker : v # w => worker'[v] = worker[v]
    BY <1>1, <1>2, <1>3, BecomeFacts
  <1>5. job' \in Job /\ Attempts' /\ Holds(w)'
    BY <1>1, <1>3 DEF Claimed, Job, Attempts, Holds, Leased
  <1>6. TypeOK'
    BY <1>3, <1>4, <1>5 DEF IInv, TypeOK
  <1>7. \A v \in Worker : worker[v].pc \notin InHandler
    BY NobodyWithoutLease DEF Claim, Leased
  <1>8. /\ Receipts' /\ FailedMeansSettled' /\ PaidAnswerGetsSecondChance'
        /\ Corrected => Corrected'
    BY <1>3 DEF IInv, Receipts, Corrected, FailedMeansSettled, PaidAnswerGetsSecondChance, Receipted
  <1> QED
    BY <1>2, <1>4, <1>5, <1>6, <1>7, <1>8, OrdinalFacts, RecordStep

\* The store changes the job of a run nobody executes.
LEMMA JobStep ==
  ASSUME IInv, NEW w \in Worker, NEW pc \in {"maintain", "idle"}, Goto(w, pc),
         \A v \in Worker : v # w => worker[v].pc \notin InHandler,
         job' \in Job, Attempts',
         UNCHANGED <<effect, run, recovered, creates, stops>>
  PROVE  IInv'
  <1> DEFINE p == At(w, pc)
  <1>1. pc \in PC /\ pc \notin InHandler /\ worker \in [Worker -> Process]
    BY DEF PC, InHandler, IInv, TypeOK
  <1>2. p \in Process /\ p.pc = pc /\ p.ordinal = worker[w].ordinal /\ Become(w, p)
    BY <1>1, AtFacts DEF Goto
  <1> HIDE DEF p
  <1>3. /\ worker' \in [Worker -> Process] /\ worker'[w] = p
        /\ \A v \in Worker : v # w => worker'[v] = worker[v]
    BY <1>1, <1>2, BecomeFacts
  <1>4. TypeOK'
    BY <1>3 DEF IInv, TypeOK
  <1>5. /\ Receipts' /\ FailedMeansSettled' /\ PaidAnswerGetsSecondChance'
        /\ Corrected => Corrected'
    BY DEF IInv, Receipts, Corrected, FailedMeansSettled, PaidAnswerGetsSecondChance, Receipted
  <1> QED
    BY <1>1, <1>2, <1>3, <1>4, <1>5, OrdinalFacts, RecordStep

LEMMA ReleaseInv ==
  ASSUME IInv, NEW w \in Worker, Release(w)
  PROVE  IInv'
  <1>1. /\ worker[w].pc \in {"complete", "retry", "delay", "giveUp"}
        /\ Goto(w, "maintain")
        /\ UNCHANGED <<effect, run, recovered, creates, stops>>
    BY DEF Release
  <1>2. Holds(w) /\ job \in Job /\ job.attempts > 0
    BY <1>1 DEF IInv, TypeOK, Exclusive, InHandler, Attempts, Holds, Leased
  <1>3. job' = Settled(worker[w].pc)
    BY <1>2 DEF Release
  <1>4. job' \in Job /\ Attempts'
    BY <1>1, <1>2, <1>3, AttemptsAssumption DEF Settled, Freed, Job, Attempts
  <1>5. \A v \in Worker : v # w => worker[v].pc \notin InHandler
    BY <1>1, OthersAreIdle DEF IInv, InHandler
  <1> QED
    BY <1>1, <1>4, <1>5, JobStep

LEMMA RecoverExpiredInv ==
  ASSUME IInv, NEW w \in Worker, RecoverExpired(w)
  PROVE  IInv'
  <1>1. PICK pc \in {"maintain", "idle"} : Goto(w, pc)
    BY DEF RecoverExpired
  <1>2. UNCHANGED <<effect, run, recovered, creates, stops>> /\ job \in Job
    BY DEF RecoverExpired, IInv, TypeOK
  <1>3. CASE job.lease = "expired"
    <2>1. \A v \in Worker : worker[v].pc \notin InHandler
      BY <1>3, NobodyWithoutLease DEF Leased
    <2>2. job' = Freed(IF job.attempts < MaxAttempts THEN "queued" ELSE "failed", job.attempts)
      BY <1>3 DEF RecoverExpired
    <2>3. job' \in Job /\ Attempts'
      BY <1>2, <2>2 DEF Freed, Job, Attempts
    <2> QED
      BY <1>1, <1>2, <2>1, <2>3, JobStep
  <1>4. CASE job.lease # "expired"
    <2>1. worker \in [Worker -> Process] /\ pc \in PC /\ pc \notin InHandler /\ stops \in Nat
      BY DEF PC, InHandler, IInv, TypeOK
    <2>2. UNCHANGED job
      BY <1>4 DEF RecoverExpired
    <2> QED
      BY <1>1, <1>2, <2>1, <2>2, AtFacts, MoveStep DEF Goto
  <1> QED
    BY <1>3, <1>4

LEMMA LeaseExpiresInv ==
  ASSUME IInv, LeaseExpires
  PROVE  IInv'
  <1>1. \A v \in Worker : worker[v].pc \notin InHandler
    BY DEF IInv, Exclusive, Holds, LeaseExpires
  <1>2. /\ job' = Claimed(job.attempts, job.holder, "expired")
        /\ UNCHANGED <<effect, run, recovered, worker, creates, stops>>
    BY DEF LeaseExpires
  <1>3. job' \in Job /\ Attempts'
    BY <1>2 DEF LeaseExpires, IInv, TypeOK, Leased, Claimed, Job, Attempts
  <1>4. TypeOK'
    BY <1>2, <1>3 DEF IInv, TypeOK
  <1>5. /\ Receipts' /\ FailedMeansSettled' /\ PaidAnswerGetsSecondChance'
        /\ Corrected => Corrected'
    BY <1>2 DEF IInv, Receipts, Corrected, FailedMeansSettled, PaidAnswerGetsSecondChance, Receipted
  <1> QED
    BY <1>1, <1>2, <1>3, <1>4, <1>5, OrdinalFacts, RecordStep

\* Writing receipts off resolves them and touches no answer.
LEMMA WriteOffFacts ==
  ASSUME IInv, NEW S \in SUBSET Unresolved,
         effect' = [o \in Ordinal |-> IF effect[o].state \in S THEN WrittenOff(effect[o])
                                      ELSE effect[o]]
  PROVE  /\ effect' \in [Ordinal -> Effect]
         /\ \A o \in Ordinal : effect[o].state \notin S => effect'[o] = effect[o]
         /\ \A o \in Ordinal : effect[o].state \in S => effect'[o].state = "ambiguous"
         /\ Corrected => Corrected'
         /\ effect'[2].state # "absent" => Corrected'
         /\ Receipted' => Receipted
  <1>1. effect \in [Ordinal -> Effect]
    BY DEF IInv, TypeOK
  <1>2. ASSUME NEW o \in Ordinal
        PROVE  WrittenOff(effect[o]) \in Effect /\ WrittenOff(effect[o]).state = "ambiguous"
    BY <1>1, <1>2 DEF WrittenOff, Rewritten, Effect, EffectState
  <1>3. /\ effect' \in [Ordinal -> Effect]
        /\ \A o \in Ordinal : effect[o].state \notin S => effect'[o] = effect[o]
        /\ \A o \in Ordinal : effect[o].state \in S => effect'[o].state = "ambiguous"
    BY <1>1, <1>2
  <1>4. Corrected => Corrected'
    BY <1>3 DEF Corrected, Unresolved, Ordinal
  <1>5. effect[2].state # "absent" => Corrected
    BY DEF IInv, Receipts
  <1>6. effect'[2].state # "absent" => Corrected'
    BY <1>3, <1>4, <1>5 DEF Ordinal, Unresolved
  <1>7. Receipted' => Receipted
    BY <1>3 DEF Receipted
  <1> QED
    BY <1>3, <1>4, <1>6, <1>7

LEMMA BootInv ==
  ASSUME IInv, NEW w \in Worker, Boot(w)
  PROVE  IInv'
  <1>1. /\ worker[w].pc = "down" /\ Goto(w, "recover")
        /\ UNCHANGED <<run, job, recovered, creates, stops>>
        /\ worker \in [Worker -> Process] /\ "recover" \in PC /\ "recover" \notin InHandler
        /\ stops \in Nat /\ effect \in [Ordinal -> Effect]
    BY DEF Boot, IInv, TypeOK, PC, InHandler
  <1> DEFINE p == At(w, "recover")
  <1>2. p \in Process /\ p.pc = "recover" /\ p.ordinal = worker[w].ordinal /\ Become(w, p)
    BY <1>1, AtFacts DEF Goto
  <1> HIDE DEF p
  <1>3. CASE Leased
    <2>1. effect' = effect
      BY <1>1, <1>3 DEF Boot
    <2> QED
      BY <1>1, <1>2, <2>1, MoveStep
  <1>4. CASE ~Leased
    <2>1. effect' = [o \in Ordinal |-> IF effect[o].state \in {"creating"}
                                       THEN WrittenOff(effect[o]) ELSE effect[o]]
      BY <1>4 DEF Boot
    <2>2. {"creating"} \in SUBSET Unresolved
      BY DEF Unresolved
    <2>3. /\ effect' \in [Ordinal -> Effect]
          /\ \A o \in Ordinal : effect[o].state # "creating" => effect'[o] = effect[o]
          /\ \A o \in Ordinal : effect[o].state = "creating" => effect'[o].state = "ambiguous"
          /\ Corrected => Corrected'
          /\ effect'[2].state # "absent" => Corrected'
          /\ Receipted' => Receipted
      BY <2>1, <2>2, WriteOffFacts
    <2>4. /\ worker' \in [Worker -> Process] /\ worker'[w] = p
          /\ \A v \in Worker : v # w => worker'[v] = worker[v]
      BY <1>1, <1>2, BecomeFacts
    <2>5. TypeOK' /\ Attempts'
      BY <1>1, <2>3, <2>4 DEF IInv, TypeOK, Attempts
    <2>6. Receipts'
      BY <1>1, <2>3 DEF IInv, Receipts
    <2>7. FailedMeansSettled' /\ PaidAnswerGetsSecondChance'
      BY <1>1, <2>3 DEF IInv, FailedMeansSettled, PaidAnswerGetsSecondChance, Unresolved
    <2>8. \A v \in Worker : worker[v].pc \notin InHandler
      BY <1>4, NobodyWithoutLease
    <2> QED
      BY <1>1, <1>2, <2>3, <2>4, <2>5, <2>6, <2>7, <2>8, OrdinalFacts, RecordStep
  <1> QED
    BY <1>3, <1>4

LEMMA MaintainInv ==
  ASSUME IInv, NEW w \in Worker, Maintain(w)
  PROVE  IInv'
  <1>1. /\ UNCHANGED <<creates, stops>> /\ stops \in Nat
        /\ worker \in [Worker -> Process] /\ run \in Run /\ job \in Job
        /\ effect \in [Ordinal -> Effect] /\ creates \in [Ordinal -> Nat]
        /\ "idle" \in PC /\ "idle" \notin InHandler
    BY DEF Maintain, IInv, TypeOK, PC, InHandler
  <1> DEFINE p == At(w, "idle")
  <1>2. p \in Process /\ p.pc = "idle" /\ p.ordinal = worker[w].ordinal
    BY <1>1, AtFacts
  <1>3. Become(w, p) \/ UNCHANGED worker
    BY DEF Maintain, Goto
  <1> HIDE DEF p
  <1>4. CASE ~Orphaned
    <2>1. Become(w, p) /\ UNCHANGED <<effect, run, job, recovered>>
      BY <1>4 DEF Maintain, Resume, CloseOrphan, Goto, p
    <2> QED
      BY <1>1, <1>2, <2>1, MoveStep
  <1>5. CASE Orphaned
    <2>1. \A v \in Worker : worker[v].pc \notin InHandler
      BY <1>5, NobodyWithoutLease DEF Orphaned, Leased
    <2>2. /\ worker' \in [Worker -> Process]
          /\ \A v \in Worker : worker'[v].ordinal = worker[v].ordinal
          /\ \A v \in Worker : worker'[v].pc \notin InHandler
      <3>1. CASE Become(w, p)
        <4>1. /\ worker' \in [Worker -> Process] /\ worker'[w] = p
              /\ \A v \in Worker : v # w => worker'[v] = worker[v]
          BY <1>1, <1>2, <3>1, BecomeFacts
        <4> QED
          BY <1>1, <1>2, <2>1, <4>1
      <3>2. CASE UNCHANGED worker
        BY <1>1, <2>1, <3>2
      <3> QED
        BY <1>3, <3>1, <3>2
    <2>3. CASE Resume
      <3>1. /\ run' = RunIn("running", run.cause) /\ job' = Freed("queued", 0)
            /\ recovered' = TRUE /\ effect' = effect
        BY <2>3 DEF Resume
      <3>2. run' \in Run /\ run'.state = "running"
        BY <1>1, <3>1, RunInFacts DEF Run
      <3>3. job' \in Job /\ Attempts'
        BY <3>1, AttemptsAssumption DEF Freed, Job, Attempts
      <3>4. TypeOK'
        BY <1>1, <2>2, <3>1, <3>2, <3>3 DEF IInv, TypeOK
      <3>5. /\ Receipts' /\ FailedMeansSettled' /\ PaidAnswerGetsSecondChance'
            /\ Corrected => Corrected'
        BY <1>1, <3>1, <3>2 DEF IInv, Receipts, Corrected, FailedMeansSettled,
                                PaidAnswerGetsSecondChance
      <3> QED
        BY <2>2, <3>3, <3>4, <3>5, OrdinalFacts, RecordStep
    <2>4. CASE CloseOrphan
      <3>1. UNCHANGED <<job, recovered>>
        BY <2>4 DEF CloseOrphan
      <3>2. /\ effect' \in [Ordinal -> Effect]
            /\ \A o \in Ordinal : effect[o].state \notin Unresolved => effect'[o] = effect[o]
            /\ \A o \in Ordinal : effect[o].state \in Unresolved => effect'[o].state = "ambiguous"
            /\ Corrected => Corrected'
            /\ effect'[2].state # "absent" => Corrected'
            /\ Receipted' => Receipted
        <4>1. effect' = [o \in Ordinal |-> IF effect[o].state \in Unresolved
                                           THEN WrittenOff(effect[o]) ELSE effect[o]]
          BY <2>4 DEF CloseOrphan
        <4> QED
          BY <4>1, WriteOffFacts
      <3>3. /\ Uncertain => run' = RunIn("ambiguous", "job")
            /\ ~Uncertain => run' = RunIn("failed", "job")
            /\ ~Resumable
        BY <2>4 DEF CloseOrphan
      <3>4. /\ run' \in Run /\ run'.state \in {"failed", "ambiguous"}
            /\ run'.state = "failed" => ~Uncertain
        BY <1>1, <3>3, RunInFacts DEF RunTerminal, Cause
      <3>5. TypeOK' /\ Attempts'
        BY <1>1, <2>2, <3>1, <3>2, <3>4 DEF IInv, TypeOK, Attempts
      <3>6. Receipts'
        BY <1>1, <3>2, <3>4 DEF IInv, Receipts, Unresolved
      <3>7. FailedMeansSettled'
        BY <3>2, <3>4 DEF FailedMeansSettled, Uncertain, Unresolved
      <3>8. PaidAnswerGetsSecondChance'
        <4>1. Receipted => run.state # "queued"
          BY DEF IInv, Receipts, Receipted
        <4> QED
          BY <1>5, <3>1, <3>2, <3>3, <3>4, <4>1
          DEF PaidAnswerGetsSecondChance, Resumable, Orphaned
      <3> QED
        BY <2>2, <3>2, <3>5, <3>6, <3>7, <3>8, OrdinalFacts, RecordStep
    <2> QED
      BY <1>5, <2>3, <2>4 DEF Maintain
  <1> QED
    BY <1>4, <1>5
-------------------------------------------------------------------------------
(***************************************************************************)
(* The invariant, and what follows from it.                                *)
(***************************************************************************)
LEMMA StepInv ==
  ASSUME IInv, [Next]_vars
  PROVE  IInv'
  <1>1. CASE LeaseExpires
    BY <1>1, LeaseExpiresInv
  <1>2. ASSUME NEW w \in Worker, Handle(w)
        PROVE  IInv'
    BY <1>2, BeginInv, LoadInv, QuarantineInv, FenceInv, PostInv, AnswerInv, PollInv,
       PendingInv, QuarantinePendingInv, TerminalizeInv, ApplyInv, ReleaseInv
    DEF Handle
  <1>3. ASSUME NEW w \in Worker, Work(w) \/ Stop(w) \/ Crash(w)
        PROVE  IInv'
    BY <1>2, <1>3, ClaimInv, RecoverExpiredInv, MaintainInv, BootInv, LifeInv DEF Work
  <1>4. CASE UNCHANGED vars
    BY <1>4 DEF vars, IInv, TypeOK, Attempts, Exclusive, Holds, Leased, RunIsCurrent, OwnsRun,
                Receipts, Corrected, ReceiptAt, FailedMeansSettled,
                PaidAnswerGetsSecondChance, Receipted
  <1> QED
    BY <1>1, <1>3, <1>4 DEF Next

\* Along every behaviour the variables have their types, and the invariant holds.
LEMMA Invariance == Spec => []IInv
  <1>1. Init => IInv
    BY InitInv
  <1>2. IInv /\ [Next]_vars => IInv'
    BY StepInv
  <1> QED
    BY <1>1, <1>2, PTL DEF Spec

\* Every variable keeps its type: a job never has more attempts than it may.
THEOREM TypeCorrect == Spec => []TypeOK
  <1>1. IInv => TypeOK
    BY DEF IInv
  <1> QED
    BY <1>1, Invariance, PTL

\* However many workers there are, and however often they crash, no request
\* is sent to the provider twice.
THEOREM NeverChargedTwice == Spec => []AtMostOneCreate
  <1>1. IInv => AtMostOneCreate
    BY DEF IInv, Receipts, AtMostOneCreate
  <1> QED
    BY <1>1, Invariance, PTL

\* A run reported as failed has no request outstanding (unless the campaign
\* changed between two attempts).
THEOREM FailureIsSettled == Spec => []FailedMeansSettled
  <1>1. IInv => FailedMeansSettled
    BY DEF IInv
  <1> QED
    BY <1>1, Invariance, PTL

\* A paid answer is not given up before the run has been recovered once.
THEOREM SecondChance == Spec => []PaidAnswerGetsSecondChance
  <1>1. IInv => PaidAnswerGetsSecondChance
    BY DEF IInv
  <1> QED
    BY <1>1, Invariance, PTL
-------------------------------------------------------------------------------
(***************************************************************************)
(* ProviderEffects implements PaidCreate.                                  *)
(***************************************************************************)
LEMMA Stutters ==
  ASSUME UNCHANGED creates, StageOf(run.state)' = StageOf(run.state),
         \A o \in Ordinal : OutcomeOf(effect'[o].state) = OutcomeOf(effect[o].state)
  PROVE  UNCHANGED Paid!vars
  <1>1. Outcomes' = Outcomes
    BY DEF Outcomes
  <1> QED
    BY <1>1 DEF Stage, Paid!vars

LEMMA Records ==
  ASSUME UNCHANGED <<creates, run>>, NEW o \in Ordinal,
         \A q \in Ordinal : q # o => effect'[q] = effect[q],
         OutcomeOf(effect[o].state) = "open",
         OutcomeOf(effect'[o].state) \in {"answered", "refused"} => creates[o] = 1
  PROVE  [Paid!Next]_(Paid!vars)
  <1> DEFINE v == OutcomeOf(effect'[o].state)
  <1>1. Stage' = Stage
    BY DEF Stage
  <1>2. CASE v = "open"
    BY <1>2, Stutters
  <1>3. CASE v # "open"
    <2>1. v \in Paid!Verdict
      BY <1>3 DEF OutcomeOf, Paid!Verdict
    <2>2. Outcomes[o] = "open" /\ Outcomes' = [Outcomes EXCEPT ![o] = v]
      BY DEF Outcomes
    <2> HIDE DEF v
    <2>3. Paid!Record(o, v)
      BY <1>1, <2>1, <2>2 DEF Paid!Record, v
    <2> QED
      BY <2>1, <2>3 DEF Paid!Next, Paid!Ordinal, Ordinal
  <1> QED
    BY <1>2, <1>3

LEMMA TransitionRecords ==
  ASSUME IInv, NEW w \in Worker, worker[w].pc \in {"quarantine", "prepared", "posted", "poll"},
         NEW state \in EffectState, NEW id \in Nat, NEW output \in {"none", "valid", "invalid"},
         NEW after \in Process, Transition(w, state, id, output, after),
         UNCHANGED <<creates, run>>,
         OutcomeOf(state) \in {"answered", "refused"} => creates[worker[w].ordinal] = 1
  PROVE  [Paid!Next]_(Paid!vars)
  <1>1. worker[w].ordinal \in Ordinal
    BY DEF IInv, TypeOK, Process
  <1>2. /\ \A o \in Ordinal : o # worker[w].ordinal => effect'[o] = effect[o]
        /\ effect'[worker[w].ordinal].state = state
    BY TransitionFacts
  <1>3. OutcomeOf(effect[worker[w].ordinal].state) = "open"
    BY DEF IInv, ReceiptAt, OutcomeOf
  <1> QED
    BY <1>1, <1>2, <1>3, Records

LEMMA PostSends ==
  ASSUME IInv, NEW w \in Worker, Post(w)
  PROVE  Paid!Next
  <1> DEFINE o == worker[w].ordinal
  <1>1. /\ o \in Ordinal /\ creates \in [Ordinal -> Nat]
        /\ worker[w].pc = "fenced" /\ effect[o].state = "creating" /\ creates[o] = 0
        /\ o = 2 => Corrected
        /\ run.state = "running"
    BY DEF Post, IInv, TypeOK, Process, ReceiptAt, RunIsCurrent, OwnsRun, Executing
  <1>2. UNCHANGED <<effect, run>> /\ creates' = [creates EXCEPT ![o] = 1]
    BY <1>1 DEF Post
  <1>3. Stage = "open" /\ Outcomes[o] = "open" /\ UNCHANGED <<Stage, Outcomes>>
    BY <1>1, <1>2 DEF Stage, StageOf, Outcomes, OutcomeOf
  <1>4. o = 2 => Outcomes[1] = "answered"
    BY <1>1 DEF Corrected, Outcomes, OutcomeOf, Ordinal
  <1> HIDE DEF o
  <1>5. Paid!Send(o)
    BY <1>1, <1>2, <1>3, <1>4 DEF Paid!Send
  <1> QED
    BY <1>1, <1>5 DEF Paid!Next, Paid!Ordinal, Ordinal

\* An open stage given up, with the requests in S written off.
LEMMA Abandons ==
  ASSUME IInv, UNCHANGED creates, run.state \in {"queued", "running"},
         run'.state \in {"failed", "ambiguous"},
         \A o \in Ordinal : \/ effect'[o] = effect[o]
                            \/ /\ OutcomeOf(effect[o].state) = "open"
                               /\ effect'[o].state = "ambiguous"
  PROVE  Paid!Next
  <1> DEFINE S == {o \in Ordinal : OutcomeOf(effect[o].state) # OutcomeOf(effect'[o].state)}
  <1>1. Stage = "open" /\ Stage' = "abandoned"
    BY DEF Stage, StageOf
  <1>2. \A o \in S : Outcomes[o] = "open"
    BY DEF Outcomes
  <1>3. Outcomes' = [o \in Ordinal |-> IF o \in S THEN "unknown" ELSE Outcomes[o]]
    <2>1. ASSUME NEW o \in Ordinal
          PROVE  OutcomeOf(effect'[o].state) = IF o \in S THEN "unknown"
                                               ELSE OutcomeOf(effect[o].state)
      BY <2>1 DEF OutcomeOf
    <2> HIDE DEF S
    <2> QED
      BY <2>1 DEF Outcomes
  <1>4. S \in SUBSET Ordinal
    OBVIOUS
  <1> HIDE DEF S
  <1>5. Paid!Abandon(S)
    BY <1>1, <1>2, <1>3 DEF Paid!Abandon, Paid!Ordinal, Ordinal
  <1> QED
    BY <1>4, <1>5 DEF Paid!Next, Paid!Ordinal, Ordinal

LEMMA LoadMaps ==
  ASSUME IInv, NEW w \in Worker, Load(w)
  PROVE  UNCHANGED Paid!vars
  <1>1. UNCHANGED <<run, creates>> /\ effect \in [Ordinal -> Effect] /\ worker[w].ordinal \in Ordinal
    BY DEF Load, IInv, TypeOK, Process
  <1>2. CASE UNCHANGED effect
    BY <1>1, <1>2, Stutters
  <1>3. CASE /\ effect[worker[w].ordinal].state = "absent"
             /\ effect' = [effect EXCEPT ![worker[w].ordinal] =
                                Rewritten(NoEffect, "prepared", 0, "none")]
    <2>1. \A o \in Ordinal : OutcomeOf(effect'[o].state) = OutcomeOf(effect[o].state)
      BY <1>1, <1>3 DEF Rewritten, OutcomeOf
    <2> QED
      BY <1>1, <2>1, Stutters
  <1> QED
    BY <1>2, <1>3, Zenon DEF Load

LEMMA AnswerMaps ==
  ASSUME IInv, NEW w \in Worker, Answer(w)
  PROVE  [Paid!Next]_(Paid!vars)
  <1>1. /\ worker \in [Worker -> Process] /\ Current(w).responseId \in Nat
        /\ worker[w].sent \in Nat /\ UNCHANGED <<creates, run>>
    BY DEF IInv, TypeOK, Process, Current, Effect, Answer
  <1>2. worker[w].pc = "posted" /\ creates[worker[w].ordinal] = 1
    BY DEF Answer, IInv, ReceiptAt
  <1>3. /\ {"submitted", "rejected", "ambiguous"} \subseteq EffectState
        /\ "provider" \in Cause /\ "poll" \in PC
    BY DEF EffectState, Cause, PC, InHandler
  <1>4. /\ At(w, "poll") \in Process
        /\ Ending(w, "failed", "provider") \in Process
        /\ Ending(w, "ambiguous", "provider") \in Process
    BY <1>1, <1>3, AtFacts, EndingFacts
  <1>5. PICK state \in {"submitted", "rejected", "ambiguous"}, id \in Nat, after \in Process :
            Transition(w, state, id, "none", after)
    BY <1>1, <1>4, Zenon DEF Answer, Unanswered
  <1> QED
    BY <1>1, <1>2, <1>3, <1>5, TransitionRecords

LEMMA PollMaps ==
  ASSUME IInv, NEW w \in Worker, Poll(w)
  PROVE  [Paid!Next]_(Paid!vars)
  <1>1. /\ worker \in [Worker -> Process] /\ Current(w).responseId \in Nat
        /\ UNCHANGED <<creates, run>>
    BY DEF IInv, TypeOK, Process, Current, Effect, Poll
  <1>2. worker[w].pc = "poll" /\ creates[worker[w].ordinal] = 1
    <2>1. worker[w].pc = "poll" /\ worker[w].ordinal \in Ordinal
      BY DEF Poll, IInv, TypeOK, Process
    <2> QED
      BY <2>1 DEF IInv, ReceiptAt, Receipts
  <1>3. /\ {"succeeded", "rejected", "polling"} \subseteq EffectState
        /\ "provider" \in Cause /\ "poll" \in PC
    BY DEF EffectState, Cause, PC, InHandler
  <1>4. /\ At(w, "poll") \in Process
        /\ Ending(w, "failed", "provider") \in Process
        /\ \A output \in {"valid", "invalid"} : Judged(w, output) \in Process
    BY <1>1, <1>3, AtFacts, EndingFacts, JudgedFacts
  <1>5. CASE UNCHANGED effect
    BY <1>1, <1>5, Stutters
  <1>6. CASE \E state \in {"succeeded", "rejected", "polling"},
                output \in {"none", "valid", "invalid"}, after \in Process :
                    Transition(w, state, Current(w).responseId, output, after)
    BY <1>1, <1>2, <1>3, <1>6, TransitionRecords
  <1> QED
    BY <1>4, <1>5, <1>6, Zenon DEF Poll, Output

LEMMA QuarantineMaps ==
  ASSUME IInv, NEW w \in Worker, Quarantine(w) \/ Fence(w)
  PROVE  [Paid!Next]_(Paid!vars)
  <1>1. /\ worker \in [Worker -> Process] /\ Current(w).responseId \in Nat
        /\ UNCHANGED <<creates, run>>
        /\ worker[w].pc \in {"quarantine", "prepared"}
    BY DEF IInv, TypeOK, Process, Current, Effect, Quarantine, Fence
  <1>2. /\ {"creating", "ambiguous"} \subseteq EffectState
        /\ "provider" \in Cause /\ "fenced" \in PC
    BY DEF EffectState, Cause, PC, InHandler
  <1>3. At(w, "fenced") \in Process /\ Ending(w, "ambiguous", "provider") \in Process
    BY <1>1, <1>2, AtFacts, EndingFacts
  <1>4. PICK state \in {"creating", "ambiguous"}, after \in Process :
            Transition(w, state, Current(w).responseId, "none", after)
    BY <1>3, Zenon DEF Quarantine, Fence
  <1>5. OutcomeOf(state) \notin {"answered", "refused"}
    BY <1>4 DEF OutcomeOf
  <1> QED
    BY <1>1, <1>2, <1>4, <1>5, TransitionRecords

LEMMA QuarantinePendingMaps ==
  ASSUME IInv, NEW w \in Worker, QuarantinePending(w)
  PROVE  [Paid!Next]_(Paid!vars)
  <1> DEFINE o == worker[w].ordinal
  <1>1. /\ UNCHANGED <<creates, run>> /\ o \in Ordinal /\ effect \in [Ordinal -> Effect]
        /\ effect[o].state \in {"submitted", "polling"}
    BY DEF QuarantinePending, IInv, TypeOK, Process, ReceiptAt
  <1>2. effect' = [effect EXCEPT ![o] = WrittenOff(effect[o])]
    BY <1>1 DEF QuarantinePending
  <1>3. effect'[o].state = "ambiguous" /\ \A q \in Ordinal : q # o => effect'[q] = effect[q]
    BY <1>1, <1>2 DEF WrittenOff, Rewritten
  <1>4. OutcomeOf(effect[o].state) = "open" /\ OutcomeOf(effect'[o].state) = "unknown"
    BY <1>1, <1>3 DEF OutcomeOf
  <1> QED
    BY <1>1, <1>3, <1>4, Records

LEMMA BeginMaps ==
  ASSUME IInv, NEW w \in Worker, Begin(w)
  PROVE  UNCHANGED Paid!vars
  <1>1. UNCHANGED <<effect, creates>> /\ run \in Run
    BY DEF Begin, IInv, TypeOK
  <1>2. StageOf(run'.state) = StageOf(run.state)
    <2>1. CASE UNCHANGED run
      BY <2>1
    <2>2. CASE run.state = "queued" /\ run' = RunIn("running", "none")
      BY <2>2 DEF RunIn, StageOf
    <2> QED
      BY <2>1, <2>2, Zenon DEF Begin
  <1> QED
    BY <1>1, <1>2, Stutters

LEMMA TerminalizeMaps ==
  ASSUME IInv, NEW w \in Worker, Terminalize(w)
  PROVE  Paid!Next
  <1>1. /\ UNCHANGED <<effect, creates>> /\ run.state = "running"
        /\ worker[w].verdict \in {"failed", "ambiguous"}
        /\ run' = RunIn(worker[w].verdict, worker[w].cause)
    BY DEF Terminalize, IInv, TypeOK, Process, RunIsCurrent, OwnsRun, Executing
  <1>2. run'.state \in {"failed", "ambiguous"}
    BY <1>1 DEF RunIn
  <1> QED
    BY <1>1, <1>2, Abandons

LEMMA ApplyMaps ==
  ASSUME IInv, NEW w \in Worker, Apply(w)
  PROVE  [Paid!Next]_(Paid!vars)
  <1>1. /\ UNCHANGED <<effect, creates>> /\ run.state = "running"
        /\ worker[w].ordinal \in Ordinal /\ effect[worker[w].ordinal].state = "succeeded"
    BY DEF Apply, IInv, TypeOK, Process, RunIsCurrent, OwnsRun, Executing, ReceiptAt
  <1>2. CASE UNCHANGED run
    BY <1>1, <1>2, Stutters
  <1>3. CASE run' = RunIn("succeeded", "none")
    <2>1. /\ Stage = "open" /\ Stage' = "delivered" /\ Outcomes' = Outcomes
          /\ Outcomes[worker[w].ordinal] = "answered"
      BY <1>1, <1>3 DEF RunIn, Stage, StageOf, Outcomes, OutcomeOf
    <2>2. Paid!Deliver
      BY <1>1, <2>1 DEF Paid!Deliver, Paid!Ordinal, Ordinal
    <2> QED
      BY <2>2 DEF Paid!Next
  <1> QED
    BY <1>2, <1>3, Zenon DEF Apply

LEMMA BootMaps ==
  ASSUME IInv, NEW w \in Worker, Boot(w)
  PROVE  [Paid!Next]_(Paid!vars)
  <1>1. /\ UNCHANGED <<run, creates>> /\ effect \in [Ordinal -> Effect]
        /\ \A o \in Ordinal : effect[o].state # "creating" => effect'[o] = effect[o]
        /\ \A o \in Ordinal : effect[o].state = "creating" =>
                effect'[o] = effect[o] \/ effect'[o].state = "ambiguous"
    BY DEF Boot, IInv, TypeOK, WrittenOff, Rewritten
  <1>2. effect[2].state # "absent" => effect[1].state = "succeeded"
    BY DEF IInv, Receipts, Corrected
  <1>3. CASE \E o \in Ordinal : effect'[o] # effect[o]
    <2>1. PICK o \in Ordinal : effect'[o] # effect[o]
      BY <1>3
    <2>2. effect[o].state = "creating" /\ effect'[o].state = "ambiguous"
      BY <1>1, <2>1
    <2>3. \A q \in Ordinal : q # o => effect'[q] = effect[q]
      BY <1>1, <1>2, <2>2 DEF Ordinal
    <2>4. OutcomeOf(effect[o].state) = "open" /\ OutcomeOf(effect'[o].state) = "unknown"
      BY <2>2 DEF OutcomeOf
    <2> QED
      BY <1>1, <2>3, <2>4, Records
  <1>4. CASE \A o \in Ordinal : effect'[o] = effect[o]
    BY <1>1, <1>4, Stutters
  <1> QED
    BY <1>3, <1>4

LEMMA MaintainMaps ==
  ASSUME IInv, NEW w \in Worker, Maintain(w)
  PROVE  [Paid!Next]_(Paid!vars)
  <1>1. UNCHANGED creates /\ effect \in [Ordinal -> Effect]
    BY DEF Maintain, IInv, TypeOK
  <1>2. CASE Resume
    <2>1. UNCHANGED effect /\ run.state = "running" /\ run' = RunIn("running", run.cause)
      BY <1>2 DEF Resume, Resumable
    <2>2. run'.state = run.state
      BY <2>1 DEF RunIn
    <2> QED
      BY <1>1, <2>1, <2>2, Stutters
  <1>3. CASE CloseOrphan
    <2>1. /\ run.state \in {"queued", "running"}
          /\ run' = RunIn("ambiguous", "job") \/ run' = RunIn("failed", "job")
      BY <1>3 DEF CloseOrphan, Orphaned
    <2>2. run'.state \in {"failed", "ambiguous"}
      BY <2>1 DEF RunIn
    <2>3. ASSUME NEW o \in Ordinal
          PROVE  \/ effect'[o] = effect[o]
                 \/ OutcomeOf(effect[o].state) = "open" /\ effect'[o].state = "ambiguous"
      <3>1. effect'[o] = IF effect[o].state \in Unresolved THEN WrittenOff(effect[o])
                         ELSE effect[o]
        BY <1>3, <2>3 DEF CloseOrphan
      <3> QED
        BY <3>1 DEF WrittenOff, Rewritten, Unresolved, OutcomeOf
    <2> QED
      BY <1>1, <2>1, <2>2, <2>3, Abandons
  <1>4. CASE UNCHANGED <<effect, run, job, recovered>>
    BY <1>1, <1>4, Stutters
  <1> QED
    BY <1>2, <1>3, <1>4 DEF Maintain

\* Every step of the workers, the job store and the crashes is a step of
\* PaidCreate, or none.
LEMMA StepMaps ==
  ASSUME IInv, [Next]_vars
  PROVE  [Paid!Next]_(Paid!vars)
  <1>1. CASE UNCHANGED <<effect, run, creates>>
    BY <1>1, Stutters
  <1>2. ASSUME NEW w \in Worker, Handle(w)
        PROVE  [Paid!Next]_(Paid!vars)
    <2>1. CASE Pending(w) \/ Release(w)
      BY <1>1, <2>1 DEF Pending, Release
    <2> QED
      BY <1>2, <2>1, BeginMaps, LoadMaps, QuarantineMaps, PostSends, AnswerMaps, PollMaps,
         QuarantinePendingMaps, TerminalizeMaps, ApplyMaps DEF Handle
  <1>3. ASSUME NEW w \in Worker, Work(w) \/ Stop(w) \/ Crash(w)
        PROVE  [Paid!Next]_(Paid!vars)
    <2>1. CASE Claim(w) \/ RecoverExpired(w) \/ Exit(w) \/ Stop(w) \/ Crash(w)
      BY <1>1, <2>1 DEF Claim, RecoverExpired, Exit, Stop, Crash
    <2> QED
      BY <1>2, <1>3, <2>1, MaintainMaps, BootMaps DEF Work
  <1>4. CASE LeaseExpires
    BY <1>1, <1>4 DEF LeaseExpires
  <1>5. CASE UNCHANGED vars
    BY <1>1, <1>5 DEF vars
  <1> QED
    BY <1>3, <1>4, <1>5 DEF Next

\* The detailed protocol keeps the promise to the owner.
THEOREM Refinement == Spec => ChargesAsPromised
  <1>1. Init => Paid!Init
    BY DEF Init, Paid!Init, Outcomes, Stage, OutcomeOf, StageOf, NoEffect, Ordinal, Paid!Ordinal
  <1>2. IInv /\ [Next]_vars => [Paid!Next]_(Paid!vars)
    BY StepMaps
  <1> QED
    BY <1>1, <1>2, Invariance, PTL DEF Spec, Paid!Spec, ChargesAsPromised
-------------------------------------------------------------------------------
(***************************************************************************)
(* Processes that may be suspended for longer than their lease             *)
(* (StallSpec), so that two of them execute one job at a time.             *)
(*                                                                         *)
(* What the proofs above rest on is gone: a worker in the handler need not *)
(* hold the lease, and what it has read may be out of date.  What is left  *)
(* is that the revision of a receipt never decreases, so that a worker is  *)
(* either behind the record (and its compare-and-swap fails) or knows its  *)
(* state (ReadAt).                                                         *)
(***************************************************************************)
Final == {"succeeded", "rejected", "ambiguous"}

\* The points at which a worker remembers a receipt it has read.
Reading == {"quarantine", "prepared", "fenced", "posted", "poll"}

Recorded(e) ==
    /\ e.state = "absent" => e.revision = 0
    /\ e.state \in {"absent", "prepared", "creating"} => e.responseId = 0
    /\ e.state = "succeeded" => e.output # "none"

\* A receipt that was not final is written, and the writing is numbered.
Moves(e, f) ==
    \/ f = e
    \/ /\ e.state \notin Final
       /\ e.responseId # 0 => f.responseId = e.responseId
       /\ f.revision > e.revision
       /\ Recorded(f)

Moved == \A o \in Ordinal : Moves(effect[o], effect'[o])

Knows(pc, state) ==
    /\ pc = "prepared" => state = "prepared"
    /\ pc \in {"quarantine", "fenced", "posted"} => state = "creating"
    /\ pc = "poll" => state \in {"submitted", "polling"}

ReadAt(w) ==
    LET e == effect[worker[w].ordinal] IN
    worker[w].pc \in Reading =>
        /\ worker[w].revision <= e.revision
        /\ worker[w].revision = e.revision => Knows(worker[w].pc, e.state)

\* A run that ended in success stays so, and only its worker reports it.
Finished ==
    /\ \A w \in Worker : worker[w].pc = "complete" => run.state = "succeeded"
    /\ CompletedJobMeansSucceededRun

SInv ==
    /\ TypeOK
    /\ Attempts
    /\ \A o \in Ordinal : Recorded(effect[o])
    /\ \A w \in Worker : ReadAt(w)
    /\ Finished
-------------------------------------------------------------------------------
LEMMA SuspensionInit == Init => SInv
  <1> SUFFICES ASSUME Init PROVE SInv
    OBVIOUS
  <1>1. TypeOK /\ Attempts
    BY InitInv DEF IInv
  <1>2. \A o \in Ordinal : Recorded(effect[o])
    BY DEF Init, NoEffect, Recorded
  <1>3. (\A w \in Worker : ReadAt(w)) /\ Finished
    BY DEF Init, Down, ReadAt, Reading, Finished, CompletedJobMeansSucceededRun
  <1> QED
    BY <1>1, <1>2, <1>3 DEF SInv

\* What a worker knows is not made wrong by what is written elsewhere.
LEMMA StaysRead ==
  ASSUME SInv, Moved, effect' \in [Ordinal -> Effect], NEW w \in Worker,
         worker'[w] = worker[w]
  PROVE  ReadAt(w)'
  <1> DEFINE o == worker[w].ordinal
  <1>1. /\ o \in Ordinal /\ worker[w].revision \in Nat
        /\ effect[o].revision \in Nat /\ effect'[o].revision \in Nat
    BY DEF SInv, TypeOK, Process, Effect
  <1>2. ReadAt(w)
    BY DEF SInv
  <1>3. effect'[o] = effect[o] \/ effect'[o].revision > effect[o].revision
    BY <1>1 DEF Moved, Moves
  <1>4. CASE effect'[o] = effect[o]
    BY <1>2, <1>4 DEF ReadAt
  <1>5. CASE effect'[o].revision > effect[o].revision
    BY <1>1, <1>2, <1>5 DEF ReadAt
  <1> QED
    BY <1>3, <1>4, <1>5

\* What a step of one worker has to establish.
LEMMA WorkerStep ==
  ASSUME SInv, NEW w \in Worker, NEW p \in Process, Become(w, p),
         effect' \in [Ordinal -> Effect], Moved,
         run' \in Run, job' \in Job, recovered' \in BOOLEAN,
         creates' \in [Ordinal -> Nat], stops' \in Nat, Attempts',
         run.state = "succeeded" => run'.state = "succeeded",
         p.pc = "complete" => run'.state = "succeeded",
         job'.status = "succeeded" => run'.state = "succeeded",
         p.pc \in Reading =>
            /\ p.revision <= effect'[p.ordinal].revision
            /\ p.revision = effect'[p.ordinal].revision => Knows(p.pc, effect'[p.ordinal].state)
  PROVE  SInv' /\ Moved
  <1>1. /\ worker' \in [Worker -> Process] /\ worker'[w] = p
        /\ \A v \in Worker : v # w => worker'[v] = worker[v]
    BY BecomeFacts DEF SInv, TypeOK
  <1>2. TypeOK'
    BY <1>1 DEF TypeOK
  <1>3. \A o \in Ordinal : Recorded(effect'[o])
    BY DEF SInv, Moved, Moves
  <1>4. ASSUME NEW v \in Worker PROVE ReadAt(v)'
    <2>1. CASE v = w
      BY <1>1, <2>1 DEF ReadAt
    <2>2. CASE v # w
      BY <1>1, <2>2, StaysRead
    <2> QED
      BY <2>1, <2>2
  <1>5. Finished'
    BY <1>1 DEF SInv, Finished, CompletedJobMeansSucceededRun
  <1> QED
    BY <1>2, <1>3, <1>4, <1>5 DEF SInv

\* ... when it leaves the records of the job store alone,
LEMMA HandlerMove ==
  ASSUME SInv, NEW w \in Worker, NEW p \in Process, Become(w, p),
         effect' \in [Ordinal -> Effect], Moved,
         run' \in Run, creates' \in [Ordinal -> Nat], UNCHANGED <<job, recovered, stops>>,
         run.state = "succeeded" => run'.state = "succeeded",
         p.pc = "complete" => run'.state = "succeeded",
         p.pc \in Reading =>
            /\ p.revision <= effect'[p.ordinal].revision
            /\ p.revision = effect'[p.ordinal].revision => Knows(p.pc, effect'[p.ordinal].state)
  PROVE  SInv' /\ Moved
  <1>1. job' \in Job /\ recovered' \in BOOLEAN /\ stops' \in Nat /\ Attempts'
    BY DEF SInv, TypeOK, Attempts
  <1>2. job'.status = "succeeded" => run'.state = "succeeded"
    BY DEF SInv, Finished, CompletedJobMeansSucceededRun
  <1> QED
    BY <1>1, <1>2, WorkerStep

\* ... and the receipts and the run as well.
LEMMA QuietMove ==
  ASSUME SInv, NEW w \in Worker, NEW p \in Process, Become(w, p),
         UNCHANGED <<effect, run, job, recovered, stops>>,
         creates' \in [Ordinal -> Nat],
         p.pc = "complete" => run.state = "succeeded",
         p.pc \in Reading =>
            /\ p.revision <= effect[p.ordinal].revision
            /\ p.revision = effect[p.ordinal].revision => Knows(p.pc, effect[p.ordinal].state)
  PROVE  SInv' /\ Moved
  <1>1. effect' \in [Ordinal -> Effect] /\ run' \in Run
    BY DEF SInv, TypeOK
  <1>2. Moved
    BY DEF Moved, Moves
  <1> QED
    BY <1>1, <1>2, HandlerMove

\* A worker that goes where it need not remember what it has read.
LEMMA GotoMove ==
  ASSUME SInv, NEW w \in Worker, NEW pc \in PC \ Reading, Goto(w, pc),
         UNCHANGED <<effect, run, job, recovered, creates, stops>>,
         pc = "complete" => run.state = "succeeded"
  PROVE  SInv' /\ Moved
  <1> DEFINE p == At(w, pc)
  <1>1. p \in Process /\ p.pc = pc /\ Become(w, p)
    BY AtFacts DEF SInv, TypeOK, Goto
  <1>2. creates' \in [Ordinal -> Nat]
    BY DEF SInv, TypeOK
  <1> HIDE DEF p
  <1> QED
    BY <1>1, <1>2, QuietMove
-------------------------------------------------------------------------------
(***************************************************************************)
(* Steps of the handler.                                                   *)
(***************************************************************************)
\* transitionEffect writes if the worker is not behind; if it is, the record
\* either says already what the worker asks for, or is left alone.
LEMMA TransitionMove ==
  ASSUME SInv, NEW w \in Worker, worker[w].pc \in {"quarantine", "prepared", "posted", "poll"},
         NEW state \in EffectState \ {"absent", "prepared"}, NEW id \in Nat,
         NEW output \in {"none", "valid", "invalid"}, NEW after \in Process,
         Transition(w, state, id, output, after),
         UNCHANGED <<run, job, recovered, creates, stops>>,
         id = Current(w).responseId \/ (worker[w].pc = "posted" /\ state = "submitted"),
         state = "creating" => worker[w].pc = "prepared",
         state = "succeeded" => output # "none",
         after.pc \in {"fenced", "poll", "apply", "load", "terminal"},
         after.ordinal = worker[w].ordinal \/ after.pc = "load",
         after.pc = "fenced" => state = "creating",
         after.pc = "poll" => state \in {"submitted", "polling"}
  PROVE  SInv' /\ Moved
  <1> DEFINE o == worker[w].ordinal
             next == Rewritten(effect[o], state, id, output)
  <1>1. /\ o \in Ordinal /\ effect[o] \in Effect /\ effect \in [Ordinal -> Effect]
        /\ effect[o].revision \in Nat /\ worker \in [Worker -> Process]
        /\ worker[w].revision \in Nat
        /\ run' \in Run /\ creates' \in [Ordinal -> Nat]
    BY DEF SInv, TypeOK, Process, Effect
  <1>2. /\ worker[w].revision <= effect[o].revision
        /\ worker[w].revision = effect[o].revision => Knows(worker[w].pc, effect[o].state)
    BY DEF SInv, ReadAt, Reading
  <1>3. CASE /\ Swaps(w)
             /\ effect' = [effect EXCEPT ![o] = next]
             /\ Become(w, [after EXCEPT !.revision = effect[o].revision + 1])
    <2>1. /\ next \in Effect /\ next.state = state /\ next.revision = effect[o].revision + 1
          /\ next.output = output /\ next.responseId = id
      BY <1>1 DEF Rewritten, Effect
    <2>2. Knows(worker[w].pc, effect[o].state)
      BY <1>2, <1>3 DEF Swaps, Current
    <2>3. effect[o].state \notin Final
      BY <2>2 DEF Knows, Final
    <2>4. /\ effect[o].state \in {"absent", "prepared", "creating"} => effect[o].responseId = 0
          /\ id = effect[o].responseId \/ (worker[w].pc = "posted" /\ state = "submitted")
      BY <1>1 DEF SInv, Recorded, Current
    <2>5. effect[o].responseId # 0 => id = effect[o].responseId
      BY <2>2, <2>4 DEF Knows
    <2>6. state = "creating" => id = 0
      BY <2>2, <2>4 DEF Knows
    <2>7. Moves(effect[o], next)
      BY <1>1, <2>1, <2>3, <2>5, <2>6 DEF Moves, Recorded
    <2> DEFINE p == [after EXCEPT !.revision = effect[o].revision + 1]
    <2>8. /\ p \in Process /\ p.pc = after.pc /\ p.ordinal = after.ordinal
          /\ p.revision = effect[o].revision + 1
      <3>1. effect[o].revision + 1 \in Nat
        BY <1>1
      <3> QED
        BY <3>1, RereadFacts, SMTT(60)
    <2>9. Become(w, p)
      BY <1>3
    <2> HIDE DEF p, next
    <2>10. /\ effect' \in [Ordinal -> Effect] /\ effect'[o] = next
           /\ \A q \in Ordinal : q # o => effect'[q] = effect[q]
      BY <1>1, <1>3, <2>1
    <2>11. Moved
      BY <2>7, <2>10 DEF Moved, Moves
    <2>12. p.pc \in Reading => /\ p.ordinal = o /\ p.revision = effect'[o].revision
                               /\ Knows(p.pc, effect'[o].state)
      BY <2>1, <2>8, <2>10 DEF Reading, Knows
    <2> HIDE DEF o
    <2>13. p.pc # "complete"
      BY <2>8
    <2>14. p.pc \in Reading =>
            /\ p.revision <= effect'[p.ordinal].revision
            /\ p.revision = effect'[p.ordinal].revision => Knows(p.pc, effect'[p.ordinal].state)
      BY <1>1, <2>1, <2>10, <2>12, <2>8
    <2> QED
      BY <1>1, <2>8, <2>9, <2>10, <2>11, <2>13, <2>14, HandlerMove
  <1>4. CASE /\ Repeats(w, state, id, output)
             /\ Become(w, [after EXCEPT !.revision = effect[o].revision])
             /\ UNCHANGED effect
    <2> DEFINE p == [after EXCEPT !.revision = effect[o].revision]
    <2>1. /\ p \in Process /\ p.pc = after.pc /\ p.ordinal = after.ordinal
          /\ p.revision = effect[o].revision
      <3>1. effect[o].revision \in Nat
        BY <1>1
      <3> QED
        BY <3>1, RereadFacts, SMTT(60)
    <2>2. Become(w, p) /\ effect[o].state = state
      BY <1>4 DEF Repeats, Current
    <2> HIDE DEF p
    <2>3. p.pc \in Reading => p.ordinal = o /\ Knows(p.pc, effect[o].state)
      BY <2>1, <2>2 DEF Reading, Knows
    <2>4. p.pc # "complete"
      BY <2>1
    <2> HIDE DEF o
    <2> QED
      BY <1>1, <1>4, <2>1, <2>2, <2>3, <2>4, QuietMove
  <1>5. CASE Goto(w, "conflict") /\ UNCHANGED effect
    <2>1. "conflict" \in PC \ Reading
      BY DEF PC, InHandler, Reading
    <2> QED
      BY <1>5, <2>1, GotoMove
  <1> HIDE DEF next
  <1> QED
    BY <1>3, <1>4, <1>5, Zenon DEF Transition, next

LEMMA FenceMove ==
  ASSUME SInv, NEW w \in Worker, Quarantine(w) \/ Fence(w)
  PROVE  SInv' /\ Moved
  <1>1. /\ worker \in [Worker -> Process] /\ Current(w).responseId \in Nat
        /\ UNCHANGED <<run, job, recovered, creates, stops>>
    BY DEF SInv, TypeOK, Process, Current, Effect, Quarantine, Fence
  <1>2. /\ {"creating", "ambiguous"} \subseteq EffectState \ {"absent", "prepared"}
        /\ "provider" \in Cause /\ "fenced" \in PC
    BY DEF EffectState, Cause, PC, InHandler
  <1>3. CASE Quarantine(w)
    <2> DEFINE after == Ending(w, "ambiguous", "provider")
    <2>1. after \in Process /\ after.pc = "terminal" /\ after.ordinal = worker[w].ordinal
      BY <1>1, <1>2, EndingFacts
    <2>2. /\ worker[w].pc = "quarantine"
          /\ Transition(w, "ambiguous", Current(w).responseId, "none", after)
      BY <1>3 DEF Quarantine
    <2> HIDE DEF after
    <2> QED
      BY <1>1, <1>2, <2>1, <2>2, TransitionMove
  <1>4. CASE Fence(w)
    <2> DEFINE after == At(w, "fenced")
    <2>1. after \in Process /\ after.pc = "fenced" /\ after.ordinal = worker[w].ordinal
      BY <1>1, <1>2, AtFacts
    <2>2. /\ worker[w].pc = "prepared"
          /\ Transition(w, "creating", Current(w).responseId, "none", after)
      BY <1>4 DEF Fence
    <2> HIDE DEF after
    <2> QED
      BY <1>1, <1>2, <2>1, <2>2, TransitionMove
  <1> QED
    BY <1>3, <1>4

LEMMA AnswerMove ==
  ASSUME SInv, NEW w \in Worker, Answer(w)
  PROVE  SInv' /\ Moved
  <1>1. /\ worker \in [Worker -> Process] /\ Current(w).responseId \in Nat
        /\ worker[w].sent \in Nat /\ worker[w].pc = "posted"
        /\ UNCHANGED <<run, job, recovered, creates, stops>>
    BY DEF SInv, TypeOK, Process, Current, Effect, Answer
  <1>2. /\ {"submitted", "rejected", "ambiguous"} \subseteq EffectState \ {"absent", "prepared"}
        /\ "provider" \in Cause /\ "poll" \in PC
    BY DEF EffectState, Cause, PC, InHandler
  <1> DEFINE polls == At(w, "poll")
             fails == Ending(w, "failed", "provider")
             gives == Ending(w, "ambiguous", "provider")
  <1>3. polls \in Process /\ polls.pc = "poll" /\ polls.ordinal = worker[w].ordinal
    BY <1>1, <1>2, AtFacts
  <1>4. /\ fails \in Process /\ fails.pc = "terminal" /\ fails.ordinal = worker[w].ordinal
        /\ gives \in Process /\ gives.pc = "terminal" /\ gives.ordinal = worker[w].ordinal
    BY <1>1, <1>2, EndingFacts
  <1>5. \/ Transition(w, "submitted", worker[w].sent, "none", polls)
        \/ Transition(w, "rejected", Current(w).responseId, "none", fails)
        \/ Transition(w, "ambiguous", Current(w).responseId, "none", gives)
    BY DEF Answer, Unanswered
  <1> HIDE DEF polls, fails, gives
  <1>6. CASE Transition(w, "submitted", worker[w].sent, "none", polls)
    BY <1>1, <1>2, <1>3, <1>6, TransitionMove
  <1>7. CASE Transition(w, "rejected", Current(w).responseId, "none", fails)
    BY <1>1, <1>2, <1>4, <1>7, TransitionMove
  <1>8. CASE Transition(w, "ambiguous", Current(w).responseId, "none", gives)
    BY <1>1, <1>2, <1>4, <1>8, TransitionMove
  <1> QED
    BY <1>5, <1>6, <1>7, <1>8

LEMMA PollMove ==
  ASSUME SInv, NEW w \in Worker, Poll(w)
  PROVE  SInv' /\ Moved
  <1> DEFINE id == Current(w).responseId
             fails == Ending(w, "failed", "provider")
             polls == At(w, "poll")
  <1>1. /\ worker \in [Worker -> Process] /\ id \in Nat /\ worker[w].pc = "poll"
        /\ UNCHANGED <<run, job, recovered, creates, stops>>
    BY DEF SInv, TypeOK, Process, Current, Effect, Poll
  <1>2. /\ {"succeeded", "rejected", "polling"} \subseteq EffectState \ {"absent", "prepared"}
        /\ "provider" \in Cause /\ "poll" \in PC /\ {"pending", "delay"} \subseteq PC \ Reading
    BY DEF EffectState, Cause, PC, InHandler, Reading
  <1>3. fails \in Process /\ fails.pc = "terminal" /\ fails.ordinal = worker[w].ordinal
    BY <1>1, <1>2, EndingFacts
  <1>4. polls \in Process /\ polls.pc = "poll" /\ polls.ordinal = worker[w].ordinal
    BY <1>1, <1>2, AtFacts
  <1>5. ASSUME NEW output \in {"valid", "invalid"},
               Transition(w, "succeeded", id, output, Judged(w, output))
        PROVE  SInv' /\ Moved
    <2> DEFINE after == Judged(w, output)
    <2>1. /\ after \in Process /\ after.pc \in {"apply", "load", "terminal"}
          /\ after.ordinal = worker[w].ordinal \/ after.pc = "load"
      BY <1>1, JudgedFacts
    <2>2. Transition(w, "succeeded", id, output, after)
      BY <1>5
    <2> HIDE DEF after
    <2> QED
      BY <1>1, <1>2, <2>1, <2>2, TransitionMove
  <1>6. ASSUME Transition(w, "rejected", id, "none", fails)
        PROVE  SInv' /\ Moved
    <2> HIDE DEF fails
    <2> QED
      BY <1>1, <1>2, <1>3, <1>6, TransitionMove
  <1>7. ASSUME Transition(w, "polling", id, "none", polls)
        PROVE  SInv' /\ Moved
    <2> HIDE DEF polls
    <2> QED
      BY <1>1, <1>2, <1>4, <1>7, TransitionMove
  <1>8. ASSUME NEW pc \in {"pending", "delay"}, Goto(w, pc), UNCHANGED effect
        PROVE  SInv' /\ Moved
    BY <1>1, <1>2, <1>8, GotoMove
  <1> QED
    BY <1>5, <1>6, <1>7, <1>8, Zenon DEF Poll, Output

LEMMA LoadMove ==
  ASSUME SInv, NEW w \in Worker, Load(w)
  PROVE  SInv' /\ Moved
  <1> DEFINE o == worker[w].ordinal
  <1>1. /\ worker \in [Worker -> Process] /\ o \in Ordinal
        /\ effect \in [Ordinal -> Effect] /\ effect[o] \in Effect
        /\ effect[o].revision \in Nat /\ run' \in Run /\ creates' \in [Ordinal -> Nat]
        /\ UNCHANGED <<run, job, recovered, creates, stops>>
    BY DEF SInv, TypeOK, Process, Effect, Load
  <1>2. /\ {"delay", "prepared", "retry", "quarantine", "poll"} \subseteq PC
        /\ {"capacity", "provider"} \subseteq Cause
    BY DEF PC, InHandler, Cause
  <1>3. Recorded(effect[o])
    BY <1>1 DEF SInv
  <1>4. ASSUME UNCHANGED effect, NEW p \in Process, Become(w, p), p.pc # "complete",
               p.pc \in Reading => /\ p.ordinal = o /\ p.revision = effect[o].revision
                                   /\ Knows(p.pc, effect[o].state)
        PROVE  SInv' /\ Moved
    <2> HIDE DEF o
    <2> QED
      BY <1>1, <1>4, QuietMove
  <1>5. ASSUME effect[o].state = "absent",
               effect' = [effect EXCEPT ![o] = Rewritten(NoEffect, "prepared", 0, "none")],
               Become(w, Seen(w, IF worker[w].stopping THEN "delay" ELSE "prepared", 1))
        PROVE  SInv' /\ Moved
    <2> DEFINE next == Rewritten(NoEffect, "prepared", 0, "none")
               p == Seen(w, IF worker[w].stopping THEN "delay" ELSE "prepared", 1)
    <2>1. /\ next \in Effect /\ next.state = "prepared" /\ next.revision = 1
          /\ next.responseId = 0
      BY DEF Rewritten, NoEffect, Effect, EffectState
    <2>2. p \in Process /\ p.pc \in {"delay", "prepared"} /\ p.ordinal = o /\ p.revision = 1
      <3>1. CASE worker[w].stopping
        BY <1>1, <1>2, <3>1, SeenFacts
      <3>2. CASE ~worker[w].stopping
        BY <1>1, <1>2, <3>2, SeenFacts
      <3> QED
        BY <3>1, <3>2
    <2>3. Become(w, p) /\ effect' = [effect EXCEPT ![o] = next]
      BY <1>5
    <2> HIDE DEF p, next
    <2>4. /\ effect' \in [Ordinal -> Effect] /\ effect'[o] = next
          /\ \A q \in Ordinal : q # o => effect'[q] = effect[q]
      BY <1>1, <2>1, <2>3
    <2>5. Moves(effect[o], next)
      BY <1>3, <1>5, <2>1 DEF Moves, Recorded, Final
    <2>6. Moved
      BY <2>4, <2>5 DEF Moved, Moves
    <2>7. p.pc \in Reading =>
            /\ p.revision <= effect'[p.ordinal].revision
            /\ p.revision = effect'[p.ordinal].revision => Knows(p.pc, effect'[p.ordinal].state)
      BY <2>1, <2>2, <2>4 DEF Knows
    <2> HIDE DEF o
    <2> QED
      BY <1>1, <2>2, <2>3, <2>4, <2>6, <2>7, HandlerMove
  <1>6. ASSUME UNCHANGED effect,
               Become(w, IF worker[w].attempt < MaxAttempts THEN At(w, "retry")
                         ELSE Ending(w, "failed", "capacity"))
        PROVE  SInv' /\ Moved
    <2>1. CASE worker[w].attempt < MaxAttempts
      <3>1. Become(w, At(w, "retry"))
        BY <1>6, <2>1
      <3> QED
        BY <1>1, <1>2, <1>4, <1>6, <3>1, AtFacts DEF Reading
    <2>2. CASE ~(worker[w].attempt < MaxAttempts)
      <3>1. Become(w, Ending(w, "failed", "capacity"))
        BY <1>6, <2>2
      <3> QED
        BY <1>1, <1>2, <1>4, <1>6, <3>1, EndingFacts DEF Reading
    <2> QED
      BY <2>1, <2>2
  <1>7. ASSUME NEW pc \in {"delay", "prepared", "quarantine", "poll"}, UNCHANGED effect,
               Become(w, Seen(w, pc, effect[o].revision)), Knows(pc, effect[o].state)
        PROVE  SInv' /\ Moved
    <2> DEFINE p == Seen(w, pc, effect[o].revision)
    <2>1. p \in Process /\ p.pc = pc /\ p.ordinal = o /\ p.revision = effect[o].revision
      BY <1>1, <1>2, SeenFacts
    <2>2. Become(w, p)
      BY <1>7
    <2> HIDE DEF p
    <2> QED
      BY <1>4, <1>7, <2>1, <2>2
  <1>8. ASSUME effect[o].state = "prepared", UNCHANGED effect,
               Become(w, Seen(w, IF worker[w].stopping THEN "delay" ELSE "prepared",
                              effect[o].revision))
        PROVE  SInv' /\ Moved
    <2>1. CASE worker[w].stopping
      BY <1>7, <1>8, <2>1 DEF Knows
    <2>2. CASE ~worker[w].stopping
      BY <1>7, <1>8, <2>2 DEF Knows
    <2> QED
      BY <2>1, <2>2
  <1>9. ASSUME effect[o].state = "creating", UNCHANGED effect,
               Become(w, Seen(w, "quarantine", effect[o].revision))
        PROVE  SInv' /\ Moved
    BY <1>7, <1>9 DEF Knows
  <1>10. ASSUME effect[o].state \in {"submitted", "polling"}, UNCHANGED effect,
                Become(w, Seen(w, "poll", effect[o].revision))
         PROVE  SInv' /\ Moved
    BY <1>7, <1>10 DEF Knows
  <1>11. ASSUME effect[o].state = "succeeded", UNCHANGED effect,
                Become(w, Judged(w, effect[o].output))
         PROVE  SInv' /\ Moved
    <2>1. effect[o].output \in {"valid", "invalid"}
      BY <1>1, <1>3, <1>11 DEF Recorded, Effect
    <2>2. /\ Judged(w, effect[o].output) \in Process
          /\ Judged(w, effect[o].output).pc \in {"apply", "load", "terminal"}
      BY <1>1, <2>1, JudgedFacts
    <2> QED
      BY <1>4, <1>11, <2>2 DEF Reading
  <1>12. ASSUME NEW verdict \in {"failed", "ambiguous"}, UNCHANGED effect,
                Become(w, Ending(w, verdict, "provider"))
         PROVE  SInv' /\ Moved
    BY <1>1, <1>2, <1>4, <1>12, EndingFacts DEF Reading
  <1> HIDE DEF o
  <1> QED
    BY <1>5, <1>6, <1>8, <1>9, <1>10, <1>11, <1>12, Zenon DEF Load, o

LEMMA PostMove ==
  ASSUME SInv, NEW w \in Worker, Post(w)
  PROVE  SInv' /\ Moved
  <1> DEFINE o == worker[w].ordinal
             p == [At(w, "posted") EXCEPT !.sent = creates[o] + 1]
  <1>1. /\ worker \in [Worker -> Process] /\ o \in Ordinal /\ creates \in [Ordinal -> Nat]
        /\ creates[o] + 1 \in Nat /\ "posted" \in PC
    BY DEF SInv, TypeOK, Process, PC, InHandler
  <1>2. /\ worker[w].pc = "fenced" /\ UNCHANGED <<effect, run, job, recovered, stops>>
        /\ creates' = [creates EXCEPT ![o] = creates[o] + 1] /\ Become(w, p)
    BY DEF Post
  <1>3. /\ p \in Process /\ p.pc = "posted" /\ p.ordinal = o
        /\ p.revision = worker[w].revision
    BY <1>1, AtFacts, MarkedFacts
  <1> HIDE DEF p
  <1>4. creates' \in [Ordinal -> Nat]
    BY <1>1, <1>2
  <1>5. /\ p.revision <= effect[p.ordinal].revision
        /\ p.revision = effect[p.ordinal].revision => Knows(p.pc, effect[p.ordinal].state)
    BY <1>2, <1>3 DEF SInv, ReadAt, Reading, Knows
  <1> QED
    BY <1>2, <1>3, <1>4, <1>5, QuietMove

\* A receipt written off is written, and only if nothing is on record for it.
LEMMA WriteOffMoves ==
  ASSUME SInv, NEW S \in SUBSET (EffectState \ Final),
         effect' = [o \in Ordinal |-> IF effect[o].state \in S THEN WrittenOff(effect[o])
                                      ELSE effect[o]]
  PROVE  effect' \in [Ordinal -> Effect] /\ Moved
  <1>1. effect \in [Ordinal -> Effect]
    BY DEF SInv, TypeOK
  <1>2. ASSUME NEW o \in Ordinal, effect[o].state \in S
        PROVE  WrittenOff(effect[o]) \in Effect /\ Moves(effect[o], WrittenOff(effect[o]))
    BY <1>1, <1>2 DEF WrittenOff, Rewritten, Effect, EffectState, Moves, Recorded
  <1>3. effect' \in [Ordinal -> Effect]
    BY <1>1, <1>2
  <1>4. Moved
    BY <1>2 DEF Moved, Moves
  <1> QED
    BY <1>3, <1>4

LEMMA QuarantinePendingMove ==
  ASSUME SInv, NEW w \in Worker, QuarantinePending(w)
  PROVE  SInv' /\ Moved
  <1> DEFINE o == worker[w].ordinal
  <1>1. /\ worker \in [Worker -> Process] /\ o \in Ordinal
        /\ effect \in [Ordinal -> Effect] /\ effect[o] \in Effect
        /\ run' \in Run /\ creates' \in [Ordinal -> Nat]
        /\ UNCHANGED <<run, job, recovered, creates, stops>>
    BY DEF SInv, TypeOK, Process, QuarantinePending
  <1>2. PICK cause \in {"provider", "unexpected"} : Become(w, Ending(w, "ambiguous", cause))
    BY Zenon DEF QuarantinePending
  <1> DEFINE p == Ending(w, "ambiguous", cause)
  <1>3. p \in Process /\ p.pc = "terminal" /\ Become(w, p)
    <2>1. cause \in Cause
      BY <1>2 DEF Cause
    <2> QED
      BY <1>1, <1>2, <2>1, EndingFacts
  <1> HIDE DEF p
  <1>4. CASE effect[o].state \in {"submitted", "polling"}
    <2> DEFINE next == WrittenOff(effect[o])
    <2>1. effect' = [effect EXCEPT ![o] = next]
      BY <1>4 DEF QuarantinePending
    <2>2. next \in Effect /\ Moves(effect[o], next)
      BY <1>1, <1>4 DEF WrittenOff, Rewritten, Effect, EffectState, Moves, Recorded, Final
    <2> HIDE DEF next
    <2>3. /\ effect' \in [Ordinal -> Effect] /\ effect'[o] = next
          /\ \A q \in Ordinal : q # o => effect'[q] = effect[q]
      BY <1>1, <2>1, <2>2
    <2>4. Moved
      BY <2>2, <2>3 DEF Moved, Moves
    <2> QED
      BY <1>1, <1>3, <2>3, <2>4, HandlerMove DEF Reading
  <1>5. CASE effect[o].state \notin {"submitted", "polling"}
    <2>1. UNCHANGED effect
      BY <1>5 DEF QuarantinePending
    <2> QED
      BY <1>1, <1>3, <2>1, QuietMove DEF Reading
  <1> QED
    BY <1>4, <1>5

\* Giving up, trying again and settling for less.
LEMMA RetreatMove ==
  ASSUME SInv, NEW w \in Worker, Pending(w) \/ Conflict(w)
  PROVE  SInv' /\ Moved
  <1>1. /\ worker \in [Worker -> Process]
        /\ UNCHANGED <<effect, run, job, recovered, creates, stops>>
        /\ creates' \in [Ordinal -> Nat]
    BY DEF SInv, TypeOK, Pending, Conflict
  <1>2. {"retry", "exhausted"} \subseteq PC \ Reading /\ "unexpected" \in Cause
    BY DEF PC, InHandler, Reading, Cause
  <1>3. CASE Pending(w)
    <2>1. PICK pc \in {"retry", "exhausted"} : Goto(w, pc)
      BY <1>3, Zenon DEF Pending
    <2> QED
      BY <1>1, <1>2, <2>1, GotoMove
  <1>4. CASE Conflict(w)
    <2>1. CASE Become(w, At(w, "retry"))
      BY <1>1, <1>2, <2>1, GotoMove DEF Goto
    <2>2. CASE Become(w, Ending(w, "ambiguous", "unexpected"))
      <3>1. /\ Ending(w, "ambiguous", "unexpected") \in Process
            /\ Ending(w, "ambiguous", "unexpected").pc = "terminal"
        BY <1>1, <1>2, EndingFacts
      <3> QED
        BY <1>1, <2>2, <3>1, QuietMove DEF Reading
    <2> QED
      BY <1>4, <2>1, <2>2, Zenon DEF Conflict
  <1> QED
    BY <1>3, <1>4

\* The run is ended by a worker, which may not be the one that holds the job.
LEMMA EndingMove ==
  ASSUME SInv, NEW w \in Worker, run.state # "succeeded",
         NEW state \in RunTerminal, NEW cause \in Cause, NEW pc \in {"giveUp", "complete"},
         run' = RunIn(state, cause), Goto(w, pc), pc = "complete" => state = "succeeded",
         UNCHANGED <<effect, job, recovered, creates, stops>>
  PROVE  SInv' /\ Moved
  <1> DEFINE p == At(w, pc)
  <1>1. /\ worker \in [Worker -> Process] /\ run \in Run /\ effect' \in [Ordinal -> Effect]
        /\ creates' \in [Ordinal -> Nat] /\ pc \in PC \ Reading
    BY DEF SInv, TypeOK, PC, InHandler, Reading
  <1>2. p \in Process /\ p.pc = pc /\ Become(w, p)
    BY <1>1, AtFacts DEF Goto
  <1>3. run' \in Run /\ run'.state = state
    BY <1>1, RunInFacts
  <1>4. Moved
    BY DEF Moved, Moves
  <1> HIDE DEF p
  <1> QED
    BY <1>1, <1>2, <1>3, <1>4, HandlerMove

LEMMA TerminalizeMove ==
  ASSUME SInv, NEW w \in Worker, Terminalize(w)
  PROVE  SInv' /\ Moved
  <1>1. UNCHANGED <<effect, job, recovered, creates, stops>>
    BY DEF Terminalize
  <1>2. CASE OwnsRun(w) /\ run' = RunIn(worker[w].verdict, worker[w].cause) /\ Goto(w, "giveUp")
    <2>1. worker[w].verdict \in RunTerminal /\ worker[w].cause \in Cause
      BY DEF SInv, TypeOK, Process, RunTerminal
    <2> QED
      BY <1>1, <1>2, <2>1, EndingMove DEF OwnsRun
  <1>3. CASE Goto(w, "lostRun") /\ UNCHANGED run
    <2>1. "lostRun" \in PC \ Reading
      BY DEF PC, InHandler, Reading
    <2> QED
      BY <1>1, <1>3, <2>1, GotoMove
  <1> QED
    BY <1>2, <1>3, Zenon DEF Terminalize

LEMMA ApplyMove ==
  ASSUME SInv, NEW w \in Worker, Apply(w)
  PROVE  SInv' /\ Moved
  <1>1. /\ UNCHANGED <<effect, job, recovered, creates, stops>>
        /\ worker \in [Worker -> Process] /\ creates' \in [Ordinal -> Nat]
    BY DEF Apply, SInv, TypeOK
  <1>2. CASE OwnsRun(w) /\ run' = RunIn("succeeded", "none") /\ Goto(w, "complete")
    BY <1>1, <1>2, EndingMove DEF OwnsRun, RunTerminal, Cause
  <1>3. ASSUME NEW cause \in {"campaign", "capacity"}, Become(w, Ending(w, "failed", cause)),
               UNCHANGED run
        PROVE  SInv' /\ Moved
    <2>1. cause \in Cause
      BY DEF Cause
    <2>2. Ending(w, "failed", cause) \in Process /\ Ending(w, "failed", cause).pc = "terminal"
      BY <1>1, <2>1, EndingFacts
    <2> QED
      BY <1>1, <1>3, <2>2, QuietMove DEF Reading
  <1>4. ASSUME NEW pc \in {"retry", "lostRun"}, Goto(w, pc), UNCHANGED run
        PROVE  SInv' /\ Moved
    <2>1. pc \in PC \ Reading
      BY DEF PC, InHandler, Reading
    <2> QED
      BY <1>1, <1>4, <2>1, GotoMove
  <1> QED
    BY <1>2, <1>3, <1>4, Zenon DEF Apply

LEMMA LostRunMove ==
  ASSUME SInv, NEW w \in Worker, LostRun(w)
  PROVE  SInv' /\ Moved
  <1>1. UNCHANGED <<effect, job, recovered, creates, stops>>
    BY DEF LostRun
  <1>2. ASSUME NEW pc \in {"complete", "giveUp", "retry"}, Goto(w, pc), UNCHANGED run,
               pc = "complete" => run.state = "succeeded"
        PROVE  SInv' /\ Moved
    <2>1. pc \in PC \ Reading
      BY DEF PC, InHandler, Reading
    <2> QED
      BY <1>1, <1>2, <2>1, GotoMove
  <1>3. CASE run.state = "running" /\ run' = RunIn("ambiguous", "unexpected") /\ Goto(w, "giveUp")
    BY <1>1, <1>3, EndingMove DEF RunTerminal, Cause
  <1> QED
    BY <1>2, <1>3, Zenon DEF LostRun

LEMMA BeginMove ==
  ASSUME SInv, NEW w \in Worker, Begin(w)
  PROVE  SInv' /\ Moved
  <1>1. /\ UNCHANGED <<effect, job, recovered, creates, stops>>
        /\ worker \in [Worker -> Process] /\ run \in Run /\ run.revision \in Nat
        /\ effect' \in [Ordinal -> Effect] /\ creates' \in [Ordinal -> Nat]
    BY DEF Begin, SInv, TypeOK, Run
  <1>2. ASSUME NEW pc \in {"complete", "giveUp"}, Goto(w, pc), UNCHANGED run,
               pc = "complete" => run.state = "succeeded"
        PROVE  SInv' /\ Moved
    <2>1. pc \in PC \ Reading
      BY DEF PC, InHandler, Reading
    <2> QED
      BY <1>1, <1>2, <2>1, GotoMove
  <1>3. ASSUME run.state \in {"queued", "running"},
               run' = IF run.state = "queued" THEN RunIn("running", "none") ELSE run
        PROVE  run' \in Run /\ run'.revision \in Nat
    <2>1. CASE run.state = "queued"
      BY <1>1, <1>3, <2>1, RunInFacts DEF Cause
    <2>2. CASE run.state # "queued"
      BY <1>1, <1>3, <2>2
    <2> QED
      BY <2>1, <2>2
  <1>4. ASSUME run.state \in {"queued", "running"}, run' \in Run,
               NEW p \in Process, Become(w, p), p.pc \in {"load", "terminal"}
        PROVE  SInv' /\ Moved
    <2>1. Moved
      BY <1>1 DEF Moved, Moves
    <2> QED
      BY <1>1, <1>4, <2>1, HandlerMove DEF Reading
  <1>5. ASSUME run.state \in {"queued", "running"},
               run' = IF run.state = "queued" THEN RunIn("running", "none") ELSE run,
               Become(w, [At(w, "load") EXCEPT !.ordinal = 1, !.runRevision = run'.revision])
        PROVE  SInv' /\ Moved
    <2> DEFINE p == [At(w, "load") EXCEPT !.ordinal = 1, !.runRevision = run'.revision]
    <2>1. "load" \in PC /\ run'.revision \in Nat /\ 1 \in Ordinal /\ run' \in Run
      BY <1>3, <1>5 DEF PC, InHandler, Ordinal
    <2>2. At(w, "load") \in Process /\ At(w, "load").pc = "load"
      BY <1>1, <2>1, AtFacts
    <2>3. p \in Process /\ p.pc = "load"
      <3> HIDE DEF At
      <3> QED
        BY <2>1, <2>2, Zenon DEF Process
    <2>4. Become(w, p)
      BY <1>5
    <2> HIDE DEF p
    <2> QED
      BY <1>4, <1>5, <2>1, <2>3, <2>4
  <1>6. ASSUME run.state \in {"queued", "running"},
               run' = IF run.state = "queued" THEN RunIn("running", "none") ELSE run,
               Become(w, [Ending(w, "failed", "campaign") EXCEPT !.runRevision = run'.revision])
        PROVE  SInv' /\ Moved
    <2> DEFINE e == Ending(w, "failed", "campaign")
               p == [e EXCEPT !.runRevision = run'.revision]
    <2>1. "campaign" \in Cause /\ run'.revision \in Nat /\ run' \in Run
      BY <1>3, <1>6 DEF Cause
    <2>2. e \in Process /\ e.pc = "terminal"
      BY <1>1, <2>1, EndingFacts
    <2>3. Become(w, p)
      BY <1>6
    <2> HIDE DEF e
    <2>4. p \in Process /\ p.pc = "terminal"
      BY <2>1, <2>2, Zenon DEF Process
    <2> HIDE DEF p
    <2> QED
      BY <1>4, <1>6, <2>1, <2>3, <2>4
  <1> QED
    BY <1>2, <1>5, <1>6, Zenon DEF Begin
-------------------------------------------------------------------------------
(***************************************************************************)
(* Steps of the job store and of the life of a process.                    *)
(***************************************************************************)
\* The store changes the job; the receipts and the run are left alone.
LEMMA StoreMove ==
  ASSUME SInv, NEW w \in Worker, NEW p \in Process, Become(w, p),
         p.pc \notin Reading \cup {"complete"}, job' \in Job, Attempts',
         job'.status = "succeeded" => run.state = "succeeded",
         UNCHANGED <<effect, run, recovered, creates, stops>>
  PROVE  SInv' /\ Moved
  <1>1. /\ effect' \in [Ordinal -> Effect] /\ run' \in Run /\ recovered' \in BOOLEAN
        /\ creates' \in [Ordinal -> Nat] /\ stops' \in Nat
    BY DEF SInv, TypeOK
  <1>2. Moved
    BY DEF Moved, Moves
  <1> QED
    BY <1>1, <1>2, WorkerStep

LEMMA ClaimMove ==
  ASSUME SInv, NEW w \in Worker, Claim(w)
  PROVE  SInv' /\ Moved
  <1> DEFINE p == [At(w, "begin") EXCEPT !.attempt = job.attempts + 1]
  <1>1. /\ worker \in [Worker -> Process] /\ job.attempts + 1 \in 0..MaxAttempts
        /\ job.attempts \in Nat /\ "begin" \in PC
    BY AttemptsAssumption DEF SInv, TypeOK, Attempts, Claim, Job, PC, InHandler
  <1>2. p \in Process /\ p.pc = "begin"
    BY <1>1, AtFacts, MarkedFacts
  <1>3. /\ Become(w, p) /\ job' = Claimed(job.attempts + 1, w, "live")
        /\ UNCHANGED <<effect, run, recovered, creates, stops>>
    BY DEF Claim
  <1>4. job' \in Job /\ Attempts' /\ job'.status = "running"
    BY <1>1, <1>3 DEF Claimed, Job, Attempts
  <1> HIDE DEF p
  <1> QED
    BY <1>2, <1>3, <1>4, StoreMove DEF Reading

LEMMA ReleaseMove ==
  ASSUME SInv, NEW w \in Worker, Release(w)
  PROVE  SInv' /\ Moved
  <1>1. /\ worker[w].pc \in {"complete", "retry", "delay", "giveUp"}
        /\ Become(w, At(w, "maintain")) /\ job \in Job
        /\ worker \in [Worker -> Process] /\ "maintain" \in PC
        /\ UNCHANGED <<effect, run, recovered, creates, stops>>
    BY DEF Release, Goto, SInv, TypeOK, PC
  <1>2. At(w, "maintain") \in Process /\ At(w, "maintain").pc = "maintain"
    BY <1>1, AtFacts
  <1>3. job' \in Job /\ Attempts' /\ (job'.status = "succeeded" => run.state = "succeeded")
    <2>1. CASE ~Holds(w)
      BY <1>1, <2>1 DEF Release, SInv, Attempts, Finished, CompletedJobMeansSucceededRun
    <2>2. CASE Holds(w)
      <3>1. job' = Settled(worker[w].pc) /\ job.attempts > 0
        BY <2>2 DEF Release, SInv, Attempts, Holds, Leased
      <3>2. job' \in Job /\ Attempts'
        BY <1>1, <3>1, AttemptsAssumption DEF Settled, Freed, Job, Attempts
      <3>3. job'.status = "succeeded" => worker[w].pc = "complete"
        BY <1>1, <3>1 DEF Settled, Freed
      <3> QED
        BY <3>2, <3>3 DEF SInv, Finished
    <2> QED
      BY <2>1, <2>2
  <1> QED
    BY <1>1, <1>2, <1>3, StoreMove DEF Reading

LEMMA RecoverExpiredMove ==
  ASSUME SInv, NEW w \in Worker, RecoverExpired(w)
  PROVE  SInv' /\ Moved
  <1>1. PICK pc \in {"maintain", "idle"} : Become(w, At(w, pc))
    BY DEF RecoverExpired, Goto
  <1>2. /\ UNCHANGED <<effect, run, recovered, creates, stops>>
        /\ job \in Job /\ worker \in [Worker -> Process] /\ pc \in PC
    BY DEF RecoverExpired, SInv, TypeOK, PC
  <1>3. At(w, pc) \in Process /\ At(w, pc).pc = pc
    BY <1>2, AtFacts
  <1>4. job' \in Job /\ Attempts' /\ (job'.status = "succeeded" => run.state = "succeeded")
    <2>1. CASE job.lease = "expired"
      <3>1. job' = Freed(IF job.attempts < MaxAttempts THEN "queued" ELSE "failed", job.attempts)
        BY <2>1 DEF RecoverExpired
      <3> QED
        BY <1>2, <3>1 DEF Freed, Job, Attempts
    <2>2. CASE job.lease # "expired"
      <3>1. job' = job
        BY <2>2 DEF RecoverExpired
      <3> QED
        BY <1>2, <3>1 DEF SInv, Attempts, Finished, CompletedJobMeansSucceededRun
    <2> QED
      BY <2>1, <2>2
  <1> QED
    BY <1>1, <1>2, <1>3, <1>4, StoreMove DEF Reading

\* No process moves.
LEMMA StillMove ==
  ASSUME SInv, UNCHANGED worker, effect' \in [Ordinal -> Effect], Moved,
         run' \in Run, job' \in Job, recovered' \in BOOLEAN,
         creates' \in [Ordinal -> Nat], stops' \in Nat, Attempts',
         run.state = "succeeded" => run'.state = "succeeded",
         job'.status = "succeeded" => run'.state = "succeeded"
  PROVE  SInv' /\ Moved
  <1>1. TypeOK'
    BY DEF SInv, TypeOK
  <1>2. \A o \in Ordinal : Recorded(effect'[o])
    BY DEF SInv, Moved, Moves
  <1>3. \A w \in Worker : ReadAt(w)'
    BY StaysRead
  <1>4. Finished'
    BY DEF SInv, Finished, CompletedJobMeansSucceededRun
  <1> QED
    BY <1>1, <1>2, <1>3, <1>4 DEF SInv

LEMMA LapseMove ==
  ASSUME SInv, LeaseExpires \/ LeaseLapses
  PROVE  SInv' /\ Moved
  <1>1. /\ Leased /\ job' = Claimed(job.attempts, job.holder, "expired")
        /\ UNCHANGED <<effect, run, recovered, worker, creates, stops>>
    BY DEF LeaseExpires, LeaseLapses
  <1>2. job' \in Job /\ Attempts' /\ job'.status = "running"
    BY <1>1 DEF SInv, TypeOK, Leased, Claimed, Job, Attempts
  <1>3. /\ effect' \in [Ordinal -> Effect] /\ run' \in Run /\ recovered' \in BOOLEAN
        /\ creates' \in [Ordinal -> Nat] /\ stops' \in Nat
    BY <1>1 DEF SInv, TypeOK
  <1>4. Moved
    BY <1>1 DEF Moved, Moves
  <1> QED
    BY <1>1, <1>2, <1>3, <1>4, StillMove

LEMMA BootMove ==
  ASSUME SInv, NEW w \in Worker, Boot(w)
  PROVE  SInv' /\ Moved
  <1>1. /\ Become(w, At(w, "recover")) /\ UNCHANGED <<run, job, recovered, creates, stops>>
        /\ worker \in [Worker -> Process] /\ "recover" \in PC
        /\ run' \in Run /\ creates' \in [Ordinal -> Nat]
        /\ effect \in [Ordinal -> Effect]
    BY DEF Boot, Goto, SInv, TypeOK, PC
  <1>2. At(w, "recover") \in Process /\ At(w, "recover").pc = "recover"
    BY <1>1, AtFacts
  <1>3. effect' \in [Ordinal -> Effect] /\ Moved
    <2>1. CASE Leased
      <3>1. effect' = effect
        BY <1>1, <2>1 DEF Boot
      <3> QED
        BY <1>1, <3>1 DEF Moved, Moves
    <2>2. CASE ~Leased
      <3>1. effect' = [o \in Ordinal |-> IF effect[o].state \in {"creating"}
                                         THEN WrittenOff(effect[o]) ELSE effect[o]]
        BY <2>2 DEF Boot
      <3>2. {"creating"} \in SUBSET (EffectState \ Final)
        BY DEF EffectState, Final
      <3> QED
        BY <3>1, <3>2, WriteOffMoves
    <2> QED
      BY <2>1, <2>2
  <1> QED
    BY <1>1, <1>2, <1>3, HandlerMove DEF Reading

LEMMA MaintainMove ==
  ASSUME SInv, NEW w \in Worker, Maintain(w)
  PROVE  SInv' /\ Moved
  <1>1. /\ UNCHANGED <<creates, stops>> /\ stops' \in Nat /\ creates' \in [Ordinal -> Nat]
        /\ worker \in [Worker -> Process] /\ run \in Run /\ job \in Job
        /\ recovered \in BOOLEAN /\ effect \in [Ordinal -> Effect] /\ "idle" \in PC
    BY DEF Maintain, SInv, TypeOK, PC
  <1> DEFINE p == At(w, "idle")
  <1>2. p \in Process /\ p.pc = "idle"
    BY <1>1, AtFacts
  <1>3. Become(w, p) \/ UNCHANGED worker
    BY DEF Maintain, Goto
  <1>4. /\ effect' \in [Ordinal -> Effect] /\ Moved /\ run' \in Run /\ job' \in Job
        /\ recovered' \in BOOLEAN /\ Attempts'
        /\ run.state = "succeeded" => run'.state = "succeeded"
        /\ job'.status = "succeeded" => run'.state = "succeeded"
    <2>1. CASE Resume
      <3>1. /\ run' = RunIn("running", run.cause) /\ job' = Freed("queued", 0)
            /\ recovered' = TRUE /\ effect' = effect /\ run.state # "succeeded"
        BY <2>1 DEF Resume, Orphaned
      <3>2. run' \in Run
        BY <1>1, <3>1, RunInFacts DEF Run
      <3>3. job' \in Job /\ Attempts' /\ job'.status = "queued"
        BY <3>1, AttemptsAssumption DEF Freed, Job, Attempts
      <3>4. Moved
        BY <3>1 DEF Moved, Moves
      <3> QED
        BY <1>1, <3>1, <3>2, <3>3, <3>4
    <2>2. CASE CloseOrphan
      <3>1. UNCHANGED <<job, recovered>> /\ Orphaned
        BY <2>2 DEF CloseOrphan
      <3>2. effect' \in [Ordinal -> Effect] /\ Moved
        <4>1. effect' = [o \in Ordinal |-> IF effect[o].state \in Unresolved
                                           THEN WrittenOff(effect[o]) ELSE effect[o]]
          BY <2>2 DEF CloseOrphan
        <4>2. Unresolved \in SUBSET (EffectState \ Final)
          BY DEF Unresolved, EffectState, Final
        <4> QED
          BY <4>1, <4>2, WriteOffMoves
      <3>3. run' \in Run
        <4>1. run' = RunIn("ambiguous", "job") \/ run' = RunIn("failed", "job")
          BY <2>2 DEF CloseOrphan
        <4> QED
          BY <1>1, <4>1, RunInFacts DEF RunTerminal, Cause
      <3>4. run.state # "succeeded" /\ job.status = "failed"
        BY <3>1 DEF Orphaned
      <3> QED
        BY <1>1, <3>1, <3>2, <3>3, <3>4 DEF SInv, Attempts
    <2>3. CASE UNCHANGED <<effect, run, job, recovered>>
      BY <1>1, <2>3 DEF SInv, Attempts, Moved, Moves, Finished, CompletedJobMeansSucceededRun
    <2> QED
      BY <2>1, <2>2, <2>3 DEF Maintain
  <1> HIDE DEF p
  <1>5. CASE Become(w, p)
    BY <1>1, <1>2, <1>4, <1>5, WorkerStep DEF Reading
  <1>6. CASE UNCHANGED worker
    BY <1>1, <1>4, <1>6, StillMove
  <1> QED
    BY <1>3, <1>5, <1>6

LEMMA LifeMove ==
  ASSUME SInv, NEW w \in Worker, Stop(w) \/ Exit(w) \/ Crash(w)
  PROVE  SInv' /\ Moved
  <1>1. /\ worker \in [Worker -> Process] /\ worker[w].pc \in PC /\ stops' \in Nat
        /\ UNCHANGED <<effect, run, job, recovered, creates>>
        /\ effect' \in [Ordinal -> Effect] /\ run' \in Run /\ job' \in Job
        /\ recovered' \in BOOLEAN /\ creates' \in [Ordinal -> Nat]
    BY DEF SInv, TypeOK, Process, Stop, Exit, Crash
  <1>2. Moved /\ Attempts'
    BY <1>1 DEF SInv, Attempts, Moved, Moves
  <1>3. CASE Stop(w)
    <2> DEFINE p == [At(w, worker[w].pc) EXCEPT !.stopping = TRUE]
    <2>1. /\ p \in Process /\ p.pc = worker[w].pc /\ p.ordinal = worker[w].ordinal
          /\ p.revision = worker[w].revision
      BY <1>1, AtFacts, MarkedFacts
    <2>2. Become(w, p)
      BY <1>3 DEF Stop
    <2> HIDE DEF p
    <2>3. p.pc \in Reading =>
            /\ p.revision <= effect'[p.ordinal].revision
            /\ p.revision = effect'[p.ordinal].revision => Knows(p.pc, effect'[p.ordinal].state)
      BY <1>1, <2>1 DEF SInv, ReadAt
    <2>4. /\ p.pc = "complete" => run'.state = "succeeded"
          /\ job'.status = "succeeded" => run'.state = "succeeded"
      BY <1>1, <2>1 DEF SInv, Finished, CompletedJobMeansSucceededRun
    <2> QED
      BY <1>1, <1>2, <2>1, <2>2, <2>3, <2>4, WorkerStep
  <1>4. CASE Exit(w) \/ Crash(w)
    <2>1. Become(w, Down)
      BY <1>4 DEF Exit, Crash
    <2>2. job'.status = "succeeded" => run'.state = "succeeded"
      BY <1>1 DEF SInv, Finished, CompletedJobMeansSucceededRun
    <2> QED
      BY <1>1, <1>2, <2>1, <2>2, DownFacts, WorkerStep DEF Reading
  <1> QED
    BY <1>3, <1>4
-------------------------------------------------------------------------------
(***************************************************************************)
(* The invariant, and what follows from it.                                *)
(***************************************************************************)
LEMMA StallStep ==
  ASSUME SInv, [StallNext]_vars
  PROVE  SInv' /\ Moved
  <1>1. CASE LeaseExpires \/ LeaseLapses
    BY <1>1, LapseMove
  <1>2. ASSUME NEW w \in Worker, Handle(w) \/ Late(w)
        PROVE  SInv' /\ Moved
    BY <1>2, BeginMove, LoadMove, FenceMove, PostMove, AnswerMove, PollMove, RetreatMove,
       QuarantinePendingMove, TerminalizeMove, ApplyMove, ReleaseMove, LostRunMove
    DEF Handle, Late
  <1>3. ASSUME NEW w \in Worker, Work(w) \/ Stop(w) \/ Crash(w)
        PROVE  SInv' /\ Moved
    BY <1>2, <1>3, ClaimMove, RecoverExpiredMove, MaintainMove, BootMove, LifeMove DEF Work
  <1>4. CASE UNCHANGED vars
    BY <1>4 DEF vars, SInv, TypeOK, Attempts, ReadAt, Finished, CompletedJobMeansSucceededRun,
                Moved, Moves
  <1> QED
    BY <1>1, <1>2, <1>3, <1>4 DEF StallNext, Next

LEMMA StallInvariance == StallSpec => []SInv
  <1>1. Init => SInv
    BY SuspensionInit
  <1>2. SInv /\ [StallNext]_vars => SInv'
    BY StallStep
  <1> QED
    BY <1>1, <1>2, PTL DEF StallSpec

\* A behaviour in which no process is suspended is one in which some may be.
LEMMA SpecIsStallSpec == Spec => StallSpec
  <1>1. [Next]_vars => [StallNext]_vars
    BY DEF StallNext
  <1> QED
    BY <1>1, PTL DEF Spec, StallSpec

\* The types, also when workers overtake each other.
THEOREM TypeCorrectWhenSuspended == StallSpec => []TypeOK
  <1>1. SInv => TypeOK
    BY DEF SInv
  <1> QED
    BY <1>1, StallInvariance, PTL

\* The job store counts a job as done only if its run succeeded, whoever
\* reports it and however late.
THEOREM CompletionIsEarned == StallSpec => []CompletedJobMeansSucceededRun
  <1>1. SInv => CompletedJobMeansSucceededRun
    BY DEF SInv, Finished
  <1> QED
    BY <1>1, StallInvariance, PTL

\* What is on record about a request is final, and so is the response it is
\* polled for, also against a worker that was suspended and comes back.
THEOREM ReceiptsAreFinal == StallSpec => ReceiptIsFinal
  <1> DEFINE Kept == \A o \in Ordinal :
        /\ effect[o].state \in {"succeeded", "rejected", "ambiguous"} => effect'[o] = effect[o]
        /\ effect[o].responseId # 0 => effect'[o].responseId = effect[o].responseId
  <1>1. SInv /\ [StallNext]_vars => Kept
    <2> SUFFICES ASSUME SInv, [StallNext]_vars PROVE Kept
      OBVIOUS
    <2>1. Moved
      BY StallStep
    <2> QED
      BY <2>1 DEF Moved, Moves, Final
  <1> HIDE DEF Kept
  <1>2. StallSpec => [][Kept]_vars
    BY <1>1, StallInvariance, PTL DEF StallSpec
  <1> QED
    BY <1>2 DEF ReceiptIsFinal, Kept
===============================================================================
