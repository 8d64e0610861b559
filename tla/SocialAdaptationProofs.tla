------------------------ MODULE SocialAdaptationProofs ------------------------
(***************************************************************************)
(* Proofs about SocialAdaptation, for every set of workers and of wordings *)
(* and for every number of attempts.  Suspension is among the steps, so a  *)
(* worker in the handler need not hold its lease.                          *)
(*                                                                         *)
(* What makes the properties inductive is that whoever still holds the     *)
(* lease works on a pending adaptation (HoldersWork), of which a post has  *)
(* at most one (OnePending), that a receipt is uncertain from before its   *)
(* request is sent until the sender has written down the answer            *)
(* (SenderIsAlone), and that the revision of a receipt tells how far it is *)
(* (RevisionTells), so that nobody but the sender writes the answer.       *)
(***************************************************************************)
EXTENDS SocialAdaptation, TLAPS

\* Parts of the handler that act for an adaptation found pending.
Active == {"load", "quarantine", "prepared", "fenced", "posted", "poll", "apply", "pending",
           "caught"}

\* The attempts of a job, and what the handler knows of them.
Attempts ==
    /\ \A t \in Text :
        /\ job[t].status = "queued" => job[t].tries < MaxAttempts
        /\ job[t].status = "failed" => job[t].tries = MaxAttempts
    /\ \A w \in Worker : worker[w].pc \in Active \cup {"begin"} /\ Holds(w) =>
            worker[w].attempt = job[worker[w].text].tries

HoldersWork ==
    \A w \in Worker : worker[w].pc \in Active /\ Holds(w) =>
        adaptation[worker[w].text] = "pending"

\* A pending adaptation is the only one, and no other wording is uncertain.
OnePending ==
    /\ \A t, s \in Text : t # s /\ adaptation[t] = "pending" =>
            adaptation[s] # "pending"
    /\ \A t, s \in Text, o \in Ordinal :
            t # s /\ adaptation[t] = "pending" => effect[<<s, o>>].state \notin Uncertain
    /\ \A t, s \in Text, o, p \in Ordinal :
            effect[<<t, o>>].state \in Uncertain /\ effect[<<s, p>>].state \in Uncertain =>
                t = s

RemovedIsEmpty ==
    post.state = "removed" =>
        /\ \A t \in Text : adaptation[t] = "none"
        /\ \A q \in Request : effect[q].state = "absent"

RevisionTells ==
    /\ \A q \in Request :
        /\ effect[q].state = "prepared" => effect[q].revision = 1
        /\ effect[q].state = "creating" => effect[q].revision = 2
        /\ effect[q].state \in Polled => effect[q].revision >= 3
        /\ effect[q].output # "none" => effect[q].state = "succeeded"
    /\ \A w \in Worker :
        /\ worker[w].pc = "prepared" => worker[w].revision = 1
        /\ worker[w].pc \in {"fenced", "posted"} => worker[w].revision = 2
        /\ worker[w].pc = "poll" => worker[w].revision >= 3

SenderIsAlone ==
    /\ \A q \in Request :
        /\ creates[q] <= 1
        /\ creates[q] # 0 /\ post.state # "removed" =>
                effect[q].state \notin {"absent", "prepared"}
    /\ \A w \in Worker :
        /\ worker[w].pc = "fenced" => creates[Asked(w)] = 0 /\ Current(w).state \in Uncertain
        /\ worker[w].pc = "posted" => creates[Asked(w)] = 1
    /\ \A w, v \in Worker :
        worker[w].pc = "fenced" /\ worker[v].pc = "fenced" /\ Asked(w) = Asked(v) => w = v

IInv ==
    /\ TypeOK
    /\ Attempts
    /\ HoldersWork
    /\ OnePending
    /\ RemovedIsEmpty
    /\ RevisionTells
    /\ SenderIsAlone

\* What a worker in the handler may do next.
Continues(w, p) ==
    /\ p \in Process
    /\ p.text = worker[w].text
    /\ p.attempt = worker[w].attempt
    /\ p.pc \in Active \cup {"complete", "retry"}
    /\ p.pc # "posted"
    /\ p.pc = "fenced" => p.ordinal = worker[w].ordinal /\ p.revision = 2
    /\ p.pc = "prepared" => p.revision = 1
    /\ p.pc = "poll" => p.revision >= 3

LEMMA EndsContinues ==
  ASSUME IInv, NEW w \in Worker,
         NEW pc \in {"apply", "pending", "caught", "complete", "retry"}
  PROVE  Continues(w, Ends(w, pc)) /\ Ends(w, pc).pc = pc
  BY SMT DEF IInv, TypeOK, Continues, Ends, Process, Ordinal, Active

LEMMA ReadsContinues ==
  ASSUME IInv, NEW w \in Worker, NEW r \in Nat,
         NEW pc \in {"load", "quarantine", "prepared", "fenced", "poll"},
         pc = "prepared" => r = 1,
         pc = "fenced" => r = 2,
         pc = "poll" => r >= 3
  PROVE  Continues(w, Reads(w, pc, r)) /\ Reads(w, pc, r).pc = pc
  BY SMT DEF IInv, TypeOK, Continues, Reads, Process, Active

LEMMA JudgedContinues ==
  ASSUME IInv, NEW w \in Worker, NEW output
  PROVE  Continues(w, Judged(w, output)) /\ Judged(w, output).pc \in {"load", "apply", "caught"}
  <1>1. Continues(w, Corrects(w)) /\ Corrects(w).pc = "load"
    BY SMT DEF IInv, TypeOK, Continues, Corrects, Process, Active, Ordinal
  <1> QED
    BY <1>1, EndsContinues DEF Judged

\* A step of the handler that writes nothing.
LEMMA MoveKeeps ==
  ASSUME IInv, NEW w \in Worker, NEW p, Continues(w, p), p.pc # "fenced",
         \/ worker[w].pc \in Active
         \/ worker[w].pc = "begin" /\ adaptation[worker[w].text] = "pending"
         \/ worker[w].pc = "begin" /\ p.pc \notin Active,
         Become(w, p), UNCHANGED post, UNCHANGED adaptation, UNCHANGED job,
         UNCHANGED effect, UNCHANGED creates
  PROVE  IInv'
  <1> USE DEF IInv, Continues, Become
  <1>1. TypeOK'
    BY SMT DEF TypeOK
  <1>2. Attempts'
    BY SMT DEF TypeOK, Process, Attempts, Holds, Active
  <1>3. HoldersWork'
    BY SMT DEF TypeOK, Process, HoldersWork, Holds, Active
  <1>4. OnePending'
    BY SMT DEF OnePending
  <1>5. RemovedIsEmpty'
    BY SMT DEF RemovedIsEmpty
  <1>6. RevisionTells'
    BY SMT DEF RevisionTells, TypeOK
  <1>7. SenderIsAlone'
    BY SMT DEF SenderIsAlone, TypeOK, Process, Asked, Current
  <1> QED
    BY <1>1, <1>2, <1>3, <1>4, <1>5, <1>6, <1>7

\* A step of the handler that writes the receipt of its request.
LEMMA WriteKeeps ==
  ASSUME IInv, NEW w \in Worker, NEW p, Continues(w, p), worker[w].pc \in Active, Fenced(w),
         NEW e \in Effect,
         effect' = [effect EXCEPT ![Asked(w)] = e],
         e.state # "absent",
         e.state = "prepared" => Current(w).state = "absent" /\ e.revision = 1,
         e.state = "creating" => Current(w).state = "prepared" /\ e.revision = 2,
         e.state \in Polled => e.revision >= 3,
         e.output # "none" => e.state = "succeeded",
         Current(w).state # "ambiguous",
         Current(w).state = "creating" => e.state = "ambiguous" \/ worker[w].pc = "posted",
         p.pc = "fenced" => e.state = "creating",
         Become(w, p), UNCHANGED post, UNCHANGED adaptation, UNCHANGED job, UNCHANGED creates
  PROVE  IInv'
  <1> USE DEF IInv, Continues, Become
  <1>q. /\ Asked(w) \in Request /\ Asked(w) = <<worker[w].text, worker[w].ordinal>>
        /\ worker[w].text \in Text /\ worker[w].ordinal \in Ordinal
    BY SMT DEF TypeOK, Process, Request, Asked
  <1>1. TypeOK'
    BY <1>q, SMT DEF TypeOK
  <1>2. Attempts'
    BY SMT DEF TypeOK, Process, Attempts, Holds, Active
  <1>3. HoldersWork'
    BY SMT DEF TypeOK, Process, HoldersWork, Holds, Active
  <1>a. adaptation[worker[w].text] = "pending"
    BY DEF HoldersWork, Fenced
  <1>4. OnePending'
    BY <1>q, <1>a, SMT DEF OnePending, TypeOK, Request
  <1>5. RemovedIsEmpty'
    BY <1>a, <1>q, SMT DEF RemovedIsEmpty
  <1>6. RevisionTells'
    BY <1>q, SMT DEF RevisionTells, TypeOK
  <1>7. SenderIsAlone'
    <2>1. post.state # "removed"
      BY <1>a, <1>q DEF RemovedIsEmpty
    <2>2. ASSUME NEW q \in Request
          PROVE  /\ creates'[q] <= 1
                 /\ creates'[q] # 0 => effect'[q].state \notin {"absent", "prepared"}
      BY <1>q, <2>1, SMT DEF SenderIsAlone, TypeOK, Current
    <2>w. worker'[w] = p
      BY DEF TypeOK
    <2>v. ASSUME NEW v \in Worker, v # w
          PROVE  worker'[v] = worker[v] /\ Asked(v)' = Asked(v) /\ Asked(v) \in Request
      BY <2>v, SMT DEF TypeOK, Asked, Process, Request
    <2>3. ASSUME NEW v \in Worker, worker'[v].pc = "fenced"
          PROVE  creates'[Asked(v)'] = 0 /\ Current(v)'.state \in Uncertain
      <3>1. CASE v = w
        <4>1. Asked(v)' = Asked(w) /\ e.state = "creating" /\ Current(w).state = "prepared"
          BY <2>3, <2>w, <3>1, <1>q DEF Asked
        <4>2. creates[Asked(w)] = 0
          BY <4>1, <2>1, <1>q DEF SenderIsAlone, Current
        <4> QED
          BY <4>1, <4>2, <1>q DEF Current, Uncertain, TypeOK
      <3>2. CASE v # w
        <4>1. worker[v].pc = "fenced" /\ creates[Asked(v)] = 0 /\ Current(v).state \in Uncertain
          BY <2>3, <2>v, <3>2 DEF SenderIsAlone
        <4>2. CASE Asked(v) = Asked(w)
          <5>1. worker[w].pc # "posted"
            BY <4>1, <4>2 DEF SenderIsAlone
          <5>2. e.state = "ambiguous"
            BY <4>1, <4>2, <5>1, <1>q, SMT DEF Current, Uncertain, Effect
          <5> QED
            BY <4>1, <4>2, <5>2, <2>v, <3>2, <1>q DEF Current, Uncertain, TypeOK
        <4>3. CASE Asked(v) # Asked(w)
          BY <4>1, <4>3, <2>v, <3>2, <1>q DEF Current, TypeOK
        <4> QED
          BY <4>2, <4>3
      <3> QED
        BY <3>1, <3>2
    <2>4. ASSUME NEW v \in Worker, worker'[v].pc = "posted"
          PROVE  creates'[Asked(v)'] = 1
      <3>1. v # w
        BY <2>4, <2>w
      <3> QED
        BY <2>4, <2>v, <3>1 DEF SenderIsAlone
    <2>5. ASSUME NEW v \in Worker, v # w, worker'[w].pc = "fenced", worker'[v].pc = "fenced",
                 Asked(w)' = Asked(v)'
          PROVE  FALSE
      <3>1. Asked(v) = Asked(w) /\ Current(w).state = "prepared" /\ worker[v].pc = "fenced"
        BY <2>5, <2>w, <2>v, <1>q DEF Asked
      <3> QED
        BY <3>1 DEF SenderIsAlone, Current, Uncertain
    <2>6. ASSUME NEW u \in Worker, NEW v \in Worker, worker'[u].pc = "fenced",
                 worker'[v].pc = "fenced", Asked(u)' = Asked(v)'
          PROVE  u = v
      BY <2>5, <2>6, <2>v DEF SenderIsAlone
    <2> QED
      BY <2>2, <2>3, <2>4, <2>6 DEF SenderIsAlone
  <1> QED
    BY <1>1, <1>2, <1>3, <1>4, <1>5, <1>6, <1>7

\* A compare-and-swap on the receipt, or its failure.
LEMMA TransitionKeeps ==
  ASSUME IInv, NEW w \in Worker, worker[w].pc \in Active,
         NEW state \in {"creating", "submitted", "polling", "succeeded", "rejected",
                        "ambiguous"},
         NEW output \in {"none", "valid", "invalid"}, output # "none" => state = "succeeded",
         NEW after, Continues(w, after), after.pc = "fenced" => state = "creating",
         \/ state = "ambiguous"
         \/ state = "creating"
         \/ worker[w].pc = "posted"
         \/ worker[w].revision >= 3,
         Transition(w, state, output, after), UNCHANGED <<post, adaptation, job, creates>>
  PROVE  IInv'
  <1> DEFINE e == [state |-> state, revision |-> worker[w].revision + 1, output |-> output]
  <1>1. CASE Swaps(w, state) /\ effect' = [effect EXCEPT ![Asked(w)] = e] /\ Become(w, after)
    <2>1. e \in Effect /\ worker[w].revision \in Nat /\ Asked(w) \in Request
      BY SMT DEF IInv, TypeOK, Effect, Process, Polled, Uncertain, Final, Asked, Request
    <2>2. e.state = state /\ e.revision = worker[w].revision + 1 /\ e.output = output
      OBVIOUS
    <2>3. /\ Fenced(w)
          /\ Current(w).revision = worker[w].revision
          /\ \/ Current(w).state = "prepared" /\ state = "creating"
             \/ Current(w).state = "creating" /\ state \in {"submitted", "rejected", "ambiguous"}
             \/ /\ Current(w).state \in Polled
                /\ state \in {"polling", "succeeded", "rejected", "ambiguous"}
      BY <1>1 DEF Swaps, Allowed
    <2>4. /\ Current(w).state = "prepared" => worker[w].revision = 1
          /\ Current(w).state = "creating" => worker[w].revision = 2
          /\ Current(w).state \in Polled => worker[w].revision >= 3
      BY <2>1, <2>3 DEF IInv, RevisionTells, Current
    <2>5. /\ e.state # "absent"
          /\ e.state = "prepared" => Current(w).state = "absent" /\ e.revision = 1
          /\ e.state = "creating" => Current(w).state = "prepared" /\ e.revision = 2
          /\ e.state \in Polled => e.revision >= 3
          /\ Current(w).state # "ambiguous"
          /\ Current(w).state = "creating" => e.state = "ambiguous" \/ worker[w].pc = "posted"
      <3> HIDE DEF e
      <3> QED
        BY <2>1, <2>2, <2>3, <2>4, SMT DEF Polled
    <2> HIDE DEF e
    <2> QED
      BY <1>1, <2>1, <2>2, <2>3, <2>5, WriteKeeps
  <1>2. CASE UNCHANGED effect /\ Become(w, Ends(w, "caught"))
    <2>1. Continues(w, Ends(w, "caught")) /\ Ends(w, "caught").pc = "caught"
      BY EndsContinues
    <2> QED
      BY <1>2, <2>1, MoveKeeps
  <1> QED
    BY <1>1, <1>2 DEF Transition

\* A step of the handler that settles its adaptation.
LEMMA SettleKeeps ==
  ASSUME IInv, NEW w \in Worker, worker[w].pc \in Active, Fenced(w),
         NEW outcome \in {"complete", "failed"},
         adaptation' = [adaptation EXCEPT ![worker[w].text] = outcome],
         Become(w, Ends(w, "complete")),
         UNCHANGED post, UNCHANGED job, UNCHANGED effect, UNCHANGED creates
  PROVE  IInv'
  <1> USE DEF IInv, Become, Ends
  <1>1. TypeOK'
    BY SMT DEF TypeOK, Process, Ordinal
  <1>2. Attempts'
    BY SMT DEF TypeOK, Process, Attempts, Holds, Active
  <1>3. HoldersWork'
    BY SMT DEF TypeOK, Process, HoldersWork, Holds, Active, Fenced
  <1>4. OnePending'
    BY SMT DEF OnePending, TypeOK, Process
  <1>5. RemovedIsEmpty'
    BY SMT DEF RemovedIsEmpty, HoldersWork, Fenced, TypeOK, Process
  <1>6. RevisionTells'
    BY SMT DEF RevisionTells, TypeOK
  <1>7. SenderIsAlone'
    BY SMT DEF SenderIsAlone, TypeOK, Process, Asked, Current
  <1> QED
    BY <1>1, <1>2, <1>3, <1>4, <1>5, <1>6, <1>7

\* The steps of the owner.
LEMMA PostKeeps ==
  ASSUME IInv, Create \/ \E t \in Text : Save(t)
  PROVE  IInv'
  <1> USE DEF IInv, Create, Save
  <1>1. TypeOK'
    BY SMT DEF TypeOK, Post
  <1>2. Attempts'
    BY SMT DEF Attempts, Holds
  <1>3. HoldersWork'
    BY SMT DEF HoldersWork, Holds
  <1>4. OnePending'
    BY SMT DEF OnePending
  <1>5. RemovedIsEmpty'
    BY SMT DEF RemovedIsEmpty
  <1>6. RevisionTells'
    BY SMT DEF RevisionTells
  <1>7. SenderIsAlone'
    BY SMT DEF SenderIsAlone, Asked, Current
  <1> QED
    BY <1>1, <1>2, <1>3, <1>4, <1>5, <1>6, <1>7

LEMMA AdmitKeeps ==
  ASSUME IInv, Admit
  PROVE  IInv'
  <1>0. post.text \in Text /\ MaxAttempts > 0 /\ 0 \in 0..MaxAttempts
    BY AttemptsAssumption DEF IInv, TypeOK, Post
  <1> USE DEF IInv, Admit
  <1>1. TypeOK'
    BY <1>0, SMT DEF TypeOK, Job, Noted
  <1>2. Attempts'
    BY <1>0, SMT DEF Attempts, TypeOK, Process, Holds
  <1>3. HoldersWork'
    BY <1>0, SMT DEF HoldersWork, TypeOK, Process, Noted, Holds
  <1>4. OnePending'
    BY <1>0, SMT DEF OnePending, TypeOK, Noted, Request
  <1>5. RemovedIsEmpty'
    BY <1>0, SMT DEF RemovedIsEmpty
  <1>6. RevisionTells'
    BY <1>0, SMT DEF RevisionTells
  <1>7. SenderIsAlone'
    BY <1>0, SMT DEF SenderIsAlone, Asked, Current
  <1> QED
    BY <1>1, <1>2, <1>3, <1>4, <1>5, <1>6, <1>7

LEMMA RemoveKeeps ==
  ASSUME IInv, Remove
  PROVE  IInv'
  <1> USE DEF IInv, Remove
  <1>1. TypeOK'
    BY SMT DEF TypeOK, Post, Effect, NoEffect
  <1>2. Attempts'
    BY SMT DEF Attempts, Holds
  <1>3. HoldersWork'
    BY SMT DEF HoldersWork, TypeOK, Process, Removable, Holds
  <1>4. OnePending'
    BY SMT DEF OnePending, TypeOK, Request, NoEffect, Uncertain
  <1>5. RemovedIsEmpty'
    BY SMT DEF RemovedIsEmpty, TypeOK, NoEffect
  <1>6. RevisionTells'
    BY SMT DEF RevisionTells, TypeOK, NoEffect, Polled
  <1>7. SenderIsAlone'
    BY SMT DEF SenderIsAlone, TypeOK, Process, Request, Asked, Current, Removable
  <1> QED
    BY <1>1, <1>2, <1>3, <1>4, <1>5, <1>6, <1>7

\* The steps of the job store and of the processes.
LEMMA ClaimKeeps ==
  ASSUME IInv, NEW w \in Worker, NEW t \in Text, Claim(w, t)
  PROVE  IInv'
  <1> USE DEF IInv, Claim
  <1>1. TypeOK'
    BY AttemptsAssumption, SMT DEF TypeOK, Attempts, Job, Process, Ordinal
  <1>2. Attempts'
    BY SMT DEF Attempts, TypeOK, Process, Active, Holds
  <1>3. HoldersWork'
    BY SMT DEF HoldersWork, TypeOK, Process, Active, Holds
  <1>4. OnePending'
    BY SMT DEF OnePending
  <1>5. RemovedIsEmpty'
    BY SMT DEF RemovedIsEmpty
  <1>6. RevisionTells'
    BY SMT DEF RevisionTells, TypeOK
  <1>7. SenderIsAlone'
    BY SMT DEF SenderIsAlone, TypeOK, Process, Asked, Current
  <1> QED
    BY <1>1, <1>2, <1>3, <1>4, <1>5, <1>6, <1>7

LEMMA StopKeeps ==
  ASSUME IInv, NEW w \in Worker, Stop(w)
  PROVE  IInv'
  <1> USE DEF IInv, Stop, Signalled
  <1>1. TypeOK'
    BY SMT DEF TypeOK, Process
  <1>2. Attempts'
    BY SMT DEF Attempts, TypeOK, Process, Holds
  <1>3. HoldersWork'
    BY SMT DEF HoldersWork, TypeOK, Process, Holds
  <1>4. OnePending'
    BY SMT DEF OnePending
  <1>5. RemovedIsEmpty'
    BY SMT DEF RemovedIsEmpty
  <1>6. RevisionTells'
    BY SMT DEF RevisionTells, TypeOK
  <1>7. SenderIsAlone'
    BY SMT DEF SenderIsAlone, TypeOK, Process, Asked, Current
  <1> QED
    BY <1>1, <1>2, <1>3, <1>4, <1>5, <1>6, <1>7

\* A job that is not running, and perhaps a worker with nothing to do.
LEMMA ParkKeeps ==
  ASSUME IInv, NEW t \in Text, NEW j \in Job, j.status # "running",
         j.status = "queued" => j.tries < MaxAttempts,
         j.status = "failed" => j.tries = MaxAttempts,
         job' = job \/ job' = [job EXCEPT ![t] = j],
         worker' = worker \/ \E w \in Worker : worker' = [worker EXCEPT ![w] = Idle],
         UNCHANGED post, UNCHANGED adaptation, UNCHANGED effect, UNCHANGED creates
  PROVE  IInv'
  <1>0. Idle \in Process /\ Idle.pc = "idle"
    BY TextAssumption, AttemptsAssumption, SMT DEF Idle, Draft, Process, Ordinal
  <1>t. worker \in [Worker -> Process] /\ job \in [Text -> Job]
    BY DEF IInv, TypeOK
  <1>p. \A v \in Worker : worker'[v] = worker[v] \/ worker'[v] = Idle
    BY <1>t
  <1>j. \A s \in Text : job'[s] = job[s] \/ (s = t /\ job'[s] = j)
    BY <1>t
  <1>h. \A v \in Worker : worker'[v] = worker[v] /\ Holds(v)' =>
            Holds(v) /\ (worker[v].text \in Text => job'[worker[v].text] = job[worker[v].text])
    BY <1>j, SMT DEF Holds, IInv, TypeOK, Process
  <1> USE DEF IInv
  <1>1. TypeOK'
    <2>1. job' \in [Text -> Job]
      BY <1>t
    <2>2. worker' \in [Worker -> Process]
      BY <1>t, <1>0
    <2> QED
      BY <2>1, <2>2 DEF TypeOK
  <1>2. Attempts'
    <2>1. ASSUME NEW s \in Text
          PROVE  /\ job'[s].status = "queued" => job'[s].tries < MaxAttempts
                 /\ job'[s].status = "failed" => job'[s].tries = MaxAttempts
      BY <1>j DEF Attempts
    <2>2. ASSUME NEW v \in Worker, worker'[v].pc \in Active \cup {"begin"}, Holds(v)'
          PROVE  worker'[v].attempt = job'[worker'[v].text].tries
      <3>1. worker'[v] = worker[v]
        BY <1>0, <1>p, <2>2 DEF Active
      <3>2. worker[v].text \in Text
        BY <1>t DEF Process
      <3> QED
        BY <1>h, <2>2, <3>1, <3>2 DEF Attempts
    <2> QED
      BY <2>1, <2>2 DEF Attempts
  <1>3. HoldersWork'
    BY <1>0, <1>p, <1>j, <1>h, SMT DEF HoldersWork, TypeOK, Process, Active
  <1>4. OnePending'
    BY <1>0, <1>p, <1>j, <1>h, SMT DEF OnePending
  <1>5. RemovedIsEmpty'
    BY <1>0, <1>p, <1>j, <1>h, SMT DEF RemovedIsEmpty
  <1>6. RevisionTells'
    BY <1>0, <1>p, <1>j, <1>h, SMT DEF RevisionTells
  <1>7. SenderIsAlone'
    BY <1>0, <1>p, <1>j, <1>h, SMT DEF SenderIsAlone, Asked, Current
  <1> QED
    BY <1>1, <1>2, <1>3, <1>4, <1>5, <1>6, <1>7

LEMMA RequeuedFacts ==
  ASSUME IInv, NEW t \in Text
  PROVE  /\ Requeued(t) \in Job /\ Requeued(t).status # "running"
         /\ Requeued(t).status = "queued" => Requeued(t).tries < MaxAttempts
         /\ Requeued(t).status = "failed" => Requeued(t).tries = MaxAttempts
  <1>1. job[t].tries \in 0..MaxAttempts /\ MaxAttempts \in Nat
    BY AttemptsAssumption DEF IInv, TypeOK, Job
  <1> QED
    BY <1>1, SMT DEF Requeued, Job

LEMMA RecoverKeeps ==
  ASSUME IInv, NEW t \in Text, RecoverExpired(t) \/ Lapse(t)
  PROVE  IInv'
  <1>1. job' = [job EXCEPT ![t] = Requeued(t)]
    BY DEF RecoverExpired, Lapse
  <1> QED
    BY <1>1, RequeuedFacts, ParkKeeps DEF RecoverExpired, Lapse

LEMMA PruneJobKeeps ==
  ASSUME IInv, NEW t \in Text, PruneJob(t)
  PROVE  IInv'
  <1>1. NoJob \in Job /\ NoJob.status = "absent"
    BY AttemptsAssumption, SMT DEF NoJob, Job
  <1> QED
    BY <1>1, ParkKeeps DEF PruneJob

LEMMA CrashKeeps ==
  ASSUME IInv, NEW w \in Worker, Crash(w)
  PROVE  IInv'
  <1>1. worker[w].text \in Text
    BY DEF IInv, TypeOK, Process
  <1> QED
    BY <1>1, RequeuedFacts, ParkKeeps DEF Crash

LEMMA ReleaseKeeps ==
  ASSUME IInv, NEW w \in Worker, Release(w)
  PROVE  IInv'
  <1> DEFINE t == worker[w].text
             done == [status |-> "succeeded", tries |-> job[t].tries, holder |-> Nobody]
  <1>1. t \in Text /\ done \in Job /\ done.status = "succeeded"
    BY DEF IInv, TypeOK, Process, Job
  <1>2. \/ job' = job
        \/ job' = [job EXCEPT ![t] = Requeued(t)]
        \/ job' = [job EXCEPT ![t] = done]
    BY DEF Release
  <1>3. /\ worker' = [worker EXCEPT ![w] = Idle]
        /\ UNCHANGED <<post, adaptation, effect, creates>>
    BY DEF Release
  <1> HIDE DEF t, done
  <1>4. CASE job' = [job EXCEPT ![t] = done]
    BY <1>1, <1>3, <1>4, ParkKeeps
  <1>5. CASE job' = job \/ job' = [job EXCEPT ![t] = Requeued(t)]
    BY <1>1, <1>3, <1>5, RequeuedFacts, ParkKeeps
  <1> QED
    BY <1>2, <1>4, <1>5

\* The steps of the handler.
LEMMA BeginKeeps ==
  ASSUME IInv, NEW w \in Worker, Begin(w)
  PROVE  IInv'
  <1>1. CASE adaptation[worker[w].text] = "pending" /\ Become(w, At(w, "load"))
    <2>1. worker[w].revision \in Nat
      BY DEF IInv, TypeOK, Process
    <2>2. Continues(w, At(w, "load")) /\ At(w, "load").pc = "load"
      BY <2>1, ReadsContinues DEF At
    <2> QED
      BY <1>1, <2>2, MoveKeeps DEF Begin
  <1>2. ASSUME NEW pc \in {"complete", "retry"}, Become(w, Ends(w, pc))
        PROVE  IInv'
    BY <1>2, EndsContinues, MoveKeeps DEF Begin, Active
  <1> QED
    BY <1>1, <1>2 DEF Begin

LEMMA LoadKeeps ==
  ASSUME IInv, NEW w \in Worker, Load(w)
  PROVE  IInv'
  <1>1. /\ worker[w].pc = "load" /\ worker[w].pc \in Active
        /\ UNCHANGED <<post, adaptation, job, creates>>
    BY DEF Load, Active
  <1>2. Asked(w) \in Request /\ Current(w).revision \in Nat
    BY SMT DEF IInv, TypeOK, Process, Effect, Asked, Current, Request
  <1>3. ASSUME UNCHANGED effect, NEW pc \in {"pending", "caught"}, Become(w, Ends(w, pc))
        PROVE  IInv'
    BY <1>1, <1>3, EndsContinues, MoveKeeps
  <1>4. ASSUME UNCHANGED effect, NEW pc \in {"prepared", "quarantine", "poll"},
               Become(w, Seen(w, pc)),
               pc = "prepared" => Current(w).state = "prepared",
               pc = "poll" => Current(w).state \in Polled
        PROVE  IInv'
    <2>1. /\ pc = "prepared" => Current(w).revision = 1
          /\ pc = "poll" => Current(w).revision >= 3
      BY <1>2, <1>4 DEF IInv, RevisionTells, Current
    <2>2. Continues(w, Seen(w, pc)) /\ Seen(w, pc).pc = pc
      BY <1>2, <2>1, ReadsContinues DEF Seen
    <2> QED
      BY <1>1, <1>4, <2>2, MoveKeeps
  <1>5. CASE UNCHANGED effect /\ Become(w, Judged(w, Current(w).output))
    BY <1>1, <1>5, JudgedContinues, MoveKeeps
  <1>6. ASSUME Current(w).state = "absent", Fenced(w), Become(w, Reads(w, "prepared", 1)),
               effect' = [effect EXCEPT ![Asked(w)] =
                            [state |-> "prepared", revision |-> 1, output |-> "none"]]
        PROVE  IInv'
    <2> DEFINE e == [state |-> "prepared", revision |-> 1, output |-> "none"]
    <2>1. e \in Effect /\ e.state = "prepared" /\ e.revision = 1 /\ e.output = "none"
          /\ effect' = [effect EXCEPT ![Asked(w)] = e]
      BY <1>6 DEF Effect
    <2>2. Continues(w, Reads(w, "prepared", 1)) /\ Reads(w, "prepared", 1).pc = "prepared"
      BY ReadsContinues
    <2> HIDE DEF e
    <2> QED
      BY <1>1, <1>6, <2>1, <2>2, WriteKeeps DEF Polled
  <1> QED
    BY <1>1, <1>3, <1>4, <1>5, <1>6 DEF Load

LEMMA QuarantineKeeps ==
  ASSUME IInv, NEW w \in Worker, Quarantine(w)
  PROVE  IInv'
  <1>1. Continues(w, Ends(w, "caught")) /\ Ends(w, "caught").pc = "caught"
    BY EndsContinues
  <1> QED
    BY <1>1, TransitionKeeps DEF Quarantine, Active

LEMMA FenceKeeps ==
  ASSUME IInv, NEW w \in Worker, Fence(w)
  PROVE  IInv'
  <1>1. worker[w].revision = 1
    BY DEF Fence, IInv, RevisionTells
  <1>2. Continues(w, Advances(w, "fenced"))
    BY <1>1, ReadsContinues DEF Advances
  <1> QED
    BY <1>2, TransitionKeeps DEF Fence, Active

LEMMA SendKeeps ==
  ASSUME IInv, NEW w \in Worker, Send(w)
  PROVE  IInv'
  <1>0. Asked(w) \in Request /\ Asked(w)' = Asked(w) /\ worker'[w].pc = "posted"
    BY SMT DEF IInv, TypeOK, Process, Asked, Request, Send, Become, At, Reads
  <1> USE DEF IInv, Send, Become, At, Reads
  <1>1. TypeOK'
    BY <1>0, SMT DEF TypeOK, Process
  <1>2. Attempts'
    BY SMT DEF Attempts, TypeOK, Process, Holds, Active
  <1>3. HoldersWork'
    BY SMT DEF HoldersWork, TypeOK, Process, Holds, Active
  <1>4. OnePending'
    BY SMT DEF OnePending
  <1>5. RemovedIsEmpty'
    BY SMT DEF RemovedIsEmpty
  <1>6. RevisionTells'
    BY SMT DEF RevisionTells, TypeOK
  <1>7. SenderIsAlone'
    <2>0. /\ creates[Asked(w)] = 0 /\ Current(w).state \in Uncertain
          /\ creates \in [Request -> Nat]
          /\ creates'[Asked(w)] = 1
          /\ \A q \in Request : q # Asked(w) => creates'[q] = creates[q]
      <3>1. creates[Asked(w)] = 0 /\ Current(w).state \in Uncertain
        BY DEF SenderIsAlone
      <3>2. creates \in [Request -> Nat]
        BY DEF TypeOK
      <3> QED
        BY <1>0, <3>1, <3>2
    <2>v. ASSUME NEW v \in Worker, v # w
          PROVE  worker'[v] = worker[v] /\ Asked(v)' = Asked(v) /\ Current(v)' = Current(v)
                 /\ Asked(v) \in Request
      BY <2>v, SMT DEF TypeOK, Process, Asked, Current, Request
    <2>1. ASSUME NEW q \in Request
          PROVE  /\ creates'[q] <= 1
                 /\ creates'[q] # 0 /\ post.state # "removed" =>
                        effect[q].state \notin {"absent", "prepared"}
      BY <1>0, <2>0, SMT DEF SenderIsAlone, Current, Uncertain
    <2>2. ASSUME NEW v \in Worker
          PROVE  /\ worker'[v].pc = "fenced" =>
                        creates'[Asked(v)'] = 0 /\ Current(v)'.state \in Uncertain
                 /\ worker'[v].pc = "posted" => creates'[Asked(v)'] = 1
      <3>1. CASE v = w
        BY <1>0, <2>0, <3>1
      <3>2. CASE v # w
        <4>1. worker[v].pc = "fenced" => Asked(v) # Asked(w)
          BY <3>2 DEF SenderIsAlone
        <4>2. worker[v].pc = "posted" => creates[Asked(v)] = 1 /\ Asked(v) # Asked(w)
          BY <2>0 DEF SenderIsAlone
        <4> QED
          BY <1>0, <2>0, <2>v, <3>2, <4>1, <4>2 DEF SenderIsAlone
      <3> QED
        BY <3>1, <3>2
    <2>3. ASSUME NEW u \in Worker, NEW v \in Worker, worker'[u].pc = "fenced",
                 worker'[v].pc = "fenced", Asked(u)' = Asked(v)'
          PROVE  u = v
      BY <1>0, <2>3, <2>v DEF SenderIsAlone
    <2> QED
      BY <2>1, <2>2, <2>3 DEF SenderIsAlone
  <1> QED
    BY <1>1, <1>2, <1>3, <1>4, <1>5, <1>6, <1>7

LEMMA AnswerKeeps ==
  ASSUME IInv, NEW w \in Worker, Answer(w)
  PROVE  IInv'
  <1>1. worker[w].revision = 2 /\ worker[w].pc = "posted" /\ worker[w].pc \in Active
    BY DEF Answer, IInv, RevisionTells, Active
  <1>2. Continues(w, Advances(w, "poll")) /\ Advances(w, "poll").pc = "poll"
    BY <1>1, ReadsContinues DEF Advances
  <1>3. Continues(w, Ends(w, "caught")) /\ Ends(w, "caught").pc = "caught"
    BY EndsContinues
  <1> QED
    BY <1>1, <1>2, <1>3, TransitionKeeps DEF Answer

LEMMA PollKeeps ==
  ASSUME IInv, NEW w \in Worker, Poll(w)
  PROVE  IInv'
  <1>1. /\ worker[w].pc \in Active /\ worker[w].revision \in Nat /\ worker[w].revision >= 3
        /\ UNCHANGED <<post, adaptation, job, creates>>
    BY DEF Poll, IInv, TypeOK, Process, RevisionTells, Active
  <1>2. ASSUME NEW output \in {"valid", "invalid"},
               Transition(w, "succeeded", output, Judged(w, output))
        PROVE  IInv'
    BY <1>1, <1>2, JudgedContinues, TransitionKeeps
  <1>3. CASE Transition(w, "rejected", "none", Ends(w, "caught"))
    BY <1>1, <1>3, EndsContinues, TransitionKeeps
  <1>4. CASE Transition(w, "polling", "none", Advances(w, "poll"))
    <2>1. Continues(w, Advances(w, "poll")) /\ Advances(w, "poll").pc = "poll"
      BY <1>1, ReadsContinues DEF Advances
    <2> QED
      BY <1>1, <1>4, <2>1, TransitionKeeps
  <1>5. ASSUME UNCHANGED effect, NEW pc \in {"caught", "pending"}, Become(w, Ends(w, pc))
        PROVE  IInv'
    BY <1>1, <1>5, EndsContinues, MoveKeeps
  <1> QED
    BY <1>2, <1>3, <1>4, <1>5 DEF Poll

LEMMA ApplyKeeps ==
  ASSUME IInv, NEW w \in Worker, Apply(w)
  PROVE  IInv'
  <1>1. worker[w].pc \in Active /\ UNCHANGED <<post, job, effect, creates>>
    BY DEF Apply, Active
  <1>2. CASE UNCHANGED adaptation /\ Become(w, Ends(w, "caught"))
    BY <1>1, <1>2, EndsContinues, MoveKeeps
  <1>3. CASE Fenced(w) /\ adaptation' = [adaptation EXCEPT ![worker[w].text] = "complete"]
             /\ Become(w, Ends(w, "complete"))
    BY <1>1, <1>3, SettleKeeps
  <1> QED
    BY <1>2, <1>3 DEF Apply

LEMMA CatchKeeps ==
  ASSUME IInv, NEW w \in Worker, Catch(w)
  PROVE  IInv'
  <1>1. worker[w].pc \in Active /\ UNCHANGED <<post, job, effect, creates>>
    BY DEF Catch, Active
  <1>2. CASE UNCHANGED adaptation /\ Become(w, Ends(w, "retry"))
    BY <1>1, <1>2, EndsContinues, MoveKeeps
  <1>3. CASE Fenced(w) /\ adaptation' = [adaptation EXCEPT ![worker[w].text] = "failed"]
             /\ Become(w, Ends(w, "complete"))
    BY <1>1, <1>3, SettleKeeps
  <1> QED
    BY <1>2, <1>3 DEF Catch

LEMMA Invariance == Spec => []IInv
  <1>1. ASSUME Init
        PROVE  IInv
    <2>1. Draft \in Text
      BY TextAssumption DEF Draft
    <2>2. TypeOK
      BY <1>1, <2>1, AttemptsAssumption, SMT
      DEF Init, TypeOK, Post, Job, Effect, Process, NoJob, NoEffect, Idle, Ordinal
    <2>3. Attempts /\ HoldersWork
      BY <1>1, <2>1, SMT DEF Init, Attempts, HoldersWork, NoJob, Idle, Active
    <2>4. OnePending /\ RemovedIsEmpty
      BY <1>1, SMT DEF Init, OnePending, RemovedIsEmpty, NoEffect, Request, Uncertain
    <2>5. RevisionTells /\ SenderIsAlone
      BY <1>1, SMT DEF Init, RevisionTells, SenderIsAlone, NoEffect, Idle, Polled
    <2> QED
      BY <2>2, <2>3, <2>4, <2>5 DEF IInv
  <1>2. ASSUME IInv, [Next]_vars
        PROVE  IInv'
    <2>1. CASE Owner
      BY <1>2, <2>1, PostKeeps, AdmitKeeps, RemoveKeeps DEF Owner
    <2>2. ASSUME NEW w \in Worker, Handle(w) \/ Stop(w) \/ Crash(w)
          PROVE  IInv'
      BY <1>2, <2>2, BeginKeeps, LoadKeeps, QuarantineKeeps, FenceKeeps, SendKeeps, AnswerKeeps,
         PollKeeps, ApplyKeeps, CatchKeeps, ReleaseKeeps, StopKeeps, CrashKeeps DEF Handle
    <2>3. ASSUME NEW t \in Text, NEW w \in Worker, Claim(w, t)
          PROVE  IInv'
      BY <1>2, <2>3, ClaimKeeps
    <2>4. ASSUME NEW t \in Text, RecoverExpired(t) \/ Lapse(t) \/ PruneJob(t)
          PROVE  IInv'
      BY <1>2, <2>4, RecoverKeeps, PruneJobKeeps
    <2>5. CASE UNCHANGED vars
      BY <1>2, <2>5, SMT
      DEF vars, IInv, TypeOK, Attempts, HoldersWork, OnePending, RemovedIsEmpty, RevisionTells,
          SenderIsAlone, Holds, Asked, Current
    <2> QED
      BY <1>2, <2>1, <2>2, <2>3, <2>4, <2>5 DEF Next, Work
  <1> QED
    BY <1>1, <1>2, PTL DEF Spec

\* The variables keep their types, and no job is tried more often than it may.
THEOREM TypeCorrect == Spec => []TypeOK
  BY Invariance, PTL DEF IInv

\* No request of an adaptation is sent twice.
THEOREM NeverPaidTwice == Spec => []PaidOnce
  <1>1. IInv => PaidOnce
    BY DEF IInv, SenderIsAlone, PaidOnce
  <1> QED
    BY <1>1, Invariance, PTL

-------------------------------------------------------------------------------
(***************************************************************************)
(* What a step may never do.                                               *)
(***************************************************************************)
\* Requests are sent by Send alone.
LEMMA OnlySendPays ==
  ASSUME IInv, [Next]_vars, creates' # creates
  PROVE  \E w \in Worker : Send(w)
  BY DEF Next, Owner, Create, Save, Admit, Remove, Work, Handle, Begin, Load, Quarantine, Fence,
         Answer, Poll, Apply, Catch, Release, Claim, RecoverExpired, Stop, Crash, Lapse, PruneJob,
         vars

\* Nothing is bought for a post that was removed: a worker about to send a
\* request has a receipt that keeps the post from being removed.
THEOREM RemovedIsNotBilled == Spec => RemovedPostIsNotBilled
  <1>1. ASSUME IInv, [Next]_vars, post.state = "removed", creates' # creates
        PROVE  FALSE
    <2>1. PICK w \in Worker : Send(w)
      BY <1>1, OnlySendPays
    <2>2. Current(w).state \in Uncertain
      BY <1>1, <2>1 DEF Send, IInv, SenderIsAlone
    <2>3. Asked(w) \in Request
      BY <1>1, SMT DEF IInv, TypeOK, Process, Asked, Request
    <2> QED
      BY <1>1, <2>2, <2>3 DEF IInv, RemovedIsEmpty, Current, Uncertain
  <1>2. IInv /\ [Next]_vars => [post.state = "removed" => creates' = creates]_vars
    BY <1>1
  <1> QED
    BY <1>2, Invariance, PTL DEF Spec, RemovedPostIsNotBilled

\* Nothing is bought while another wording is uncertain: the receipt of the
\* request about to be sent is uncertain itself, and the only one.
THEOREM UncertaintyStopsSpending == Spec => NoSpendingOnUncertainty
  <1>1. ASSUME IInv, [Next]_vars, NEW t \in Text, NEW s \in Text, NEW o \in Ordinal,
               creates'[<<t, o>>] # creates[<<t, o>>], s # t, NEW p \in Ordinal,
               effect[<<s, p>>].state \in Uncertain
        PROVE  FALSE
    <2>1. PICK w \in Worker : Send(w)
      BY <1>1, OnlySendPays
    <2>2. Asked(w) = <<t, o>>
      <3>1. creates' = [creates EXCEPT ![Asked(w)] = creates[Asked(w)] + 1]
        BY <2>1 DEF Send
      <3>2. creates \in [Request -> Nat] /\ <<t, o>> \in Request
        BY <1>1 DEF IInv, TypeOK, Request
      <3> QED
        BY <1>1, <3>1, <3>2
    <2>3. Current(w).state \in Uncertain
      BY <1>1, <2>1 DEF Send, IInv, SenderIsAlone
    <2>4. effect[<<t, o>>].state \in Uncertain
      BY <2>2, <2>3 DEF Current
    <2> QED
      BY <1>1, <2>4 DEF IInv, OnePending
  <1>2. IInv /\ [Next]_vars =>
          [\A t, s \in Text, o \in Ordinal :
              creates'[<<t, o>>] # creates[<<t, o>>] /\ s # t =>
                  \A p \in Ordinal : effect[<<s, p>>].state \notin Uncertain]_vars
    BY <1>1
  <1> QED
    BY <1>2, Invariance, PTL DEF Spec, NoSpendingOnUncertainty

\* Who changes the adaptation of a wording, and how.
LEMMA AdaptationSteps ==
  ASSUME IInv, [Next]_vars, NEW t \in Text, adaptation'[t] # adaptation[t]
  PROVE  \/ adaptation[t] = "none" /\ adaptation'[t] = "pending"
         \/ adaptation'[t] = "none"
         \/ adaptation[t] = "pending" /\ job[t].status = "failed"
         \/ \E w \in Worker : /\ Apply(w) \/ (Catch(w) /\ ~Rethrows(w))
                             /\ Fenced(w) /\ worker[w].text = t /\ worker[w].pc \in Active
                             /\ adaptation[t] = "pending"
  <1>1. CASE Admit
    BY <1>1 DEF Admit, Noted, IInv, TypeOK
  <1>2. CASE Remove
    BY <1>2 DEF Remove
  <1>3. ASSUME NEW w \in Worker, Apply(w) \/ Catch(w)
        PROVE  /\ Apply(w) \/ (Catch(w) /\ ~Rethrows(w))
               /\ Fenced(w) /\ worker[w].text = t /\ worker[w].pc \in Active
               /\ adaptation[t] = "pending"
    <2>1. Fenced(w) /\ worker[w].text = t
      BY <1>3 DEF Apply, Catch, IInv, TypeOK
    <2>2. worker[w].pc \in Active
      BY <1>3 DEF Apply, Catch, Active
    <2>3. ASSUME Catch(w)
          PROVE  ~Rethrows(w)
      BY <2>3 DEF Catch
    <2>4. adaptation[t] = "pending"
      BY <2>1, <2>2 DEF IInv, HoldersWork, Fenced
    <2> QED
      BY <1>3, <2>1, <2>2, <2>3, <2>4
  <1>4. Admit \/ Remove \/ \E w \in Worker : Apply(w) \/ Catch(w)
    BY DEF Next, Owner, Create, Save, Work, Handle, Begin, Load, Quarantine, Fence, Send, Answer,
           Poll, Release, Claim, RecoverExpired, Stop, Crash, Lapse, PruneJob, vars
  <1> QED
    BY <1>1, <1>2, <1>3, <1>4

\* An outcome is final until the post is removed: whoever settles an adaptation
\* holds the lease, and found it pending.
THEOREM OutcomesAreFinal == Spec => OutcomeIsFinal
  <1>1. IInv /\ [Next]_vars =>
          [\A t \in Text : adaptation[t] \in {"complete", "failed"} =>
              adaptation'[t] \in {adaptation[t], "none"}]_vars
    BY AdaptationSteps
  <1> QED
    BY <1>1, Invariance, PTL DEF Spec, OutcomeIsFinal

\* A valid answer is given up by the last attempt only, or with a job that has
\* used them all.
THEOREM AnswersAreReplayed == Spec => PaidAnswerIsReplayed
  <1>1. ASSUME IInv, [Next]_vars, NEW t \in Text, NEW o \in Ordinal,
               adaptation[t] = "pending", adaptation'[t] = "failed",
               effect[<<t, o>>].output = "valid"
        PROVE  job[t].tries = MaxAttempts
    <2>1. CASE job[t].status = "failed"
      BY <1>1, <2>1 DEF IInv, Attempts
    <2>2. CASE \E w \in Worker : /\ Apply(w) \/ (Catch(w) /\ ~Rethrows(w))
                               /\ Fenced(w) /\ worker[w].text = t /\ worker[w].pc \in Active
      <3>1. PICK w \in Worker : /\ Apply(w) \/ (Catch(w) /\ ~Rethrows(w))
                               /\ Fenced(w) /\ worker[w].text = t /\ worker[w].pc \in Active
        BY <2>2
      <3>2. ~Apply(w)
        BY <1>1, <3>1 DEF Apply, IInv, TypeOK
      <3>3. effect[<<t, o>>].state = "succeeded"
        BY <1>1 DEF IInv, RevisionTells, Request
      <3>4. ~(worker[w].attempt < MaxAttempts)
        BY <3>1, <3>2, <3>3 DEF Rethrows
      <3>5. worker[w].attempt = job[t].tries /\ job[t].tries \in 0..MaxAttempts
        BY <1>1, <3>1 DEF IInv, Attempts, Fenced, TypeOK, Job
      <3> QED
        BY <3>4, <3>5, AttemptsAssumption, SMT
    <2> QED
      BY <1>1, <2>1, <2>2, AdaptationSteps
  <1>2. IInv /\ [Next]_vars =>
          [\A t \in Text, o \in Ordinal :
              /\ adaptation[t] = "pending" /\ adaptation'[t] = "failed"
              /\ effect[<<t, o>>].output = "valid"
              => job[t].tries = MaxAttempts]_vars
    BY <1>1
  <1> QED
    BY <1>2, Invariance, PTL DEF Spec, PaidAnswerIsReplayed
===============================================================================
