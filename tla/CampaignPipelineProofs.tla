------------------------ MODULE CampaignPipelineProofs ------------------------
(***************************************************************************)
(* Proofs about CampaignPipeline, for every set of workers and every       *)
(* bound, with crashes and with workers that are suspended beyond their    *)
(* leases, so that several execute one run at a time.                      *)
(*                                                                         *)
(* Nothing is assumed about who holds a lease.  The invariant says instead *)
(* how what a worker holds is dated: the run at work is the newest one     *)
(* (RunsInOrder), identities are not used again (Known), and what a worker *)
(* has read is the present campaign unless its revision is another         *)
(* (SeenIsDated), so that a result that is taken over continues what is on *)
(* record (HaveIsDated).                                                   *)
(***************************************************************************)
EXTENDS CampaignPipeline, TLAPS

\* The rows a worker may still hold on to: identities are not used again.
Known == \A r \in RunId : r > last => run[r].state = "absent" /\ job[r].status = "absent"

\* The run at work is the newest, and starts from a campaign unless it makes one.
RunsInOrder ==
    \A r \in RunId :
        /\ run[r].state \in Active => r = last
        /\ run[r].state # "absent" /\ run[r].stage # "strategy" => run[r].expected > 0

JobsHaveTries == \A r \in RunId : job[r].status = "queued" => job[r].tries < MaxAttempts

CampaignIsDated ==
    /\ ~Exists => campaign = NoCampaign
    /\ Exists => campaign.revision > 0
    /\ \A l \in Language : campaign.copy[l].at <= campaign.revision

Filling(r) == run[r].state # "absent" /\ FillsCopy(r)

\* What a process has read: nothing, or a campaign that is still the present one
\* unless it has another revision.
SeenIsDated(p) ==
    /\ \A l \in Language : p.seen.copy[l].at <= p.seen.revision
    /\ p.seen.revision = 0 => p.seen = NoCampaign
    /\ p.seen.revision > 0 =>
        /\ run[p.run].state # "absent" => /\ run[p.run].expected = p.seen.revision
                                          /\ run[p.run].stage # "strategy"
        /\ Exists => /\ p.seen.revision <= campaign.revision
                     /\ p.seen.revision = campaign.revision => p.seen = campaign
        /\ ~Exists => Rows = {}
    /\ p.pc \in {"ask", "save"} /\ run[p.run].state # "absent" /\ run[p.run].stage # "strategy" =>
        p.seen.revision > 0

\* What it has generated comes on top of what it has read.
HaveIsDated(p) ==
    /\ \A l \in Language : p.have[l].at <= p.seen.revision + 1
    /\ Filling(p.run) /\ p.seen.revision = 0 => p.have = NoCopy
    /\ Filling(p.run) /\ p.pc \in {"ask", "save", "fail"} =>
        \A l \in Language : p.seen.copy[l].by # "nobody" => p.have[l] = p.seen.copy[l]

\* Before it has read the campaign it holds nothing of it.
NothingSeen(p) ==
    /\ p.pc \in {"begin", "read"} => p.seen = NoCampaign
    /\ p.pc = "read" /\ run[p.run].state # "absent" => run[p.run].stage # "strategy"

ProcessInv(p) ==
    p.pc # "idle" =>
        /\ p.run <= last
        /\ NothingSeen(p)
        /\ p.pc = "complete" => run[p.run].state \notin Active
        /\ SeenIsDated(p)
        /\ HaveIsDated(p)

PInv ==
    /\ TypeOK
    /\ Known
    /\ RunsInOrder
    /\ JobsHaveTries
    /\ CampaignIsDated
    /\ ActiveRunHasItsJob
    /\ \A w \in Worker : ProcessInv(worker[w])

\* How the rows of the runs a worker may hold on to, and the campaign, change.
RunsKept ==
    \A r \in RunId : r <= last =>
        \/ run'[r].state = "absent"
        \/ /\ run[r].state # "absent"
           /\ run'[r].stage = run[r].stage
           /\ run'[r].expected = run[r].expected
           /\ run'[r].draft = run[r].draft
           /\ run[r].state \notin Active => run'[r].state \notin Active

NoRows == \A r \in RunId : run[r].state = "absent"

CampaignKept ==
    \/ campaign' = campaign /\ ((~Exists /\ NoRows /\ last > 0) => NoRows')
    \/ campaign'.stage = "absent" /\ NoRows'
    \/ /\ campaign'.stage # "absent"
       /\ campaign'.revision > campaign.revision
       /\ Exists \/ ~NoRows
-------------------------------------------------------------------------------
(***************************************************************************)
(* What the records contain.                                               *)
(***************************************************************************)
PC == {"idle", "begin", "read", "ask", "save", "fail", "lost", "complete", "retry", "giveUp"}

LEMMA TypeFacts ==
  ASSUME TypeOK, NEW w \in Worker
  PROVE  /\ worker[w] \in Process
         /\ worker[w].run \in RunId
         /\ worker[w].pc \in PC
         /\ worker[w].revision \in Nat
         /\ worker[w].tries \in 0..MaxAttempts
         /\ worker[w].seen \in Campaign
         /\ worker[w].seen.revision \in Nat
         /\ worker[w].seen.copy \in [Language -> Text]
         /\ worker[w].have \in [Language -> Text]
         /\ worker[w].verdict \in Failed
         /\ campaign.revision \in Nat
         /\ campaign.copy \in [Language -> Text]
  BY DEF TypeOK, Process, PC, Campaign

LEMMA AtFacts ==
  ASSUME NEW w \in Worker, worker[w] \in Process, NEW pc \in PC
  PROVE  /\ At(w, pc) \in Process
         /\ At(w, pc).pc = pc
         /\ At(w, pc).run = worker[w].run
         /\ At(w, pc).seen = worker[w].seen
         /\ At(w, pc).have = worker[w].have
         /\ At(w, pc).verdict = worker[w].verdict
  BY Zenon DEF At, Process, PC

\* The processes that the actions leave behind, by name.
Marked(p, verdict) == [p EXCEPT !.verdict = verdict]
Joined(p, revision) == [p EXCEPT !.revision = revision]
Having(p, have) == [p EXCEPT !.have = have]
GivenUp(p, have) == [p EXCEPT !.verdict = "failed", !.have = have]
HasRead(p, seen, have) == [p EXCEPT !.seen = seen, !.have = have]
Starting(r, tries) == [Idle EXCEPT !.pc = "begin", !.run = r, !.tries = tries]
Leaving(r, pc) == [Idle EXCEPT !.pc = pc, !.run = r]

SameButHave(p, q) == p \in Process /\ p.pc = q.pc /\ p.run = q.run /\ p.seen = q.seen

LEMMA MarkedFacts ==
  ASSUME NEW q \in Process, NEW v \in Failed
  PROVE  SameButHave(Marked(q, v), q) /\ Marked(q, v).have = q.have
  BY Zenon DEF Process, SameButHave, Marked

LEMMA JoinedFacts ==
  ASSUME NEW q \in Process, NEW n \in Nat
  PROVE  SameButHave(Joined(q, n), q) /\ Joined(q, n).have = q.have
  BY Zenon DEF Process, SameButHave, Joined

LEMMA HavingFacts ==
  ASSUME NEW q \in Process, NEW have \in [Language -> Text]
  PROVE  SameButHave(Having(q, have), q) /\ Having(q, have).have = have
  BY Zenon DEF Process, SameButHave, Having

LEMMA GivenUpFacts ==
  ASSUME NEW q \in Process, NEW have \in [Language -> Text]
  PROVE  SameButHave(GivenUp(q, have), q) /\ GivenUp(q, have).have = have
  <1>1. "failed" \in Failed
    BY DEF Failed
  <1> QED
    BY <1>1, Zenon DEF Process, SameButHave, GivenUp

LEMMA HasReadFacts ==
  ASSUME NEW q \in Process, NEW seen \in Campaign, NEW have \in [Language -> Text]
  PROVE  /\ HasRead(q, seen, have) \in Process
         /\ HasRead(q, seen, have).pc = q.pc
         /\ HasRead(q, seen, have).run = q.run
         /\ HasRead(q, seen, have).seen = seen
         /\ HasRead(q, seen, have).have = have
  BY Zenon DEF Process, HasRead

LEMMA BlankFacts ==
  /\ NoCopy \in [Language -> Text]
  /\ \A l \in Language : NoCopy[l].at = 0 /\ NoCopy[l].by = "nobody"
  /\ NoCampaign \in Campaign
  /\ NoCampaign.revision = 0 /\ NoCampaign.stage = "absent" /\ NoCampaign.copy = NoCopy
  /\ NoDraft \in Draft /\ NoDraft.language = "none"
  <1>1. NoText \in Text /\ NoText.at = 0 /\ NoText.by = "nobody"
    BY DEF NoText, Text
  <1>2. NoCopy \in [Language -> Text] /\ \A l \in Language : NoCopy[l].at = 0 /\ NoCopy[l].by = "nobody"
    BY <1>1 DEF NoCopy
  <1>3. /\ NoCampaign \in Campaign
        /\ NoCampaign.revision = 0 /\ NoCampaign.stage = "absent" /\ NoCampaign.copy = NoCopy
    BY <1>2 DEF NoCampaign, Campaign
  <1>4. NoDraft \in Draft /\ NoDraft.language = "none"
    BY DEF NoDraft, Draft
  <1> QED
    BY <1>2, <1>3, <1>4

LEMMA IdleFacts ==
  /\ Idle \in Process
  /\ Idle.pc = "idle"
  /\ Idle.seen = NoCampaign
  /\ Idle.have = NoCopy
  BY BlankFacts, RunsAssumption, AttemptsAssumption DEF Idle, Process, RunId, Failed

\* A process that has nothing yet, or nothing any more.
Bare(p, pc, r) == p \in Process /\ p.pc = pc /\ p.run = r /\ p.seen = NoCampaign /\ p.have = NoCopy

LEMMA StartingFacts ==
  ASSUME NEW r \in RunId, NEW n \in 0..MaxAttempts
  PROVE  Bare(Starting(r, n), "begin", r)
  BY IdleFacts, Zenon DEF Process, Bare, Starting

LEMMA LeavingFacts ==
  ASSUME NEW r \in RunId, NEW pc \in PC
  PROVE  Bare(Leaving(r, pc), pc, r)
  BY IdleFacts, Zenon DEF Process, PC, Bare, Leaving

LEMMA TurnedFacts ==
  ASSUME NEW r \in RunId, run[r] \in Run,
         NEW state \in {"absent", "succeeded"} \cup Active \cup Failed
  PROVE  /\ Turned(r, state) \in Run
         /\ Turned(r, state).state = state
         /\ Turned(r, state).stage = run[r].stage
         /\ Turned(r, state).expected = run[r].expected
         /\ Turned(r, state).draft = run[r].draft
  <1>1. run[r].revision + 1 \in Nat
    BY DEF Run
  <1> QED
    BY <1>1, Zenon DEF Turned, Run

LEMMA RecoveredFacts ==
  ASSUME NEW q \in Run, NEW p, p = [q EXCEPT !.recovered = TRUE]
  PROVE  /\ p \in Run
         /\ p.state = q.state
         /\ p.stage = q.stage
         /\ p.expected = q.expected
         /\ p.draft = q.draft
  BY Zenon DEF Run

LEMMA NewRunFacts ==
  ASSUME NEW stage \in Stage, NEW expected \in Nat, NEW attempt \in Nat, NEW draft \in Draft
  PROVE  /\ NewRun(stage, expected, attempt, draft) \in Run
         /\ NewRun(stage, expected, attempt, draft).state = "queued"
         /\ NewRun(stage, expected, attempt, draft).stage = stage
         /\ NewRun(stage, expected, attempt, draft).expected = expected
         /\ NewRun(stage, expected, attempt, draft).draft = draft
  BY DEF NewRun, Run, Active

LEMMA NoRowFacts ==
  /\ NoRun \in Run /\ NoRun.state = "absent"
  /\ NoJob \in Job /\ NoJob.status = "absent"
  /\ NewJob \in Job /\ NewJob.status = "queued" /\ NewJob.tries = 0
  /\ NoReceipt \in Receipt
  <1>1. NoRun \in Run /\ NoRun.state = "absent"
    BY BlankFacts DEF NoRun, Run, Stage
  <1>2. NoJob \in Job /\ NoJob.status = "absent"
    BY AttemptsAssumption DEF NoJob, Job
  <1>3. NewJob \in Job /\ NewJob.status = "queued" /\ NewJob.tries = 0
    BY AttemptsAssumption DEF NewJob, Job
  <1>4. NoReceipt \in Receipt
    BY DEF NoReceipt, Receipt
  <1> QED
    BY <1>1, <1>2, <1>3, <1>4

LEMMA RevisedFacts ==
  ASSUME NEW c \in Campaign, NEW stage \in {"strategy", "copy", "complete"},
         NEW copy \in [Language -> Text], NEW prompts \in BOOLEAN
  PROVE  /\ Revised(c, stage, copy, prompts) \in Campaign
         /\ Revised(c, stage, copy, prompts).stage = stage
         /\ Revised(c, stage, copy, prompts).revision = c.revision + 1
         /\ Revised(c, stage, copy, prompts).copy = copy
  BY DEF Revised, Campaign

LEMMA BecomeFacts ==
  ASSUME TypeOK, NEW w \in Worker, NEW p \in Process, Become(w, p)
  PROVE  /\ worker' \in [Worker -> Process]
         /\ worker'[w] = p
         /\ \A v \in Worker : v # w => worker'[v] = worker[v]
  BY DEF Become, TypeOK
-------------------------------------------------------------------------------
(***************************************************************************)
(* What a step has to establish.                                           *)
(***************************************************************************)
\* What a process holds is not made wrong by what others do.
LEMMA StaysDated ==
  ASSUME PInv, NEW p \in Process, ProcessInv(p), last' \in Nat, last' >= last,
         campaign' \in Campaign, RunsKept, CampaignKept
  PROVE  ProcessInv(p)'
  <1> SUFFICES ASSUME p.pc # "idle" PROVE ProcessInv(p)'
    BY DEF ProcessInv
  <1>1. /\ p.run \in RunId /\ p.run \in Nat /\ p.run <= last /\ last \in Nat
        /\ p.seen.revision \in Nat /\ campaign.revision \in Nat /\ campaign'.revision \in Nat
    <2>1. p.run \in RunId /\ p.seen.revision \in Nat /\ campaign'.revision \in Nat
      BY DEF Process, Campaign
    <2>2. p.run <= last /\ last \in Nat /\ campaign.revision \in Nat
      BY DEF ProcessInv, PInv, TypeOK, Campaign
    <2> QED
      BY <2>1, <2>2, RunsAssumption DEF RunId
  <1>2. \/ run'[p.run].state = "absent"
        \/ /\ run[p.run].state # "absent"
           /\ run'[p.run].stage = run[p.run].stage
           /\ run'[p.run].expected = run[p.run].expected
           /\ run'[p.run].draft = run[p.run].draft
           /\ run[p.run].state \notin Active => run'[p.run].state \notin Active
    BY <1>1 DEF RunsKept
  <1>3. p.run <= last'
    BY <1>1
  <1>4. p.pc = "complete" => run'[p.run].state \notin Active
    BY <1>2 DEF ProcessInv, Active
  <1>5. p.seen.revision > 0 /\ (~Exists)' => (Rows = {})'
    <2>1. p.seen.revision > 0 /\ ~Exists => NoRows
      BY DEF ProcessInv, SeenIsDated, Rows, NoRows
    <2>2. ASSUME p.seen.revision > 0, campaign'.stage = "absent" PROVE NoRows'
      <3>1. CASE campaign' = campaign
        <4>1. ~Exists /\ NoRows /\ last > 0
          BY <2>1, <2>2, <3>1, <1>1, RunsAssumption DEF Exists, RunId
        <4>2. CASE ~Exists /\ NoRows /\ last > 0 => NoRows'
          BY <4>1, <4>2
        <4>3. CASE campaign'.stage = "absent" /\ NoRows'
          BY <4>3
        <4>4. CASE campaign'.stage # "absent"
          BY <4>4, <2>2
        <4> QED
          BY <4>2, <4>3, <4>4 DEF CampaignKept
      <3>2. CASE campaign' # campaign
        BY <2>2, <3>2 DEF CampaignKept
      <3> QED
        BY <3>1, <3>2
    <2>3. NoRows' => (Rows = {})'
      BY DEF NoRows, Rows
    <2> QED
      BY <2>2, <2>3 DEF Exists
  <1>6. p.seen.revision > 0 /\ Exists' =>
            /\ p.seen.revision <= campaign'.revision
            /\ p.seen.revision = campaign'.revision => p.seen = campaign'
    <2>1. p.seen.revision > 0 /\ ~Exists => NoRows
      BY DEF ProcessInv, SeenIsDated, Rows, NoRows
    <2>2. p.seen.revision > 0 /\ Exists =>
            /\ p.seen.revision <= campaign.revision
            /\ p.seen.revision = campaign.revision => p.seen = campaign
      BY DEF ProcessInv, SeenIsDated
    <2> QED
      BY <1>1, <2>1, <2>2 DEF CampaignKept, Exists
  <1>7. SeenIsDated(p)'
    <2>1. SeenIsDated(p)
      BY DEF ProcessInv
    <2> QED
      BY <1>2, <1>5, <1>6, <2>1 DEF SeenIsDated
  <1>8. HaveIsDated(p)'
    <2>1. HaveIsDated(p)
      BY DEF ProcessInv
    <2>2. Filling(p.run)' => Filling(p.run)
      BY <1>2 DEF Filling, FillsCopy, Refining
    <2> QED
      BY <2>1, <2>2 DEF HaveIsDated
  <1>9. NothingSeen(p)'
    BY <1>2 DEF ProcessInv, NothingSeen
  <1> QED
    BY <1>3, <1>4, <1>7, <1>8, <1>9 DEF ProcessInv

LEMMA StillStep ==
  ASSUME PInv, TypeOK', Known', RunsInOrder', JobsHaveTries', CampaignIsDated',
         ActiveRunHasItsJob', UNCHANGED worker, last' >= last, RunsKept, CampaignKept
  PROVE  PInv'
  <1>1. last' \in Nat /\ campaign' \in Campaign
    BY DEF TypeOK
  <1>2. ASSUME NEW w \in Worker PROVE ProcessInv(worker[w])'
    <2> DEFINE p == worker[w]
    <2>1. p \in Process /\ ProcessInv(p) /\ p' = p
      BY DEF PInv, TypeOK
    <2>2. ASSUME NEW q \in Process, ProcessInv(q) PROVE ProcessInv(q)'
      BY <1>1, <2>2, StaysDated
    <2> QED
      BY <2>1, <2>2 DEF ProcessInv, NothingSeen, SeenIsDated, HaveIsDated
  <1> QED
    BY <1>2 DEF PInv

LEMMA WorkerStep ==
  ASSUME PInv, TypeOK', Known', RunsInOrder', JobsHaveTries', CampaignIsDated',
         ActiveRunHasItsJob', NEW w \in Worker, NEW p \in Process, Become(w, p),
         ProcessInv(p)', last' >= last, RunsKept, CampaignKept
  PROVE  PInv'
  <1>1. last' \in Nat /\ campaign' \in Campaign
    BY DEF TypeOK
  <1>2. worker'[w] = p /\ \A v \in Worker : v # w => worker'[v] = worker[v]
    BY BecomeFacts DEF PInv
  <1>3. ASSUME NEW v \in Worker PROVE ProcessInv(worker[v])'
    <2>1. ASSUME NEW q \in Process, ProcessInv(q) PROVE ProcessInv(q)'
      BY <1>1, <2>1, StaysDated
    <2>2. CASE v = w
      BY <1>2, <2>2 DEF ProcessInv, NothingSeen, SeenIsDated, HaveIsDated
    <2>3. CASE v # w
      <3>1. worker'[v] = worker[v] /\ worker[v] \in Process /\ ProcessInv(worker[v])
        BY <1>2, <2>3 DEF PInv, TypeOK
      <3> QED
        BY <2>1, <3>1 DEF ProcessInv, NothingSeen, SeenIsDated, HaveIsDated
    <2> QED
      BY <2>2, <2>3
  <1> QED
    BY <1>3 DEF PInv

\* Nothing but receipts and the process itself changes.
LEMMA QuietStep ==
  ASSUME PInv, NEW w \in Worker, NEW p \in Process, Become(w, p), ProcessInv(p),
         UNCHANGED <<campaign, last, run, job, leftover>>,
         receipt' \in [RunId -> Receipt]
  PROVE  PInv'
  <1>1. TypeOK'
    BY BecomeFacts DEF PInv, TypeOK
  <1>2. Known' /\ RunsInOrder' /\ JobsHaveTries' /\ CampaignIsDated' /\ ActiveRunHasItsJob'
    BY DEF PInv, Known, RunsInOrder, JobsHaveTries, CampaignIsDated, ActiveRunHasItsJob, Exists
  <1>3. RunsKept /\ CampaignKept /\ last' >= last
    BY DEF RunsKept, CampaignKept, NoRows, PInv, TypeOK
  <1>4. ProcessInv(p)'
    BY DEF ProcessInv, NothingSeen, SeenIsDated, HaveIsDated, Exists, Rows, Filling, FillsCopy, Refining
  <1> QED
    BY <1>1, <1>2, <1>3, <1>4, WorkerStep
-------------------------------------------------------------------------------
(***************************************************************************)
(* The beginning, and the owner.                                           *)
(***************************************************************************)
LEMMA FoundFacts ==
  ASSUME NEW c \in Found
  PROVE  /\ c \in Campaign
         /\ c.stage = "absent" => c = NoCampaign
         /\ c.stage # "absent" => c.revision > 0
         /\ \A l \in Language : c.copy[l].at <= c.revision
  <1>1. CASE c = NoCampaign
    BY <1>1, BlankFacts
  <1>2. CASE c \in Imported
    <2>1. /\ c \in [stage : {"strategy", "copy", "complete"}, revision : {1}, prompts : BOOLEAN,
                    copy : {[l \in Language |-> IF l \in ls THEN [by |-> "provider", at |-> 1] ELSE NoText] :
                                ls \in {{}, {"en"}, Language}}]
      BY <1>2, Zenon DEF Imported
    <2>2. /\ c.stage \in {"strategy", "copy", "complete"} /\ c.revision = 1 /\ c.prompts \in BOOLEAN
          /\ c = [stage |-> c.stage, revision |-> c.revision, prompts |-> c.prompts, copy |-> c.copy]
      BY <2>1
    <2>3. PICK ls \in {{}, {"en"}, Language} :
             c.copy = [l \in Language |-> IF l \in ls THEN [by |-> "provider", at |-> 1] ELSE NoText]
      BY <2>1
    <2>4. NoText \in Text /\ [by |-> "provider", at |-> 1] \in Text /\ NoText.at = 0
      BY DEF NoText, Text
    <2>5. c.copy \in [Language -> Text]
      BY <2>3, <2>4
    <2>6. \A l \in Language : c.copy[l].at <= 1
      BY <2>3, <2>4
    <2>7. c \in Campaign
      BY <2>2, <2>5 DEF Campaign
    <2> QED
      BY <2>2, <2>6, <2>7
  <1> QED
    BY <1>1, <1>2, FoundAssumption

LEMMA InitPInv ==
  Init => PInv
  <1> SUFFICES ASSUME Init PROVE PInv
    OBVIOUS
  <1>1. /\ campaign \in Campaign
        /\ CampaignIsDated
    BY FoundFacts DEF Init, CampaignIsDated, Exists
  <1>2. /\ run \in [RunId -> Run] /\ \A r \in RunId : run[r].state = "absent"
        /\ job \in [RunId -> Job] /\ \A r \in RunId : job[r].status = "absent"
        /\ receipt \in [RunId -> Receipt]
    BY NoRowFacts DEF Init
  <1>3. worker \in [Worker -> Process] /\ \A w \in Worker : worker[w].pc = "idle"
    BY IdleFacts DEF Init
  <1>4. TypeOK
    BY <1>1, <1>2, <1>3, RunsAssumption DEF TypeOK, Init
  <1>5. Known /\ RunsInOrder /\ JobsHaveTries /\ ActiveRunHasItsJob
    BY <1>2 DEF Known, RunsInOrder, JobsHaveTries, ActiveRunHasItsJob, Active
  <1> QED
    BY <1>1, <1>3, <1>4, <1>5 DEF PInv, ProcessInv

\* A new run is the newest, and the only one at work.
LEMMA AdmitStep ==
  ASSUME PInv, NEW stage \in Stage, NEW expected \in Nat, NEW attempt \in Nat, NEW draft \in Draft,
         stage # "strategy" => expected > 0, Exists \/ ~NoRows \/ last = 0,
         Admit(stage, expected, attempt, draft)
  PROVE  PInv'
  <1> DEFINE n == last + 1
  <1> DEFINE new == NewRun(stage, expected, attempt, draft)
  <1>1. /\ last \in Nat /\ n \in RunId /\ last' = n
        /\ \A r \in RunId : run[r].state \notin Active
        /\ run' = [run EXCEPT ![n] = new]
        /\ job' = [job EXCEPT ![n] = NewJob]
        /\ UNCHANGED campaign /\ UNCHANGED receipt /\ UNCHANGED leftover /\ UNCHANGED worker
    BY RunsAssumption DEF Admit, Busy, PInv, TypeOK, RunId
  <1>2. /\ new \in Run /\ new.state = "queued" /\ new.stage = stage /\ new.expected = expected
    BY NewRunFacts
  <1> HIDE DEF n, new
  <1>3. /\ run'[n] = new /\ job'[n] = NewJob
        /\ \A r \in RunId : r # n => run'[r] = run[r] /\ job'[r] = job[r]
        /\ run' \in [RunId -> Run] /\ job' \in [RunId -> Job]
    BY <1>1, <1>2, NoRowFacts DEF PInv, TypeOK
  <1>4. TypeOK'
    BY <1>1, <1>3, RunsAssumption DEF PInv, TypeOK, RunId
  <1>5. Known'
    <2> SUFFICES ASSUME NEW r \in RunId, r > n PROVE run'[r].state = "absent" /\ job'[r].status = "absent"
      BY <1>1 DEF Known
    <2>1. r # n /\ r > last
      BY <1>1 DEF RunId, n
    <2> QED
      BY <2>1, <1>3 DEF PInv, Known
  <1>6. RunsInOrder'
    BY <1>1, <1>2, <1>3 DEF PInv, RunsInOrder
  <1>7. JobsHaveTries'
    BY <1>3, NoRowFacts, AttemptsAssumption DEF PInv, JobsHaveTries
  <1>8. CampaignIsDated'
    BY <1>1 DEF PInv, CampaignIsDated, Exists
  <1>9. ActiveRunHasItsJob'
    BY <1>1, <1>3, NoRowFacts DEF PInv, ActiveRunHasItsJob
  <1>10. RunsKept
    <2> SUFFICES ASSUME NEW r \in RunId, r <= last
                 PROVE  run'[r] = run[r]
      BY DEF RunsKept
    <2> QED
      BY <1>1, <1>3 DEF RunId, n
  <1>11. CampaignKept
    <2>1. ~(~Exists /\ NoRows /\ last > 0)
      BY <1>1
    <2> QED
      BY <1>1, <2>1 DEF CampaignKept
  <1>12. last' >= last
    BY <1>1 DEF n
  <1> QED
    BY <1>1, <1>4, <1>5, <1>6, <1>7, <1>8, <1>9, <1>10, <1>11, <1>12, StillStep

LEMMA OrderKeeps ==
  ASSUME PInv, CreateCampaign \/ Continue \/ (\E l \in Language : RefineCopy(l)) \/ (\E r \in RunId : Retry(r))
  PROVE  PInv'
  <1>1. /\ campaign.revision \in Nat /\ (Exists => campaign.revision > 0)
        /\ NoDraft \in Draft /\ last \in Nat
    BY BlankFacts DEF PInv, TypeOK, Campaign, CampaignIsDated
  <1>2. CASE CreateCampaign
    BY <1>1, <1>2, AdmitStep DEF CreateCampaign, Stage
  <1>3. CASE Continue
    <2>1. Continuation \in Stage
      BY <1>3 DEF Continue, Continuation, Stage
    <2> QED
      BY <1>1, <1>3, <2>1, AdmitStep DEF Continue
  <1>4. ASSUME NEW l \in Language, RefineCopy(l) PROVE PInv'
    <2>1. [language |-> l, taken |-> campaign.revision] \in Draft
      BY <1>1 DEF Draft
    <2>2. Exists
      BY <1>4 DEF RefineCopy, Exists
    <2> QED
      BY <1>1, <1>4, <2>1, <2>2, AdmitStep DEF RefineCopy, Stage
  <1>5. ASSUME NEW r \in RunId, Retry(r) PROVE PInv'
    <2>1. /\ run[r] \in Run /\ run[r].state # "absent"
          /\ run[r].stage # "strategy" => Exists
      BY <1>5 DEF PInv, TypeOK, Retry, Retryable, Latest, Rows
    <2>2. /\ run[r].stage \in Stage /\ run[r].attempt + 1 \in Nat /\ run[r].draft \in Draft
      BY <2>1 DEF Run
    <2>3. ~NoRows
      BY <2>1 DEF NoRows
    <2> QED
      BY <1>1, <1>5, <2>1, <2>2, <2>3, AdmitStep DEF Retry
  <1> QED
    BY <1>2, <1>3, <1>4, <1>5

\* What is written over the campaign.
CampaignFacts(c) ==
    /\ c \in Campaign /\ c.stage # "absent" /\ c.revision = campaign.revision + 1
    /\ \A l \in Language : c.copy[l].at <= c.revision

LEMMA RevisionFacts ==
  ASSUME PInv, NEW stage \in {"strategy", "copy", "complete"}, NEW copy \in [Language -> Text],
         NEW prompts \in BOOLEAN, \A l \in Language : copy[l].at <= campaign.revision + 1,
         NEW c, c = Revised(campaign, stage, copy, prompts)
  PROVE  CampaignFacts(c) /\ c.copy = copy
  <1>1. campaign \in Campaign
    BY DEF PInv, TypeOK
  <1>2. /\ c \in Campaign /\ c.stage = stage /\ c.revision = campaign.revision + 1 /\ c.copy = copy
    BY <1>1, RevisedFacts
  <1> QED
    BY <1>2 DEF CampaignFacts

LEMMA EditKeeps ==
  ASSUME PInv, NEW l \in Language, EditCopy(l)
  PROVE  PInv'
  <1> DEFINE words == [by |-> "owner", at |-> campaign.revision + 1]
  <1> DEFINE copy == [campaign.copy EXCEPT ![l] = words]
  <1>1. /\ campaign \in Campaign /\ campaign.revision \in Nat /\ campaign.copy \in [Language -> Text]
        /\ campaign.stage \in {"absent", "strategy", "copy", "complete"} /\ campaign.prompts \in BOOLEAN
    BY DEF PInv, TypeOK, Campaign
  <1>2. /\ Exists
    BY BlankFacts DEF EditCopy, Written, PInv, CampaignIsDated
  <1>3. /\ words \in Text /\ words.at = campaign.revision + 1
    BY <1>1 DEF Text
  <1> HIDE DEF words
  <1>4. copy \in [Language -> Text] /\ \A m \in Language : copy[m].at <= campaign.revision + 1
    <2>1. \A m \in Language : campaign.copy[m].at <= campaign.revision /\ campaign.copy[m].at \in Nat
      BY <1>1 DEF PInv, CampaignIsDated, Text
    <2> QED
      BY <1>1, <1>3, <2>1
  <1>5. campaign' = Revised(campaign, campaign.stage, copy, campaign.prompts)
    BY DEF EditCopy, words
  <1> HIDE DEF copy
  <1>6. CampaignFacts(campaign') /\ campaign'.copy = copy
    <2>1. PICK stage \in {"strategy", "copy", "complete"}, prompts \in BOOLEAN, c \in [Language -> Text] :
             stage = campaign.stage /\ prompts = campaign.prompts /\ c = copy
      BY <1>1, <1>2, <1>4 DEF Exists
    <2>2. campaign' = Revised(campaign, stage, c, prompts)
      BY <1>5, <2>1, Zenon
    <2> QED
      BY <1>4, <2>1, <2>2, RevisionFacts
  <1>7. /\ UNCHANGED last /\ UNCHANGED run /\ UNCHANGED job /\ UNCHANGED receipt
        /\ UNCHANGED leftover /\ UNCHANGED worker
    BY DEF EditCopy
  <1>8. TypeOK'
    BY <1>6, <1>7 DEF PInv, TypeOK, CampaignFacts
  <1>9. Known' /\ RunsInOrder' /\ JobsHaveTries' /\ ActiveRunHasItsJob'
    BY <1>7 DEF PInv, Known, RunsInOrder, JobsHaveTries, ActiveRunHasItsJob
  <1>10. CampaignIsDated'
    BY <1>1, <1>6 DEF CampaignIsDated, Exists, CampaignFacts
  <1>11. RunsKept /\ CampaignKept /\ last' >= last
    BY <1>1, <1>2, <1>6, <1>7 DEF RunsKept, CampaignKept, PInv, TypeOK, CampaignFacts
  <1> QED
    BY <1>7, <1>8, <1>9, <1>10, <1>11, StillStep

LEMMA RemovedFacts ==
  ASSUME TypeOK, NEW rs \in SUBSET RunId, Removed(rs)
  PROVE  /\ run' \in [RunId -> Run] /\ job' \in [RunId -> Job] /\ receipt' \in [RunId -> Receipt]
         /\ \A r \in RunId : /\ r \in rs => run'[r] = NoRun /\ job'[r] = NoJob
                             /\ r \notin rs => run'[r] = run[r] /\ job'[r] = job[r] /\ receipt'[r] = receipt[r]
  BY NoRowFacts DEF Removed, TypeOK

\* Rows that are not at work may be removed.
LEMMA RemovalStep ==
  ASSUME PInv, NEW rs \in SUBSET RunId, Removed(rs), \A r \in rs : run[r].state \notin Active,
         campaign' \in Campaign, CampaignIsDated', CampaignKept,
         UNCHANGED last, UNCHANGED leftover, UNCHANGED worker
  PROVE  PInv'
  <1>1. TypeOK'
    BY RemovedFacts DEF PInv, TypeOK
  <1>2. \A r \in RunId : \/ run'[r] = run[r] /\ job'[r] = job[r]
                         \/ run'[r].state = "absent" /\ job'[r].status = "absent"
    BY RemovedFacts, NoRowFacts DEF PInv
  <1>3. Known' /\ RunsInOrder' /\ JobsHaveTries' /\ ActiveRunHasItsJob'
    BY <1>2 DEF PInv, Known, RunsInOrder, JobsHaveTries, ActiveRunHasItsJob, Active
  <1>4. RunsKept /\ last' >= last
    BY <1>2 DEF RunsKept, PInv, TypeOK
  <1> QED
    BY <1>1, <1>3, <1>4, StillStep

LEMMA DeleteKeeps ==
  ASSUME PInv, Delete
  PROVE  PInv'
  <1>1. /\ campaign' = NoCampaign /\ Removed(Rows) /\ \A r \in RunId : run[r].state \notin Active
        /\ UNCHANGED last /\ UNCHANGED leftover /\ UNCHANGED worker
    BY DEF Delete, Deletable, Busy
  <1>2. campaign' \in Campaign /\ CampaignIsDated'
    BY <1>1, BlankFacts DEF CampaignIsDated, Exists
  <1>3. Rows \in SUBSET RunId
    BY DEF Rows
  <1>4. NoRows'
    BY <1>1, <1>3, RemovedFacts, NoRowFacts DEF PInv, NoRows, Rows
  <1>5. CampaignKept
    BY <1>1, <1>4, BlankFacts DEF CampaignKept
  <1> QED
    BY <1>1, <1>2, <1>3, <1>5, RemovalStep
-------------------------------------------------------------------------------
(***************************************************************************)
(* The job store.                                                          *)
(***************************************************************************)
\* A job that is worked on, or is to be worked on, belongs to a run that was
\* inserted.
LEMMA KnownJob ==
  ASSUME PInv, NEW r \in RunId, job[r].status # "absent"
  PROVE  r <= last
  <1>1. ~(r > last)
    BY DEF PInv, Known
  <1> QED
    BY <1>1, RunsAssumption DEF PInv, TypeOK, RunId

\* Only the job of one run changes, and, at the most, the worker that does it.
LEMMA JobStep ==
  ASSUME PInv, NEW r \in RunId, r <= last,
         NEW status \in {"queued", "running", "succeeded", "failed"},
         NEW tries \in 0..MaxAttempts, NEW holder \in Worker \cup {Nobody},
         job' = [job EXCEPT ![r] = JobOf(status, tries, holder)],
         status = "queued" => tries < MaxAttempts,
         status = "succeeded" => run[r].state \notin Active,
         UNCHANGED campaign, UNCHANGED last, UNCHANGED run, UNCHANGED receipt, UNCHANGED leftover,
         \/ UNCHANGED worker
         \/ \E w \in Worker, p \in Process : Become(w, p) /\ ProcessInv(p)
  PROVE  PInv'
  <1> DEFINE new == JobOf(status, tries, holder)
  <1>1. new \in Job /\ new.status = status /\ new.tries = tries
    BY DEF JobOf, Job
  <1> HIDE DEF new
  <1>2. /\ job'[r] = new /\ \A s \in RunId : s # r => job'[s] = job[s]
        /\ job' \in [RunId -> Job]
    BY <1>1 DEF new, PInv, TypeOK
  <1>3. worker' \in [Worker -> Process]
    BY BecomeFacts DEF PInv, TypeOK
  <1>4. TypeOK'
    BY <1>2, <1>3 DEF PInv, TypeOK
  <1>5. Known'
    <2> SUFFICES ASSUME NEW s \in RunId, s > last PROVE run'[s].state = "absent" /\ job'[s].status = "absent"
      BY DEF Known
    <2>1. s # r
      BY RunsAssumption DEF PInv, TypeOK, RunId
    <2> QED
      BY <1>2, <2>1 DEF PInv, Known
  <1>6. RunsInOrder' /\ CampaignIsDated'
    BY DEF PInv, RunsInOrder, CampaignIsDated, Exists
  <1>7. JobsHaveTries'
    BY <1>1, <1>2 DEF PInv, JobsHaveTries
  <1>8. ActiveRunHasItsJob'
    BY <1>1, <1>2 DEF PInv, ActiveRunHasItsJob
  <1>9. RunsKept /\ CampaignKept /\ last' >= last
    BY DEF RunsKept, CampaignKept, NoRows, PInv, TypeOK
  <1>10. CASE UNCHANGED worker
    BY <1>4, <1>5, <1>6, <1>7, <1>8, <1>9, <1>10, StillStep
  <1>11. ASSUME NEW w \in Worker, NEW p \in Process, Become(w, p), ProcessInv(p) PROVE PInv'
    <2>1. ProcessInv(p)'
      BY <1>11 DEF ProcessInv, NothingSeen, SeenIsDated, HaveIsDated, Exists, Rows, Filling,
                   FillsCopy, Refining
    <2> QED
      BY <1>4, <1>5, <1>6, <1>7, <1>8, <1>9, <1>11, <2>1, WorkerStep
  <1> QED
    BY <1>10, <1>11

LEMMA BareProcess ==
  ASSUME NEW p, NEW pc \in {"begin", "retry", "giveUp", "complete"}, NEW r, Bare(p, pc, r),
         r <= last, pc = "complete" => run[r].state \notin Active
  PROVE  ProcessInv(p)
  BY BlankFacts DEF Bare, ProcessInv, NothingSeen, SeenIsDated, HaveIsDated

LEMMA ClaimKeeps ==
  ASSUME PInv, NEW w \in Worker, NEW r \in RunId, Claim(w, r)
  PROVE  PInv'
  <1> DEFINE n == job[r].tries + 1
  <1>1. /\ job[r].status = "queued" /\ job' = [job EXCEPT ![r] = JobOf("running", n, w)]
        /\ UNCHANGED campaign /\ UNCHANGED last /\ UNCHANGED run /\ UNCHANGED receipt /\ UNCHANGED leftover
    BY DEF Claim
  <1>2. Become(w, Starting(r, n))
    BY Zenon DEF Claim, Starting
  <1>3. r <= last
    BY <1>1, KnownJob
  <1>4. n \in 0..MaxAttempts
    BY <1>1, AttemptsAssumption DEF PInv, TypeOK, JobsHaveTries, Job
  <1> HIDE DEF n
  <1>5. Bare(Starting(r, n), "begin", r)
    BY <1>4, StartingFacts
  <1>6. Starting(r, n) \in Process /\ ProcessInv(Starting(r, n))
    BY <1>3, <1>5, BareProcess DEF Bare
  <1> QED
    BY <1>1, <1>2, <1>3, <1>4, <1>6, JobStep

LEMMA ParkKeeps ==
  ASSUME PInv, NEW r \in RunId, RecoverExpired(r) \/ Lapse(r)
  PROVE  PInv'
  <1>1. /\ job[r].status = "running" /\ JobBecomes(r, Requeued(r), Nobody)
        /\ UNCHANGED campaign /\ UNCHANGED last /\ UNCHANGED run /\ UNCHANGED receipt
        /\ UNCHANGED leftover /\ UNCHANGED worker
    BY DEF RecoverExpired, Lapse
  <1>2. r <= last
    BY <1>1, KnownJob
  <1>3. /\ Requeued(r) \in {"queued", "failed"}
        /\ Requeued(r) = "queued" => job[r].tries < MaxAttempts
        /\ job[r].tries \in 0..MaxAttempts
    BY DEF Requeued, PInv, TypeOK, Job
  <1>4. job' = [job EXCEPT ![r] = JobOf(Requeued(r), job[r].tries, Nobody)]
    BY <1>1 DEF JobBecomes, PInv, TypeOK
  <1> QED
    BY <1>1, <1>2, <1>3, <1>4, JobStep

LEMMA IdleKeeps ==
  ProcessInv(Idle)
  BY IdleFacts DEF ProcessInv

LEMMA CrashKeeps ==
  ASSUME PInv, NEW w \in Worker, Crash(w)
  PROVE  PInv'
  <1>1. receipt' \in [RunId -> Receipt]
    BY DEF Crash, PInv, TypeOK
  <1> QED
    BY <1>1, IdleFacts, IdleKeeps, QuietStep DEF Crash

LEMMA ReleaseKeeps ==
  ASSUME PInv, NEW w \in Worker, Release(w)
  PROVE  PInv'
  <1> DEFINE r == worker[w].run
  <1>1. /\ worker[w].pc \in {"complete", "retry", "giveUp"} /\ Become(w, Idle)
        /\ UNCHANGED campaign /\ UNCHANGED last /\ UNCHANGED run /\ UNCHANGED receipt /\ UNCHANGED leftover
    BY DEF Release
  <1>2. CASE UNCHANGED job
    <2>1. receipt' \in [RunId -> Receipt]
      BY <1>1 DEF PInv, TypeOK
    <2> QED
      BY <1>1, <1>2, <2>1, IdleFacts, IdleKeeps, QuietStep
  <1>3. CASE job' # job
    <2> DEFINE status == CASE worker[w].pc = "complete" -> "succeeded"
                           [] worker[w].pc = "retry" -> Requeued(r)
                           [] worker[w].pc = "giveUp" -> "failed"
    <2>1. Holds(w) /\ JobBecomes(r, status, Nobody)
      BY <1>3 DEF Release
    <2>2. r \in RunId /\ job[r].status = "running" /\ job[r].tries \in 0..MaxAttempts
      BY <2>1, TypeFacts DEF Holds, PInv, TypeOK, Job
    <2>3. r <= last
      BY <2>2, KnownJob
    <2>4. /\ status \in {"queued", "succeeded", "failed"}
          /\ status = "queued" => job[r].tries < MaxAttempts
          /\ status = "succeeded" => worker[w].pc = "complete"
      BY <1>1, <2>2 DEF Requeued
    <2>5. worker[w].pc = "complete" => run[r].state \notin Active
      BY DEF PInv, ProcessInv
    <2> HIDE DEF status
    <2>6. job' = [job EXCEPT ![r] = JobOf(status, job[r].tries, Nobody)]
      BY <2>1, <2>2 DEF JobBecomes, PInv, TypeOK
    <2> HIDE DEF r
    <2> QED
      BY <1>1, <2>2, <2>3, <2>4, <2>5, <2>6, IdleFacts, IdleKeeps, JobStep
  <1> QED
    BY <1>2, <1>3
-------------------------------------------------------------------------------
(***************************************************************************)
(* The handler, up to what it writes.                                      *)
(***************************************************************************)
LEMMA AtWork ==
  ASSUME PInv, NEW w \in Worker, worker[w].pc # "idle"
  PROVE  /\ worker[w] \in Process /\ worker[w].run \in RunId /\ worker[w].run <= last
         /\ NothingSeen(worker[w]) /\ SeenIsDated(worker[w]) /\ HaveIsDated(worker[w])
         /\ worker[w].seen \in Campaign /\ worker[w].seen.revision \in Nat
         /\ worker[w].seen.copy \in [Language -> Text] /\ worker[w].have \in [Language -> Text]
         /\ worker[w].pc = "complete" => run[worker[w].run].state \notin Active
         /\ run[worker[w].run] \in Run /\ receipt[worker[w].run] \in Receipt
  BY TypeFacts DEF PInv, ProcessInv, TypeOK

\* An attempt ends.
LEMMA LeaveKeeps ==
  ASSUME PInv, NEW w \in Worker, worker[w].pc # "idle", NEW pc \in {"retry", "giveUp", "complete"},
         Leave(w, pc), pc = "complete" => run[worker[w].run].state \notin Active,
         UNCHANGED <<campaign, last, run, job, leftover>>, receipt' \in [RunId -> Receipt]
  PROVE  PInv'
  <1> DEFINE r == worker[w].run
  <1>1. r \in RunId /\ r <= last
    BY AtWork
  <1>2. Become(w, Leaving(r, pc))
    BY Zenon DEF Leave, Leaving
  <1>3. Bare(Leaving(r, pc), pc, r)
    BY <1>1, LeavingFacts DEF PC
  <1>4. Leaving(r, pc) \in Process /\ ProcessInv(Leaving(r, pc))
    BY <1>1, <1>3, BareProcess DEF Bare
  <1> QED
    BY <1>2, <1>4, QuietStep

\* The handler goes on with what it has, or gives up what it has generated.
LEMMA OnwardProcess ==
  ASSUME PInv, NEW w \in Worker, worker[w].pc \in {"read", "ask", "save", "fail"},
         NEW p \in Process, p.pc \in {"ask", "save", "fail", "lost"},
         p.run = worker[w].run, p.seen = worker[w].seen,
         \/ p.have = worker[w].have
         \/ p.have = worker[w].seen.copy,
         p.pc \in {"ask", "save"} => worker[w].pc = "ask"
  PROVE  ProcessInv(p)
  <1>1. /\ worker[w].run <= last /\ NothingSeen(worker[w]) /\ SeenIsDated(worker[w])
        /\ HaveIsDated(worker[w]) /\ worker[w].seen.revision \in Nat
    BY AtWork
  <1>2. SeenIsDated(p)
    BY <1>1 DEF SeenIsDated
  <1>3. \A l \in Language : worker[w].seen.copy[l].at <= worker[w].seen.revision + 1
    <2>1. \A l \in Language : worker[w].seen.copy[l].at \in Nat
      BY AtWork DEF Text
    <2> QED
      BY <1>1, <2>1 DEF SeenIsDated
  <1>4. HaveIsDated(p)
    BY <1>1, <1>3, BlankFacts DEF HaveIsDated, NothingSeen, SeenIsDated
  <1> QED
    BY <1>1, <1>2, <1>4 DEF ProcessInv, NothingSeen

LEMMA EndingKeeps ==
  ASSUME PInv, NEW w \in Worker, worker[w].pc \in {"read", "ask"}, NEW v \in Failed, Ending(w, v),
         UNCHANGED <<campaign, last, run, job, leftover>>, receipt' \in [RunId -> Receipt]
  PROVE  PInv'
  <1> DEFINE p == Marked(At(w, "fail"), v)
  <1>1. Become(w, p)
    BY Zenon DEF Ending, Marked
  <1>2. /\ p \in Process /\ p.pc = "fail" /\ p.run = worker[w].run /\ p.seen = worker[w].seen
        /\ p.have = worker[w].have
    BY AtWork, AtFacts, MarkedFacts DEF SameButHave, PC
  <1> HIDE DEF p
  <1>3. ProcessInv(p)
    BY <1>2, OnwardProcess
  <1> QED
    BY <1>1, <1>2, <1>3, QuietStep

LEMMA GivesUpKeeps ==
  ASSUME PInv, NEW w \in Worker, worker[w].pc \in {"save", "fail"}, GivesUp(w),
         UNCHANGED <<campaign, last, run, job, leftover>>, receipt' \in [RunId -> Receipt]
  PROVE  PInv'
  <1> DEFINE p == GivenUp(At(w, "fail"), worker[w].seen.copy)
  <1>1. Become(w, p)
    BY Zenon DEF GivesUp, GivenUp
  <1>2. /\ p \in Process /\ p.pc = "fail" /\ p.run = worker[w].run /\ p.seen = worker[w].seen
        /\ p.have = worker[w].seen.copy
    BY AtWork, AtFacts, GivenUpFacts DEF SameButHave, PC
  <1> HIDE DEF p
  <1>3. ProcessInv(p)
    BY <1>2, OnwardProcess
  <1> QED
    BY <1>1, <1>2, <1>3, QuietStep

LEMMA GotoKeeps ==
  ASSUME PInv, NEW w \in Worker, NEW pc \in {"save", "lost"}, Goto(w, pc),
         worker[w].pc \in {"ask", "save", "fail"}, pc = "save" => worker[w].pc = "ask",
         UNCHANGED <<campaign, last, run, job, leftover>>, receipt' \in [RunId -> Receipt]
  PROVE  PInv'
  <1>1. /\ At(w, pc) \in Process /\ At(w, pc).pc = pc /\ At(w, pc).run = worker[w].run
        /\ At(w, pc).seen = worker[w].seen /\ At(w, pc).have = worker[w].have
    BY AtWork, AtFacts DEF PC
  <1>2. ProcessInv(At(w, pc))
    BY <1>1, OnwardProcess
  <1> QED
    BY <1>1, <1>2, QuietStep DEF Goto

LEMMA UnexpectedKeeps ==
  ASSUME PInv, NEW w \in Worker, worker[w].pc = "ask", Unexpected(w),
         UNCHANGED <<campaign, last, run, job, leftover>>, receipt' \in [RunId -> Receipt]
  PROVE  PInv'
  <1>1. CASE Leave(w, "retry")
    BY <1>1, LeaveKeeps
  <1>2. CASE Ending(w, "ambiguous")
    BY <1>2, EndingKeeps DEF Failed
  <1> QED
    BY <1>1, <1>2 DEF Unexpected

LEMMA ReadKeeps ==
  ASSUME PInv, NEW w \in Worker, Read(w)
  PROVE  PInv'
  <1> DEFINE r == worker[w].run
  <1>1. /\ worker[w].pc = "read" /\ receipt' \in [RunId -> Receipt]
        /\ UNCHANGED <<campaign, last, run, job, leftover>>
        /\ worker[w] \in Process /\ r \in RunId /\ r <= last /\ NothingSeen(worker[w])
    BY AtWork DEF Read, PInv, TypeOK
  <1>2. CASE Ending(w, "failed")
    BY <1>1, <1>2, EndingKeeps DEF Failed
  <1>3. CASE campaign.revision = run[r].expected /\ ~Ending(w, "failed")
    <2> DEFINE have == IF FillsCopy(r) THEN campaign.copy ELSE NoCopy
    <2> DEFINE p == HasRead(At(w, "ask"), campaign, have)
    <2>1. Become(w, p)
      BY <1>3, Zenon DEF Read, HasRead
    <2>2. /\ campaign \in Campaign /\ campaign.copy \in [Language -> Text]
          /\ campaign.revision \in Nat /\ have \in [Language -> Text]
          /\ \A l \in Language : campaign.copy[l].at <= campaign.revision /\ campaign.copy[l].at \in Nat
      BY BlankFacts DEF PInv, TypeOK, Campaign, CampaignIsDated, Text
    <2>3. /\ p \in Process /\ p.pc = "ask" /\ p.run = r /\ p.seen = campaign /\ p.have = have
      BY <1>1, <2>2, AtFacts, HasReadFacts DEF PC
    <2> HIDE DEF p
    <2>4. /\ campaign.revision = 0 => campaign = NoCampaign
          /\ campaign.revision > 0 => Exists
      BY BlankFacts DEF PInv, CampaignIsDated
    <2>5. run[r].state # "absent" => run[r].stage # "strategy" /\ campaign.revision > 0
      BY <1>1, <1>3 DEF NothingSeen, PInv, RunsInOrder
    <2>6. SeenIsDated(p)
      BY <1>3, <2>2, <2>3, <2>4, <2>5 DEF SeenIsDated
    <2>7. HaveIsDated(p)
      <3>1. \A l \in Language : have[l].at <= campaign.revision + 1
        BY <2>2, BlankFacts
      <3>2. Filling(r) => have = campaign.copy
        BY DEF Filling
      <3> QED
        BY <2>3, <2>4, <3>1, <3>2, BlankFacts DEF HaveIsDated
    <2>8. ProcessInv(p)
      BY <1>1, <2>3, <2>6, <2>7 DEF ProcessInv, NothingSeen
    <2> QED
      BY <1>1, <2>1, <2>3, <2>8, QuietStep
  <1> QED
    BY <1>2, <1>3 DEF Read

LEMMA AnsweredFacts ==
  ASSUME TypeOK, NEW r \in RunId, NEW l \in Language,
         NEW answer \in {"none", "open", "valid", "failed", "ambiguous"}, NEW paid \in BOOLEAN,
         Answered(r, l, answer, paid)
  PROVE  /\ receipt' \in [RunId -> Receipt]
         /\ receipt'[r].paid = paid
         /\ \A s \in RunId : s # r => receipt'[s] = receipt[s]
  <1> DEFINE new == [paid |-> paid, answer |-> [receipt[r].answer EXCEPT ![l] = answer]]
  <1>1. receipt' = [receipt EXCEPT ![r] = new]
    BY DEF Answered, TypeOK
  <1>2. receipt[r].answer \in [Language -> {"none", "open", "valid", "failed", "ambiguous"}]
    BY DEF TypeOK, Receipt
  <1>3. [receipt[r].answer EXCEPT ![l] = answer] \in [Language -> {"none", "open", "valid", "failed", "ambiguous"}]
    BY <1>2
  <1>4. new \in Receipt /\ new.paid = paid
    BY <1>3 DEF Receipt
  <1> HIDE DEF new
  <1> QED
    BY <1>1, <1>4 DEF TypeOK

LEMMA UsesAnswerKeeps ==
  ASSUME PInv, NEW w \in Worker, worker[w].pc = "ask", run[worker[w].run].state # "absent",
         NEW l \in Wanted(w),
         Become(w, [At(w, "ask") EXCEPT !.have = [@ EXCEPT ![l] = Generated(w)]]),
         UNCHANGED <<campaign, last, run, job, leftover, receipt>>
  PROVE  PInv'
  <1> DEFINE have == [worker[w].have EXCEPT ![l] = Generated(w)]
  <1> DEFINE p == Having(At(w, "ask"), have)
  <1>1. At(w, "ask") \in Process /\ At(w, "ask").have = worker[w].have /\ At(w, "ask").pc = "ask"
        /\ At(w, "ask").run = worker[w].run /\ At(w, "ask").seen = worker[w].seen
    BY AtWork, AtFacts DEF PC
  <1>2. Become(w, p)
    <2>1. [At(w, "ask") EXCEPT !.have = [@ EXCEPT ![l] = Generated(w)]] = p
      BY <1>1, Zenon DEF Having, Process
    <2> QED
      BY <2>1
  <1>3. /\ Generated(w) \in Text /\ Generated(w).at = worker[w].seen.revision + 1
        /\ l \in Language /\ worker[w].have[l].by = "nobody"
        /\ worker[w].seen.revision \in Nat /\ worker[w].have \in [Language -> Text]
    BY AtWork DEF Generated, Text, Wanted, Written, Language
  <1>4. /\ have \in [Language -> Text] /\ have[l] = Generated(w)
        /\ \A m \in Language : m # l => have[m] = worker[w].have[m]
    BY <1>3
  <1> HIDE DEF have
  <1>5. p \in Process /\ p.pc = "ask" /\ p.run = worker[w].run /\ p.seen = worker[w].seen /\ p.have = have
    BY <1>1, <1>4, HavingFacts DEF SameButHave
  <1> HIDE DEF p
  <1>6. SeenIsDated(p)
    BY <1>5, AtWork DEF SeenIsDated
  <1>7. Filling(p.run) => p.seen.revision > 0
    BY <1>5, <1>6 DEF SeenIsDated, Filling, FillsCopy
  <1>8. HaveIsDated(p)
    <2>1. HaveIsDated(worker[w])
      BY AtWork
    <2>2. \A m \in Language : have[m].at <= worker[w].seen.revision + 1
      BY <1>3, <1>4, <2>1 DEF HaveIsDated
    <2>3. Filling(p.run) => \A m \in Language : worker[w].seen.copy[m].by # "nobody" => have[m] = worker[w].seen.copy[m]
      BY <1>3, <1>4, <1>5, <2>1 DEF HaveIsDated
    <2> QED
      BY <1>3, <1>5, <1>7, <2>2, <2>3 DEF HaveIsDated
  <1>9. ProcessInv(p)
    BY <1>5, <1>6, <1>8, AtWork DEF ProcessInv, NothingSeen
  <1>10. receipt' \in [RunId -> Receipt]
    BY DEF PInv, TypeOK
  <1> QED
    BY <1>2, <1>5, <1>9, <1>10, QuietStep

LEMMA AskKeeps ==
  ASSUME PInv, NEW w \in Worker, Ask(w)
  PROVE  PInv'
  <1> DEFINE r == worker[w].run
  <1>1. /\ worker[w].pc = "ask" /\ UNCHANGED <<campaign, last, run, job, leftover>>
        /\ r \in RunId /\ receipt[r] \in Receipt /\ receipt \in [RunId -> Receipt] /\ TypeOK
    BY AtWork DEF Ask, PInv, TypeOK
  <1>2. receipt[r].paid \in BOOLEAN
    BY <1>1 DEF Receipt
  <1>3. CASE Goto(w, "save") /\ UNCHANGED receipt
    BY <1>1, <1>3, GotoKeeps
  <1>4. CASE Unexpected(w) /\ UNCHANGED receipt
    BY <1>1, <1>4, UnexpectedKeeps
  <1>5. ASSUME run[r].state # "absent", NEW l \in Wanted(w),
               LET is == receipt[r].answer[l] IN
               \/ /\ is = "none"
                  /\ Answered(r, l, "open", receipt[r].paid)
                  /\ UNCHANGED worker
               \/ /\ is = "open"
                  /\ Answered(r, l, "valid", TRUE)
                  /\ UNCHANGED worker
               \/ /\ is = "open"
                  /\ \E paid \in {receipt[r].paid, TRUE} : Answered(r, l, "failed", paid)
                  /\ UNCHANGED worker
               \/ /\ is = "open"
                  /\ Answered(r, l, "ambiguous", receipt[r].paid)
                  /\ UNCHANGED worker
               \/ /\ is = "valid"
                  /\ Become(w, [At(w, "ask") EXCEPT !.have = [@ EXCEPT ![l] = Generated(w)]])
                  /\ UNCHANGED receipt
               \/ /\ is \in Failed
                  /\ Ending(w, is)
                  /\ UNCHANGED receipt
               \/ /\ is = "none"
                  /\ IF worker[w].tries < MaxAttempts THEN Leave(w, "retry") ELSE Ending(w, "failed")
                  /\ UNCHANGED receipt
               \/ /\ is \in {"none", "open"}
                  /\ Unexpected(w)
                  /\ IF is = "open" /\ worker[w].tries >= MaxAttempts
                     THEN Answered(r, l, "ambiguous", receipt[r].paid) ELSE UNCHANGED receipt
        PROVE  PInv'
    <2> DEFINE is == receipt[r].answer[l]
    <2>1. l \in Language
      BY DEF Wanted, Language
    <2>2. CASE UNCHANGED worker
      <3>1. receipt' \in [RunId -> Receipt]
        BY <1>1, <1>2, <1>5, <2>1, <2>2, AnsweredFacts
      <3>2. Become(w, worker[w]) /\ worker[w] \in Process /\ ProcessInv(worker[w])
        BY <1>1, <2>2, TypeFacts DEF Become, PInv, TypeOK
      <3> QED
        BY <1>1, <3>1, <3>2, QuietStep
    <2>3. CASE /\ Become(w, [At(w, "ask") EXCEPT !.have = [@ EXCEPT ![l] = Generated(w)]])
               /\ UNCHANGED receipt
      BY <1>1, <1>5, <2>3, UsesAnswerKeeps
    <2>4. CASE is \in Failed /\ Ending(w, is) /\ UNCHANGED receipt
      <3> HIDE DEF is
      <3> QED
        BY <1>1, <2>4, EndingKeeps
    <2>5. CASE /\ IF worker[w].tries < MaxAttempts THEN Leave(w, "retry") ELSE Ending(w, "failed")
               /\ UNCHANGED receipt
      BY <1>1, <2>5, LeaveKeeps, EndingKeeps DEF Failed
    <2>6. CASE /\ Unexpected(w)
               /\ Answered(r, l, "ambiguous", receipt[r].paid) \/ UNCHANGED receipt
      <3>1. receipt' \in [RunId -> Receipt]
        BY <1>1, <1>2, <2>1, <2>6, AnsweredFacts
      <3> QED
        BY <1>1, <2>6, <3>1, UnexpectedKeeps
    <2> QED
      BY <1>5, <2>2, <2>3, <2>4, <2>5, <2>6
  <1> QED
    BY <1>3, <1>4, <1>5 DEF Ask

\* A run that is at work goes on, or ends: its row is only turned.
LEMMA TurnStep ==
  ASSUME PInv, NEW r \in RunId, run[r].state \in Active,
         NEW state \in {"running", "succeeded", "failed", "ambiguous"},
         run' = [run EXCEPT ![r] = Turned(r, state)]
  PROVE  /\ run' \in [RunId -> Run]
         /\ run'[r] \in Run /\ run'[r].state = state /\ run'[r].stage = run[r].stage
         /\ run'[r].expected = run[r].expected /\ run'[r].draft = run[r].draft
         /\ \A s \in RunId : s # r => run'[s] = run[s]
         /\ RunsKept /\ ~NoRows
         /\ r = last
  <1>1. run \in [RunId -> Run] /\ run[r] \in Run /\ r = last
    BY DEF PInv, TypeOK, RunsInOrder
  <1>2. state \in {"absent", "succeeded"} \cup Active \cup Failed
    BY DEF Active, Failed
  <1>3. /\ Turned(r, state) \in Run
        /\ Turned(r, state).state = state
        /\ Turned(r, state).stage = run[r].stage
        /\ Turned(r, state).expected = run[r].expected
        /\ Turned(r, state).draft = run[r].draft
    BY <1>1, <1>2, TurnedFacts
  <1>4. run'[r] = Turned(r, state) /\ run' \in [RunId -> Run] /\ \A s \in RunId : s # r => run'[s] = run[s]
    BY <1>1, <1>3
  <1>5. run[r].state # "absent" /\ ~NoRows
    BY DEF Active, NoRows
  <1>6. RunsKept
    BY <1>1, <1>3, <1>4, <1>5 DEF RunsKept
  <1> QED
    BY <1>1, <1>3, <1>4, <1>5, <1>6

LEMMA TurnKeeps ==
  ASSUME PInv, NEW r \in RunId, run[r].state \in Active,
         NEW state \in {"running", "succeeded", "failed", "ambiguous"},
         run' = [run EXCEPT ![r] = Turned(r, state)],
         UNCHANGED last, UNCHANGED job
  PROVE  Known' /\ RunsInOrder' /\ JobsHaveTries' /\ ActiveRunHasItsJob'
  <1>1. /\ run'[r].state = state /\ run'[r].stage = run[r].stage
        /\ run'[r].expected = run[r].expected
        /\ \A s \in RunId : s # r => run'[s] = run[s]
        /\ r = last
    BY TurnStep
  <1>5. ~(r > last)
    BY <1>1, RunsAssumption DEF RunId
  <1>2. Known'
    BY <1>1, <1>5 DEF PInv, Known
  <1>3. RunsInOrder'
    BY <1>1 DEF PInv, RunsInOrder, Active
  <1>4. JobsHaveTries' /\ ActiveRunHasItsJob'
    BY <1>1 DEF PInv, JobsHaveTries, ActiveRunHasItsJob
  <1> QED
    BY <1>2, <1>3, <1>4

LEMMA BeginKeeps ==
  ASSUME PInv, NEW w \in Worker, Begin(w)
  PROVE  PInv'
  <1> DEFINE r == worker[w].run
  <1>1. /\ worker[w].pc = "begin" /\ worker[w] \in Process /\ r \in RunId /\ run[r] \in Run
        /\ r <= last /\ NothingSeen(worker[w]) /\ SeenIsDated(worker[w]) /\ HaveIsDated(worker[w])
        /\ receipt' \in [RunId -> Receipt]
        /\ UNCHANGED campaign /\ UNCHANGED last /\ UNCHANGED job /\ UNCHANGED receipt /\ UNCHANGED leftover
    BY AtWork DEF Begin, PInv, TypeOK
  <1>2. CASE UNCHANGED run /\ run[r].state = "succeeded" /\ Leave(w, "complete")
    BY <1>1, <1>2, LeaveKeeps DEF Active
  <1>3. CASE UNCHANGED run /\ Leave(w, "giveUp")
    BY <1>1, <1>3, LeaveKeeps
  <1>4. CASE /\ run[r].state \in Active
             /\ run' = IF run[r].state = "queued"
                       THEN [run EXCEPT ![r] = Turned(r, "running")] ELSE run
             /\ Become(w, [At(w, IF run[r].stage = "strategy" THEN "ask" ELSE "read")
                           EXCEPT !.revision = run'[r].revision])
    <2> DEFINE pc == IF run[r].stage = "strategy" THEN "ask" ELSE "read"
    <2>p. PICK p : p = Joined(At(w, pc), run'[r].revision)
      OBVIOUS
    <2>1. Become(w, p)
      BY <1>4, <2>p, Zenon DEF Joined
    <2>2. /\ run'[r] \in Run /\ run' \in [RunId -> Run] /\ RunsKept /\ ~NoRows
          /\ run'[r].stage = run[r].stage /\ run'[r].draft = run[r].draft /\ r = last
          /\ Known' /\ RunsInOrder' /\ JobsHaveTries' /\ ActiveRunHasItsJob'
      <3>1. CASE run' = [run EXCEPT ![r] = Turned(r, "running")]
        BY <1>1, <1>4, <3>1, TurnStep, TurnKeeps
      <3>2. CASE UNCHANGED run
        <4>1. run[r].state # "absent" /\ r = last
          BY <1>1, <1>4 DEF Active, PInv, RunsInOrder
        <4> QED
          BY <1>1, <3>2, <4>1 DEF PInv, TypeOK, RunsKept, NoRows, Known, RunsInOrder, JobsHaveTries,
                                  ActiveRunHasItsJob
      <3> QED
        BY <1>4, <3>1, <3>2
    <2>3. run'[r].revision \in Nat /\ pc \in {"ask", "read"}
      BY <2>2 DEF Run
    <2>4. /\ p \in Process /\ p.pc = pc /\ p.run = r /\ p.seen = worker[w].seen /\ p.have = worker[w].have
      <3> HIDE DEF pc
      <3>1. pc \in PC
        BY <2>3 DEF PC
      <3>2. /\ At(w, pc) \in Process /\ At(w, pc).pc = pc /\ At(w, pc).run = r
            /\ At(w, pc).seen = worker[w].seen /\ At(w, pc).have = worker[w].have
        BY <1>1, <3>1, AtFacts
      <3> QED
        BY <2>p, <2>3, <3>2, JoinedFacts DEF SameButHave
    <2>5. worker' \in [Worker -> Process]
      BY <2>1, <2>4, BecomeFacts DEF PInv
    <2>6. TypeOK' /\ CampaignIsDated' /\ CampaignKept /\ last' >= last
      BY <1>1, <2>2, <2>5 DEF PInv, TypeOK, CampaignIsDated, CampaignKept, Exists
    <2>7. worker[w].seen = NoCampaign /\ worker[w].seen.revision = 0
      BY <1>1, BlankFacts DEF NothingSeen
    <2>8. SeenIsDated(p)'
      BY <1>1, <2>2, <2>4, <2>7 DEF SeenIsDated
    <2>9. HaveIsDated(p)'
      <3>1. Filling(p.run)' => Filling(p.run)
        BY <1>4, <2>2, <2>4 DEF Filling, FillsCopy, Refining, Active
      <3>2. \A l \in Language : p.seen.copy[l].by = "nobody"
        BY <2>4, <2>7, BlankFacts
      <3> QED
        BY <1>1, <2>4, <2>7, <3>1, <3>2 DEF HaveIsDated
    <2>10. NothingSeen(p)'
      BY <2>2, <2>4, <2>7 DEF NothingSeen
    <2>11. ProcessInv(p)'
      BY <1>1, <2>4, <2>8, <2>9, <2>10 DEF ProcessInv
    <2> QED
      BY <2>1, <2>2, <2>4, <2>6, <2>11, WorkerStep
  <1> QED
    BY <1>1, <1>2, <1>3, <1>4 DEF Begin
-------------------------------------------------------------------------------
(***************************************************************************)
(* What the handler writes.                                                *)
(***************************************************************************)
LEMMA OwnedRun ==
  ASSUME PInv, NEW w \in Worker, worker[w].pc # "idle", OwnsRun(w)
  PROVE  /\ run[worker[w].run].state = "running" /\ run[worker[w].run].state \in Active
         /\ worker[w].run \in RunId /\ worker[w].run = last /\ ~NoRows /\ Rows # {}
  BY AtWork DEF OwnsRun, Active, PInv, RunsInOrder, NoRows, Rows

\* What was read is still the campaign if it still has that revision.
LEMMA SeenIsPresent ==
  ASSUME PInv, NEW w \in Worker, worker[w].pc # "idle", Matches(w), worker[w].seen.revision > 0
  PROVE  Exists /\ worker[w].seen = campaign
  <1>1. Exists
    BY BlankFacts DEF Matches, PInv, CampaignIsDated
  <1> QED
    BY <1>1, AtWork DEF Matches, SeenIsDated

LEMMA HaveFacts ==
  ASSUME PInv, NEW w \in Worker, worker[w].pc \in {"save", "fail"}, Matches(w)
  PROVE  /\ campaign.revision \in Nat /\ worker[w].seen.revision = campaign.revision
         /\ worker[w].have \in [Language -> Text]
         /\ \A l \in Language : /\ worker[w].have[l].at <= campaign.revision + 1
                                /\ campaign.copy[l].at \in Nat /\ campaign.copy[l].at <= campaign.revision
         /\ campaign.copy \in [Language -> Text] /\ campaign.prompts \in BOOLEAN
         /\ campaign.stage \in {"absent", "strategy", "copy", "complete"}
         /\ Generated(w) \in Text /\ Generated(w).at = campaign.revision + 1
         /\ Generated(w).by = "provider"
  <1>1. /\ campaign.revision \in Nat /\ worker[w].seen.revision = campaign.revision
        /\ campaign.copy \in [Language -> Text] /\ campaign.prompts \in BOOLEAN
        /\ campaign.stage \in {"absent", "strategy", "copy", "complete"}
    BY DEF Matches, PInv, TypeOK, Campaign
  <1>2. /\ worker[w].have \in [Language -> Text] /\ HaveIsDated(worker[w])
    BY AtWork
  <1>3. \A l \in Language : campaign.copy[l].at <= campaign.revision /\ campaign.copy[l].at \in Nat
    BY <1>1 DEF PInv, CampaignIsDated, Text
  <1>4. \A l \in Language : worker[w].have[l].at <= campaign.revision + 1
    BY <1>1, <1>2 DEF HaveIsDated
  <1>5. /\ Generated(w) \in Text /\ Generated(w).at = campaign.revision + 1
        /\ Generated(w).by = "provider"
    BY <1>1 DEF Generated, Text
  <1> QED
    BY <1>1, <1>2, <1>3, <1>4, <1>5

\* A language that was written when the handler read the campaign is kept.
LEMMA HaveKeeps ==
  ASSUME PInv, NEW w \in Worker, worker[w].pc \in {"save", "fail"}, OwnsRun(w), Matches(w),
         FillsCopy(worker[w].run), worker[w].seen.revision > 0
  PROVE  \A l \in Language : campaign.copy[l].by # "nobody" => worker[w].have[l] = campaign.copy[l]
  <1>1. Filling(worker[w].run)
    BY OwnedRun DEF Filling, Active
  <1>2. worker[w].seen = campaign
    BY SeenIsPresent
  <1> QED
    BY <1>1, <1>2, AtWork DEF HaveIsDated

LEMMA ResultFacts ==
  ASSUME PInv, NEW w \in Worker, worker[w].pc = "save", OwnsRun(w), Matches(w)
  PROVE  /\ CampaignFacts(Result(w))
         /\ \A l \in Language : campaign.copy[l].by = "owner" /\ Result(w).copy[l].by = "provider" =>
                /\ run[worker[w].run].draft.language \in {l, "en"}
                /\ run[worker[w].run].expected >= campaign.copy[l].at
         /\ FillsCopy(worker[w].run) =>
                \A l \in Language : campaign.copy[l].by # "nobody" => Result(w).copy[l] = campaign.copy[l]
  <1> DEFINE r == worker[w].run
  <1> DEFINE seen == worker[w].seen
  <1>1. /\ run[r].state = "running" /\ r \in RunId
        /\ SeenIsDated(worker[w]) /\ seen.revision \in Nat
    BY OwnedRun, AtWork
  <1>2. CASE run[r].stage = "strategy"
    <2> DEFINE c == [stage |-> "strategy", revision |-> 1, copy |-> NoCopy, prompts |-> FALSE]
    <2>1. Result(w) = c
      BY <1>2 DEF Result
    <2>2. seen.revision = 0 /\ campaign = NoCampaign
      BY <1>1, <1>2 DEF SeenIsDated, Matches, PInv, CampaignIsDated
    <2>3. c \in Campaign /\ c.stage # "absent" /\ c.copy = NoCopy
      BY BlankFacts DEF Campaign
    <2>4. c.revision = campaign.revision + 1
      BY <2>2, BlankFacts
    <2>5. CampaignFacts(c)
      BY <2>3, <2>4, BlankFacts DEF CampaignFacts
    <2>6. \A l \in Language : campaign.copy[l].by = "nobody"
      BY <2>2, BlankFacts
    <2> QED
      BY <2>1, <2>5, <2>6
  <1>3. CASE run[r].stage # "strategy"
    <2>1. seen.revision > 0 /\ seen = campaign /\ Exists /\ run[r].expected = campaign.revision
      <3>1. seen.revision > 0
        BY <1>1, <1>3 DEF SeenIsDated
      <3>2. run[r].expected = seen.revision
        BY <1>1, <3>1 DEF SeenIsDated
      <3> QED
        BY <3>1, <3>2, SeenIsPresent
    <2>2. campaign.stage \in {"strategy", "copy", "complete"} /\ campaign \in Campaign
      BY <2>1, HaveFacts DEF Exists, PInv, TypeOK
    <2>3. CASE Refining(r)
      <3> DEFINE copy == [l \in Language |-> IF run[r].draft.language \in {l, "en"}
                                             THEN Generated(w) ELSE campaign.copy[l]]
      <3>1. Result(w) = Revised(campaign, campaign.stage, copy, campaign.prompts)
        BY <1>3, <2>1, <2>3 DEF Result
      <3>2. copy \in [Language -> Text] /\ \A l \in Language : copy[l].at <= campaign.revision + 1
        BY HaveFacts
      <3>3. /\ \A l \in Language : copy[l] = campaign.copy[l] \/ run[r].draft.language \in {l, "en"}
        OBVIOUS
      <3> HIDE DEF copy
      <3>4. CampaignFacts(Result(w)) /\ Result(w).copy = copy
        <4>1. PICK stage \in {"strategy", "copy", "complete"}, prompts \in BOOLEAN, c \in [Language -> Text] :
                 stage = campaign.stage /\ prompts = campaign.prompts /\ c = copy
          BY <2>2, <3>2, HaveFacts
        <4>2. Result(w) = Revised(campaign, stage, c, prompts)
          BY <3>1, <4>1, Zenon
        <4> QED
          BY <3>2, <4>1, <4>2, RevisionFacts
      <3>5. ~FillsCopy(r)
        BY <2>3 DEF FillsCopy
      <3> QED
        BY <2>1, <3>3, <3>4, <3>5, HaveFacts
    <2>4. CASE FillsCopy(r)
      <3> DEFINE have == worker[w].have
      <3>1. Result(w) = WithCopy(campaign, have)
        BY <1>3, <2>1, <2>4 DEF Result, FillsCopy
      <3>2. PICK stage \in {"complete", "copy"} : Result(w) = Revised(campaign, stage, have, campaign.prompts)
        BY <3>1 DEF WithCopy
      <3>3. CampaignFacts(Result(w)) /\ Result(w).copy = have
        <4>1. PICK prompts \in BOOLEAN, c \in [Language -> Text] : prompts = campaign.prompts /\ c = have
          BY HaveFacts
        <4>2. Result(w) = Revised(campaign, stage, c, prompts)
          BY <3>2, <4>1, Zenon
        <4>3. stage \in {"strategy", "copy", "complete"} /\ \A l \in Language : c[l].at <= campaign.revision + 1
          BY <4>1, HaveFacts
        <4> QED
          BY <4>1, <4>2, <4>3, RevisionFacts
      <3>4. \A l \in Language : campaign.copy[l].by # "nobody" => have[l] = campaign.copy[l]
        BY <2>1, <2>4, HaveKeeps
      <3> QED
        BY <3>3, <3>4
    <2>5. CASE ~Refining(r) /\ ~FillsCopy(r)
      <3>1. PICK prompts \in BOOLEAN : Result(w) = Revised(campaign, "complete", campaign.copy, prompts)
        <4>1. Result(w) = Revised(campaign, "complete", campaign.copy, TRUE)
          BY <1>3, <2>1, <2>5 DEF Result, WithPrompts
        <4> QED
          BY <4>1, Zenon
      <3>2. \A l \in Language : campaign.copy[l].at <= campaign.revision + 1
        BY HaveFacts
      <3>3. CampaignFacts(Result(w)) /\ Result(w).copy = campaign.copy
        <4>1. PICK stage \in {"strategy", "copy", "complete"}, c \in [Language -> Text] :
                 stage = "complete" /\ c = campaign.copy
          BY HaveFacts
        <4>2. Result(w) = Revised(campaign, stage, c, prompts)
          BY <3>1, <4>1, Zenon
        <4> QED
          BY <3>2, <4>1, <4>2, RevisionFacts
      <3> QED
        BY <2>5, <3>3
    <2> QED
      BY <2>3, <2>4, <2>5
  <1> QED
    BY <1>2, <1>3

\* A run ends, and the campaign may get a new revision with it.
LEMMA EndStep ==
  ASSUME PInv, NEW w \in Worker, worker[w].pc # "idle", OwnsRun(w),
         NEW state \in {"succeeded", "failed", "ambiguous"},
         run' = [run EXCEPT ![worker[w].run] = Turned(worker[w].run, state)],
         UNCHANGED campaign \/ CampaignFacts(campaign'),
         NEW pc \in {"complete", "giveUp"}, Leave(w, pc),
         UNCHANGED last, UNCHANGED job, UNCHANGED receipt, UNCHANGED leftover
  PROVE  PInv'
  <1>r. PICK r : r = worker[w].run
    OBVIOUS
  <1>1. /\ r \in RunId /\ run[r].state \in Active /\ r <= last
        /\ run' = [run EXCEPT ![r] = Turned(r, state)]
    BY <1>r, OwnedRun, AtWork
  <1>2. /\ run' \in [RunId -> Run] /\ run'[r].state = state /\ RunsKept /\ ~NoRows
        /\ Known' /\ RunsInOrder' /\ JobsHaveTries' /\ ActiveRunHasItsJob'
    BY <1>1, TurnStep, TurnKeeps
  <1>3. /\ campaign' \in Campaign /\ CampaignIsDated' /\ CampaignKept
    <2>1. CASE UNCHANGED campaign
      BY <1>2, <2>1 DEF PInv, TypeOK, CampaignIsDated, CampaignKept, Exists
    <2>2. CASE CampaignFacts(campaign')
      <3>1. campaign.revision \in Nat
        BY DEF PInv, TypeOK, Campaign
      <3> QED
        BY <1>2, <2>2, <3>1 DEF CampaignFacts, CampaignIsDated, CampaignKept, Exists
    <2> QED
      BY <2>1, <2>2
  <1>p. PICK p : p = Leaving(r, pc)
    OBVIOUS
  <1>4. Become(w, p)
    BY <1>r, <1>p, Zenon DEF Leave, Leaving
  <1>5. Bare(p, pc, r)
    BY <1>1, <1>p, LeavingFacts DEF PC
  <1>6. ProcessInv(p)'
    <2>1. state \notin Active /\ last' = last
      BY DEF Active
    <2> QED
      BY <1>1, <1>2, <1>5, <2>1, BlankFacts DEF Bare, ProcessInv, NothingSeen, SeenIsDated, HaveIsDated
  <1>7. TypeOK' /\ last' >= last
    BY <1>2, <1>3, <1>4, <1>5, BecomeFacts DEF PInv, TypeOK, Bare
  <1> QED
    BY <1>2, <1>3, <1>4, <1>5, <1>6, <1>7, WorkerStep DEF Bare

LEMMA HandoffFacts ==
  ASSUME NEW r, Handoff(r) # "none"
  PROVE  Handoff(r) \in Stage
  BY DEF Handoff, Stage

\* A run ends and the next begins.
LEMMA HandoffStep ==
  ASSUME PInv, NEW w \in Worker, worker[w].pc = "save", OwnsRun(w), Matches(w),
         Handoff(worker[w].run) # "none", last < MaxRuns,
         campaign' = Result(w), last' = last + 1,
         run' = [run EXCEPT ![worker[w].run] = Turned(worker[w].run, "succeeded"),
                            ![last + 1] = NextRun(worker[w].run, campaign'.revision)],
         job' = [job EXCEPT ![last + 1] = NewJob],
         Leave(w, "complete"), UNCHANGED receipt, UNCHANGED leftover
  PROVE  PInv'
  <1>r. PICK r : r = worker[w].run
    OBVIOUS
  <1>n. PICK n : n = last + 1
    OBVIOUS
  <1>1. /\ r \in RunId /\ run[r].state \in Active /\ r = last /\ ~NoRows /\ run[r] \in Run
        /\ last \in Nat /\ n \in RunId /\ n # r /\ n > last
    BY <1>r, <1>n, OwnedRun, AtWork, RunsAssumption DEF PInv, TypeOK, RunId
  <1>2. /\ CampaignFacts(campaign') /\ campaign.revision \in Nat
    BY ResultFacts DEF PInv, TypeOK, Campaign
  <1>3. PICK next : next = NextRun(r, campaign'.revision)
    OBVIOUS
  <1>4. /\ next \in Run /\ next.state = "queued" /\ next.expected > 0
    <2>1. Handoff(r) \in Stage /\ campaign'.revision \in Nat /\ campaign'.revision > 0
      BY <1>r, <1>2, HandoffFacts DEF CampaignFacts
    <2>2. 1 \in Nat /\ NoDraft \in Draft
      BY BlankFacts
    <2>3. PICK stage \in Stage, revision \in Nat :
             stage = Handoff(r) /\ revision = campaign'.revision /\ revision > 0
      BY <2>1
    <2>4. next = NewRun(stage, revision, 1, NoDraft)
      BY <1>3, <2>3 DEF NextRun
    <2> QED
      BY <2>2, <2>3, <2>4, NewRunFacts
  <1>5. PICK done : done = Turned(r, "succeeded")
    OBVIOUS
  <1>6. /\ done \in Run /\ done.state = "succeeded" /\ done.stage = run[r].stage
        /\ done.expected = run[r].expected /\ done.draft = run[r].draft
    BY <1>1, <1>5, TurnedFacts
  <1>7. run' = [run EXCEPT ![r] = done, ![n] = next] /\ job' = [job EXCEPT ![n] = NewJob]
    BY <1>r, <1>n, <1>3, <1>5
  <1>8. /\ run'[r] = done /\ run'[n] = next /\ run' \in [RunId -> Run]
        /\ \A s \in RunId : s # r /\ s # n => run'[s] = run[s]
        /\ job'[n] = NewJob /\ job' \in [RunId -> Job]
        /\ \A s \in RunId : s # n => job'[s] = job[s]
    <2>1. run \in [RunId -> Run] /\ job \in [RunId -> Job] /\ NewJob \in Job
      BY NoRowFacts DEF PInv, TypeOK
    <2>2. /\ run'[r] = done /\ run'[n] = next /\ run' \in [RunId -> Run]
          /\ \A s \in RunId : s # r /\ s # n => run'[s] = run[s]
      <3>1. PICK ended : ended = [run EXCEPT ![r] = done]
        OBVIOUS
      <3>2. /\ ended \in [RunId -> Run] /\ ended[r] = done
            /\ \A s \in RunId : s # r => ended[s] = run[s]
        BY <1>1, <1>6, <2>1, <3>1
      <3>3. run' = [ended EXCEPT ![n] = next]
        BY <1>7, <3>1
      <3> QED
        BY <1>1, <1>4, <3>2, <3>3
    <2>3. /\ job'[n] = NewJob /\ job' \in [RunId -> Job]
          /\ \A s \in RunId : s # n => job'[s] = job[s]
      BY <1>1, <1>7, <2>1
    <2> QED
      BY <2>2, <2>3
  <1>9. campaign' \in Campaign /\ CampaignIsDated' /\ CampaignKept
    BY <1>1, <1>2 DEF CampaignFacts, CampaignIsDated, CampaignKept, Exists
  <1>p. PICK p : p = Leaving(r, "complete")
    OBVIOUS
  <1>10. Become(w, p)
    BY <1>r, <1>p, Zenon DEF Leave, Leaving
  <1>11. Bare(p, "complete", r)
    BY <1>1, <1>p, LeavingFacts DEF PC
  <1>12. TypeOK'
    BY <1>1, <1>8, <1>9, <1>10, <1>11, BecomeFacts, RunsAssumption DEF PInv, TypeOK, Bare, RunId
  <1>13. Known'
    <2> SUFFICES ASSUME NEW s \in RunId, s > last + 1
                 PROVE  run'[s].state = "absent" /\ job'[s].status = "absent"
      BY DEF Known
    <2>1. s # r /\ s # n /\ s > last
      BY <1>1, <1>n DEF RunId
    <2> QED
      BY <1>8, <2>1 DEF PInv, Known
  <1>14. RunsInOrder'
    <2>1. \A s \in RunId : s # r => run[s].state \notin Active
      BY <1>1 DEF PInv, RunsInOrder
    <2>2. run[r].state # "absent"
      BY <1>1 DEF Active
    <2> QED
      BY <1>n, <1>1, <1>4, <1>6, <1>8, <2>1, <2>2 DEF PInv, RunsInOrder, Active
  <1>15. JobsHaveTries'
    BY <1>8, NoRowFacts, AttemptsAssumption DEF PInv, JobsHaveTries
  <1>16. ActiveRunHasItsJob'
    BY <1>6, <1>8, NoRowFacts DEF PInv, ActiveRunHasItsJob, Active
  <1>17. RunsKept
    <2> SUFFICES ASSUME NEW s \in RunId, s <= last
                 PROVE  \/ run'[s].state = "absent"
                        \/ /\ run[s].state # "absent"
                           /\ run'[s].stage = run[s].stage
                           /\ run'[s].expected = run[s].expected
                           /\ run'[s].draft = run[s].draft
                           /\ run[s].state \notin Active => run'[s].state \notin Active
      BY DEF RunsKept
    <2>1. s # n
      BY <1>1 DEF RunId
    <2>2. CASE s = r
      BY <1>1, <1>6, <1>8, <2>2 DEF Active
    <2>3. CASE s # r
      BY <1>8, <2>1, <2>3
    <2> QED
      BY <2>2, <2>3
  <1>18. ProcessInv(p)'
    <2>1. run'[r].state \notin Active /\ r <= last'
      BY <1>1, <1>6, <1>8 DEF Active
    <2> QED
      BY <1>11, <2>1, BlankFacts DEF Bare, ProcessInv, NothingSeen, SeenIsDated, HaveIsDated
  <1>19. last' >= last
    BY <1>1
  <1> QED
    BY <1>9, <1>10, <1>11, <1>12, <1>13, <1>14, <1>15, <1>16, <1>17, <1>18, <1>19, WorkerStep DEF Bare

LEMMA SaveKeeps ==
  ASSUME PInv, NEW w \in Worker, Save(w)
  PROVE  PInv'
  <1>1. /\ worker[w].pc = "save" /\ UNCHANGED receipt /\ UNCHANGED leftover
        /\ receipt' \in [RunId -> Receipt]
    BY DEF Save, PInv, TypeOK
  <1>2. CASE /\ OwnsRun(w) /\ Matches(w) /\ campaign' = Result(w)
             /\ run' = [run EXCEPT ![worker[w].run] = Turned(worker[w].run, "succeeded")]
             /\ Leave(w, "complete") /\ UNCHANGED <<last, job>>
    <2>1. CampaignFacts(campaign')
      BY <1>1, <1>2, ResultFacts
    <2> QED
      BY <1>1, <1>2, <2>1, EndStep
  <1>3. CASE /\ OwnsRun(w) /\ Matches(w) /\ Handoff(worker[w].run) # "none" /\ last < MaxRuns
             /\ campaign' = Result(w) /\ last' = last + 1
             /\ run' = [run EXCEPT ![worker[w].run] = Turned(worker[w].run, "succeeded"),
                                   ![last + 1] = NextRun(worker[w].run, campaign'.revision)]
             /\ job' = [job EXCEPT ![last + 1] = NewJob]
             /\ Leave(w, "complete")
    BY <1>1, <1>3, HandoffStep
  <1>4. CASE Leave(w, "retry") /\ UNCHANGED <<campaign, last, run, job>>
    BY <1>1, <1>4, LeaveKeeps
  <1>5. CASE GivesUp(w) /\ UNCHANGED <<campaign, last, run, job>>
    BY <1>1, <1>5, GivesUpKeeps
  <1>6. CASE Goto(w, "lost") /\ UNCHANGED <<campaign, last, run, job>>
    BY <1>1, <1>6, GotoKeeps
  <1> QED
    BY <1>2, <1>3, <1>4, <1>5, <1>6 DEF Save

\* What a failing copy run keeps.
LEMMA PartialFacts ==
  ASSUME PInv, NEW w \in Worker, worker[w].pc = "fail", OwnsRun(w), Partial(w), Matches(w)
  PROVE  /\ CampaignFacts(PartialCopy(w)) /\ PartialCopy(w).copy = worker[w].have
         /\ \A l \in Language : campaign.copy[l].by # "nobody" => worker[w].have[l] = campaign.copy[l]
  <1> DEFINE r == worker[w].run
  <1>1. Filling(r) /\ FillsCopy(r) /\ HaveIsDated(worker[w]) /\ SeenIsDated(worker[w])
        /\ worker[w].seen.revision \in Nat
    BY OwnedRun, AtWork DEF Filling, Partial, Active
  <1>2. worker[w].seen.revision > 0
    <2>1. CASE worker[w].seen.revision = 0
      <3>1. worker[w].have = NoCopy /\ worker[w].seen.copy = NoCopy
        BY <1>1, <2>1, BlankFacts DEF HaveIsDated, SeenIsDated
      <3> QED
        BY <3>1 DEF Partial
    <2> QED
      BY <1>1, <2>1
  <1>3. worker[w].seen = campaign /\ Exists
    BY <1>2, SeenIsPresent
  <1>4. PICK prompts \in BOOLEAN : prompts = campaign.prompts
    BY HaveFacts
  <1>5. PartialCopy(w) = Revised(campaign, "copy", worker[w].have, prompts)
    BY <1>3, <1>4, Zenon DEF PartialCopy
  <1>6. CampaignFacts(PartialCopy(w)) /\ PartialCopy(w).copy = worker[w].have
    <2>1. PICK stage \in {"strategy", "copy", "complete"}, c \in [Language -> Text] :
             stage = "copy" /\ c = worker[w].have
      BY HaveFacts
    <2>2. PartialCopy(w) = Revised(campaign, stage, c, prompts)
      BY <1>5, <2>1, Zenon
    <2>3. \A l \in Language : c[l].at <= campaign.revision + 1
      BY <2>1, HaveFacts
    <2> QED
      BY <2>1, <2>2, <2>3, RevisionFacts
  <1> QED
    BY <1>1, <1>2, <1>6, HaveKeeps

LEMMA FailKeeps ==
  ASSUME PInv, NEW w \in Worker, Fail(w)
  PROVE  PInv'
  <1>1. /\ worker[w].pc = "fail" /\ UNCHANGED last /\ UNCHANGED job /\ UNCHANGED receipt
        /\ UNCHANGED leftover /\ receipt' \in [RunId -> Receipt]
    BY DEF Fail, PInv, TypeOK
  <1>2. CASE /\ OwnsRun(w) /\ (Partial(w) => Matches(w))
             /\ run' = [run EXCEPT ![worker[w].run] = Turned(worker[w].run, worker[w].verdict)]
             /\ campaign' = IF Partial(w) THEN PartialCopy(w) ELSE campaign
             /\ Leave(w, "giveUp")
    <2>1. worker[w].verdict \in {"failed", "ambiguous"}
      BY TypeFacts DEF PInv, Failed
    <2>2. UNCHANGED campaign \/ CampaignFacts(campaign')
      BY <1>1, <1>2, PartialFacts
    <2> QED
      BY <1>1, <1>2, <2>1, <2>2, EndStep
  <1>3. CASE GivesUp(w) /\ UNCHANGED <<campaign, run>>
    BY <1>1, <1>3, GivesUpKeeps
  <1>4. CASE Goto(w, "lost") /\ UNCHANGED <<campaign, run>>
    BY <1>1, <1>4, GotoKeeps
  <1> QED
    BY <1>2, <1>3, <1>4 DEF Fail

LEMMA LostKeeps ==
  ASSUME PInv, NEW w \in Worker, Lost(w)
  PROVE  PInv'
  <1> DEFINE r == worker[w].run
  <1>1. /\ worker[w].pc = "lost" /\ UNCHANGED campaign /\ UNCHANGED last /\ UNCHANGED job
        /\ UNCHANGED receipt /\ UNCHANGED leftover /\ receipt' \in [RunId -> Receipt]
    BY DEF Lost, PInv, TypeOK
  <1>2. CASE UNCHANGED run /\ Leave(w, "complete") /\ run[r].state = "succeeded"
    BY <1>1, <1>2, LeaveKeeps DEF Active
  <1>3. CASE UNCHANGED run /\ Leave(w, "giveUp")
    BY <1>1, <1>3, LeaveKeeps
  <1>4. CASE UNCHANGED run /\ Leave(w, "retry")
    BY <1>1, <1>4, LeaveKeeps
  <1>5. CASE /\ run[r].state = "running" /\ Leave(w, "giveUp")
             /\ run' = [run EXCEPT ![r] = Turned(r, "ambiguous")]
    <2>p. PICK p : p = Leaving(r, "giveUp")
      OBVIOUS
    <2>s. PICK s : s = r
      OBVIOUS
    <2>1. /\ s \in RunId /\ s <= last /\ run[s].state \in Active
          /\ run' = [run EXCEPT ![s] = Turned(s, "ambiguous")]
      BY <1>1, <1>5, <2>s, AtWork DEF Active
    <2>2. /\ run' \in [RunId -> Run] /\ RunsKept /\ ~NoRows
          /\ Known' /\ RunsInOrder' /\ JobsHaveTries' /\ ActiveRunHasItsJob'
      BY <1>1, <2>1, TurnStep, TurnKeeps
    <2>3. Become(w, p)
      BY <1>5, <2>p, Zenon DEF Leave, Leaving
    <2>4. Bare(p, "giveUp", s)
      BY <2>1, <2>p, <2>s, LeavingFacts DEF PC
    <2>5. TypeOK' /\ CampaignIsDated' /\ CampaignKept /\ last' >= last
      BY <1>1, <2>2, <2>3, <2>4, BecomeFacts DEF PInv, TypeOK, Bare, CampaignIsDated, CampaignKept, Exists
    <2>6. ProcessInv(p)'
      BY <1>1, <2>1, <2>4, BlankFacts DEF Bare, ProcessInv, NothingSeen, SeenIsDated, HaveIsDated
    <2> QED
      BY <2>2, <2>3, <2>4, <2>5, <2>6, WorkerStep DEF Bare
  <1> QED
    BY <1>2, <1>3, <1>4, <1>5 DEF Lost
-------------------------------------------------------------------------------
(***************************************************************************)
(* Maintenance and retention.                                              *)
(***************************************************************************)
LEMMA ResumeKeeps ==
  ASSUME PInv, NEW r \in RunId, Resume(r)
  PROVE  PInv'
  <1>1. /\ run[r].state = "running" /\ run \in [RunId -> Run] /\ r = last /\ run[r].state \in Active
        /\ UNCHANGED campaign /\ UNCHANGED last /\ UNCHANGED receipt /\ UNCHANGED worker
        /\ leftover' = leftover \cup {r} /\ job' = [job EXCEPT ![r] = NewJob]
    BY DEF Resume, Resumable, PInv, TypeOK, RunsInOrder, Active
  <1>2. /\ Turned(r, "running") \in Run /\ Turned(r, "running").state = "running"
        /\ Turned(r, "running").stage = run[r].stage
        /\ Turned(r, "running").expected = run[r].expected
        /\ Turned(r, "running").draft = run[r].draft
    BY <1>1, TurnedFacts
  <1>3. PICK new : new = [Turned(r, "running") EXCEPT !.recovered = TRUE]
    OBVIOUS
  <1>4. /\ new \in Run /\ new.state = "running" /\ new.stage = run[r].stage
        /\ new.expected = run[r].expected /\ new.draft = run[r].draft
    BY <1>2, <1>3, RecoveredFacts
  <1>5. run' = [run EXCEPT ![r] = new]
    BY <1>3 DEF Resume
  <1>6. /\ run' \in [RunId -> Run] /\ run'[r] = new /\ \A s \in RunId : s # r => run'[s] = run[s]
        /\ job' \in [RunId -> Job] /\ job'[r] = NewJob /\ \A s \in RunId : s # r => job'[s] = job[s]
    BY <1>1, <1>4, <1>5, NoRowFacts DEF PInv, TypeOK
  <1>7. TypeOK'
    BY <1>1, <1>6 DEF PInv, TypeOK
  <1>8. ~(r > last)
    BY <1>1, RunsAssumption DEF RunId
  <1>9. Known' /\ RunsInOrder'
    BY <1>1, <1>4, <1>6, <1>8 DEF PInv, Known, RunsInOrder, Active
  <1>10. JobsHaveTries' /\ ActiveRunHasItsJob'
    BY <1>6, NoRowFacts, AttemptsAssumption DEF PInv, JobsHaveTries, ActiveRunHasItsJob
  <1>11. CampaignIsDated' /\ last' >= last
    BY <1>1 DEF PInv, TypeOK, CampaignIsDated, Exists
  <1>12. RunsKept /\ CampaignKept
    <2>1. run[r].state # "absent"
      BY <1>1
    <2>2. ~NoRows
      BY <2>1 DEF NoRows
    <2> QED
      BY <1>1, <1>4, <1>6, <2>1, <2>2 DEF RunsKept, CampaignKept
  <1> QED
    BY <1>1, <1>7, <1>9, <1>10, <1>11, <1>12, StillStep

LEMMA CloseOrphanKeeps ==
  ASSUME PInv, NEW r \in RunId, CloseOrphan(r)
  PROVE  PInv'
  <1>1. /\ run[r].state \in Active /\ receipt \in [RunId -> Receipt]
        /\ UNCHANGED campaign /\ UNCHANGED last /\ UNCHANGED job /\ UNCHANGED leftover /\ UNCHANGED worker
    BY DEF CloseOrphan, Orphaned, PInv, TypeOK
  <1>2. PICK state \in {"running", "succeeded", "failed", "ambiguous"} :
           run' = [run EXCEPT ![r] = Turned(r, state)]
    BY DEF CloseOrphan
  <1>3. /\ run' \in [RunId -> Run] /\ RunsKept /\ ~NoRows
        /\ Known' /\ RunsInOrder' /\ JobsHaveTries' /\ ActiveRunHasItsJob'
    BY <1>1, <1>2, TurnStep, TurnKeeps
  <1>4. receipt' \in [RunId -> Receipt]
    <2> DEFINE answer == [l \in Language |-> IF receipt[r].answer[l] = "open" THEN "ambiguous"
                                             ELSE receipt[r].answer[l]]
    <2> DEFINE new == [paid |-> receipt[r].paid, answer |-> answer]
    <2>1. answer \in [Language -> {"none", "open", "valid", "failed", "ambiguous"}]
      BY <1>1 DEF Receipt
    <2>2. receipt[r].paid \in BOOLEAN
      BY <1>1 DEF Receipt
    <2> HIDE DEF answer
    <2>3. new \in Receipt
      BY <2>1, <2>2, Zenon DEF Receipt
    <2>4. receipt' = [receipt EXCEPT ![r] = new]
      BY <1>1, Zenon DEF CloseOrphan, answer
    <2> HIDE DEF new
    <2> QED
      BY <1>1, <2>3, <2>4
  <1>5. TypeOK' /\ CampaignIsDated' /\ CampaignKept /\ last' >= last
    BY <1>1, <1>3, <1>4 DEF PInv, TypeOK, CampaignIsDated, CampaignKept, Exists
  <1> QED
    BY <1>1, <1>3, <1>5, StillStep

LEMMA RetentionKeeps ==
  ASSUME PInv, NEW r \in RunId, PruneRun(r) \/ PruneJob(r) \/ PruneLeftover(r)
  PROVE  PInv'
  <1>1. UNCHANGED campaign /\ UNCHANGED last /\ UNCHANGED worker
    BY DEF PruneRun, PruneJob, PruneLeftover
  <1>2. campaign' \in Campaign /\ CampaignIsDated' /\ last' >= last
    BY <1>1 DEF PInv, TypeOK, CampaignIsDated, Exists
  <1>3. CASE PruneRun(r)
    <2>1. /\ Removed({r}) /\ UNCHANGED leftover /\ {r} \in SUBSET RunId
          /\ \A s \in {r} : run[s].state \notin Active
      BY <1>3 DEF PruneRun, Disposable, Failed, Active
    <2>2. NoRows => NoRows'
      BY <2>1, RemovedFacts, NoRowFacts DEF NoRows, PInv
    <2>3. CampaignKept
      BY <1>1, <2>2 DEF CampaignKept
    <2> QED
      BY <1>1, <1>2, <2>1, <2>3, RemovalStep
  <1>4. CASE PruneJob(r)
    <2>1. /\ UNCHANGED run /\ UNCHANGED receipt /\ UNCHANGED leftover
          /\ job' = [job EXCEPT ![r] = NoJob] /\ run[r].state \notin Active
      BY <1>4 DEF PruneJob
    <2>2. /\ job' \in [RunId -> Job] /\ job'[r].status = "absent"
          /\ \A s \in RunId : s # r => job'[s] = job[s]
      BY <2>1, NoRowFacts DEF PInv, TypeOK
    <2>3. TypeOK'
      BY <1>1, <2>1, <2>2 DEF PInv, TypeOK
    <2>4. Known' /\ RunsInOrder' /\ JobsHaveTries' /\ ActiveRunHasItsJob'
      BY <1>1, <2>1, <2>2 DEF PInv, Known, RunsInOrder, JobsHaveTries, ActiveRunHasItsJob
    <2>5. RunsKept /\ CampaignKept
      BY <1>1, <2>1 DEF RunsKept, CampaignKept, NoRows
    <2> QED
      BY <1>1, <1>2, <2>3, <2>4, <2>5, StillStep
  <1>5. CASE PruneLeftover(r)
    <2>1. /\ UNCHANGED run /\ UNCHANGED receipt /\ UNCHANGED job /\ leftover' = leftover \ {r}
      BY <1>5 DEF PruneLeftover
    <2>2. TypeOK'
      BY <1>1, <2>1 DEF PInv, TypeOK
    <2>3. Known' /\ RunsInOrder' /\ JobsHaveTries' /\ ActiveRunHasItsJob'
      BY <1>1, <2>1 DEF PInv, Known, RunsInOrder, JobsHaveTries, ActiveRunHasItsJob
    <2>4. RunsKept /\ CampaignKept
      BY <1>1, <2>1 DEF RunsKept, CampaignKept, NoRows
    <2> QED
      BY <1>1, <1>2, <2>2, <2>3, <2>4, StillStep
  <1> QED
    BY <1>3, <1>4, <1>5
-------------------------------------------------------------------------------
(***************************************************************************)
(* The theorems.                                                           *)
(***************************************************************************)
LEMMA HandleKeeps ==
  ASSUME PInv, NEW w \in Worker, Handle(w)
  PROVE  PInv'
  BY BeginKeeps, ReadKeeps, AskKeeps, SaveKeeps, FailKeeps, LostKeeps, ReleaseKeeps DEF Handle

LEMMA NextKeeps ==
  PInv /\ [Next]_vars => PInv'
  <1> SUFFICES ASSUME PInv, [Next]_vars PROVE PInv'
    OBVIOUS
  <1>1. CASE Owner
    <2>1. CASE Delete
      BY <2>1, DeleteKeeps
    <2>2. CASE \E l \in Language : EditCopy(l)
      BY <2>2, EditKeeps
    <2> QED
      BY <1>1, <2>1, <2>2, OrderKeeps DEF Owner
  <1>2. CASE Work
    BY <1>2, HandleKeeps, ClaimKeeps, ParkKeeps, ResumeKeeps, CloseOrphanKeeps DEF Work
  <1>3. CASE Retention
    BY <1>3, RetentionKeeps DEF Retention
  <1>4. CASE \E w \in Worker : Crash(w)
    BY <1>4, CrashKeeps
  <1>5. CASE \E r \in RunId : Lapse(r)
    BY <1>5, ParkKeeps
  <1>6. CASE UNCHANGED vars
    BY <1>6, Zenon DEF vars, PInv, TypeOK, Known, RunsInOrder, JobsHaveTries, CampaignIsDated,
               ActiveRunHasItsJob, ProcessInv, NothingSeen, SeenIsDated, HaveIsDated, Exists, Rows,
               Filling, FillsCopy, Refining
  <1> QED
    BY <1>1, <1>2, <1>3, <1>4, <1>5, <1>6 DEF Next

LEMMA Invariance ==
  Spec => []PInv
  BY InitPInv, NextKeeps, PTL DEF Spec

\* The steps that change the campaign.
Writes == \/ \E l \in Language : EditCopy(l)
          \/ Delete
          \/ \E w \in Worker : Save(w) \/ Fail(w)

LEMMA CampaignChanges ==
  ASSUME [Next]_vars, campaign' # campaign
  PROVE  Writes
  <1>1. CASE Owner
    BY <1>1 DEF Owner, Writes, CreateCampaign, Continue, RefineCopy, Retry, Admit
  <1>2. CASE Work
    BY <1>2 DEF Work, Writes, Handle, Begin, Read, Ask, Lost, Release, Claim, RecoverExpired, Resume,
                CloseOrphan
  <1>3. CASE Retention
    BY <1>3 DEF Retention, PruneRun, PruneJob, PruneLeftover
  <1> QED
    BY <1>1, <1>2, <1>3 DEF Next, Crash, Lapse, vars

\* What a handler writes ends its run: the result of a success, or what a
\* failing copy run has finished.
LEMMA HandlerWrites ==
  ASSUME PInv, NEW w \in Worker, Save(w) \/ Fail(w), campaign' # campaign
  PROVE  /\ worker[w].pc # "idle" /\ OwnsRun(w) /\ Matches(w)
         /\ \/ /\ worker[w].pc = "save" /\ campaign' = Result(w)
               /\ run'[worker[w].run].state = "succeeded"
            \/ /\ worker[w].pc = "fail" /\ Partial(w) /\ campaign' = PartialCopy(w)
  <1>1. CASE Save(w)
    <2> DEFINE r == worker[w].run
    <2>1. worker[w].pc = "save" /\ OwnsRun(w) /\ Matches(w) /\ campaign' = Result(w)
      BY <1>1 DEF Save
    <2>2. /\ r \in RunId /\ r = last /\ last \in Nat /\ run[r] \in Run /\ run \in [RunId -> Run]
      BY <2>1, OwnedRun DEF PInv, TypeOK
    <2>3. Turned(r, "succeeded").state = "succeeded"
      BY <2>2, TurnedFacts
    <2>4. \/ run' = [run EXCEPT ![r] = Turned(r, "succeeded")]
          \/ run' = [run EXCEPT ![r] = Turned(r, "succeeded"),
                                ![last + 1] = NextRun(r, campaign'.revision)]
      BY <1>1 DEF Save
    <2>5. run'[r] = Turned(r, "succeeded")
      <3>1. r # last + 1
        BY <2>2
      <3> QED
        BY <2>2, <2>4, <3>1
    <2> QED
      BY <2>1, <2>3, <2>5
  <1>2. CASE Fail(w)
    BY <1>2 DEF Fail
  <1> QED
    BY <1>1, <1>2

(***************************************************************************)
(* No run, retry, refinement or handoff is ever admitted beside another    *)
(* one at work on the campaign.                                            *)
(***************************************************************************)
THEOREM RunsOneAtATime ==
  Spec => []OneActiveRun
  <1>1. PInv => OneActiveRun
    BY DEF PInv, RunsInOrder, OneActiveRun
  <1> QED
    BY <1>1, Invariance, PTL

(***************************************************************************)
(* A run at work keeps a job that is worked on or found by reconciliation. *)
(***************************************************************************)
THEOREM RunsAreNotForgotten ==
  Spec => []ActiveRunHasItsJob
  <1>1. PInv => ActiveRunHasItsJob
    BY DEF PInv
  <1> QED
    BY <1>1, Invariance, PTL

(***************************************************************************)
(* Paid work that could not be used is neither ordered again nor lost from *)
(* the record.                                                             *)
(***************************************************************************)
THEOREM PaidOnceOrNotAgain ==
  Spec => PaidWorkIsNotOrderedAgain
  <1>1. ASSUME PInv, [Next]_vars, NEW r \in RunId, Latest(r) /\ Spent(r)
        PROVE  last' = last /\ (campaign'.stage # "absent" => Spent(r)')
    <2>1. /\ run[r].state \in Failed /\ receipt[r].paid /\ run[r].state # "absent"
          /\ \A s \in RunId : run[s].state # "absent" => s <= r
          /\ last \in Nat /\ r \in Nat /\ r > 0
      BY <1>1, RunsAssumption DEF Latest, Spent, Rows, Failed, PInv, TypeOK, RunId
    <2>2. r <= last
      BY <1>1, <2>1 DEF PInv, Known
    <2>3. \A s \in RunId : run[s].state \notin Active
      <3> SUFFICES ASSUME NEW s \in RunId, run[s].state \in Active PROVE FALSE
        OBVIOUS
      <3>1. s = last /\ s <= r
        BY <1>1, <2>1 DEF PInv, RunsInOrder, Active
      <3>2. s = r
        BY <2>1, <2>2, <3>1
      <3> QED
        BY <2>1, <3>2 DEF Active, Failed
    <2>4. \A w \in Worker : worker[w].pc # "idle" => ~OwnsRun(w)
      BY <1>1, <2>3, OwnedRun
    <2>5. last' = last
      <3>1. ~CreateCampaign /\ ~Continue
        BY <2>1, <2>2 DEF CreateCampaign, Continue, Rows
      <3>2. \A l \in Language : ~RefineCopy(l)
        BY <1>1 DEF RefineCopy
      <3>3. \A s \in RunId : ~Retry(s)
        <4> SUFFICES ASSUME NEW s \in RunId, Latest(s), Unpaid(s) PROVE FALSE
          BY DEF Retry, Retryable
        <4>1. s <= r /\ r <= s
          BY <1>1 DEF Latest
        <4>2. s = r
          BY <4>1, RunsAssumption DEF RunId
        <4> QED
          BY <2>1, <4>2 DEF Unpaid
      <3>4. \A w \in Worker : Save(w) => UNCHANGED last
        BY <2>4 DEF Save
      <3>5. CASE Owner
        BY <3>1, <3>2, <3>3, <3>5 DEF Owner, Delete, EditCopy
      <3>6. CASE Work
        BY <3>4, <3>6 DEF Work, Handle, Begin, Read, Ask, Fail, Lost, Release, Claim, RecoverExpired,
                          Resume, CloseOrphan
      <3>7. CASE Retention
        BY <3>7 DEF Retention, PruneRun, PruneJob, PruneLeftover
      <3> QED
        BY <1>1, <3>5, <3>6, <3>7 DEF Next, Crash, Lapse, vars
    <2>6. ASSUME campaign'.stage # "absent" PROVE Spent(r)'
      <3>1. UNCHANGED <<run, receipt>> => Spent(r)'
        BY <1>1 DEF Spent
      <3>2. ~Delete
        BY <2>6, BlankFacts DEF Delete
      <3>3. \A w \in Worker : (Save(w) \/ Fail(w)) => UNCHANGED <<run, receipt>>
        BY <2>4 DEF Save, Fail
      <3>4. ASSUME NEW w \in Worker, Begin(w) \/ Lost(w) PROVE UNCHANGED <<run, receipt>>
        <4>1. worker[w].pc \in {"begin", "lost"}
          BY <3>4 DEF Begin, Lost
        <4>2. run[worker[w].run].state \notin {"queued", "running"}
          BY <1>1, <2>3, <4>1, AtWork DEF Active
        <4>3. CASE Begin(w)
          BY <4>2, <4>3 DEF Begin, Active
        <4>4. CASE Lost(w)
          BY <4>2, <4>4 DEF Lost
        <4> QED
          BY <3>4, <4>3, <4>4
      <3>5. ASSUME NEW w \in Worker, Ask(w) PROVE Spent(r)'
        <4>1. UNCHANGED run /\ worker[w].pc = "ask"
          BY <3>5 DEF Ask
        <4>2. receipt'[r].paid
          <5>1. CASE UNCHANGED receipt
            BY <2>1, <5>1
          <5>2. ASSUME NEW l \in Language, NEW answer \in {"none", "open", "valid", "failed", "ambiguous"},
                       NEW paid \in {receipt[worker[w].run].paid, TRUE},
                       Answered(worker[w].run, l, answer, paid)
                PROVE  receipt'[r].paid
            <6>1. worker[w].run \in RunId /\ paid \in BOOLEAN /\ TypeOK
              BY <1>1, <4>1, AtWork DEF Receipt, PInv
            <6> QED
              BY <2>1, <5>2, <6>1, AnsweredFacts
          <5>3. \A l \in Wanted(w) : l \in Language
            BY DEF Wanted, Language
          <5> QED
            BY <3>5, <5>1, <5>2, <5>3 DEF Ask
        <4> QED
          BY <2>1, <4>1, <4>2 DEF Spent
      <3>6. ASSUME NEW s \in RunId, PruneRun(s) PROVE Spent(r)'
        <4>1. Exists
          BY <2>6, <3>6 DEF PruneRun, Exists
        <4>2. Lineage(r)
          BY <1>1, <4>1 DEF Lineage, Spent
        <4>3. s # r
          BY <3>6, <4>2 DEF PruneRun, Disposable
        <4>4. run'[r] = run[r] /\ receipt'[r] = receipt[r]
          BY <1>1, <3>6, <4>3, RemovedFacts DEF PruneRun, PInv
        <4> QED
          BY <2>1, <4>4 DEF Spent
      <3>7. CASE Owner
        <4>1. ASSUME NEW stage, NEW expected, NEW attempt, NEW draft, Admit(stage, expected, attempt, draft)
              PROVE  FALSE
          BY <2>1, <2>5, <4>1 DEF Admit
        <4>2. \A l \in Language : EditCopy(l) => UNCHANGED <<run, receipt>>
          BY DEF EditCopy
        <4>3. /\ ~CreateCampaign /\ ~Continue /\ \A l \in Language : ~RefineCopy(l)
              /\ \A s \in RunId : ~Retry(s)
          BY <4>1 DEF CreateCampaign, Continue, RefineCopy, Retry
        <4> QED
          BY <3>1, <3>2, <3>7, <4>2, <4>3 DEF Owner
      <3>8. CASE Work
        BY <2>3, <3>1, <3>3, <3>4, <3>5, <3>8
           DEF Work, Handle, Read, Release, Claim, RecoverExpired, Resume, CloseOrphan, Orphaned
      <3>9. CASE Retention
        BY <3>1, <3>6, <3>9 DEF Retention, PruneJob, PruneLeftover
      <3> QED
        BY <1>1, <3>1, <3>7, <3>8, <3>9 DEF Next, Crash, Lapse, vars
    <2> QED
      BY <2>5, <2>6
  <1>2. PInv /\ [Next]_vars =>
           \A r \in RunId : Latest(r) /\ Spent(r) =>
              /\ last' = last
              /\ campaign'.stage # "absent" => Spent(r)'
    BY <1>1
  <1> QED
    BY <1>2, Invariance, PTL DEF Spec, PaidWorkIsNotOrderedAgain

(***************************************************************************)
(* The owner's words are replaced by a refinement of them only, never by   *)
(* the result of a run that was admitted before they were written.         *)
(***************************************************************************)
THEOREM NewerWordsWin ==
  Spec => StaleResultNeverWins
  <1>1. ASSUME PInv, [Next]_vars, NEW l \in Language,
               campaign.copy[l].by = "owner", campaign'.copy[l].by = "provider"
        PROVE  \E r \in RunId :
                  /\ run[r].state = "running" /\ run'[r].state = "succeeded"
                  /\ run[r].draft.language \in {l, "en"}
                  /\ run[r].expected >= campaign.copy[l].at
    <2>1. Writes /\ campaign' # campaign
      BY <1>1, CampaignChanges
    <2>2. ~Delete
      BY <1>1, BlankFacts DEF Delete
    <2>3. ASSUME NEW m \in Language, EditCopy(m) PROVE FALSE
      <3> DEFINE words == [by |-> "owner", at |-> campaign.revision + 1]
      <3>1. words.by = "owner"
        OBVIOUS
      <3> HIDE DEF words
      <3>2. campaign'.copy = [campaign.copy EXCEPT ![m] = words]
        BY <2>3 DEF EditCopy, Revised, words
      <3>3. campaign.copy \in [Language -> Text]
        BY <1>1 DEF PInv, TypeOK, Campaign
      <3> QED
        BY <1>1, <3>1, <3>2, <3>3
    <2>4. ASSUME NEW w \in Worker, Save(w) \/ Fail(w)
          PROVE  \E r \in RunId :
                    /\ run[r].state = "running" /\ run'[r].state = "succeeded"
                    /\ run[r].draft.language \in {l, "en"}
                    /\ run[r].expected >= campaign.copy[l].at
      <3>1. /\ worker[w].pc # "idle" /\ OwnsRun(w) /\ Matches(w)
            /\ \/ /\ worker[w].pc = "save" /\ campaign' = Result(w)
                  /\ run'[worker[w].run].state = "succeeded"
               \/ /\ worker[w].pc = "fail" /\ Partial(w) /\ campaign' = PartialCopy(w)
        BY <1>1, <2>1, <2>4, HandlerWrites
      <3>2. run[worker[w].run].state = "running" /\ worker[w].run \in RunId
        BY <1>1, <3>1, OwnedRun
      <3>3. CASE worker[w].pc = "save" /\ campaign' = Result(w) /\ run'[worker[w].run].state = "succeeded"
        <4>1. /\ run[worker[w].run].draft.language \in {l, "en"}
              /\ run[worker[w].run].expected >= campaign.copy[l].at
          BY <1>1, <3>1, <3>3, ResultFacts
        <4> QED
          BY <3>2, <3>3, <4>1
      <3>4. CASE worker[w].pc = "fail" /\ Partial(w) /\ campaign' = PartialCopy(w)
        <4>1. campaign'.copy[l] = campaign.copy[l]
          BY <1>1, <3>1, <3>4, PartialFacts
        <4> QED
          BY <1>1, <4>1
      <3> QED
        BY <3>1, <3>3, <3>4
    <2> QED
      BY <2>1, <2>2, <2>3, <2>4 DEF Writes
  <1>2. PInv /\ [Next]_vars =>
           \A l \in Language :
              campaign.copy[l].by = "owner" /\ campaign'.copy[l].by = "provider" =>
                \E r \in RunId :
                    /\ run[r].state = "running" /\ run'[r].state = "succeeded"
                    /\ run[r].draft.language \in {l, "en"}
                    /\ run[r].expected >= campaign.copy[l].at
    BY <1>1
  <1> QED
    BY <1>2, Invariance, PTL DEF Spec, StaleResultNeverWins

(***************************************************************************)
(* A copy run that continues where another one failed leaves the words     *)
(* that were there alone.                                                  *)
(***************************************************************************)
THEOREM FinishedWordsStay ==
  Spec => FinishedCopyIsKept
  <1>1. ASSUME PInv, [Next]_vars, NEW r \in RunId, NEW l \in Written(campaign.copy),
               run[r].state = "running", run'[r].state # "running", FillsCopy(r)
        PROVE  campaign'.copy[l] = campaign.copy[l]
    <2>1. l \in Language /\ campaign.copy[l].by # "nobody" /\ r = last /\ run[r].state \in Active
      BY <1>1 DEF Written, PInv, RunsInOrder, Active
    <2>2. ~Delete
      BY <2>1 DEF Delete, Deletable, Busy
    <2>3. \A m \in Language : ~EditCopy(m)
      BY <1>1 DEF EditCopy
    <2>4. ASSUME NEW w \in Worker, Save(w) \/ Fail(w), campaign' # campaign
          PROVE  campaign'.copy[l] = campaign.copy[l]
      <3>1. /\ worker[w].pc # "idle" /\ OwnsRun(w) /\ Matches(w)
            /\ \/ worker[w].pc = "save" /\ campaign' = Result(w)
               \/ worker[w].pc = "fail" /\ Partial(w) /\ campaign' = PartialCopy(w)
        BY <1>1, <2>4, HandlerWrites
      <3>2. worker[w].run = r
        BY <1>1, <2>1, <3>1, OwnedRun
      <3>3. CASE worker[w].pc = "save" /\ campaign' = Result(w)
        BY <1>1, <2>1, <3>1, <3>2, <3>3, ResultFacts
      <3>4. CASE worker[w].pc = "fail" /\ Partial(w) /\ campaign' = PartialCopy(w)
        BY <1>1, <2>1, <3>1, <3>4, PartialFacts
      <3> QED
        BY <3>1, <3>3, <3>4
    <2> QED
      BY <1>1, <2>2, <2>3, <2>4, CampaignChanges DEF Writes
  <1>2. PInv /\ [Next]_vars =>
           \A r \in RunId, l \in Written(campaign.copy) :
              run[r].state = "running" /\ run'[r].state # "running" /\ FillsCopy(r) =>
                  campaign'.copy[l] = campaign.copy[l]
    BY <1>1
  <1> QED
    BY <1>2, Invariance, PTL DEF Spec, FinishedCopyIsKept

(***************************************************************************)
(* Whatever a worker still holds of a campaign that was deleted is not     *)
(* written any more.                                                       *)
(***************************************************************************)
THEOREM DeletedForGood ==
  Spec => DeletedStaysDeleted
  <1>1. ASSUME PInv, [Next]_vars, ~Exists, Rows = {}, campaign' # campaign PROVE FALSE
    <2>1. Writes
      BY <1>1, CampaignChanges
    <2>2. ~Delete
      BY <1>1 DEF Delete
    <2>3. \A l \in Language : ~EditCopy(l)
      BY <1>1, BlankFacts DEF EditCopy, Written, PInv, CampaignIsDated
    <2>4. \A w \in Worker : ~(Save(w) \/ Fail(w))
      BY <1>1, HandlerWrites, OwnedRun
    <2> QED
      BY <2>1, <2>2, <2>3, <2>4 DEF Writes
  <1>2. PInv /\ [Next]_vars => (~Exists /\ Rows = {} /\ last > 0 => campaign' = campaign)
    BY <1>1
  <1> QED
    BY <1>2, Invariance, PTL DEF Spec, DeletedStaysDeleted
===============================================================================
