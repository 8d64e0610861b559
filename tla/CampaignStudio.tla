--------------------------- MODULE CampaignStudio ---------------------------
(* One tab of the campaign studio (admin.component.ts) over the service of
   campaigns (campaign-service.ts, generation-service.ts).

   A field that was edited is queued when the owner leaves it; one loop sends the
   queued edits one after the other, each with the revision on the screen.  A run
   of the worker is followed by polling.  Whatever is asked for on behalf of the
   screen as a whole (opening, recovering, polling) carries a sequence number: one
   slot, "follow", that the newer request takes over.  What an overtaken answer
   says of the campaign is dropped, but some of those who asked go on when it has
   come, and lock or unlock the studio: what they will still do is kept in "late".
   The loop that saves and the requests that order a run do not look at the number.

   One campaign, whose three stages are one run here; a run of another kind
   refines the copy of a language.  Words are told apart but for the white space around
   them, which the server trims (app.ts:440-461): the studio compares no words of its
   own with the server's. *)
EXTENDS Naturals, FiniteSets

CONSTANTS
  Languages,  \* of "en" and "sv"
  Fields,     \* the fields of a copy
  None,
  MaxRuns,    \* bound: runs
  MaxEvents   \* bound: edits, here and in another tab; saves tried again; requests, answers
              \* and sessions that are lost; what is declined, and what comes late

ASSUME LanguagesAssumption == Languages \subseteq {"en", "sv"} /\ Languages # {}
ASSUME BoundsAssumption == MaxRuns \in Nat /\ MaxEvents \in Nat

VARIABLES
  stored,     \* the campaign in the database
  run,        \* its latest run
  session,    \* the server knows the owner's session
  signed, view, shown, language, generating, refining, retry, dialog,
  edits,      \* what the owner wrote, by field, and what became of it
  known,      \* the latest run as the list of campaigns last told of it
  waiting,    \* what goes on when the loop that saves has ended
  req,        \* the requests on their way, with their answers
  late,       \* what is still to come of the workspace and of overtaken requests
  written,    \* history: edits the server has accepted
  events

server == <<stored, run, session, written>>
vars == <<stored, run, session, signed, view, shown, language, generating, refining,
          retry, dialog, edits, known, waiting, req, late, written, events>>

Keys  == Languages \X Fields
First == IF "en" \in Languages THEN "en" ELSE "sv"
Words(by, n) == [by |-> by, n |-> n]

Campaign(revision, text, refined) == [revision |-> revision, text |-> text, refined |-> refined]
Run(n, kind, lang, draft, base, state) ==
  [n |-> n, kind |-> kind, language |-> lang, draft |-> draft, base |-> base, state |-> state]
Edit(value, state) == [value |-> value, state |-> state]
NoEdits == [k \in Keys |-> None]

Asks(op, arg) == [op |-> op, arg |-> arg, reply |-> None]
Free == Asks("none", None)
Reply(code, body) == [code |-> code, body |-> body]
Lost == Reply(0, None)

Running == run # None /\ run.state = "active"
Recoverable == IF run # None /\ run.state # "succeeded" THEN run ELSE None
Reads == {"conflict", "open", "overlay", "recovered", "get", "final", "refused"}

\* What is kept and sent.
Values    == [by : {"run", "owner", "other"}, n : Nat]
Texts     == [Keys -> Values]
Drafts    == [Fields -> Values]
Campaigns == [revision : Nat, text : Texts, refined : Nat]
States    == {"active", "failed", "succeeded"}
Runs == [n : Nat, kind : {"make"}, language : {None}, draft : {None}, base : {0}, state : States]
   \cup [n : Nat, kind : {"refine"}, language : Languages, draft : Drafts, base : Nat, state : States]
Edits == [value : Values, state : {"dirty", "saving", "saved", "failed"}]
Patches   == [key : Keys, value : Values, revision : Nat]
Orders    == [language : Languages, revision : Nat, draft : Drafts]
Following == [want : Nat \cup {None}, status : Runs \cup {None}]

\* A request with its answer: a body when it was accepted, none when it was not.
Replies(bodies) == [code : {200}, body : bodies] \cup [code : {0, 400, 401, 404, 409}, body : {None}]
Requests(ops, args, bodies) == [op : ops, arg : args, reply : Replies(bodies) \cup {None}]
Savings == {Free} \cup Requests({"patch"}, Patches, Nat) \cup Requests({"conflict"}, Patches, Campaigns)
Follow  == {Free} \cup Requests({"status"}, Following, Runs)
             \cup Requests({"recover"}, Following, Runs \cup {None})
             \cup Requests({"open", "overlay", "recovered", "get", "final"}, Following, Campaigns)
Ordering == {Free} \cup Requests({"create", "retry"}, {None}, {None})
             \cup Requests({"refine"}, Orders, {None}) \cup Requests({"refused"}, Nat, Campaigns)

\* Whose answer is awaited, and the run it is about.
Tails == {"overlay"} \X {"active", "failed"} \cup {"get"} \X {"failed", "succeeded"}
           \cup {"final", "load"} \X {"any"}
Load  == <<"load", "any">>

\* No edit, run or campaign is None, which stands for its absence.
ASSUME NoneAssumption == None \notin Edits \cup Runs \cup Campaigns

Spend == events < MaxEvents /\ events' = events + 1

Init ==
  /\ \/ stored = None /\ run = None
     \/ /\ stored = Campaign(1, [k \in Keys |-> Words("run", 1)], 0)
        /\ run = Run(1, "make", None, None, 0, "succeeded")
  /\ session = FALSE /\ signed = FALSE /\ view = "list" /\ shown = None /\ language = First
  /\ generating = FALSE /\ refining = FALSE /\ retry = FALSE /\ dialog = FALSE
  /\ edits = NoEdits /\ known = None /\ waiting = {}
  /\ req = [s \in {"saver", "follow", "order"} |-> Free]
  /\ late = {} /\ written = {} /\ events = 0

---------------------------------------------------------------------------
(* The server. *)

Accepted(r) ==
  /\ session
  /\ r.op \in Reads => stored # None
  /\ r.op = "status" => run # None
  /\ r.op = "patch" => r.arg.revision = stored.revision
  /\ r.op = "refine" => ~Running /\ r.arg.revision = stored.revision
  /\ r.op = "retry" => run.kind = "make" /\ run.state = "failed"

Refusal(r) == IF ~session THEN 401
              ELSE IF r.op \in Reads THEN 404 ELSE 409

Body(r) == IF r.op \in Reads THEN stored
           ELSE IF r.op = "status" THEN run
           ELSE IF r.op = "recover" THEN Recoverable
           ELSE IF r.op = "patch" THEN stored.revision + 1
           ELSE None

UpdateCopy(e) ==
  /\ stored' = Campaign(stored.revision + 1, [stored.text EXCEPT ![e.key] = e.value],
                        stored.refined)
  /\ written' = written \cup {<<e.key, e.value>>}
  /\ UNCHANGED run

Order(r) ==
  /\ run' = IF r.op = "refine"
              THEN Run(run.n + 1, "refine", r.arg.language, r.arg.draft, r.arg.revision, "active")
              ELSE Run(IF run = None THEN 1 ELSE run.n + 1, "make", None, None, 0, "active")
  /\ UNCHANGED <<stored, written>>

Effect(r) ==
  \/ Accepted(r) /\ r.op = "patch" /\ UpdateCopy(r.arg)
  \/ Accepted(r) /\ r.op \in {"create", "refine", "retry"} /\ Order(r)
  \/ (~Accepted(r) \/ r.op \in Reads \cup {"status", "recover"})
     /\ UNCHANGED <<stored, run, written>>

Declined == Reply(400, None)

(* A request is served, or it is lost, before or after it was served.  Words may not
   fit, and an order may find no room (400, 429, 503). *)
Serve(s) ==
  LET r == req[s] IN
  /\ r.op # "none" /\ r.reply = None
  /\ \/ /\ Effect(r) /\ UNCHANGED events
        /\ req' = [req EXCEPT ![s].reply =
                     IF Accepted(r) THEN Reply(200, Body(r)) ELSE Reply(Refusal(r), None)]
     \/ /\ Spend
        /\ Effect(r) \/ UNCHANGED <<stored, run, written>>
        /\ req' = [req EXCEPT ![s].reply = Lost]
     \/ /\ session /\ Spend /\ r.op \in {"patch", "create", "refine", "retry"}
        /\ req' = [req EXCEPT ![s].reply = Declined]
        /\ UNCHANGED <<stored, run, written>>
  /\ UNCHANGED <<session, signed, view, shown, language, generating, refining, retry, dialog,
                 edits, known, waiting, late>>

(* The worker, which writes its result if the campaign is what it was. *)
Result ==
  IF run.kind = "make" THEN Campaign(1, [k \in Keys |-> Words("run", run.n)], 0)
  ELSE Campaign(stored.revision + 1,
                [k \in Keys |-> IF run.language \in {k[1], "en"} THEN Words("run", run.n)
                                ELSE stored.text[k]], run.n)

RunEnds ==
  /\ Running
  /\ \/ /\ run.kind = "refine" => stored.revision = run.base
        /\ stored' = Result /\ run' = [run EXCEPT !.state = "succeeded"]
     \/ run' = [run EXCEPT !.state = "failed"] /\ UNCHANGED stored
  /\ UNCHANGED <<session, signed, view, shown, language, generating, refining, retry, dialog,
                 edits, known, waiting, req, late, written, events>>

(* The owner saves a field in another tab; the session expires. *)
Elsewhere(k) ==
  /\ stored # None /\ Spend
  /\ stored' = Campaign(stored.revision + 1,
                 [stored.text EXCEPT ![k] = Words("other", events + 1)], stored.refined)
  /\ UNCHANGED <<run, session, signed, view, shown, language, generating, refining, retry,
                 dialog, edits, known, waiting, req, late, written>>

SessionEnds ==
  /\ session /\ session' = FALSE
  /\ Spend
  /\ UNCHANGED <<stored, run, signed, view, shown, language, generating, refining, retry, dialog,
                 edits, known, waiting, req, late, written>>

---------------------------------------------------------------------------
(* The copy on the screen. *)

place  == <<signed, view, language, dialog>>
flags  == <<generating, refining, retry>>

Unsaved(k) == edits[k] # None /\ edits[k].state # "saved"
HasUnsaved == \E k \in Keys : Unsaved(k)
In(e, state) == {k \in Keys : e[k] # None /\ e[k].state = state}

\* Fault: what is on its way to the server is taken for saved.
OverlaidDirty(c, e) ==
  [c EXCEPT !.text = [k \in Keys |-> IF k \in In(e, "dirty") THEN e[k].value ELSE c.text[k]]]
(* What comes from the server does not replace what was not saved. *)
Overlaid(c, e) ==
  [c EXCEPT !.text = [k \in Keys |-> IF e[k] # None /\ e[k].state # "saved" THEN e[k].value
                                     ELSE c.text[k]]]

(* The draft of a refinement is shown until it has succeeded, and then replaces
   what was written before it. *)
Done(st, c) == st # None /\ st.kind = "refine" /\ st.state = "succeeded" /\ c.refined = st.n
Drafted(st, c) ==
  IF st # None /\ st.kind = "refine" /\ st.state # "succeeded"
    THEN [c EXCEPT !.text = [k \in Keys |-> IF k[1] = st.language THEN st.draft[k[2]]
                                            ELSE c.text[k]]]
    ELSE c
\* Fault: the edits are dropped for their draft before the refinement has succeeded.
KeptForDraft(st, c) ==
  [k \in Keys |-> IF st # None /\ st.kind = "refine" /\ k[1] = st.language THEN None
                  ELSE edits[k]]
Kept(st, c) ==
  [k \in Keys |-> IF Done(st, c) /\ ~(st.language = "sv" /\ k[1] = "en") THEN None ELSE edits[k]]

Refresh(reply, st) ==
  IF reply.code = 200
    THEN /\ edits' = Kept(st, reply.body)
         /\ shown' = Overlaid(Drafted(st, reply.body), Kept(st, reply.body))
    ELSE UNCHANGED <<edits, shown>>

---------------------------------------------------------------------------
(* Editing and saving. *)

(* Fields, tabs and buttons of the copy. *)
Form == signed /\ ~dialog /\ view = "campaign" /\ shown # None
        /\ (~generating \/ refining) /\ (~retry \/ refining)

Type(k) ==
  /\ Form /\ ~generating /\ language = k[1] /\ Spend
  /\ LET value == Words("owner", events + 1)
     IN  /\ edits' = [edits EXCEPT ![k] = Edit(value, "dirty")]
         /\ shown' = [shown EXCEPT !.text[k] = value]
  /\ UNCHANGED <<server, late, place, flags, known, waiting, req>>

Patch(k, value, revision) == Asks("patch", [key |-> k, value |-> value, revision |-> revision])

Drain(e, c) ==
  IF In(e, "saving") = {} THEN req' = [req EXCEPT !.saver = Free]
  ELSE \E k \in In(e, "saving") :
         req' = [req EXCEPT !.saver = Patch(k, e[k].value, c.revision)]

(* An edit of a campaign that is no longer open cannot be saved. *)
Settled(e, c) ==
  [k \in Keys |-> IF c = None /\ k \in In(e, "saving") THEN Edit(e[k].value, "failed") ELSE e[k]]

(* One loop at a time; what is queued meanwhile it finds by itself. *)
Queue(K) ==
  LET queued == [k \in Keys |-> IF k \in K THEN Edit(edits[k].value, "saving") ELSE edits[k]]
  IN IF req.saver.op = "none"
       THEN edits' = Settled(queued, shown) /\ Drain(edits', shown)
       ELSE edits' = queued /\ UNCHANGED req

Blur(k) ==
  /\ Form /\ ~generating /\ language = k[1] /\ k \in In(edits, "dirty")
  /\ Queue({k})
  /\ UNCHANGED <<server, late, place, flags, shown, known, waiting, events>>

(* The button stays enabled during a refinement. *)
RetrySave(k) ==
  /\ Form /\ language = k[1] /\ k \in In(edits, "failed")
  /\ Spend
  /\ Queue({k})
  /\ UNCHANGED <<server, late, place, flags, shown, known, waiting>>

(* So do the tabs: copy, prompts, strategy. *)
SelectSection ==
  /\ Form /\ In(edits, "dirty") # {}
  /\ Queue(In(edits, "dirty"))
  /\ UNCHANGED <<server, late, place, flags, shown, known, waiting, events>>

SelectLanguage(l) ==
  /\ Form /\ ~generating /\ l # language
  /\ Queue(In(edits, "dirty"))
  /\ language' = l
  /\ UNCHANGED <<server, late, signed, view, dialog, flags, shown, known, waiting, events>>

\* Fault: an edit made while its predecessor was saved is marked with it.
MarkAny(e, arg, state) ==
  [k \in Keys |-> IF k = arg.key /\ e[k] # None THEN Edit(e[k].value, state) ELSE e[k]]
(* An edit made meanwhile keeps its state. *)
Mark(e, arg, state) ==
  [k \in Keys |-> IF k = arg.key /\ e[k] # None /\ e[k].value = arg.value
                    THEN Edit(e[k].value, state) ELSE e[k]]

PatchAnswered ==
  LET r == req.saver IN
  /\ r.op = "patch" /\ r.reply # None
  /\ IF r.reply.code = 409
       THEN req' = [req EXCEPT !.saver = Asks("conflict", r.arg)] /\ UNCHANGED <<shown, edits>>
       ELSE /\ shown' = IF r.reply.code = 200 /\ shown # None
                          THEN [shown EXCEPT !.revision = r.reply.body] ELSE shown
            /\ edits' = Settled(Mark(edits, r.arg, IF r.reply.code = 200 THEN "saved"
                                                     ELSE "failed"), shown')
            /\ Drain(edits', shown')
  /\ UNCHANGED <<server, late, place, flags, known, waiting, events>>

(* The campaign is read again, and the edit kept for the owner to try again. *)
ConflictAnswered ==
  LET r == req.saver IN
  /\ r.op = "conflict" /\ r.reply # None
  /\ shown' = IF r.reply.code = 200 THEN Overlaid(r.reply.body, edits) ELSE shown
  /\ edits' = Settled(Mark(edits, r.arg, "failed"), shown')
  /\ Drain(edits', shown')
  /\ UNCHANGED <<server, late, place, flags, known, waiting, events>>

---------------------------------------------------------------------------
(* Signing in and out, opening and leaving. *)

Follows(op, want, st) ==
  req' = [req EXCEPT !.follow = Asks(op, [want |-> want, status |-> st])]

(* After the campaign has come, openCampaign and pollGeneration go on, whoever else was
   asked meanwhile. *)
Overtaken(r) ==
  IF r.op \notin {"overlay", "get", "final"} \/ r.reply = Lost THEN {}
  ELSE {<<r.op, IF r.op = "final" THEN "any" ELSE r.arg.status.state>>} \cap Tails
\* An answer that is lost after all is not kept.
Overtakes(others) ==
  \/ late' = others /\ UNCHANGED events
  \/ Overtaken(req.follow) # {} /\ Spend /\ late' = others \cup Overtaken(req.follow)

Expired ==
  /\ signed' = FALSE /\ view' = "list" /\ language' = First
  /\ generating' = FALSE /\ refining' = FALSE /\ retry' = FALSE
  /\ shown' = None /\ edits' = NoEdits /\ known' = None

(* Work that goes on is looked for once the workspace is there, which may be late. *)
SignIn ==
  /\ ~signed
  /\ signed' = TRUE /\ session' = TRUE
  /\ known' = Recoverable
  /\ \/ Follows("recover", None, None) /\ UNCHANGED <<late, events>>
     \/ Spend /\ late' = late \cup {Load} /\ UNCHANGED req
  /\ UNCHANGED <<stored, run, written, view, language, dialog, flags, shown, edits, waiting>>

(* The workspace is there, whatever the owner has opened by then. *)
Loaded ==
  /\ Load \in late
  /\ IF HasUnsaved THEN late' = late \ {Load} /\ UNCHANGED <<req, events>>
     ELSE Overtakes(late \ {Load}) /\ Follows("recover", None, None)
  /\ UNCHANGED <<server, place, flags, shown, edits, known, waiting>>

Active(st) == st # None /\ st.state = "active"
Failing(st) == st # None /\ st.state = "failed"
Refines(st) == st # None /\ st.kind = "refine"

OpenCampaign ==
  /\ signed /\ ~dialog /\ view = "list" /\ stored # None /\ req.order.op = "none"
  /\ Follows("open", None, None) /\ Overtakes(late)
  /\ UNCHANGED <<server, place, flags, shown, edits, known, waiting>>

OpenAnswered ==
  LET r == req.follow IN
  /\ r.op = "open" /\ r.reply # None
  /\ IF r.reply.code = 200
       THEN /\ shown' = r.reply.body /\ edits' = NoEdits /\ view' = "campaign"
            /\ language' = IF Refines(known) THEN known.language ELSE First
            /\ refining' = Refines(known)
            /\ retry' = (Failing(known) /\ ~Refines(known))
            /\ generating' = (Active(known) /\ ~Refines(known))
            /\ IF Refines(known) THEN Follows("overlay", None, known)
               ELSE IF Active(known) THEN Follows("status", None, None)
               ELSE req' = [req EXCEPT !.follow = Free]
       ELSE /\ req' = [req EXCEPT !.follow = Free]
            /\ UNCHANGED <<shown, edits, view, language, flags>>
  /\ UNCHANGED <<server, late, signed, dialog, known, waiting, events>>

OverlayAnswered ==
  LET r == req.follow
      st == r.arg.status
  IN
  /\ r.op = "overlay" /\ r.reply # None
  /\ IF r.reply = Lost
       THEN req' = [req EXCEPT !.follow = Free] /\ UNCHANGED <<shown, edits, retry, generating>>
       ELSE /\ Refresh(r.reply, st)
            /\ retry' = (retry \/ Failing(st)) /\ generating' = (generating \/ Active(st))
            /\ IF Active(st) THEN Follows("status", None, None)
               ELSE req' = [req EXCEPT !.follow = Free]
  /\ UNCHANGED <<server, late, place, refining, known, waiting, events>>

(* After signing in, work that goes on or needs attention is shown. *)
Recovers(st) ==
  /\ retry' = Failing(st) /\ generating' = ~Failing(st)
  /\ IF Failing(st) THEN req' = [req EXCEPT !.follow = Free] ELSE Follows("status", None, None)

RecoverAnswered ==
  LET r == req.follow
      st == r.reply.body
  IN
  /\ r.op = "recover" /\ r.reply # None
  /\ IF signed /\ r.reply.code = 401 THEN Expired /\ req' = [req EXCEPT !.follow = Free]
     ELSE /\ IF ~signed \/ st = None
               THEN /\ req' = [req EXCEPT !.follow = Free]
                    /\ UNCHANGED <<known, refining, language, view, retry, generating>>
               ELSE /\ known' = st /\ refining' = Refines(st) /\ view' = "campaign"
                    /\ language' = IF Refines(st) THEN st.language ELSE language
                    /\ IF Refines(st)
                         THEN Follows("recovered", None, st) /\ UNCHANGED <<retry, generating>>
                         ELSE Recovers(st)
          /\ UNCHANGED <<signed, shown, edits>>
  /\ UNCHANGED <<server, late, dialog, waiting, events>>

RecoveredAnswered ==
  LET r == req.follow IN
  /\ r.op = "recovered" /\ r.reply # None
  /\ IF r.reply = Lost
       THEN /\ req' = [req EXCEPT !.follow = Free]
            /\ UNCHANGED <<shown, edits, retry, generating>>
       ELSE Refresh(r.reply, r.arg.status) /\ Recovers(r.arg.status)
  /\ UNCHANGED <<server, late, place, refining, known, waiting, events>>

Leave ==
  /\ signed /\ ~dialog /\ view = "campaign" /\ ~generating /\ "leave" \notin waiting
  /\ Queue(In(edits, "dirty"))
  /\ waiting' = waiting \cup {"leave"}
  /\ UNCHANGED <<server, late, place, flags, shown, known, events>>

(* The list, and what it tells of runs: as it was, or as it is. *)
ToList ==
  /\ view' = "list" /\ shown' = None /\ edits' = NoEdits
  /\ known' \in {known, Recoverable}

Discard ==
  /\ dialog /\ dialog' = FALSE /\ ToList
  /\ UNCHANGED <<server, late, signed, language, flags, waiting, req, events>>

KeepEditing ==
  /\ dialog /\ dialog' = FALSE
  /\ UNCHANGED <<server, late, signed, view, language, flags, shown, edits, known, waiting, req, events>>

---------------------------------------------------------------------------
(* Following a run. *)

\* Fault: a failure is shown, but the studio stays locked.
ConcludesLocked(st, want) ==
  \/ /\ Failing(st)
     /\ retry' = TRUE /\ UNCHANGED generating
     /\ req' = [req EXCEPT !.follow = Free]
  \/ /\ st.state = "succeeded"
     /\ retry' = FALSE /\ generating' = FALSE
     /\ Follows("final", want, None)
  \/ /\ Active(st)
     /\ UNCHANGED <<retry, generating>>
     /\ Follows("status", want, None)
(* What a status leads to, once the campaign has been read where there is one. *)
Concludes(st, want) ==
  \/ /\ Failing(st)
     /\ retry' = TRUE /\ generating' = FALSE
     /\ req' = [req EXCEPT !.follow = Free]
  \/ /\ st.state = "succeeded"
     /\ retry' = FALSE /\ generating' = FALSE
     /\ Follows("final", want, None)
  \/ /\ Active(st)
     /\ UNCHANGED <<retry, generating>>
     /\ Follows("status", want, None)

(* An answer that was lost is asked for again; a refinement whose acceptance was
   lost is followed only if it is the one that was asked for. *)
StatusAnswered ==
  LET r == req.follow
      st == r.reply.body
      want == r.arg.want
      unconfirmed == r.reply.code # 200
                     \/ (want # None /\ ~(Refines(st) /\ st.base = want))
  IN
  /\ r.op = "status" /\ r.reply # None
  /\ \/ /\ r.reply = Lost
        /\ Follows("status", want, None)
        /\ UNCHANGED <<signed, view, language, flags, shown, edits, known>>
     \/ /\ r.reply.code = 401 /\ Expired
        /\ req' = [req EXCEPT !.follow = Free]
     \/ /\ r.reply # Lost /\ r.reply.code # 401 /\ unconfirmed
        /\ generating' = FALSE
        /\ req' = [req EXCEPT !.follow = Free]
        /\ UNCHANGED <<signed, view, language, refining, retry, shown, edits, known>>
     \/ /\ ~unconfirmed
        /\ known' = st /\ refining' = Refines(st)
        /\ IF Refines(st) \/ st.state = "succeeded"
             THEN Follows("get", want, st) /\ UNCHANGED <<retry, generating>>
             ELSE Concludes(st, want)
        /\ UNCHANGED <<signed, view, language, shown, edits>>
  /\ UNCHANGED <<server, late, dialog, waiting, events>>

GetAnswered ==
  LET r == req.follow
      want == r.arg.want
  IN
  /\ r.op = "get" /\ r.reply # None
  /\ IF r.reply = Lost
       THEN Follows("status", want, None) /\ UNCHANGED <<shown, edits, retry, generating>>
       ELSE Refresh(r.reply, r.arg.status) /\ Concludes(r.arg.status, want)
  /\ UNCHANGED <<server, late, place, refining, known, waiting, events>>

(* The campaign is read once more, when the owner may already edit again. *)
FinalAnswered ==
  LET r == req.follow IN
  /\ r.op = "final" /\ r.reply # None
  /\ IF r.reply = Lost
       THEN Follows("status", r.arg.want, None) /\ UNCHANGED <<shown, edits>>
       ELSE Refresh(r.reply, None) /\ req' = [req EXCEPT !.follow = Free]
  /\ known' \in {known, Recoverable}
  /\ UNCHANGED <<server, late, place, flags, waiting, events>>

(* The answer to an overtaken request: the studio is locked for a run nobody follows
   any more, told of one that is over, or the list is read again. *)
LateAnswered ==
  \E t \in late \ {Load} :
    /\ late' = late \ {t}
    /\ \/ t = <<"overlay", "active">> /\ generating' = TRUE /\ UNCHANGED <<retry, known>>
       \/ t = <<"overlay", "failed">> /\ retry' = TRUE /\ UNCHANGED <<generating, known>>
       \/ /\ t[1] = "get" /\ generating' = FALSE /\ retry' = (t[2] = "failed")
          /\ known' \in {known, Recoverable}
       \/ t[1] = "final" /\ known' \in {known, Recoverable} /\ UNCHANGED <<retry, generating>>
    /\ UNCHANGED <<server, place, refining, shown, edits, waiting, req, events>>

---------------------------------------------------------------------------
(* Ordering a run. *)

CreateCampaign ==
  /\ signed /\ ~dialog /\ view = "list" /\ ~generating
  /\ run = None /\ req.order.op = "none"
  /\ generating' = TRUE /\ refining' = FALSE
  /\ req' = [req EXCEPT !.order = Asks("create", None)]
  /\ UNCHANGED <<server, late, place, retry, shown, edits, known, waiting, events>>

Refine ==
  /\ Form /\ ~generating
  /\ "refine" \notin waiting /\ req.order.op = "none" /\ run.n < MaxRuns
  /\ refining' = TRUE /\ generating' = TRUE /\ retry' = FALSE
  /\ waiting' = waiting \cup {"refine"}
  /\ UNCHANGED <<server, late, place, shown, edits, known, req, events>>

Retry ==
  /\ signed /\ ~dialog /\ view = "campaign" /\ retry /\ ~refining /\ ~generating
  /\ "retry" \notin waiting /\ req.order.op = "none" /\ run.n < MaxRuns
  /\ Queue(In(edits, "dirty"))
  /\ waiting' = waiting \cup {"retry"}
  /\ UNCHANGED <<server, late, place, flags, shown, known, events>>

(* What waited for the loop that saves goes on before anything else happens. *)
Due == waiting # {} /\ req.saver.op = "none"
Resumes(w) == Due /\ w \in waiting /\ waiting' = waiting \ {w}

LeaveResumes ==
  /\ Resumes("leave")
  /\ \/ HasUnsaved /\ dialog' = TRUE /\ UNCHANGED <<view, shown, edits, known>>
     \/ ~HasUnsaved /\ ToList /\ UNCHANGED dialog
  /\ UNCHANGED <<server, late, signed, language, flags, req, events>>

(* The draft is what the screen shows; it need not fit. *)
RefineResumes ==
  /\ Resumes("refine") /\ "leave" \notin waiting
  /\ IF shown = None THEN generating' = FALSE /\ UNCHANGED req
     ELSE /\ UNCHANGED generating
          /\ req' = [req EXCEPT !.order =
               Asks("refine", [language |-> language, revision |-> shown.revision,
                               draft |-> [f \in Fields |-> shown.text[<<language, f>>]]])]
  /\ UNCHANGED <<server, late, place, refining, retry, shown, edits, known, events>>

RetryResumes ==
  /\ Resumes("retry") /\ "leave" \notin waiting
  /\ IF HasUnsaved \/ generating THEN UNCHANGED <<generating, retry, req>>
     ELSE /\ generating' = TRUE /\ retry' = FALSE
          /\ req' = [req EXCEPT !.order = Asks("retry", None)]
  /\ UNCHANGED <<server, late, place, refining, shown, edits, known, events>>

(* The answer to an order is followed with a new sequence number. *)
OrderedAs(want) ==
  /\ req' = [req EXCEPT !.order = Free,
                        !.follow = Asks("status", [want |-> want, status |-> None])]
  /\ Overtakes(late)
Ordered == OrderedAs(None)
Dropped == req' = [req EXCEPT !.order = Free] /\ UNCHANGED <<late, events>>
ExpiredOrder ==
  Expired /\ req' = [req EXCEPT !.order = Free, !.follow = Free] /\ Overtakes(late)

CreateAnswered ==
  LET r == req.order IN
  /\ r.op = "create" /\ r.reply # None
  /\ \/ /\ r.reply.code = 200 /\ Ordered
        /\ shown' = None /\ view' = "campaign"
        /\ UNCHANGED <<signed, language, flags, edits, known>>
     \/ r.reply.code = 401 /\ ExpiredOrder
     \/ /\ r.reply.code \notin {200, 401} /\ Dropped
        /\ generating' = FALSE
        /\ UNCHANGED <<signed, view, language, refining, retry, shown, edits, known>>
  /\ UNCHANGED <<server, dialog, waiting>>

RefineAnswered ==
  LET r == req.order IN
  /\ r.op = "refine" /\ r.reply # None
  /\ \/ /\ r.reply.code = 200 /\ Ordered
        /\ UNCHANGED <<signed, view, language, flags, shown, edits, known>>
     \/ r.reply.code = 401 /\ ExpiredOrder
     \/ /\ r.reply.code = 409
        /\ req' = [req EXCEPT !.order = Asks("refused", r.arg.revision)]
        /\ UNCHANGED <<late, events>>
        /\ UNCHANGED <<signed, view, language, flags, shown, edits, known>>
     \/ /\ r.reply = Lost /\ OrderedAs(r.arg.revision)
        /\ UNCHANGED <<signed, view, language, flags, shown, edits, known>>
     \/ /\ r.reply.code \notin {0, 200, 401, 409} /\ Dropped
        /\ generating' = FALSE
        /\ UNCHANGED <<signed, view, language, refining, retry, shown, edits, known>>
  /\ UNCHANGED <<server, dialog, waiting>>

(* The campaign is read again after a refusal; should that fail, the refinement is
   looked for as if its acceptance had been lost. *)
RefusedAnswered ==
  LET r == req.order IN
  /\ r.op = "refused" /\ r.reply # None
  /\ IF r.reply = Lost
       THEN OrderedAs(r.arg) /\ UNCHANGED <<generating, shown, edits>>
       ELSE Refresh(r.reply, None) /\ generating' = FALSE /\ Dropped
  /\ UNCHANGED <<server, place, refining, retry, known, waiting>>

RetryAnswered ==
  LET r == req.order IN
  /\ r.op = "retry" /\ r.reply # None
  /\ \/ /\ r.reply.code = 200 /\ Ordered
        /\ UNCHANGED <<signed, view, language, flags, shown, edits, known>>
     \/ r.reply.code = 401 /\ ExpiredOrder
     \/ /\ r.reply.code \notin {200, 401} /\ Dropped
        /\ retry' = TRUE /\ generating' = FALSE
        /\ UNCHANGED <<signed, view, language, refining, shown, edits, known>>
  /\ UNCHANGED <<server, dialog, waiting>>

Answers(s) ==
  \/ s = "saver"  /\ (PatchAnswered \/ ConflictAnswered)
  \/ s = "follow" /\ (\/ OpenAnswered \/ OverlayAnswered \/ RecoverAnswered
                      \/ RecoveredAnswered \/ StatusAnswered \/ GetAnswered
                      \/ FinalAnswered)
  \/ s = "order"  /\ (CreateAnswered \/ RefineAnswered \/ RefusedAnswered \/ RetryAnswered)

Owner ==
  \/ SignIn \/ OpenCampaign \/ CreateCampaign \/ Refine \/ Retry
  \/ Leave \/ Discard \/ KeepEditing \/ SelectSection
  \/ \E k \in Keys : Type(k) \/ Blur(k) \/ RetrySave(k)
  \/ \E l \in Languages : SelectLanguage(l)

Resume == LeaveResumes \/ RefineResumes \/ RetryResumes

Next ==
  \/ Resume
  \/ ~Due /\ Owner
  \/ ~Due /\ \E s \in DOMAIN req : Serve(s) \/ Answers(s)
  \/ ~Due /\ (Loaded \/ LateAnswered)
  \/ ~Due /\ RunEnds
  \/ ~Due /\ SessionEnds
  \/ ~Due /\ \E k \in Keys : Elsewhere(k)

(* The browser and the worker go on; the owner need not. *)
Spec == Init /\ [][Next]_vars
        /\ WF_vars(Resume) /\ WF_vars(~Due /\ RunEnds)
        /\ \A s \in {"saver", "follow", "order"} :
             WF_vars(~Due /\ (Serve(s) \/ Answers(s)))

---------------------------------------------------------------------------
(* Properties. *)

Types ==
  /\ stored \in Campaigns \cup {None} /\ shown \in Campaigns \cup {None}
  /\ run \in Runs \cup {None} /\ known \in Runs \cup {None}
  /\ {session, signed, dialog, generating, refining, retry} \subseteq BOOLEAN
  /\ view \in {"list", "campaign"} /\ language \in Languages
  /\ waiting \subseteq {"leave", "refine", "retry"}
  /\ edits \in [Keys -> Edits \cup {None}]
  /\ DOMAIN req = {"saver", "follow", "order"}
  /\ req.saver \in Savings /\ req.follow \in Follow /\ req.order \in Ordering
  /\ written \subseteq Keys \X Values /\ events \in 0..MaxEvents

TypeOK == Types /\ late \subseteq Tails

(* Types; and an edit that was not saved is what the screen shows, whatever was read
   of the server meanwhile: "A status poll or revision conflict must not replace the
   user's pending wording" (admin.component.ts:1578). *)
PendingWordsStay ==
  TypeOK /\ (shown # None => \A k \in Keys : Unsaved(k) => shown.text[k] = edits[k].value)

(* What the screen calls saved the server has accepted, though the owner may go on
   typing while it is saved, and answers get lost. *)
SavedMeansStored ==
  \A k \in Keys : edits[k] # None /\ edits[k].state = "saved" => <<k, edits[k].value>> \in written

(* An edit that was not saved is given up only when the owner says so, signing in
   again is needed, or a refinement has replaced the draft it was part of. *)
Replaced == req.follow.op \in {"get", "overlay", "recovered"} /\ Refines(req.follow.arg.status)
            /\ req.follow.arg.status.state = "succeeded"
UnsavedIsKept ==
  [][\A k \in Keys : Unsaved(k) /\ edits'[k] = None =>
        dialog \/ ~signed' \/ Replaced]_vars

(* Who follows work that was ordered, or is about to. *)
Followed == \/ req.follow.op \in {"status", "get"} \/ req.order.op # "none"
            \/ "refine" \in waiting

(* Work that is followed is followed to its end, and what is being saved is saved or
   reported, whatever is lost on the way: neither locks an open campaign for good.
   And only the answer to a request that was overtaken locks the studio for work
   nobody follows (admin.component.ts:1177-1185).  The recovery after signing in may
   take over from who follows, and find nothing (1459-1476); the list stays locked
   when a campaign was left while its work was ordered and opening it fails (1144). *)
Released ==
  /\ generating /\ Followed ~> \/ ~generating \/ view = "list"
                               \/ req.follow.op = "recover"
  /\ [][~generating /\ generating' => Followed' \/ late' # late]_vars
  /\ In(edits, "saving") # {} ~> In(edits, "saving") = {}

(* What a refinement replaces was written before it was ordered: "a stale result cannot
   replace newer edits" (README.md:25). *)
RefinementKeepsNewerEdits ==
  [][\A k \in Keys : Unsaved(k) /\ edits'[k] = None /\ Replaced
                     /\ k[1] = req.follow.arg.status.language
        => edits[k].value = req.follow.arg.status.draft[k[2]]]_vars
=============================================================================
