---------------------------- MODULE SocialEditor ----------------------------
(* One tab of the editor of social posts (social-posts.component.ts) over the
   store of posts (social-service.ts, social-routes.ts, social-media.ts).

   What the owner writes is saved by one loop at a time, started by a timer
   after the last key, by a button, or by leaving; he goes on typing while it
   runs.  The loop sends what the editor holds with the revision it has seen,
   reads the post back when no answer came, uploads a file that was chosen, and
   goes round again if anything was typed meanwhile.  Other tabs change and
   delete posts as they like.

   Words stand for everything a post consists of, apart from its media, and
   carry the post the owner was looking at when he wrote them; no two edits
   write the same words, but for the white space around the name, which the
   server takes away and the editor keeps.  Marks of publication, the preview
   and the list are left out. *)
EXTENDS Naturals, FiniteSets

CONSTANTS
  Posts,      \* the posts there can be
  None,
  MaxEdits,   \* bound: edits, uploads and second tries, of this tab and of others
  MaxLosses   \* bound: requests or answers that are lost

ASSUME BoundsAssumption == {MaxEdits, MaxLosses} \subseteq Nat

VARIABLES
  stored,     \* the posts in the database
  advice,     \* the adaptation of each post, as the worker left it
  post,       \* the saved post the editor works on, as last received
  draft,      \* the words in the editor
  subject,    \* the post the owner is looking at
  dirty, error, timer, dialog,
  file,       \* a file was chosen
  saver,      \* the loop that saves
  waiting,    \* who waits for it
  task,       \* the request that makes the editor busy
  shown,      \* the adaptation that is shown
  pollTimer, polls,
  seen,       \* history: the words of each post this tab has shown or sent
  edits, losses

server  == <<stored, advice>>
polling == <<shown, pollTimer, polls>>
vars == <<stored, advice, post, draft, subject, dirty, error, timer,
          dialog, file, saver, waiting, task, shown, pollTimer, polls, seen,
          edits, losses>>

Words == [post : Posts, n : 0..MaxEdits, padded : BOOLEAN]
Blank == [post |-> None, n |-> 0, padded |-> FALSE]
Held  == Words \cup {Blank, None}
Written(p, n) == [post |-> p, n |-> n, padded |-> FALSE]

(* parseSocialPost: the name is stored without the space around it. *)
Trimmed(words) == [words EXCEPT !.padded = FALSE]

Stored(revision, words, media, by) ==
  [revision |-> revision, words |-> words, media |-> media, by |-> by]
Copy(p, s) == [id |-> p, revision |-> s.revision, words |-> s.words, media |-> s.media]

Idle == [at |-> "idle", snapshot |-> Blank, saved |-> None, target |-> None]
Tasks == {"adapt", "export"}
Asks(op, p) == [op |-> op, id |-> p.id, revision |-> p.revision]
NoTask == [op |-> "none", id |-> None, revision |-> 0]

Version == [revision : Nat \ {0}, words : Words, media : BOOLEAN, by : {"tab", "other"}]
Copies  == [id : Posts, revision : Nat \ {0}, words : Words, media : BOOLEAN]
Loop    == [at : {"idle", "write", "confirm", "upload", "inspect"}, snapshot : Held,
            saved : Copies \cup {None}, target : Posts \cup {None}]
Errand  == [op : {"none", "open", "adapt", "export", "media", "remove"},
            id : Posts \cup {None}, revision : Nat]
Advice  == [of : Posts, state : {"pending", "ready", "used"}]

\* No post, and nothing that is known of one, is None, which stands for its absence.
ASSUME NoneAssumption ==
  None \notin Posts \cup Version \cup Copies \cup Advice \cup Words \cup {Blank}

Busy   == task.op # "none"
Saving == saver.at # "idle"

Init ==
  /\ stored = [p \in Posts |-> None] /\ advice = [p \in Posts |-> "none"]
  /\ post = None /\ draft = None /\ subject = None
  /\ dirty = FALSE /\ error = FALSE /\ timer = FALSE /\ dialog = "none" /\ file = FALSE
  /\ saver = Idle /\ waiting = {} /\ task = NoTask
  /\ shown = None /\ pollTimer = None /\ polls = {}
  /\ seen = {} /\ edits = 0 /\ losses = 0

---------------------------------------------------------------------------
(* The store. *)

Exists(p) == stored[p] # None
Current(p, revision) == Exists(p) /\ stored[p].revision = revision

(* create: the same words again are answered with what is stored. *)
Created(p, words) ==
  IF ~Exists(p) THEN Stored(1, Trimmed(words), FALSE, "tab") ELSE stored[p]
CreateAccepted(p, words) == Exists(p) => stored[p].words = Trimmed(words)

(* update and setMedia compare the revision. *)
Updated(p, words) == Stored(stored[p].revision + 1, Trimmed(words), stored[p].media, "tab")
WithMedia(p, media) ==
  Stored(stored[p].revision + 1, stored[p].words, media, stored[p].by)

(* remove also waits for the adaptation of the post. *)
Removable(p, revision) == Current(p, revision) /\ advice[p] # "pending"

(* Another tab of the owner. *)
Elsewhere(p) ==
  /\ Exists(p) /\ edits < MaxEdits
  /\ edits' = edits + 1
  /\ \/ /\ stored' = [stored EXCEPT ![p] =
             Stored(@.revision + 1, Written(p, edits + 1), @.media, "other")]
        /\ UNCHANGED advice
     \/ /\ advice[p] # "pending"
        /\ stored' = [stored EXCEPT ![p] = None] /\ advice' = [advice EXCEPT ![p] = "none"]
  /\ UNCHANGED <<post, draft, subject, dirty, error, timer, dialog, file,
                 saver, waiting, task, shown, pollTimer, polls, seen, losses>>

(* The worker finishes an adaptation; of one that fails only the error is shown. *)
Adapted(p) ==
  /\ advice[p] = "pending"
  /\ advice' = [advice EXCEPT ![p] = "ready"]
  /\ UNCHANGED <<stored, post, draft, subject, dirty, error, timer, dialog,
                 file, saver, waiting, task, shown, pollTimer, polls, seen, edits, losses>>

---------------------------------------------------------------------------
(* Editing. *)

(* The fields are enabled while the post is being saved; a dialog is modal. *)
Editable == draft # None /\ ~Busy /\ dialog = "none"

(* changed: the timer runs for a post that was saved before. *)
Changed == dirty' = TRUE /\ timer' = (post # None)

Add(p) ==
  /\ draft = None /\ ~Busy /\ ~Exists(p) /\ \A s \in seen : s[1] # p
  /\ post' = None /\ draft' = Blank /\ subject' = p
  /\ dirty' = FALSE /\ file' = FALSE /\ shown' = None /\ error' = FALSE
  /\ UNCHANGED <<server, timer, dialog, saver, waiting, task, pollTimer, polls, seen,
                 edits, losses>>

(* A field may be emptied, too, and the name may begin or end with a space: as it
   is typed, or as prepare takes it from the text. *)
Type ==
  /\ Editable /\ edits < MaxEdits
  /\ edits' = edits + 1
  /\ \/ draft' = Blank
     \/ \E pad \in BOOLEAN : draft' = [Written(subject, edits + 1) EXCEPT !.padded = pad]
  /\ Changed
  /\ UNCHANGED <<server, post, subject, error, dialog, file, saver, waiting, task,
                 polling, seen, losses>>

(* A suggestion is shown with the versions of a saved post, and applied to
   whatever post is open, whose name stays. *)
ApplySuggestion ==
  /\ draft # None /\ post # None /\ dialog = "none"
  /\ shown # None /\ shown.state = "ready"
  /\ edits < MaxEdits /\ edits' = edits + 1
  /\ draft' = [Written(shown.of, 0) EXCEPT !.padded = draft.padded]
  /\ shown' = [shown EXCEPT !.state = "used"]
  /\ Changed
  /\ UNCHANGED <<server, post, subject, error, dialog, file, saver, waiting, task,
                 pollTimer, polls, seen, losses>>

Upload ==
  /\ Editable /\ ~Saving /\ edits < MaxEdits
  /\ edits' = edits + 1
  /\ file' = TRUE /\ dirty' = TRUE
  /\ UNCHANGED <<server, post, draft, subject, error, timer, dialog, saver, waiting,
                 task, polling, seen, losses>>

(* Taking the file away also removes the media of a saved post. *)
RemoveFile ==
  /\ Editable /\ ~Saving
  /\ file \/ (post # None /\ post.media)
  /\ file' = FALSE
  /\ task' = IF post # None /\ post.media
               THEN Asks("media", post) ELSE task
  /\ UNCHANGED <<server, post, draft, subject, dirty, error, timer, dialog, saver,
                 waiting, polling, seen, edits, losses>>
---------------------------------------------------------------------------
(* Saving. *)

Target(p) == IF p = None THEN subject ELSE p.id

(* One round of the loop: the words if they are new or changed, then the file. *)
Round(at, p) == [at |-> at, snapshot |-> draft, saved |-> p, target |-> Target(p)]
Begun == IF post = None \/ dirty THEN Round("write", post)
         ELSE IF file THEN Round("upload", post) ELSE Idle
\* Fault: what was typed meanwhile is left to the timer.
GoesOnce(p, isDirty, chosen) == IF chosen THEN Round("upload", p) ELSE Idle
Goes(p, isDirty, chosen) ==
  IF chosen THEN Round("upload", p) ELSE IF isDirty THEN Round("write", p) ELSE Idle

(* The list: what was in the editor is gone, the timer to save it is not. *)
LeaveEditor == post' = None /\ draft' = None /\ pollTimer' = None

(* The loop has nothing left to do, and those who waited for it go on: a request
   is sent before the editor is left, since canLeave stands between the loop and
   back.  Of an adaptation and an export the one that is followed stands for both. *)
Return(p) ==
  /\ waiting' = {}
  /\ IF waiting \cap Tasks # {}
       THEN error' = FALSE /\ \E op \in waiting \cap Tasks : task' = Asks(op, p)
       ELSE UNCHANGED <<error, task>>
  /\ IF "leave" \in waiting THEN LeaveEditor ELSE post' = p /\ UNCHANGED <<draft, pollTimer>>

Continue(p, isDirty, chosen) ==
  LET next == Goes(p, isDirty, chosen)
  IN  /\ saver' = next /\ dirty' = isDirty /\ file' = chosen
      /\ IF next = Idle THEN Return(p)
         ELSE post' = p /\ UNCHANGED <<draft, pollTimer, waiting, task, error>>
      /\ UNCHANGED <<subject, timer, dialog, shown, polls, edits>>

Fails ==
  /\ saver' = Idle /\ dirty' = TRUE /\ error' = TRUE
  /\ waiting' = {}
  /\ dialog' = IF "leave" \in waiting THEN "leave" ELSE dialog
  /\ UNCHANGED <<post, draft, subject, timer, file, task, polling, edits>>

(* save: the loop is joined, or started; a post without text is not saved, and
   nothing is said. *)
Save(who) ==
  /\ timer' = FALSE
  /\ dialog' = IF ~Saving /\ draft = Blank /\ "leave" \in who THEN "leave" ELSE dialog
  /\ IF draft \in {None, Blank} \/ Saving
       THEN /\ waiting' = IF Saving THEN waiting \cup who ELSE waiting
            /\ UNCHANGED <<saver, post, draft, pollTimer, task, error>>
       ELSE LET next == Begun
                left == next = Idle /\ "leave" \in who
            IN  /\ saver' = next
                /\ waiting' = IF next = Idle THEN {} ELSE who
                /\ error' = FALSE
                /\ IF left THEN LeaveEditor ELSE UNCHANGED <<post, draft, pollTimer>>
                /\ IF next = Idle /\ who \cap Tasks # {}
                     THEN \E op \in who \cap Tasks : task' = Asks(op, post)
                     ELSE UNCHANGED task
  /\ UNCHANGED <<server, subject, dirty, file, shown, polls, seen, losses>>

(* Trying again what failed counts as an edit does. *)
Counted == IF error /\ dirty THEN edits < MaxEdits /\ edits' = edits + 1
           ELSE UNCHANGED edits

Pending == shown # None /\ shown.state = "pending"

TimerFires == timer /\ Save({}) /\ UNCHANGED edits

Prepare  == Editable /\ draft # Blank /\ Save({}) /\ Counted
Adapt    == /\ Editable /\ draft # Blank /\ post # None /\ ~Pending
            /\ Save({"adapt"}) /\ Counted
Download == /\ Editable /\ draft # Blank /\ post # None /\ post.media /\ ~Saving
            /\ Save({"export"}) /\ Counted

(* The words reach the store, or are refused. *)
Writes(p, words) ==
  stored' = [stored EXCEPT ![p] = IF saver.saved = None THEN Created(p, words)
                                  ELSE Updated(p, words)]

WriteAccepted ==
  LET p == saver.target IN
  /\ saver.snapshot \notin {None, Blank}
  /\ IF saver.saved = None THEN CreateAccepted(p, saver.snapshot)
     ELSE Current(p, saver.saved.revision)

Commit ==
  /\ Writes(saver.target, saver.snapshot)
  /\ seen' = seen \cup {<<saver.target, Trimmed(saver.snapshot)>>}

\* Fault: what was sent is taken for what the editor holds.
SavedAll(copy) == Continue(copy, FALSE, file)

(* What is in the editor now may be newer than what was saved. *)
Saved(copy) == Continue(copy, saver.snapshot # draft, file)

WriteAnswered ==
  /\ saver.at = "write" /\ WriteAccepted
  /\ Commit
  /\ Saved(Copy(saver.target, stored'[saver.target]))
  /\ UNCHANGED <<advice, losses>>

Confirming == saver' = [saver EXCEPT !.at = "confirm"]

WriteFails ==
  /\ saver.at = "write"
  /\ \/ ~WriteAccepted /\ UNCHANGED <<stored, seen, losses>>
     \/ /\ losses < MaxLosses /\ losses' = losses + 1
        /\ \/ WriteAccepted /\ Commit
           \/ UNCHANGED <<stored, seen>>
  /\ Confirming
  /\ UNCHANGED <<advice, post, draft, subject, dirty, error, timer, dialog,
                 file, waiting, task, polling, edits>>

\* Fault: whatever is stored confirms the save.
ConfirmedAnyhow(p) == Exists(p)

(* A lost answer may follow a save: the post is read back and compared.  What was
   sent with a space around the name is never found again. *)
Confirmed(p) == Exists(p) /\ stored[p].words = saver.snapshot

Confirm ==
  /\ saver.at = "confirm"
  /\ \/ Confirmed(saver.target) /\ Saved(Copy(saver.target, stored[saver.target]))
        /\ UNCHANGED losses
     \/ ~Confirmed(saver.target) /\ Fails /\ UNCHANGED losses
     \/ losses < MaxLosses /\ losses' = losses + 1 /\ Fails
  /\ UNCHANGED <<server, seen>>

(* The file arrives: the revision is compared.  That one file is inspected at a
   time, for all tabs, is one of the ways to lose it. *)
UploadArrives ==
  /\ saver.at = "upload"
  /\ \/ /\ Current(saver.target, saver.saved.revision)
        /\ saver' = [saver EXCEPT !.at = "inspect"]
        /\ UNCHANGED <<post, draft, subject, dirty, error, timer, dialog, file, waiting,
                       task, polling, edits, losses>>
     \/ ~Current(saver.target, saver.saved.revision) /\ Fails /\ UNCHANGED losses
     \/ losses < MaxLosses /\ losses' = losses + 1 /\ Fails
  /\ UNCHANGED <<stored, advice, seen>>

(* It was inspected, and found unfit or written with the revision compared again. *)
Inspected ==
  LET p == saver.target
      fresh == Current(p, saver.saved.revision)
  IN
  /\ saver.at = "inspect"
  /\ \/ /\ fresh /\ stored' = [stored EXCEPT ![p] = WithMedia(p, TRUE)]
        /\ Continue(Copy(p, stored'[p]), dirty, FALSE)
        /\ UNCHANGED losses
     \/ ~fresh /\ Fails /\ UNCHANGED <<stored, losses>>
     \/ /\ losses < MaxLosses /\ losses' = losses + 1
        /\ \/ fresh /\ stored' = [stored EXCEPT ![p] = WithMedia(p, TRUE)]
           \/ UNCHANGED stored
        /\ Fails
  /\ UNCHANGED <<advice, seen>>
---------------------------------------------------------------------------
(* Leaving and removing. *)

(* A post that was never saved is not saved by leaving. *)
Back ==
  /\ Editable /\ ~Saving
  /\ IF post # None THEN Save({"leave"}) /\ Counted
     ELSE /\ IF dirty \/ file THEN dialog' = "leave" /\ UNCHANGED <<post, draft, pollTimer>>
             ELSE LeaveEditor /\ UNCHANGED dialog
          /\ UNCHANGED <<server, subject, dirty, error, timer, file, saver, waiting, task,
                         shown, polls, seen, edits, losses>>

Discard ==
  /\ dialog = "leave"
  /\ dialog' = "none" /\ dirty' = FALSE /\ file' = FALSE /\ error' = FALSE
  /\ LeaveEditor
  /\ UNCHANGED <<server, subject, timer, saver, waiting, task, shown, polls, seen, edits, losses>>

AskToDelete ==
  /\ Editable /\ ~Saving /\ post # None
  /\ error' = FALSE /\ dialog' = "delete"
  /\ Counted
  /\ UNCHANGED <<server, post, draft, subject, dirty, timer, file, saver, waiting, task,
                 polling, seen, losses>>

Keep ==
  /\ dialog # "none" /\ ~Busy
  /\ dialog' = "none"
  /\ UNCHANGED <<server, post, draft, subject, dirty, error, timer, file, saver, waiting,
                 task, polling, seen, edits, losses>>

Delete ==
  /\ dialog = "delete" /\ ~Busy /\ post # None
  /\ task' = Asks("remove", post)
  /\ UNCHANGED <<server, post, draft, subject, dirty, error, timer, dialog, file, saver,
                 waiting, polling, seen, edits, losses>>

---------------------------------------------------------------------------
(* The requests that make the editor busy, each with its answer. *)

OpenPost(p) ==
  /\ draft = None /\ ~Busy /\ dialog = "none" /\ Exists(p)
  /\ task' = [op |-> "open", id |-> p, revision |-> 0] /\ error' = FALSE
  /\ UNCHANGED <<server, post, draft, subject, dirty, timer, dialog, file, saver, waiting,
                 polling, seen, edits, losses>>

(* The worker's answer as the tab is told of it, and asked for again. *)
Shows(p, state) ==
  /\ shown' = IF state = "none" THEN None ELSE [of |-> p, state |-> state]
  /\ pollTimer' = IF state = "pending" THEN p ELSE pollTimer

Opened ==
  LET p == task.id IN
  /\ task.op = "open" /\ Exists(p)
  /\ post' = Copy(p, stored[p]) /\ draft' = stored[p].words /\ subject' = p
  /\ seen' = seen \cup {<<p, stored[p].words>>}
  /\ dirty' = FALSE /\ file' = FALSE
  /\ Shows(p, advice[p])
  /\ task' = NoTask
  /\ UNCHANGED <<server, error, timer, dialog, saver, waiting, polls, edits, losses>>

(* admit, as far as the tab sees it. *)
AdaptAccepted ==
  /\ task.op = "adapt" /\ Current(task.id, task.revision)
  /\ advice' = [advice EXCEPT ![task.id] = IF @ = "ready" THEN @ ELSE "pending"]

AdaptAnswered ==
  /\ AdaptAccepted
  /\ Shows(task.id, advice'[task.id])
  /\ task' = NoTask
  /\ UNCHANGED <<stored, post, draft, subject, dirty, error, timer, dialog, file,
                 saver, waiting, polls, seen, edits, losses>>

(* The media of a version, converted from what is stored at that revision. *)
Exported ==
  /\ task.op = "export" /\ Current(task.id, task.revision)
  /\ task' = NoTask
  /\ UNCHANGED <<server, post, draft, subject, dirty, error, timer, dialog, file, saver,
                 waiting, polling, seen, edits, losses>>

MediaRemoved ==
  /\ task.op = "media" /\ Current(task.id, task.revision)
  /\ stored' = [stored EXCEPT ![task.id] = WithMedia(task.id, FALSE)]

MediaAnswered ==
  /\ MediaRemoved
  /\ post' = Copy(task.id, stored'[task.id])
  /\ task' = NoTask
  /\ UNCHANGED <<advice, draft, subject, dirty, error, timer, dialog, file, saver,
                 waiting, polling, seen, edits, losses>>

Removed ==
  /\ task.op = "remove" /\ Removable(task.id, task.revision)
  /\ stored' = [stored EXCEPT ![task.id] = None]
  /\ advice' = [advice EXCEPT ![task.id] = "none"]

RemoveAnswered ==
  /\ Removed
  /\ LeaveEditor
  /\ timer' = FALSE /\ dialog' = "none" /\ dirty' = FALSE /\ file' = FALSE
  /\ task' = NoTask
  /\ UNCHANGED <<subject, error, saver, waiting, shown, polls, seen, edits, losses>>

(* Refused, or lost before or after it took effect. *)
Refused ==
  \/ task.op = "open" /\ ~Exists(task.id)
  \/ task.op \in {"adapt", "export", "media", "remove"} /\ ~Current(task.id, task.revision)
  \/ task.op = "remove" /\ advice[task.id] = "pending"

TaskFails ==
  /\ Busy
  /\ \/ Refused /\ UNCHANGED <<stored, advice, losses>>
     \/ /\ losses < MaxLosses /\ losses' = losses + 1
        /\ \/ UNCHANGED <<stored, advice>>
           \/ AdaptAccepted /\ UNCHANGED stored
           \/ MediaRemoved /\ UNCHANGED advice
           \/ Removed
  /\ error' = TRUE /\ task' = NoTask
  /\ UNCHANGED <<post, draft, subject, dirty, timer, dialog, file, saver, waiting,
                 polling, seen, edits>>

(* The timer of the poll is cleared with the editor, a poll on its way is not. *)
PollFires ==
  /\ pollTimer # None
  /\ polls' = polls \cup {pollTimer} /\ pollTimer' = None
  /\ UNCHANGED <<server, post, draft, subject, dirty, error, timer, dialog, file, saver,
                 waiting, task, shown, seen, edits, losses>>

PollAnswered(p) ==
  /\ p \in polls
  /\ polls' = polls \ {p}
  /\ \/ advice[p] # "none" /\ Shows(p, advice[p]) /\ UNCHANGED <<error, losses>>
     \/ advice[p] = "none" /\ error' = TRUE /\ UNCHANGED <<shown, pollTimer, losses>>
     \/ /\ losses < MaxLosses /\ losses' = losses + 1
        /\ error' = TRUE /\ UNCHANGED <<shown, pollTimer>>
  /\ UNCHANGED <<server, post, draft, subject, dirty, timer, dialog, file, saver, waiting,
                 task, seen, edits>>

Typing  == Type \/ ApplySuggestion \/ Upload \/ RemoveFile \/ \E p \in Posts : Add(p)
Choices == \/ Prepare \/ Adapt \/ Download
           \/ Back \/ Discard \/ AskToDelete \/ Keep \/ Delete
           \/ \E p \in Posts : OpenPost(p)
Others  == \E p \in Posts : Elsewhere(p) \/ Adapted(p)
Saves   == TimerFires \/ WriteAnswered \/ WriteFails \/ Confirm \/ UploadArrives \/ Inspected
Answers == \/ Opened \/ AdaptAnswered \/ Exported \/ MediaAnswered \/ RemoveAnswered \/ TaskFails
           \/ PollFires \/ \E p \in Posts : PollAnswered(p)
Next == Typing \/ Choices \/ Others \/ Saves \/ Answers

(* A timer fires, and a request is answered or given up after its timeout. *)
Spec == Init /\ [][Next]_vars /\ WF_vars(Saves) /\ WF_vars(Answers)

---------------------------------------------------------------------------
(* Properties. *)

TypeOK ==
  /\ stored \in [Posts -> Version \cup {None}]
  /\ advice \in [Posts -> {"none", "pending", "ready"}]
  /\ post \in Copies \cup {None} /\ draft \in Held /\ subject \in Posts \cup {None}
  /\ {dirty, error, timer, file} \subseteq BOOLEAN /\ dialog \in {"none", "leave", "delete"}
  /\ saver \in Loop /\ waiting \subseteq {"leave", "adapt", "export"} /\ task \in Errand
  /\ shown \in Advice \cup {None} /\ pollTimer \in Posts \cup {None} /\ polls \subseteq Posts
  /\ edits \in 0..MaxEdits /\ losses \in 0..MaxLosses

(* The editor says "Saved" only of words that are stored: unless another tab
   has saved the post since, what it holds is, up to the space around the name,
   what the database holds (dirty, as saveLoop computes it from the words it sent
   and those it now holds; it never adopts the words it was answered with). *)
SavedMeansStored ==
  /\ TypeOK
  /\ (/\ post # None /\ post.id = subject /\ draft # None /\ ~dirty /\ ~Saving
      /\ Exists(post.id) /\ stored[post.id].revision = post.revision)
        => stored[post.id].words = Trimmed(draft)

(* A save of this tab replaces only words that this tab has shown or sent: a
   lost answer does not make it adopt the revision of somebody else's words
   (the comparison after the post is read back, and the revisions). *)
UnseenWordsSurvive ==
  [][\A p \in Posts :
       (/\ Exists(p) /\ Exists(p)' /\ stored'[p].words # stored[p].words
        /\ stored'[p].by = "tab")
         => <<p, stored[p].words>> \in seen]_vars

(* A change of a saved post is stored or its failure is shown, unless the owner
   leaves it, or leaves it without text: however he goes on typing while an
   earlier change is on its way (the loop of saveLoop). *)
ChangesAreSavedOrReported ==
  (timer /\ post # None) ~> (~dirty \/ error \/ draft \in {None, Blank})

(* What is stored for a post was written for that post. *)
ContentStaysWithItsPost ==
  \A p \in Posts : Exists(p) => stored[p].words.post = p
=============================================================================
