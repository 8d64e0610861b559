-------------------------- MODULE SocialEditorProofs --------------------------
(* Proofs about SocialEditor.

   The invariant says what the tab knows of the store.  A copy of a post, in the
   editor or in the loop, is true as long as its revision is the stored one, and
   its words were seen.  What the editor calls saved is its copy.  A post saved
   for the first time has no copy anywhere, and nothing else goes on meanwhile;
   so a post removed and created anew never meets a copy of the old one.  And
   words another tab wrote are held by this one only once it has shown them,
   which is why a lost answer cannot make it take them for its own. *)
EXTENDS SocialEditor, TLAPS

LEMMA Bounds == MaxEdits \in Nat /\ MaxLosses \in Nat
  BY BoundsAssumption

LEMMA NoneFacts ==
  /\ None \notin Posts /\ None \notin Version /\ None \notin Copies /\ None \notin Advice
  /\ None \notin Words /\ Blank # None /\ Blank \notin Words
  <1>1. None \notin Posts /\ Blank.post = None
    BY NoneAssumption DEF Blank
  <1>2. Blank \notin Words
    BY <1>1 DEF Words
  <1> QED BY <1>1, <1>2, NoneAssumption

(* The records the actions write. *)
LEMMA StoredFacts ==
  ASSUME NEW revision \in Nat \ {0}, NEW words \in Words, NEW media \in BOOLEAN,
         NEW by \in {"tab", "other"}
  PROVE  \E v \in Version :
           /\ v = Stored(revision, words, media, by) /\ v # None
           /\ v.revision = revision /\ v.words = words /\ v.by = by
  <1>1. Stored(revision, words, media, by) \in Version
    BY Zenon DEF Stored, Version
  <1>2. /\ Stored(revision, words, media, by).revision = revision
        /\ Stored(revision, words, media, by).words = words
        /\ Stored(revision, words, media, by).by = by
    BY Zenon DEF Stored
  <1> QED BY <1>1, <1>2, NoneFacts, Zenon

LEMMA VersionFacts ==
  ASSUME NEW v \in Version
  PROVE  /\ v.revision \in Nat \ {0} /\ v.revision \in Nat /\ v.words \in Words /\ v.media \in BOOLEAN
         /\ v.by \in {"tab", "other"} /\ v # None
         /\ v.revision + 1 \in Nat \ {0} /\ v.revision + 1 > v.revision
  <1>1. v.revision \in Nat \ {0} /\ v.words \in Words /\ v.media \in BOOLEAN /\ v.by \in {"tab", "other"}
    BY Zenon DEF Version
  <1> QED BY <1>1, NoneFacts

LEMMA CopyFacts ==
  ASSUME NEW p \in Posts, NEW v \in Version
  PROVE  \E c \in Copies : /\ c = Copy(p, v) /\ c # None /\ c.id = p /\ c.revision = v.revision
                           /\ c.words = v.words
  <1>1. Copy(p, v) \in Copies
    BY VersionFacts, Zenon DEF Copy, Copies
  <1>2. Copy(p, v).id = p /\ Copy(p, v).revision = v.revision /\ Copy(p, v).words = v.words
    BY Zenon DEF Copy
  <1> QED BY <1>1, <1>2, NoneFacts, Zenon

LEMMA CopyTypes ==
  ASSUME NEW c \in Copies
  PROVE  c.id \in Posts /\ c.revision \in Nat /\ c.words \in Words /\ c.media \in BOOLEAN /\ c # None
  <1>1. c.id \in Posts /\ c.revision \in Nat \ {0} /\ c.words \in Words /\ c.media \in BOOLEAN
    BY Zenon DEF Copies
  <1> QED BY <1>1, NoneFacts

LEMMA IdleFacts ==
  /\ Idle \in Loop /\ Idle.at = "idle" /\ Idle.saved = None /\ Idle.snapshot = Blank
  /\ NoTask \in Errand /\ NoTask.op = "none"
  <1>1. 0 \in Nat
    OBVIOUS
  <1> QED BY <1>1, Zenon DEF Idle, Loop, Held, NoTask, Errand

LEMMA RoundFacts ==
  ASSUME draft \in Held, NEW at \in {"write", "upload"}, NEW c \in Copies \cup {None},
         subject \in Posts \cup {None}
  PROVE  \E q \in Loop :
           /\ q = Round(at, c) /\ q.at = at /\ q.snapshot = draft /\ q.saved = c
           /\ q.target = (IF c = None THEN subject ELSE c.id) /\ q # Idle
  <1>1. (IF c = None THEN subject ELSE c.id) \in Posts \cup {None}
    BY CopyTypes
  <1>2. /\ Round(at, c).at = at /\ Round(at, c).snapshot = draft /\ Round(at, c).saved = c
        /\ Round(at, c).target = (IF c = None THEN subject ELSE c.id)
    BY Zenon DEF Round, Target
  <1>3. Round(at, c) \in Loop
    BY <1>1, Zenon DEF Round, Target, Loop
  <1> QED BY <1>2, <1>3, IdleFacts

Going(q, at) == [q EXCEPT !.at = at]

LEMMA GoingFacts ==
  ASSUME NEW q \in Loop, NEW at \in {"confirm", "inspect"}
  PROVE  \E g \in Loop : /\ g = Going(q, at) /\ g.at = at /\ g.snapshot = q.snapshot
                         /\ g.saved = q.saved /\ g.target = q.target
  <1>1. at \in {"idle", "write", "confirm", "upload", "inspect"}
    OBVIOUS
  <1>2. /\ Going(q, at) \in Loop /\ Going(q, at).at = at /\ Going(q, at).snapshot = q.snapshot
        /\ Going(q, at).saved = q.saved /\ Going(q, at).target = q.target
    BY <1>1, Zenon DEF Going, Loop
  <1> QED BY <1>2, Zenon

LEMMA LoopTypes ==
  ASSUME NEW q \in Loop
  PROVE  /\ q.at \in {"idle", "write", "confirm", "upload", "inspect"} /\ q.snapshot \in Held
         /\ q.saved \in Copies \cup {None} /\ q.target \in Posts \cup {None}
  BY Zenon DEF Loop

LEMMA AsksFacts ==
  ASSUME NEW op \in {"none", "open", "adapt", "export", "media", "remove"}, NEW c \in Copies
  PROVE  \E t \in Errand : /\ t = Asks(op, c) /\ t.op = op /\ t.id = c.id /\ t.revision = c.revision
                           /\ t.id # None
  <1>1. Asks(op, c) \in Errand
    BY CopyTypes, Zenon DEF Asks, Errand
  <1>2. Asks(op, c).op = op /\ Asks(op, c).id = c.id /\ Asks(op, c).revision = c.revision
    BY Zenon DEF Asks
  <1> QED BY <1>1, <1>2, CopyTypes, NoneFacts

LEMMA ErrandTypes ==
  ASSUME NEW t \in Errand
  PROVE  /\ t.op \in {"none", "open", "adapt", "export", "media", "remove"}
         /\ t.id \in Posts \cup {None} /\ t.revision \in Nat
  BY Zenon DEF Errand

LEMMA WordsFacts ==
  /\ \A p \in Posts, n \in 0..MaxEdits :
       /\ Written(p, n) \in Words /\ Written(p, n).n = n /\ Written(p, n).post = p
       /\ Trimmed(Written(p, n)) = Written(p, n)
  /\ \A w \in Words : w.n \in Nat /\ w.post \in Posts
  /\ 0 \in 0..MaxEdits
  <1>1. \A p \in Posts, n \in 0..MaxEdits :
          Written(p, n) \in Words /\ Written(p, n).n = n /\ Written(p, n).post = p
    BY DEF Words, Written
  <1>2. \A p \in Posts, n \in 0..MaxEdits : Trimmed(Written(p, n)) = Written(p, n)
    <2>1. PICK no : no = FALSE
      OBVIOUS
    <2>2. \A p, n : [[post |-> p, n |-> n, padded |-> no] EXCEPT !.padded = no]
                     = [post |-> p, n |-> n, padded |-> no]
      BY SMT
    <2> QED BY <2>1, <2>2 DEF Trimmed, Written
  <1>3. \A w \in Words : w.n \in 0..MaxEdits /\ w.post \in Posts
    BY Zenon DEF Words
  <1> QED BY <1>1, <1>2, <1>3, Bounds

(* The space around the name changes nothing else, and is taken away once. *)
LEMMA TrimmedFacts ==
  /\ \A w \in Words : /\ Trimmed(w) \in Words /\ Trimmed(w).n = w.n /\ Trimmed(w).post = w.post
                      /\ Trimmed(Trimmed(w)) = Trimmed(w)
  /\ \A w \in Words, pad \in BOOLEAN :
       LET u == [w EXCEPT !.padded = pad]
       IN u \in Words /\ u.n = w.n /\ u.post = w.post /\ Trimmed(u) = Trimmed(w)
  <1>1. ASSUME NEW w \in Words, NEW pad \in BOOLEAN
        PROVE  LET u == [w EXCEPT !.padded = pad]
               IN u \in Words /\ u.n = w.n /\ u.post = w.post /\ Trimmed(u) = Trimmed(w)
    BY DEF Words, Trimmed
  <1>2. ASSUME NEW w \in Words
        PROVE  /\ Trimmed(w) \in Words /\ Trimmed(w).n = w.n /\ Trimmed(w).post = w.post
               /\ Trimmed(Trimmed(w)) = Trimmed(w)
    BY DEF Words, Trimmed
  <1> QED BY <1>1, <1>2

LEMMA AdviceFacts ==
  /\ \A a \in Advice : a.of \in Posts /\ [a EXCEPT !.state = "used"] \in Advice
  /\ \A p \in Posts, s \in {"pending", "ready"} : [of |-> p, state |-> s] \in Advice
  BY Zenon DEF Advice
--------------------------------------------------------------------------------
(* The inductive invariant. *)

Writing   == saver.at \in {"write", "confirm"}
Uploading == saver.at \in {"upload", "inspect"}

\* The revision a client has seen is not ahead of the store.
Reached(p, revision) == Exists(p) => revision <= stored[p].revision

(* A copy of a post tells the truth as long as its revision is the stored one. *)
CopyInv(c) ==
  c # None =>
    /\ Reached(c.id, c.revision)
    /\ Current(c.id, c.revision) => stored[c.id].words = c.words
    /\ <<c.id, c.words>> \in seen

(* What is called saved is the copy the tab has. *)
EditorInv ==
  /\ draft # None => subject # None
  /\ post = None /\ draft \notin {None, Blank} => ~timer
  /\ post # None /\ post.id = subject /\ draft # None /\ ~dirty => post.words = Trimmed(draft)

(* A new post is alone in the editor while it is saved for the first time; and what
   a file is uploaded to holds what the editor calls saved. *)
SaverInv ==
  /\ Saving => saver.target # None
  /\ Saving /\ saver.saved # None => saver.target = saver.saved.id
  /\ Saving /\ saver.saved = None =>
       /\ Writing /\ post = None /\ draft # None /\ saver.target = subject
       /\ dialog = "none" /\ ~Busy /\ waiting = {}
  /\ Uploading /\ ~dirty /\ draft # None /\ subject = saver.target
     /\ Current(saver.target, saver.saved.revision) => stored[saver.target].words = Trimmed(draft)
  /\ ~Saving => waiting = {} /\ saver = Idle

(* The same of the post whose media are removed. *)
TaskInv ==
  /\ Busy => task.id # None
  /\ task.op \notin {"none", "open"} => Reached(task.id, task.revision)
  /\ task.op = "open" => draft = None
  /\ task.op = "media" =>
       /\ post # None /\ task.id = post.id /\ dialog = "none" /\ waiting = {}
       /\ Saving => saver.target = task.id
       /\ Current(task.id, task.revision) => <<task.id, stored[task.id].words>> \in seen
       /\ ~dirty /\ draft # None /\ subject = task.id /\ Current(task.id, task.revision) =>
            stored[task.id].words = Trimmed(draft)

(* The tab holds the words of another tab only if it has shown them, and only such
   words as have no space around the name are stored. *)
Foreign(w) ==
  \A q \in Posts : Exists(q) /\ stored[q].by = "other" /\ stored[q].words = w => <<q, w>> \in seen

StoreInv(p) ==
  Exists(p) =>
    /\ stored[p].words.n <= edits /\ Trimmed(stored[p].words) = stored[p].words
    /\ stored[p].by = "tab" => <<p, stored[p].words>> \in seen /\ Foreign(stored[p].words)
    /\ stored[p].by = "other" => stored[p].words.post = p /\ stored[p].words.n # 0

HeldInv(w) == w \in Words => Foreign(Trimmed(w)) /\ w.n <= edits

WordsInv == HeldInv(draft) /\ HeldInv(saver.snapshot) /\ \A p \in Posts : StoreInv(p)

IInv == TypeOK /\ CopyInv(post) /\ CopyInv(saver.saved) /\ EditorInv /\ SaverInv /\ TaskInv /\ WordsInv

\* The invariant without the types.
Agrees == CopyInv(post) /\ CopyInv(saver.saved) /\ EditorInv /\ SaverInv /\ TaskInv /\ WordsInv

LEMMA Parts == IInv <=> TypeOK /\ Agrees
  BY DEF IInv, Agrees
--------------------------------------------------------------------------------
(* What the changes of the store leave true. *)

Moves(p) ==
  \/ stored'[p] = stored[p]
  \/ stored'[p] = None
  \/ Exists(p) /\ stored'[p] # None /\ stored'[p].revision > stored[p].revision

Remembers == \A s \in seen : s \in seen'

LEMMA ReachedKept ==
  ASSUME TypeOK, TypeOK', NEW p \in Posts, NEW revision \in Nat, Reached(p, revision), Moves(p)
  PROVE  /\ Reached(p, revision)'
         /\ Current(p, revision)' => stored'[p] = stored[p] /\ Current(p, revision)
  <1>1. PICK v \in Version \cup {None}, u \in Version \cup {None} : v = stored[p] /\ u = stored'[p]
    BY DEF TypeOK
  <1>2. (v # None => v.revision \in Nat) /\ (u # None => u.revision \in Nat)
    BY VersionFacts
  <1> QED BY <1>1, <1>2 DEF Reached, Current, Exists, Moves

LEMMA CopyKept ==
  ASSUME TypeOK, TypeOK', NEW c \in Copies \cup {None}, CopyInv(c), Remembers,
         c # None => Moves(c.id)
  PROVE  CopyInv(c)'
  <1> SUFFICES ASSUME c # None
               PROVE  /\ Reached(c.id, c.revision)'
                      /\ Current(c.id, c.revision)' => stored'[c.id].words = c.words
                      /\ <<c.id, c.words>> \in seen'
    BY DEF CopyInv
  <1>1. c.id \in Posts /\ c.revision \in Nat
    BY CopyTypes
  <1>2. Reached(c.id, c.revision) /\ <<c.id, c.words>> \in seen
        /\ (Current(c.id, c.revision) => stored[c.id].words = c.words)
    BY DEF CopyInv
  <1> QED BY <1>1, <1>2, ReachedKept DEF Remembers

LEMMA CopyMade ==
  ASSUME TypeOK', NEW p \in Posts, NEW v \in Version, stored'[p] = v, <<p, v.words>> \in seen',
         NEW c \in Copies, c.id = p, c.revision = v.revision, c.words = v.words
  PROVE  CopyInv(c)'
  <1>1. v.revision \in Nat /\ v.revision <= v.revision
    BY VersionFacts
  <1> QED BY <1>1 DEF CopyInv, Reached, Current, Exists

(* What another tab stores is what it wrote. *)
Quiet ==
  \A q \in Posts : stored'[q] # None /\ stored'[q].by = "other" =>
    stored[q] # None /\ stored[q].by = "other" /\ stored'[q].words = stored[q].words

LEMMA ForeignKept ==
  ASSUME Quiet, Remembers, NEW w, Foreign(w)
  PROVE  Foreign(w)'
  BY DEF Quiet, Remembers, Foreign, Exists

LEMMA HeldKept ==
  ASSUME Quiet, Remembers, NEW w, HeldInv(w), edits \in Nat, edits' \in Nat, edits' >= edits
  PROVE  HeldInv(w)'
  <1>1. PICK t : t = Trimmed(w)
    OBVIOUS
  <1>2. w \in Words => Foreign(t)
    BY <1>1 DEF HeldInv
  <1>3. w \in Words => Foreign(t)'
    BY <1>2, ForeignKept
  <1>4. w \in Words => w.n <= edits'
    BY WordsFacts DEF HeldInv
  <1> QED BY <1>1, <1>3, <1>4 DEF HeldInv

LEMMA NothingHeld == HeldInv(None) /\ HeldInv(Blank)
  BY NoneFacts DEF HeldInv

LEMMA StoreKept ==
  ASSUME TypeOK, Quiet, Remembers, NEW p \in Posts, StoreInv(p), stored'[p] = stored[p],
         edits \in Nat, edits' \in Nat, edits' >= edits
  PROVE  StoreInv(p)'
  <1>1. PICK v \in Version \cup {None} : v = stored[p]
    BY DEF TypeOK
  <1>2. v # None => v.words \in Words /\ v.words.n \in Nat
    BY VersionFacts, WordsFacts
  <1>3. v # None /\ v.by = "tab" => Foreign(v.words)'
    BY <1>1, ForeignKept DEF StoreInv, Exists
  <1> QED BY <1>1, <1>2, <1>3 DEF StoreInv, Exists, Remembers

LEMMA EditsAre == ASSUME TypeOK  PROVE edits \in Nat
  BY Bounds DEF TypeOK

(* Nothing is stored. *)
LEMMA WordsKept ==
  ASSUME TypeOK, TypeOK', WordsInv, UNCHANGED stored, Remembers, edits' >= edits,
         HeldInv(draft)', HeldInv(saver.snapshot)'
  PROVE  WordsInv'
  <1>1. edits \in Nat /\ edits' \in Nat
    <2>1. edits \in 0..MaxEdits /\ edits' \in 0..MaxEdits
      BY DEF TypeOK
    <2> QED BY <2>1, Bounds
  <1>2. Quiet
    BY DEF Quiet
  <1> QED BY <1>1, <1>2, StoreKept DEF WordsInv
--------------------------------------------------------------------------------
(* Steps that store nothing and do not concern the loop. *)

\* What the editor and the tasks are after a step; everything else follows.
LEMMA EditorTurn ==
  ASSUME IInv, TypeOK', UNCHANGED <<stored, saver, seen>>, edits' >= edits,
         CopyInv(post)', EditorInv', SaverInv', TaskInv', HeldInv(draft)'
  PROVE  IInv'
  <1>1. TypeOK /\ CopyInv(saver.saved) /\ WordsInv
    BY DEF IInv
  <1>2. saver.saved \in Copies \cup {None}
    BY <1>1, LoopTypes DEF TypeOK
  <1>3. PICK c \in Copies \cup {None} : c = saver.saved
    BY <1>2
  <1>4. Remembers /\ (c # None => Moves(c.id))
    BY DEF Remembers, Moves
  <1>5. CopyInv(c)'
    BY <1>1, <1>3, <1>4, CopyKept
  <1>6. CopyInv(saver.saved)'
    BY <1>3, <1>5
  <1>7. PICK w : w = saver.snapshot
    OBVIOUS
  <1>8. Quiet
    BY DEF Quiet
  <1>9. edits \in Nat /\ edits' \in Nat
    BY <1>1, EditsAre, Bounds DEF TypeOK
  <1>10. HeldInv(w)'
    BY <1>1, <1>4, <1>7, <1>8, <1>9, HeldKept DEF WordsInv
  <1>11. HeldInv(saver.snapshot)'
    BY <1>7, <1>10
  <1>12. WordsInv'
    BY <1>1, <1>4, <1>11, WordsKept
  <1> QED BY <1>6, <1>12 DEF IInv

\* The copy in the editor stays, or goes.
LEMMA PostStays ==
  ASSUME IInv, TypeOK', UNCHANGED <<stored, seen>>, post' = post \/ post' = None
  PROVE  CopyInv(post)'
  <1>1. CASE post' = None
    BY <1>1 DEF CopyInv
  <1>2. CASE post' = post
    <2>1. PICK c \in Copies \cup {None} : c = post
      BY DEF IInv, TypeOK
    <2>2. TypeOK /\ CopyInv(c) /\ Remembers /\ (c # None => Moves(c.id))
      BY <2>1 DEF IInv, Remembers, Moves
    <2>3. CopyInv(c)'
      BY <2>2, CopyKept
    <2> QED BY <1>2, <2>1, <2>3
  <1> QED BY <1>1, <1>2

LEMMA DraftStays ==
  ASSUME IInv, TypeOK', UNCHANGED <<stored, seen>>, edits' >= edits,
         draft' = draft \/ draft' = None \/ draft' = Blank
  PROVE  HeldInv(draft)'
  <1>1. PICK w : w = draft'
    OBVIOUS
  <1>2. HeldInv(w)
    BY <1>1, NothingHeld DEF IInv, WordsInv
  <1>3. Quiet /\ Remembers
    BY DEF Quiet, Remembers
  <1>4. edits \in Nat /\ edits' \in Nat
    BY EditsAre, Bounds DEF IInv, TypeOK
  <1>5. HeldInv(w)'
    BY <1>2, <1>3, <1>4, HeldKept
  <1> QED BY <1>1, <1>5

LEMMA Flags ==
  ASSUME IInv
  PROVE  /\ dirty \in BOOLEAN /\ error \in BOOLEAN /\ timer \in BOOLEAN /\ file \in BOOLEAN
         /\ edits \in Nat /\ edits >= edits /\ edits \in 0..MaxEdits
         /\ stored \in [Posts -> Version \cup {None}]
         /\ post \in Copies \cup {None} /\ saver \in Loop /\ task \in Errand
         /\ draft \in Held /\ subject \in Posts \cup {None}
  <1>1. edits \in Nat /\ edits >= edits
    BY EditsAre DEF IInv
  <1> QED BY <1>1 DEF IInv, TypeOK

LEMMA AdaptedStep ==
  ASSUME IInv, NEW p \in Posts, Adapted(p)
  PROVE  IInv'
  <1>1. UNCHANGED <<stored, post, draft, subject, dirty, error, timer, dialog,
                    file, saver, waiting, task, shown, pollTimer, polls, seen, edits, losses>>
        /\ advice' = [advice EXCEPT ![p] = "ready"]
    BY DEF Adapted
  <1>2. TypeOK'
    BY <1>1 DEF IInv, TypeOK
  <1>3. EditorInv' /\ SaverInv' /\ TaskInv'
    BY <1>1 DEF IInv, EditorInv, SaverInv, TaskInv, Saving, Writing, Uploading, Busy, Current, Exists, Reached
  <1> QED BY <1>1, <1>2, <1>3, Flags, EditorTurn, PostStays, DraftStays

LEMMA AddStep ==
  ASSUME IInv, NEW p \in Posts, Add(p)
  PROVE  IInv'
  <1>1. /\ draft = None /\ ~Busy /\ \A s \in seen : s[1] # p
        /\ post' = None /\ draft' = Blank /\ subject' = p
        /\ dirty' = FALSE /\ file' = FALSE /\ shown' = None /\ error' = FALSE
        /\ UNCHANGED <<stored, advice, timer, dialog, saver, waiting, task, pollTimer, polls, seen,
                       edits, losses>>
    BY DEF Add, server
  <1>2. TypeOK'
    <2>1. Blank \in Held
      BY DEF Held
    <2> QED BY <1>1, <2>1 DEF IInv, TypeOK
  <1>3. EditorInv'
    BY <1>1, NoneFacts DEF EditorInv
  <1>4. SaverInv'
    <2>1. SaverInv /\ CopyInv(saver.saved)
      BY DEF IInv
    <2>2. Saving => saver.saved # None /\ saver.target # p
      <3>1. SUFFICES ASSUME Saving  PROVE saver.saved # None /\ saver.target # p
        OBVIOUS
      <3>2. saver.saved # None
        BY <1>1, <2>1, <3>1 DEF SaverInv
      <3>3. saver.target = saver.saved.id /\ <<saver.saved.id, saver.saved.words>> \in seen
        BY <2>1, <3>1, <3>2 DEF SaverInv, CopyInv
      <3> QED BY <1>1, <3>2, <3>3
    <2>3. Uploading => Saving
      BY DEF Uploading, Saving
    <2> QED BY <1>1, <2>1, <2>2, <2>3 DEF SaverInv, Saving, Uploading
  <1>5. TaskInv'
    BY <1>1 DEF IInv, TaskInv, Busy
  <1> QED BY <1>1, <1>2, <1>3, <1>4, <1>5, Flags, EditorTurn, PostStays, DraftStays
--------------------------------------------------------------------------------
(* What the owner writes. *)

LEMMA Rewritten ==
  ASSUME IInv, TypeOK', UNCHANGED <<stored, post, subject, dialog, saver, waiting, task, seen>>,
         draft # None, draft' # None, dirty' = TRUE, timer' => post # None,
         edits' >= edits, HeldInv(draft)'
  PROVE  IInv'
  <1>1. EditorInv'
    BY DEF IInv, EditorInv
  <1>2. SaverInv'
    BY DEF IInv, SaverInv, Saving, Writing, Uploading, Busy
  <1>3. TaskInv'
    BY DEF IInv, TaskInv, Saving, Busy, Reached, Current, Exists
  <1> QED BY <1>1, <1>2, <1>3, PostStays, EditorTurn

\* Words nobody has stored, or that this tab stores.
LEMMA NewWords ==
  ASSUME IInv, UNCHANGED <<stored, seen>>, edits' = edits + 1, NEW w \in Words,
         w.n = edits + 1 \/ w.n = 0
  PROVE  HeldInv(w)'
  <1>1. PICK t \in Words : t = Trimmed(w) /\ t.n = w.n
    BY TrimmedFacts
  <1>2. Foreign(t)'
    <2>1. SUFFICES ASSUME NEW q \in Posts, Exists(q), stored[q].by = "other", stored[q].words = t
                   PROVE  FALSE
      BY DEF Foreign, Exists
    <2>2. StoreInv(q)
      BY DEF IInv, WordsInv
    <2>3. t.n <= edits /\ t.n # 0
      BY <2>1, <2>2 DEF StoreInv
    <2> QED BY <1>1, <2>3, Flags
  <1>3. w.n <= edits'
    BY Flags
  <1> QED BY <1>1, <1>2, <1>3 DEF HeldInv

LEMMA TypeStep ==
  ASSUME IInv, Type
  PROVE  IInv'
  <1>1. /\ draft # None /\ ~Busy /\ dialog = "none" /\ edits < MaxEdits /\ edits' = edits + 1
        /\ \/ draft' = Blank
           \/ \E pad \in BOOLEAN : draft' = [Written(subject, edits + 1) EXCEPT !.padded = pad]
        /\ dirty' = TRUE /\ timer' = (post # None)
        /\ UNCHANGED <<stored, advice, post, subject, error, dialog, file, saver, waiting, task,
                       shown, pollTimer, polls, seen, losses>>
    BY DEF Type, Editable, Changed, server, polling
  <1>2. subject \in Posts /\ edits + 1 \in 0..MaxEdits /\ edits' >= edits
    BY <1>1, Flags, Bounds DEF IInv, EditorInv
  <1>3. draft' = Blank \/ (draft' \in Words /\ draft'.n = edits + 1)
    <2>1. PICK u \in Words : u = Written(subject, edits + 1) /\ u.n = edits + 1
      BY <1>2, WordsFacts
    <2> QED BY <1>1, <2>1, TrimmedFacts
  <1>4. TypeOK'
    BY <1>1, <1>2, <1>3 DEF IInv, TypeOK, Held
  <1>5. HeldInv(draft)'
    <2>1. CASE draft' = Blank
      BY <1>1, <1>2, <1>4, <2>1, DraftStays
    <2>2. CASE draft' # Blank
      <3>1. PICK w \in Words : w = draft' /\ w.n = edits + 1
        BY <1>3, <2>2
      <3>2. HeldInv(w)'
        BY <1>1, <3>1, NewWords
      <3> QED BY <3>1, <3>2
    <2> QED BY <2>1, <2>2
  <1>6. draft' # None
    BY <1>3, NoneFacts
  <1> QED BY <1>1, <1>2, <1>4, <1>5, <1>6, Rewritten

LEMMA ApplySuggestionStep ==
  ASSUME IInv, ApplySuggestion
  PROVE  IInv'
  <1>1. /\ draft # None /\ post # None /\ shown # None /\ edits < MaxEdits /\ edits' = edits + 1
        /\ draft' = [Written(shown.of, 0) EXCEPT !.padded = draft.padded] /\ shown' = [shown EXCEPT !.state = "used"]
        /\ dirty' = TRUE /\ timer' = (post # None)
        /\ UNCHANGED <<stored, advice, post, subject, error, dialog, file, saver, waiting, task,
                       pollTimer, polls, seen, losses>>
    BY DEF ApplySuggestion, Changed, server
  <1>2. shown \in Advice
    BY <1>1 DEF IInv, TypeOK
  <1>3. shown.of \in Posts /\ shown' \in Advice
    BY <1>1, <1>2, AdviceFacts
  <1>4. PICK w \in Words : w = draft' /\ w.n = 0
    <2>1. PICK u \in Words : u = Written(shown.of, 0) /\ u.n = 0
      BY <1>3, WordsFacts
    <2>2. draft.padded \in BOOLEAN
      <3>1. \A w \in Words : w.padded \in BOOLEAN
        BY Zenon DEF Words
      <3>2. Blank.padded \in BOOLEAN
        BY Zenon DEF Blank
      <3> QED BY <1>1, <3>1, <3>2, Flags, Zenon DEF Held
    <2> QED BY <1>1, <2>1, <2>2, TrimmedFacts
  <1>5. edits + 1 \in 0..MaxEdits /\ edits' >= edits
    BY <1>1, Flags, Bounds
  <1>6. TypeOK'
    BY <1>1, <1>3, <1>4, <1>5 DEF IInv, TypeOK, Held
  <1>7. HeldInv(w)'
    BY <1>1, <1>4, NewWords
  <1>8. HeldInv(draft)' /\ draft' # None
    BY <1>4, <1>7, NoneFacts
  <1> QED BY <1>1, <1>5, <1>6, <1>8, Rewritten

LEMMA UploadStep ==
  ASSUME IInv, Upload
  PROVE  IInv'
  <1>1. /\ draft # None /\ ~Saving /\ ~Busy /\ edits < MaxEdits /\ edits' = edits + 1
        /\ file' = TRUE /\ dirty' = TRUE
        /\ UNCHANGED <<stored, advice, post, draft, subject, error, timer, dialog, saver, waiting,
                 task, shown, pollTimer, polls, seen, losses>>
    BY DEF Upload, Editable, server, polling
  <1>2. edits + 1 \in 0..MaxEdits /\ edits' >= edits
    BY <1>1, Flags, Bounds
  <1>3. TypeOK'
    BY <1>1, <1>2 DEF IInv, TypeOK
  <1>4. EditorInv'
    BY <1>1 DEF IInv, EditorInv
  <1>5. SaverInv'
    BY <1>1 DEF IInv, SaverInv, Saving, Writing, Uploading
  <1>6. TaskInv'
    BY <1>1 DEF IInv, TaskInv, Busy
  <1> QED BY <1>1, <1>2, <1>3, <1>4, <1>5, <1>6, PostStays, DraftStays, EditorTurn

\* A request about the copy in the editor.
LEMMA AsksOfCopy ==
  ASSUME IInv, post # None, NEW op \in {"adapt", "export", "media", "remove"}
  PROVE  \E t \in Errand : /\ t = Asks(op, post) /\ t.op = op /\ t.id = post.id /\ t.id \in Posts
                           /\ t.id # None /\ Reached(t.id, t.revision)
                           /\ (Current(t.id, t.revision) =>
                                 stored[t.id].words = post.words /\ <<t.id, stored[t.id].words>> \in seen)
  <1>1. PICK c \in Copies : c = post
    BY Flags
  <1>2. PICK t \in Errand : /\ t = Asks(op, c) /\ t.op = op /\ t.id = c.id /\ t.revision = c.revision
                            /\ t.id # None
    BY AsksFacts
  <1>3. CopyInv(c)
    BY <1>1 DEF IInv
  <1>4. /\ Reached(t.id, t.revision)
        /\ Current(t.id, t.revision) => stored[t.id].words = c.words
        /\ <<t.id, c.words>> \in seen
    BY <1>2, <1>3, CopyTypes DEF CopyInv
  <1> QED BY <1>1, <1>2, <1>4, CopyTypes

LEMMA RemoveFileStep ==
  ASSUME IInv, RemoveFile
  PROVE  IInv'
  <1>1. /\ draft # None /\ ~Saving /\ ~Busy /\ dialog = "none" /\ file' = FALSE
        /\ task' = (IF post # None /\ post.media THEN Asks("media", post) ELSE task)
        /\ UNCHANGED <<stored, advice, post, draft, subject, dirty, error, timer, dialog, saver,
                       waiting, shown, pollTimer, polls, seen, edits, losses>>
    BY DEF RemoveFile, Editable, server, polling
  <1>2. waiting = {}
    BY <1>1 DEF IInv, SaverInv
  <1>3. EditorInv' /\ SaverInv'
    BY <1>1 DEF IInv, EditorInv, SaverInv, Saving, Writing, Uploading, Current, Exists
  <1>4. CASE task' = task
    <2>1. TypeOK'
      <3>1. {dirty, error, timer, file}' \subseteq BOOLEAN
        BY <1>1, Flags
      <3> QED BY <1>1, <1>4, <3>1 DEF IInv, TypeOK
    <2>2. TaskInv'
      BY <1>1, <1>4 DEF IInv, TaskInv, Busy
    <2> QED BY <1>1, <1>3, <2>1, <2>2, Flags, PostStays, DraftStays, EditorTurn
  <1>5. CASE post # None /\ task' = Asks("media", post)
    <2>1. PICK op \in {"adapt", "export", "media", "remove"} : op = "media"
      OBVIOUS
    <2>2. PICK t \in Errand : /\ t = Asks(op, post) /\ t.op = op /\ t.id = post.id /\ t.id \in Posts
                              /\ t.id # None /\ Reached(t.id, t.revision)
                              /\ (Current(t.id, t.revision) =>
                                    stored[t.id].words = post.words /\ <<t.id, stored[t.id].words>> \in seen)
      BY <1>5, AsksOfCopy
    <2>3. task' = t /\ t.op = "media"
      BY <1>5, <2>1, <2>2
    <2>4. TypeOK'
      BY <1>1, <2>3 DEF IInv, TypeOK
    <2>5. TaskInv'
      <3>1. ~dirty /\ draft # None /\ subject = t.id => post.words = Trimmed(draft)
        BY <1>5, <2>2 DEF IInv, EditorInv
      <3> QED BY <1>1, <1>2, <1>5, <2>2, <2>3, <3>1 DEF TaskInv, Saving, Busy, Reached, Current, Exists
    <2> QED BY <1>1, <1>3, <2>4, <2>5, Flags, PostStays, DraftStays, EditorTurn
  <1> QED BY <1>1, <1>4, <1>5
--------------------------------------------------------------------------------
(* Saving: the loop is joined, started, or not needed. *)

LEMMA LoopTurn ==
  ASSUME IInv, TypeOK', UNCHANGED <<stored, seen>>, edits' >= edits,
         CopyInv(post)', CopyInv(saver.saved)', EditorInv', SaverInv', TaskInv',
         HeldInv(draft)', HeldInv(saver.snapshot)'
  PROVE  IInv'
  <1>1. TypeOK /\ WordsInv /\ Remembers
    BY DEF IInv, Remembers
  <1>2. WordsInv'
    BY <1>1, WordsKept
  <1> QED BY <1>2 DEF IInv

\* A round of the loop starts with the copy and the words in the editor.
LEMMA BegunIs ==
  ASSUME IInv
  PROVE  \/ Begun = Idle /\ post # None /\ ~dirty
         \/ \E at \in {"write", "upload"}, c \in Copies \cup {None} :
              /\ c = post /\ Begun = Round(at, c) /\ (at = "upload" => c # None /\ ~dirty)
  <1>1. PICK c \in Copies \cup {None} : c = post
    BY Flags
  <1>2. CASE post = None \/ dirty
    BY <1>1, <1>2 DEF Begun
  <1>3. CASE ~(post = None \/ dirty)
    BY <1>1, <1>3 DEF Begun
  <1> QED BY <1>2, <1>3

SaveMay(who) ==
  /\ who # {} => ~Busy /\ post # None
  /\ post = None /\ draft \notin {None, Blank} /\ ~Saving => ~Busy /\ dialog = "none"

LEMMA SaveKeeps ==
  ASSUME IInv, NEW who \in {{}, {"adapt"}, {"export"}, {"leave"}}, Save(who), SaveMay(who),
         edits' \in 0..MaxEdits, edits' >= edits, UNCHANGED losses
  PROVE  IInv'
  <1>1. /\ timer' = FALSE
        /\ dialog' = (IF ~Saving /\ draft = Blank /\ "leave" \in who THEN "leave" ELSE dialog)
        /\ UNCHANGED <<stored, advice, subject, dirty, file, shown, polls, seen>>
    BY DEF Save, server
  <1>2. dialog' \in {"none", "leave", "delete"} /\ who \subseteq {"leave", "adapt", "export"}
    BY <1>1 DEF IInv, TypeOK
  <1>3. ASSUME draft \in {None, Blank} \/ Saving  PROVE IInv'
    <2>1. /\ waiting' = (IF Saving THEN waiting \cup who ELSE waiting)
          /\ UNCHANGED <<saver, post, draft, pollTimer, task, error>>
      BY <1>3 DEF Save
    <2>2. TypeOK'
      BY <1>1, <1>2, <2>1 DEF IInv, TypeOK
    <2>3. EditorInv'
      BY <1>1, <2>1 DEF IInv, EditorInv
    <2>4. SaverInv'
      <3>1. CASE ~Saving
        BY <1>1, <2>1, <3>1 DEF IInv, SaverInv, Saving, Writing, Uploading
      <3>2. CASE Saving
        <4>1. dialog' = dialog /\ (who = {} => waiting' = waiting) /\ (post = None => who = {})
          BY <1>1, <2>1, <3>2 DEF SaveMay
        <4> QED BY <1>1, <2>1, <3>2, <4>1 DEF IInv, SaverInv, Saving, Writing, Uploading, Busy, Current, Exists
      <3> QED BY <3>1, <3>2
    <2>5. TaskInv'
      <3>1. Busy => who = {} /\ dialog' = dialog /\ waiting' = waiting
        BY <1>1, <2>1 DEF SaveMay
      <3> QED BY <1>1, <2>1, <3>1 DEF IInv, TaskInv, Saving, Busy, Reached, Current, Exists
    <2> QED BY <1>1, <2>1, <2>2, <2>3, <2>4, <2>5, PostStays, DraftStays, EditorTurn
  <1>4. ASSUME draft \notin {None, Blank}, ~Saving  PROVE IInv'
    <2>1. /\ saver' = Begun
          /\ waiting' = (IF Begun = Idle THEN {} ELSE who)
          /\ error' = FALSE
          /\ IF Begun = Idle /\ "leave" \in who THEN LeaveEditor ELSE UNCHANGED <<post, draft, pollTimer>>
          /\ IF Begun = Idle /\ who \cap Tasks # {}
               THEN \E op \in who \cap Tasks : task' = Asks(op, post) ELSE UNCHANGED task
      BY <1>4 DEF Save
    <2>2. dialog' = dialog /\ waiting = {} /\ saver = Idle
      BY <1>1, <1>4 DEF IInv, SaverInv
    <2>3. ASSUME Begun # Idle  PROVE IInv'
      <3>1. waiting' = who /\ UNCHANGED <<post, draft, pollTimer, task>>
        BY <2>1, <2>3
      <3>2. PICK at \in {"write", "upload"}, c \in Copies \cup {None} :
              /\ c = post /\ Begun = Round(at, c) /\ (at = "upload" => c # None /\ ~dirty)
        BY <2>3, BegunIs
      <3>3. PICK q \in Loop :
              /\ q = Round(at, c) /\ q.at = at /\ q.snapshot = draft /\ q.saved = c
              /\ q.target = (IF c = None THEN subject ELSE c.id) /\ q # Idle
        BY Flags, RoundFacts
      <3>4. saver' = q
        BY <2>1, <3>2, <3>3
      <3>5. TypeOK'
        BY <1>1, <1>2, <2>1, <3>1, <3>4 DEF IInv, TypeOK
      <3>6. EditorInv'
        BY <1>1, <3>1 DEF IInv, EditorInv
      <3>7. SaverInv'
        <4>1. subject # None /\ (c # None => c.id # None)
          BY <1>4, CopyTypes, NoneFacts DEF IInv, EditorInv
        <4>2. c = None => ~Busy /\ dialog = "none" /\ who = {}
          BY <1>4, <3>2 DEF SaveMay
        <4>3. c # None /\ ~dirty /\ subject = c.id /\ Current(c.id, c.revision) =>
               stored[c.id].words = Trimmed(draft)
          BY <1>4, <3>2 DEF IInv, EditorInv, CopyInv
        <4> QED BY <1>1, <1>4, <2>2, <3>1, <3>2, <3>3, <3>4, <4>1, <4>2, <4>3
                DEF SaverInv, Saving, Writing, Uploading, Busy, Current, Exists
      <3>8. TaskInv'
        <4>1. Busy => who = {} /\ waiting' = {}
          BY <3>1 DEF SaveMay
        <4>2. task.op = "media" => post # None /\ task.id = post.id
          BY DEF IInv, TaskInv
        <4>3. task.op = "media" => q.target = task.id
          BY <3>2, <3>3, <4>2
        <4> QED BY <1>1, <2>2, <3>1, <3>4, <4>1, <4>3 DEF IInv, TaskInv, Saving, Busy, Reached, Current, Exists
      <3>9. CopyInv(post)' /\ HeldInv(draft)'
        BY <1>1, <3>1, <3>5, PostStays, DraftStays
      <3>10. CopyInv(saver.saved)' /\ HeldInv(saver.snapshot)'
        BY <3>1, <3>2, <3>3, <3>4, <3>9
      <3> QED BY <1>1, <3>5, <3>6, <3>7, <3>8, <3>9, <3>10, LoopTurn
    <2>4. ASSUME Begun = Idle, "leave" \in who  PROVE IInv'
      <3>1. /\ post' = None /\ draft' = None /\ pollTimer' = None /\ saver' = saver /\ waiting' = {}
            /\ UNCHANGED task
        BY <2>1, <2>2, <2>4 DEF LeaveEditor, Tasks
      <3>2. ~Busy
        BY <2>4 DEF SaveMay
      <3>3. TypeOK'
        BY <1>1, <1>2, <2>1, <3>1 DEF IInv, TypeOK, Held
      <3>4. EditorInv' /\ SaverInv' /\ TaskInv'
        BY <1>1, <1>4, <2>2, <3>1, <3>2 DEF IInv, EditorInv, SaverInv, TaskInv, Saving, Writing, Uploading, Busy
      <3> QED BY <1>1, <3>1, <3>3, <3>4, PostStays, DraftStays, EditorTurn
    <2>5. ASSUME Begun = Idle, "leave" \notin who  PROVE IInv'
      <3>1. UNCHANGED <<post, draft, pollTimer, saver>> /\ waiting' = {}
        BY <2>1, <2>2, <2>5
      <3>2. EditorInv' /\ SaverInv'
        BY <1>1, <1>4, <2>2, <3>1 DEF IInv, EditorInv, SaverInv, Saving, Writing, Uploading
      <3>3. CASE task' = task
        <4>1. TypeOK'
          BY <1>1, <1>2, <2>1, <3>1, <3>3 DEF IInv, TypeOK
        <4>2. TaskInv'
          BY <1>1, <2>2, <3>1, <3>3 DEF IInv, TaskInv, Saving, Busy, Reached, Current, Exists
        <4> QED BY <1>1, <3>1, <3>2, <4>1, <4>2, PostStays, DraftStays, EditorTurn
      <3>4. CASE task' # task
        <4>1. PICK op \in {"adapt", "export"} : task' = Asks(op, post) /\ op \in who
          BY <2>1, <2>5, <3>4 DEF Tasks
        <4>2. post # None
          BY <4>1 DEF SaveMay
        <4>3. op \in {"adapt", "export", "media", "remove"}
          OBVIOUS
        <4>4. PICK t \in Errand : /\ t = Asks(op, post) /\ t.op = op /\ t.id = post.id /\ t.id \in Posts
                                  /\ t.id # None /\ Reached(t.id, t.revision)
                                  /\ (Current(t.id, t.revision) =>
                                        stored[t.id].words = post.words /\ <<t.id, stored[t.id].words>> \in seen)
          BY <4>2, <4>3, AsksOfCopy
        <4>5. task' = t /\ t.op \notin {"none", "open", "media"}
          BY <4>1, <4>4
        <4>6. TypeOK'
          BY <1>1, <1>2, <2>1, <3>1, <4>5 DEF IInv, TypeOK
        <4>7. TaskInv'
          BY <1>1, <4>4, <4>5 DEF TaskInv, Busy, Reached, Exists
        <4> QED BY <1>1, <3>1, <3>2, <4>6, <4>7, PostStays, DraftStays, EditorTurn
      <3> QED BY <3>3, <3>4
    <2> QED BY <2>3, <2>4, <2>5
  <1> QED BY <1>3, <1>4
--------------------------------------------------------------------------------
(* The owner's choices. *)

LEMMA CountedIs ==
  ASSUME IInv, Counted \/ UNCHANGED edits
  PROVE  edits' \in 0..MaxEdits /\ edits' >= edits
  <1>1. edits' = edits \/ (edits < MaxEdits /\ edits' = edits + 1)
    BY DEF Counted
  <1> QED BY <1>1, Flags, Bounds

\* A save the timer or a button starts.
SaveBy(who) == Save(who) /\ SaveMay(who) /\ (Counted \/ UNCHANGED edits)

LEMMA SavedBy ==
  ASSUME IInv, NEW who \in {{}, {"adapt"}, {"export"}, {"leave"}}, SaveBy(who), UNCHANGED losses
  PROVE  IInv'
  <1>1. edits' \in 0..MaxEdits /\ edits' >= edits
    BY CountedIs DEF SaveBy
  <1> QED BY <1>1, SaveKeeps DEF SaveBy

LEMMA SaveLosesNothing == ASSUME NEW who, Save(who)  PROVE UNCHANGED losses
  BY DEF Save

LEMMA TimerFiresStep ==
  ASSUME IInv, TimerFires
  PROVE  IInv'
  <1>1. PICK who \in {{}, {"adapt"}, {"export"}, {"leave"}} : who = {}
    OBVIOUS
  <1>2. Save(who) /\ timer /\ UNCHANGED edits
    BY <1>1 DEF TimerFires
  <1>3. SaveMay(who)
    BY <1>1, <1>2 DEF SaveMay, IInv, EditorInv
  <1> QED BY <1>2, <1>3, SaveLosesNothing, SavedBy DEF SaveBy

LEMMA PrepareStep ==
  ASSUME IInv, Prepare
  PROVE  IInv'
  <1>1. PICK who \in {{}, {"adapt"}, {"export"}, {"leave"}} : who = {}
    OBVIOUS
  <1>2. Save(who) /\ Editable /\ Counted
    BY <1>1 DEF Prepare
  <1>3. SaveMay(who)
    BY <1>1, <1>2 DEF SaveMay, Editable
  <1> QED BY <1>2, <1>3, SaveLosesNothing, SavedBy DEF SaveBy

LEMMA AdaptStep ==
  ASSUME IInv, Adapt
  PROVE  IInv'
  <1>1. PICK who \in {{}, {"adapt"}, {"export"}, {"leave"}} : who = {"adapt"}
    OBVIOUS
  <1>2. Save(who) /\ Editable /\ Counted /\ post # None
    BY <1>1 DEF Adapt
  <1>3. SaveMay(who)
    BY <1>1, <1>2 DEF SaveMay, Editable
  <1> QED BY <1>2, <1>3, SaveLosesNothing, SavedBy DEF SaveBy

LEMMA DownloadStep ==
  ASSUME IInv, Download
  PROVE  IInv'
  <1>1. PICK who \in {{}, {"adapt"}, {"export"}, {"leave"}} : who = {"export"}
    OBVIOUS
  <1>2. Save(who) /\ Editable /\ Counted /\ post # None
    BY <1>1 DEF Download
  <1>3. SaveMay(who)
    BY <1>1, <1>2 DEF SaveMay, Editable
  <1> QED BY <1>2, <1>3, SaveLosesNothing, SavedBy DEF SaveBy

\* The list is shown: no loop runs for a new post.
LEMMA Leaving ==
  ASSUME IInv, TypeOK', LeaveEditor, saver.saved # None \/ ~Saving,
         UNCHANGED <<stored, subject, saver, waiting, task, seen, edits>>,
         timer' = timer, task.op # "media"
  PROVE  IInv'
  <1>1. post' = None /\ draft' = None
    BY DEF LeaveEditor
  <1>2. EditorInv' /\ TaskInv'
    BY <1>1, NoneFacts DEF IInv, EditorInv, TaskInv, Busy, Reached, Exists
  <1>3. SaverInv'
    BY <1>1 DEF IInv, SaverInv, Saving, Writing, Uploading
  <1> QED BY <1>1, <1>2, <1>3, Flags, PostStays, DraftStays, EditorTurn

LEMMA BackStep ==
  ASSUME IInv, Back
  PROVE  IInv'
  <1>1. Editable /\ ~Saving
    BY DEF Back
  <1>2. CASE post # None
    <2>1. PICK who \in {{}, {"adapt"}, {"export"}, {"leave"}} : who = {"leave"}
      OBVIOUS
    <2>2. Save(who) /\ Counted
      BY <1>2, <2>1 DEF Back
    <2>3. SaveMay(who)
      BY <1>1, <1>2 DEF SaveMay, Editable
    <2> QED BY <2>2, <2>3, SaveLosesNothing, SavedBy DEF SaveBy
  <1>3. CASE post = None
    <2>1. /\ IF dirty \/ file THEN dialog' = "leave" /\ UNCHANGED <<post, draft, pollTimer>>
             ELSE LeaveEditor /\ UNCHANGED dialog
          /\ UNCHANGED <<stored, advice, subject, dirty, error, timer, file, saver, waiting, task,
                         shown, polls, seen, edits, losses>>
      BY <1>3 DEF Back, server
    <2>2. task.op = "none"
      BY <1>1 DEF Editable, Busy
    <2>3. CASE dirty \/ file
      <3>1. dialog' = "leave" /\ UNCHANGED <<post, draft, pollTimer>>
        BY <2>1, <2>3
      <3>2. TypeOK'
        BY <2>1, <3>1 DEF IInv, TypeOK
      <3>3. EditorInv' /\ SaverInv' /\ TaskInv'
        BY <1>1, <2>1, <2>2, <3>1 DEF IInv, EditorInv, SaverInv, TaskInv, Saving, Writing, Uploading, Busy
      <3> QED BY <2>1, <3>1, <3>2, <3>3, Flags, PostStays, DraftStays, EditorTurn
    <2>4. CASE ~(dirty \/ file)
      <3>1. LeaveEditor /\ UNCHANGED dialog
        BY <2>1, <2>4
      <3>2. TypeOK'
        BY <2>1, <3>1 DEF IInv, TypeOK, LeaveEditor, Held
      <3> QED BY <1>1, <2>1, <2>2, <3>1, <3>2, Leaving
    <2> QED BY <2>3, <2>4
  <1> QED BY <1>2, <1>3

LEMMA DiscardStep ==
  ASSUME IInv, Discard
  PROVE  IInv'
  <1>1. /\ dialog = "leave" /\ dialog' = "none" /\ dirty' = FALSE /\ file' = FALSE /\ error' = FALSE
        /\ LeaveEditor
        /\ UNCHANGED <<stored, advice, subject, timer, saver, waiting, task, shown, polls, seen,
                       edits, losses>>
    BY DEF Discard, server
  <1>2. TypeOK'
    BY <1>1 DEF IInv, TypeOK, LeaveEditor, Held
  <1>3. task.op # "media" /\ (saver.saved # None \/ ~Saving)
    BY <1>1 DEF IInv, SaverInv, TaskInv
  <1> QED BY <1>1, <1>2, <1>3, Leaving

LEMMA AskToDeleteStep ==
  ASSUME IInv, AskToDelete
  PROVE  IInv'
  <1>1. /\ ~Busy /\ ~Saving /\ error' = FALSE /\ dialog' = "delete" /\ Counted
        /\ UNCHANGED <<stored, advice, post, draft, subject, dirty, timer, file, saver, waiting, task,
                 shown, pollTimer, polls, seen, losses>>
    BY DEF AskToDelete, Editable, server, polling
  <1>2. edits' \in 0..MaxEdits /\ edits' >= edits
    BY <1>1, CountedIs
  <1>3. TypeOK'
    BY <1>1, <1>2 DEF IInv, TypeOK
  <1>4. EditorInv' /\ SaverInv' /\ TaskInv'
    BY <1>1 DEF IInv, EditorInv, SaverInv, TaskInv, Saving, Writing, Uploading, Busy
  <1> QED BY <1>1, <1>2, <1>3, <1>4, PostStays, DraftStays, EditorTurn

LEMMA KeepStep ==
  ASSUME IInv, Keep
  PROVE  IInv'
  <1>1. /\ ~Busy /\ dialog' = "none"
        /\ UNCHANGED <<stored, advice, post, draft, subject, dirty, error, timer, file, saver, waiting,
                 task, shown, pollTimer, polls, seen, edits, losses>>
    BY DEF Keep, server, polling
  <1>2. TypeOK'
    BY <1>1 DEF IInv, TypeOK
  <1>3. EditorInv' /\ SaverInv' /\ TaskInv'
    BY <1>1 DEF IInv, EditorInv, SaverInv, TaskInv, Saving, Writing, Uploading, Busy, Current, Exists
  <1> QED BY <1>1, <1>2, <1>3, Flags, PostStays, DraftStays, EditorTurn

LEMMA DeleteStep ==
  ASSUME IInv, Delete
  PROVE  IInv'
  <1>1. /\ dialog = "delete" /\ ~Busy /\ post # None /\ task' = Asks("remove", post)
        /\ UNCHANGED <<stored, advice, post, draft, subject, dirty, error, timer, dialog, file, saver,
                 waiting, shown, pollTimer, polls, seen, edits, losses>>
    BY DEF Delete, server, polling
  <1>2. PICK op \in {"adapt", "export", "media", "remove"} : op = "remove"
    OBVIOUS
  <1>3. PICK t \in Errand : /\ t = Asks(op, post) /\ t.op = op /\ t.id = post.id /\ t.id \in Posts
                            /\ t.id # None /\ Reached(t.id, t.revision)
                            /\ (Current(t.id, t.revision) =>
                                  stored[t.id].words = post.words /\ <<t.id, stored[t.id].words>> \in seen)
    BY <1>1, AsksOfCopy
  <1>4. task' = t /\ t.op = "remove"
    BY <1>1, <1>2, <1>3
  <1>5. TypeOK'
    BY <1>1, <1>4 DEF IInv, TypeOK
  <1>6. EditorInv' /\ SaverInv'
    BY <1>1 DEF IInv, EditorInv, SaverInv, Saving, Writing, Uploading, Current, Exists
  <1>7. TaskInv'
    BY <1>1, <1>3, <1>4 DEF TaskInv, Busy, Reached, Exists
  <1> QED BY <1>1, <1>5, <1>6, <1>7, Flags, PostStays, DraftStays, EditorTurn

LEMMA OpenPostStep ==
  ASSUME IInv, NEW p \in Posts, OpenPost(p)
  PROVE  IInv'
  <1>1. /\ draft = None /\ ~Busy /\ task' = [op |-> "open", id |-> p, revision |-> 0] /\ error' = FALSE
        /\ UNCHANGED <<stored, advice, post, draft, subject, dirty, timer, dialog, file, saver, waiting,
                 shown, pollTimer, polls, seen, edits, losses>>
    BY DEF OpenPost, server, polling
  <1>2. task' \in Errand /\ task'.op = "open" /\ task'.id = p
    <2>1. 0 \in Nat
      OBVIOUS
    <2> QED BY <1>1, <2>1, Zenon DEF Errand
  <1>3. TypeOK'
    BY <1>1, <1>2 DEF IInv, TypeOK
  <1>4. EditorInv' /\ TaskInv'
    BY <1>1, <1>2, NoneFacts DEF IInv, EditorInv, TaskInv
  <1>5. SaverInv'
    BY <1>1 DEF IInv, SaverInv, Saving, Writing, Uploading, Current, Exists
  <1> QED BY <1>1, <1>3, <1>4, <1>5, Flags, PostStays, DraftStays, EditorTurn
--------------------------------------------------------------------------------
(* Answers that change nothing but the task, and what is shown. *)

LEMMA ShowsFacts ==
  ASSUME NEW p \in Posts, NEW s \in {"none", "pending", "ready"}, Shows(p, s),
         pollTimer \in Posts \cup {None}
  PROVE  shown' \in Advice \cup {None} /\ pollTimer' \in Posts \cup {None}
  <1>1. shown' = (IF s = "none" THEN None ELSE [of |-> p, state |-> s])
        /\ pollTimer' = (IF s = "pending" THEN p ELSE pollTimer)
    BY DEF Shows
  <1> QED BY <1>1, AdviceFacts

\* A task ends, with nothing stored.
LEMMA TaskEnds ==
  ASSUME IInv, TypeOK', task' = NoTask, edits' = edits,
         UNCHANGED <<stored, post, draft, subject, dirty, timer, dialog, saver, waiting, seen>>
  PROVE  IInv'
  <1>1. task'.op = "none"
    BY IdleFacts
  <1>2. EditorInv' /\ TaskInv'
    BY <1>1 DEF IInv, EditorInv, TaskInv, Busy
  <1>3. SaverInv'
    BY <1>1 DEF IInv, SaverInv, Saving, Writing, Uploading, Busy, Current, Exists
  <1> QED BY <1>2, <1>3, Flags, PostStays, DraftStays, EditorTurn

LEMMA AdaptAnsweredStep ==
  ASSUME IInv, AdaptAnswered
  PROVE  IInv'
  <1>1. /\ task.op = "adapt"
        /\ advice' = [advice EXCEPT ![task.id] = IF @ = "ready" THEN @ ELSE "pending"]
        /\ Shows(task.id, advice'[task.id]) /\ task' = NoTask
        /\ UNCHANGED <<stored, post, draft, subject, dirty, error, timer, dialog, file,
                       saver, waiting, polls, seen, edits, losses>>
    BY DEF AdaptAnswered, AdaptAccepted
  <1>2. task.id \in Posts
    BY <1>1, Flags, ErrandTypes DEF IInv, TaskInv, Busy
  <1>3. PICK p \in Posts : p = task.id
    BY <1>2
  <1>4. advice' \in [Posts -> {"none", "pending", "ready"}]
    BY <1>1, <1>3 DEF IInv, TypeOK
  <1>5. PICK s \in {"none", "pending", "ready"} : s = advice'[p]
    BY <1>3, <1>4
  <1>6. Shows(p, s) /\ pollTimer \in Posts \cup {None}
    BY <1>1, <1>3, <1>5 DEF IInv, TypeOK
  <1>7. shown' \in Advice \cup {None} /\ pollTimer' \in Posts \cup {None}
    BY <1>6, ShowsFacts
  <1>8. TypeOK'
    BY <1>1, <1>4, <1>7, IdleFacts DEF IInv, TypeOK
  <1> QED BY <1>1, <1>8, TaskEnds

LEMMA ExportedStep ==
  ASSUME IInv, Exported
  PROVE  IInv'
  <1>1. /\ task' = NoTask
        /\ UNCHANGED <<stored, advice, post, draft, subject, dirty, error, timer, dialog, file, saver,
                       waiting, shown, pollTimer, polls, seen, edits, losses>>
    BY DEF Exported, server, polling
  <1>2. TypeOK'
    BY <1>1, IdleFacts DEF IInv, TypeOK
  <1> QED BY <1>1, <1>2, TaskEnds

\* What is shown changes, and nothing else the invariant speaks of.
LEMMA OnlyShown ==
  ASSUME IInv, TypeOK',
         UNCHANGED <<stored, post, draft, subject, dirty, timer, dialog, saver, waiting, task, seen, edits>>
  PROVE  IInv'
  <1>1. EditorInv' /\ TaskInv'
    BY DEF IInv, EditorInv, TaskInv, Busy, Saving, Reached, Current, Exists
  <1>2. SaverInv'
    BY DEF IInv, SaverInv, Saving, Writing, Uploading, Busy, Current, Exists
  <1> QED BY <1>1, <1>2, Flags, PostStays, DraftStays, EditorTurn

LEMMA PollFiresStep ==
  ASSUME IInv, PollFires
  PROVE  IInv'
  <1>1. /\ pollTimer # None /\ polls' = polls \cup {pollTimer} /\ pollTimer' = None
        /\ UNCHANGED <<stored, advice, post, draft, subject, dirty, error, timer, dialog, file, saver,
                       waiting, task, shown, seen, edits, losses>>
    BY DEF PollFires, server
  <1>2. TypeOK'
    BY <1>1 DEF IInv, TypeOK
  <1> QED BY <1>1, <1>2, OnlyShown

LEMMA PollAnsweredStep ==
  ASSUME IInv, NEW p \in Posts, PollAnswered(p)
  PROVE  IInv'
  <1>1. /\ polls' = polls \ {p}
        /\ UNCHANGED <<stored, advice, post, draft, subject, dirty, timer, dialog, file, saver, waiting,
                       task, seen, edits>>
    BY DEF PollAnswered, server
  <1>2. \/ Shows(p, advice[p]) /\ UNCHANGED <<error, losses>>
        \/ error' = TRUE /\ UNCHANGED <<shown, pollTimer>>
           /\ (losses' = losses \/ (losses < MaxLosses /\ losses' = losses + 1))
    BY DEF PollAnswered
  <1>3. losses \in 0..MaxLosses /\ pollTimer \in Posts \cup {None} /\ shown \in Advice \cup {None}
        /\ error \in BOOLEAN
    BY DEF IInv, TypeOK
  <1>4. PICK s \in {"none", "pending", "ready"} : s = advice[p]
    BY DEF IInv, TypeOK
  <1>5. shown' \in Advice \cup {None} /\ pollTimer' \in Posts \cup {None}
    <2>1. CASE Shows(p, advice[p])
      <3>1. Shows(p, s)
        BY <1>4, <2>1
      <3> QED BY <1>3, <3>1, ShowsFacts
    <2>2. CASE UNCHANGED <<shown, pollTimer>>
      BY <1>3, <2>2
    <2> QED BY <1>2, <2>1, <2>2
  <1>6. losses' \in 0..MaxLosses /\ error' \in BOOLEAN
    <2>1. losses' = losses \/ (losses < MaxLosses /\ losses' = losses + 1)
      BY <1>2, Zenon
    <2>2. error' = error \/ error' = TRUE
      BY <1>2, Zenon
    <2>3. losses' \in 0..MaxLosses
      BY <1>3, <2>1, Bounds
    <2>4. error' \in BOOLEAN
      BY <1>3, <2>2, Zenon
    <2> QED BY <2>3, <2>4, Zenon
  <1>7. TypeOK'
    BY <1>1, <1>5, <1>6 DEF IInv, TypeOK
  <1> QED BY <1>1, <1>7, OnlyShown
--------------------------------------------------------------------------------
(* Steps that store. *)

\* The store takes what this tab sent, or what it already held.
Stores ==
  /\ Quiet /\ Remembers /\ edits' \in Nat /\ edits' >= edits
  /\ stored' \in [Posts -> Version \cup {None}]
  /\ \A q \in Posts : StoreInv(q)'

LEMMA StoreTurn ==
  ASSUME IInv, TypeOK', Stores, CopyInv(post)', CopyInv(saver.saved)', EditorInv', SaverInv', TaskInv',
         HeldInv(draft)', HeldInv(saver.snapshot)'
  PROVE  IInv'
  BY DEF IInv, WordsInv, Stores

LEMMA StoresHeld ==
  ASSUME IInv, Stores, NEW w, HeldInv(w)
  PROVE  HeldInv(w)'
  BY Flags, HeldKept DEF Stores

LEMMA StoresBlank ==
  ASSUME IInv, Stores
  PROVE  HeldInv(None)' /\ HeldInv(Blank)'
  BY NothingHeld, StoresHeld DEF IInv

LEMMA StoresDraft ==
  ASSUME IInv, Stores, draft' \in {draft, None}
  PROVE  HeldInv(draft)'
  <1>1. PICK w : w = draft'
    OBVIOUS
  <1>2. HeldInv(w)
    BY <1>1, NothingHeld DEF IInv, WordsInv
  <1>3. HeldInv(w)'
    BY <1>2, StoresHeld
  <1> QED BY <1>1, <1>3

LEMMA StoresSnapshot ==
  ASSUME IInv, Stores, saver'.snapshot \in {saver.snapshot, draft, Blank}
  PROVE  HeldInv(saver.snapshot)'
  <1>1. PICK w : w = saver'.snapshot
    OBVIOUS
  <1>2. HeldInv(w)
    BY <1>1, NothingHeld DEF IInv, WordsInv
  <1>3. HeldInv(w)'
    BY <1>2, StoresHeld
  <1> QED BY <1>1, <1>3

\* Nothing is stored.
LEMMA NothingStored ==
  ASSUME IInv, UNCHANGED <<stored, edits>>, Remembers
  PROVE  Stores /\ \A q \in Posts : Moves(q)
  <1>1. Quiet /\ \A q \in Posts : Moves(q)
    BY DEF Quiet, Moves
  <1>2. TypeOK /\ WordsInv /\ edits' >= edits /\ edits \in Nat /\ edits' \in Nat
    BY Flags DEF IInv
  <1>3. \A q \in Posts : StoreInv(q)'
    BY <1>1, <1>2, StoreKept DEF WordsInv
  <1> QED BY <1>1, <1>3, Flags DEF Stores

\* A file is added or taken away.
LEMMA MediaStored ==
  ASSUME IInv, NEW p \in Posts, NEW media \in BOOLEAN, Exists(p),
         stored' = [stored EXCEPT ![p] = WithMedia(p, media)], UNCHANGED <<edits, seen>>
  PROVE  /\ Stores /\ \A q \in Posts : Moves(q)
         /\ stored'[p] \in Version /\ stored'[p].words = stored[p].words
  <1>1. PICK u \in Version : u = stored[p]
    BY Flags DEF Exists
  <1>2. u.revision + 1 \in Nat \ {0} /\ u.words \in Words /\ u.by \in {"tab", "other"}
        /\ u.revision + 1 > u.revision
    BY VersionFacts
  <1>3. PICK r \in Nat \ {0} : r = u.revision + 1
    BY <1>2
  <1>4. PICK v \in Version : /\ v = Stored(r, u.words, media, u.by) /\ v # None /\ v.revision = r
                             /\ v.words = u.words /\ v.by = u.by
    BY <1>2, StoredFacts
  <1>5. v = WithMedia(p, media)
    BY <1>1, <1>3, <1>4 DEF WithMedia
  <1>6. stored'[p] = v /\ (\A q \in Posts \ {p} : stored'[q] = stored[q])
        /\ stored' \in [Posts -> Version \cup {None}]
    BY <1>5, Flags
  <1>7. Quiet /\ Remembers /\ \A q \in Posts : Moves(q)
    BY <1>1, <1>2, <1>3, <1>4, <1>6 DEF Quiet, Remembers, Moves, Exists
  <1>8. ASSUME NEW q \in Posts  PROVE StoreInv(q)'
    <2>1. TypeOK /\ StoreInv(q) /\ edits' >= edits /\ edits \in Nat /\ edits' \in Nat
      BY Flags DEF IInv, WordsInv
    <2>2. CASE q # p
      BY <1>6, <1>7, <2>1, <2>2, StoreKept
    <2>3. CASE q = p
      <3>1. u.by = "tab" => Foreign(u.words)
        BY <1>1, <2>1, <2>3 DEF StoreInv, Exists
      <3>2. u.by = "tab" => Foreign(u.words)'
        BY <1>7, <3>1, ForeignKept
      <3> QED BY <1>1, <1>4, <1>6, <2>1, <2>3, <3>2 DEF StoreInv, Exists
    <2> QED BY <2>2, <2>3
  <1> QED BY Flags, <1>1, <1>4, <1>6, <1>7, <1>8 DEF Stores

\* A post is removed.
LEMMA PostRemoved ==
  ASSUME IInv, NEW p \in Posts, stored' = [stored EXCEPT ![p] = None], Remembers,
         edits' \in Nat, edits' >= edits
  PROVE  Stores /\ \A q \in Posts : Moves(q)
  <1>1. stored'[p] = None /\ (\A q \in Posts \ {p} : stored'[q] = stored[q])
        /\ stored' \in [Posts -> Version \cup {None}]
    BY Flags
  <1>2. Quiet /\ \A q \in Posts : Moves(q)
    BY <1>1 DEF Quiet, Moves
  <1>3. ASSUME NEW q \in Posts  PROVE StoreInv(q)'
    <2>1. TypeOK /\ StoreInv(q) /\ edits' >= edits /\ edits \in Nat /\ edits' \in Nat
      BY Flags DEF IInv, WordsInv
    <2>2. CASE q # p
      BY <1>1, <1>2, <2>1, <2>2, StoreKept
    <2>3. CASE q = p
      BY <1>1, <2>3 DEF StoreInv, Exists
    <2> QED BY <2>2, <2>3
  <1> QED BY <1>1, <1>2, <1>3 DEF Stores
--------------------------------------------------------------------------------
(* The copy in the editor, the loop and the task, when the store moves on. *)

LEMMA CopyMoves ==
  ASSUME IInv, TypeOK', NEW c \in Copies \cup {None}, CopyInv(c), Remembers,
         \A q \in Posts : Moves(q)
  PROVE  CopyInv(c)'
  <1>1. c # None => Moves(c.id)
    BY CopyTypes
  <1>2. TypeOK
    BY DEF IInv
  <1> QED BY <1>1, <1>2, CopyKept

LEMMA PostMoves ==
  ASSUME IInv, TypeOK', Remembers, \A q \in Posts : Moves(q), post' \in {post, None}
  PROVE  CopyInv(post)'
  <1>1. PICK c \in Copies \cup {None} : c = post'
    BY Flags
  <1>2. CopyInv(c)
    BY <1>1 DEF IInv, CopyInv
  <1>3. CopyInv(c)'
    BY <1>2, CopyMoves
  <1> QED BY <1>1, <1>3

LEMMA SavedMoves ==
  ASSUME IInv, TypeOK', Remembers, \A q \in Posts : Moves(q), saver'.saved \in {saver.saved, None}
  PROVE  CopyInv(saver.saved)'
  <1>1. PICK c \in Copies \cup {None} : c = saver'.saved
    BY Flags, LoopTypes
  <1>2. CopyInv(c)
    BY <1>1 DEF IInv, CopyInv
  <1>3. CopyInv(c)'
    BY <1>2, CopyMoves
  <1> QED BY <1>1, <1>3

\* What the editor calls saved stays what the loop uploads a file to.
LEMMA SaverMoves ==
  ASSUME IInv, TypeOK', \A q \in Posts : Moves(q), UNCHANGED saver,
         UNCHANGED <<draft, subject, dirty>> \/ draft' = None,
         (saver.saved # None \/ ~Saving)
           \/ (UNCHANGED <<post, draft, subject, dialog, waiting>> /\ ~Busy'),
         ~Saving => waiting' = {}
  PROVE  SaverInv'
  <1>1. TypeOK /\ SaverInv /\ CopyInv(saver.saved)
    BY DEF IInv
  <1>2. Uploading => Saving /\ ~Writing
    BY DEF Uploading, Saving, Writing
  <1>3. Uploading /\ ~dirty' /\ draft' # None /\ subject' = saver.target
        /\ Current(saver.target, saver.saved.revision)' => stored'[saver.target].words = Trimmed(draft')
    <2>1. SUFFICES ASSUME Uploading, UNCHANGED <<draft, subject, dirty>>, ~dirty, draft # None,
                          subject = saver.target, Current(saver.target, saver.saved.revision)'
                   PROVE  stored'[saver.target].words = Trimmed(draft')
      <3>1. draft' # None => UNCHANGED <<draft, subject, dirty>>
        OBVIOUS
      <3> QED BY <3>1
    <2>2. saver.saved # None /\ saver.target = saver.saved.id
      BY <1>1, <1>2, <2>1 DEF SaverInv
    <2>3. PICK c \in Copies : c = saver.saved
      BY <2>2, Flags, LoopTypes
    <2>4. PICK p \in Posts, r \in Nat : p = c.id /\ r = c.revision
      BY CopyTypes
    <2>5. Reached(p, r) /\ Moves(p)
      BY <1>1, <2>2, <2>3, <2>4 DEF CopyInv
    <2>6. Current(p, r)' => stored'[p] = stored[p] /\ Current(p, r)
      BY <1>1, <2>5, ReachedKept
    <2>7. Current(p, r)'
      BY <2>1, <2>2, <2>3, <2>4 DEF Current
    <2> QED BY <1>1, <2>1, <2>2, <2>3, <2>4, <2>6, <2>7 DEF SaverInv
  <1> QED BY <1>1, <1>2, <1>3 DEF SaverInv, Saving, Writing, Uploading, Busy, Current, Exists

\* And so does what the media are removed from.
LEMMA TaskMoves ==
  ASSUME IInv, TypeOK', Remembers, \A q \in Posts : Moves(q), UNCHANGED task,
         UNCHANGED <<post, draft, subject, dialog, waiting>>, dirty' = dirty \/ dirty' = TRUE,
         saver' = saver \/ saver'.at = "idle" \/ (Saving /\ saver'.target = saver.target)
  PROVE  TaskInv'
  <1>1. TypeOK /\ TaskInv
    BY DEF IInv
  <1>2. CASE task.op = "none" \/ task.op = "open"
    BY <1>1, <1>2 DEF TaskInv, Busy
  <1>3. CASE task.op \notin {"none", "open"}
    <2>1. task.id \in Posts /\ task.revision \in Nat
      BY <1>1, <1>3, Flags, ErrandTypes DEF TaskInv, Busy
    <2>2. PICK p \in Posts, r \in Nat : p = task.id /\ r = task.revision
      BY <2>1
    <2>3. Reached(p, r) /\ Moves(p)
      BY <1>1, <1>3, <2>2 DEF TaskInv
    <2>4. Reached(p, r)' /\ (Current(p, r)' => stored'[p] = stored[p] /\ Current(p, r))
      BY <1>1, <2>3, ReachedKept
    <2>5. Reached(task.id, task.revision)' /\ p # None
      BY <2>2, <2>4, NoneFacts DEF Reached, Exists
    <2>6. Current(task.id, task.revision)' => stored'[task.id] = stored[task.id] /\ Current(task.id, task.revision)
      BY <2>2, <2>4 DEF Current, Exists
    <2>7. ASSUME task.op = "media"
          PROVE  /\ post' # None /\ task.id = post'.id /\ dialog' = "none" /\ waiting' = {}
                 /\ ~dirty' /\ draft' # None /\ subject' = task.id /\ Current(task.id, task.revision)' =>
                      stored'[task.id].words = Trimmed(draft')
                 /\ Current(task.id, task.revision)' => <<task.id, stored'[task.id].words>> \in seen'
      BY <1>1, <2>6, <2>7 DEF TaskInv, Remembers
    <2>8. ASSUME task.op = "media", saver'.at # "idle"  PROVE saver'.target = task.id
      <3>1. Saving /\ (saver' = saver \/ saver'.target = saver.target)
        BY <2>8 DEF Saving
      <3> QED BY <1>1, <2>8, <3>1 DEF TaskInv
    <2>9. task' = task /\ task.id # None
      BY <2>2, <2>5
    <2>10. task'.op = "media" => (Saving' => saver'.target = task'.id)
      BY <2>8, <2>9 DEF Saving
    <2> QED BY <1>3, <2>5, <2>7, <2>9, <2>10 DEF TaskInv, Busy
  <1> QED BY <1>2, <1>3
--------------------------------------------------------------------------------
(* The answers to the requests that make the editor busy. *)

LEMMA TaskOf ==
  ASSUME IInv, Busy
  PROVE  task.id \in Posts
  BY Flags, ErrandTypes DEF IInv, TaskInv

LEMMA MediaAnsweredStep ==
  ASSUME IInv, MediaAnswered
  PROVE  IInv'
  <1>1. /\ task.op = "media" /\ Current(task.id, task.revision)
        /\ stored' = [stored EXCEPT ![task.id] = WithMedia(task.id, FALSE)]
        /\ post' = Copy(task.id, stored'[task.id]) /\ task' = NoTask
        /\ UNCHANGED <<advice, draft, subject, dirty, error, timer, dialog, file, saver,
                       waiting, shown, pollTimer, polls, seen, edits, losses>>
    BY DEF MediaAnswered, MediaRemoved, polling
  <1>2. Busy
    BY <1>1 DEF Busy
  <1>3. PICK p \in Posts, media \in BOOLEAN : p = task.id /\ media = FALSE
    BY <1>2, TaskOf
  <1>4. Exists(p) /\ stored' = [stored EXCEPT ![p] = WithMedia(p, media)]
    BY <1>1, <1>3 DEF Current
  <1>5. /\ Stores /\ \A q \in Posts : Moves(q)
        /\ stored'[p] \in Version /\ stored'[p].words = stored[p].words
    BY <1>1, <1>4, MediaStored
  <1>6. PICK v \in Version : v = stored'[p]
    BY <1>5
  <1>7. PICK c \in Copies : /\ c = Copy(p, v) /\ c # None /\ c.id = p /\ c.revision = v.revision
                            /\ c.words = v.words
    BY CopyFacts
  <1>8. post' = c
    BY <1>1, <1>3, <1>6, <1>7
  <1>9. TypeOK'
    BY <1>1, <1>5, <1>8, IdleFacts DEF IInv, TypeOK, Stores
  <1>10. post # None
    BY <1>1 DEF IInv, TaskInv
  <1>11. subject = p /\ draft # None /\ ~dirty => c.words = Trimmed(draft)
    BY <1>1, <1>3, <1>5, <1>6, <1>7 DEF IInv, TaskInv
  <1>12. EditorInv'
    BY <1>1, <1>7, <1>8, <1>11 DEF IInv, EditorInv
  <1>13. SaverInv'
    <2>1. (saver.saved # None \/ ~Saving) /\ (~Saving => waiting' = {})
      BY <1>1, <1>10 DEF IInv, SaverInv
    <2> QED BY <1>1, <1>5, <1>9, <2>1, SaverMoves
  <1>14. TaskInv'
    BY <1>1, IdleFacts DEF TaskInv, Busy
  <1>15. CopyInv(post)'
    <2>1. <<p, v.words>> \in seen'
      <3>1. <<task.id, stored[task.id].words>> \in seen
        BY <1>1 DEF IInv, TaskInv
      <3>2. seen' = seen /\ v.words = stored[p].words /\ p = task.id
        BY <1>1, <1>3, <1>5, <1>6, Zenon
      <3> QED BY <3>1, <3>2
    <2>2. CopyInv(c)'
      BY <1>6, <1>7, <1>9, <2>1, CopyMade
    <2> QED BY <1>8, <2>2
  <1>16. CopyInv(saver.saved)' /\ HeldInv(draft)' /\ HeldInv(saver.snapshot)'
    BY <1>1, <1>5, <1>9, SavedMoves, StoresDraft, StoresSnapshot DEF Stores
  <1> QED BY <1>5, <1>9, <1>12, <1>13, <1>14, <1>15, <1>16, StoreTurn

LEMMA RemovedStored ==
  ASSUME IInv, Removed, UNCHANGED <<edits, seen>>
  PROVE  /\ Stores /\ \A q \in Posts : Moves(q)
         /\ advice' \in [Posts -> {"none", "pending", "ready"}]
         /\ task.op = "remove"
  <1>1. /\ task.op = "remove" /\ stored' = [stored EXCEPT ![task.id] = None]
        /\ advice' = [advice EXCEPT ![task.id] = "none"]
    BY DEF Removed
  <1>2. PICK p \in Posts : p = task.id
    BY <1>1, TaskOf DEF Busy
  <1>3. stored' = [stored EXCEPT ![p] = None] /\ Remembers /\ edits' \in Nat /\ edits' >= edits
    BY <1>1, <1>2, Flags DEF Remembers
  <1>4. Stores /\ \A q \in Posts : Moves(q)
    BY <1>3, PostRemoved
  <1> QED BY <1>1, <1>4 DEF IInv, TypeOK

LEMMA RemoveAnsweredStep ==
  ASSUME IInv, RemoveAnswered
  PROVE  IInv'
  <1>1. /\ Removed /\ LeaveEditor
        /\ timer' = FALSE /\ dialog' = "none" /\ dirty' = FALSE /\ file' = FALSE /\ task' = NoTask
        /\ UNCHANGED <<subject, error, saver, waiting, shown, polls, seen, edits, losses>>
    BY DEF RemoveAnswered
  <1>2. /\ Stores /\ \A q \in Posts : Moves(q)
        /\ advice' \in [Posts -> {"none", "pending", "ready"}]
        /\ task.op = "remove"
    BY <1>1, RemovedStored
  <1>3. post' = None /\ draft' = None /\ pollTimer' = None
    BY <1>1 DEF LeaveEditor
  <1>4. TypeOK'
    BY <1>1, <1>2, <1>3, IdleFacts DEF IInv, TypeOK, Stores, Held
  <1>5. EditorInv' /\ TaskInv'
    BY <1>1, <1>3, IdleFacts DEF EditorInv, TaskInv, Busy
  <1>6. SaverInv'
    <2>1. (saver.saved # None \/ ~Saving) /\ (~Saving => waiting' = {})
      BY <1>1, <1>2 DEF IInv, SaverInv, Busy
    <2> QED BY <1>1, <1>2, <1>3, <1>4, <2>1, SaverMoves
  <1>7. CopyInv(post)' /\ CopyInv(saver.saved)' /\ HeldInv(draft)' /\ HeldInv(saver.snapshot)'
    BY <1>1, <1>2, <1>3, <1>4, PostMoves, SavedMoves, StoresDraft, StoresSnapshot DEF Stores
  <1> QED BY <1>2, <1>4, <1>5, <1>6, <1>7, StoreTurn

\* A request is refused, or lost before or after the store took it.
LEMMA TaskFailsStep ==
  ASSUME IInv, TaskFails
  PROVE  IInv'
  <1>1. /\ Busy /\ error' = TRUE /\ task' = NoTask
        /\ UNCHANGED <<post, draft, subject, dirty, timer, dialog, file, saver, waiting,
                       shown, pollTimer, polls, seen, edits>>
        /\ losses' = losses \/ (losses < MaxLosses /\ losses' = losses + 1)
    BY DEF TaskFails, polling
  <1>2. \/ UNCHANGED <<stored, advice>>
        \/ AdaptAccepted /\ UNCHANGED stored
        \/ MediaRemoved /\ UNCHANGED advice
        \/ Removed
    BY DEF TaskFails
  <1>3. PICK p \in Posts, media \in BOOLEAN : p = task.id /\ media = FALSE
    BY <1>1, TaskOf
  <1>4. /\ Stores /\ \A q \in Posts : Moves(q)
        /\ advice' \in [Posts -> {"none", "pending", "ready"}]
    <2>1. CASE UNCHANGED <<stored, advice>>
      BY <1>1, <2>1, NothingStored DEF Remembers, IInv, TypeOK
    <2>2. CASE AdaptAccepted /\ UNCHANGED stored
      <3>1. Stores /\ \A q \in Posts : Moves(q)
        BY <1>1, <2>2, NothingStored DEF Remembers
      <3> QED BY <1>3, <2>2, <3>1 DEF AdaptAccepted, IInv, TypeOK
    <2>3. CASE MediaRemoved /\ UNCHANGED advice
      <3>1. Exists(p) /\ stored' = [stored EXCEPT ![p] = WithMedia(p, media)]
        BY <1>3, <2>3 DEF MediaRemoved, Current
      <3>2. Stores /\ \A q \in Posts : Moves(q)
        BY <1>1, <3>1, MediaStored
      <3> QED BY <2>3, <3>2 DEF IInv, TypeOK
    <2>4. CASE Removed
      BY <1>1, <2>4, RemovedStored
    <2> QED BY <1>2, <2>1, <2>2, <2>3, <2>4
  <1>5. losses' \in 0..MaxLosses
    BY <1>1, Bounds DEF IInv, TypeOK
  <1>6. TypeOK'
    BY <1>1, <1>4, <1>5, IdleFacts DEF IInv, TypeOK, Stores
  <1>7. EditorInv' /\ TaskInv'
    BY <1>1, IdleFacts DEF IInv, EditorInv, TaskInv, Busy
  <1>8. SaverInv'
    <2>1. ~Busy' /\ (~Saving => waiting' = {})
      BY <1>1, IdleFacts DEF IInv, SaverInv, Busy
    <2> QED BY <1>1, <1>4, <1>6, <2>1, SaverMoves
  <1>9. CopyInv(post)' /\ CopyInv(saver.saved)' /\ HeldInv(draft)' /\ HeldInv(saver.snapshot)'
    BY <1>1, <1>4, <1>6, PostMoves, SavedMoves, StoresDraft, StoresSnapshot DEF Stores
  <1> QED BY <1>4, <1>6, <1>7, <1>8, <1>9, StoreTurn

\* A post is shown: its words are seen, whoever wrote them.
LEMMA OpenedStep ==
  ASSUME IInv, Opened
  PROVE  IInv'
  <1>1. /\ task.op = "open" /\ Exists(task.id)
        /\ post' = Copy(task.id, stored[task.id]) /\ draft' = stored[task.id].words /\ subject' = task.id
        /\ seen' = seen \cup {<<task.id, stored[task.id].words>>}
        /\ dirty' = FALSE /\ file' = FALSE /\ task' = NoTask
        /\ Shows(task.id, advice[task.id])
        /\ UNCHANGED <<stored, advice, error, timer, dialog, saver, waiting, polls, edits, losses>>
    BY DEF Opened, server
  <1>2. PICK p \in Posts : p = task.id
    BY <1>1, TaskOf DEF Busy
  <1>3. PICK v \in Version : v = stored[p]
    BY <1>1, <1>2, Flags DEF Exists
  <1>4. PICK s \in {"none", "pending", "ready"} : s = advice[p]
    BY DEF IInv, TypeOK
  <1>5. PICK c \in Copies : /\ c = Copy(p, v) /\ c # None /\ c.id = p /\ c.revision = v.revision
                            /\ c.words = v.words
    BY CopyFacts
  <1>6. post' = c /\ draft' = v.words /\ subject' = p /\ seen' = seen \cup {<<p, v.words>>}
    BY <1>1, <1>2, <1>3, <1>5
  <1>7. shown' \in Advice \cup {None} /\ pollTimer' \in Posts \cup {None}
    <2>1. Shows(p, s) /\ pollTimer \in Posts \cup {None}
      BY <1>1, <1>2, <1>4 DEF IInv, TypeOK
    <2> QED BY <2>1, ShowsFacts
  <1>8. v.words \in Words /\ v.words # None /\ Trimmed(v.words) = v.words
    BY <1>1, <1>2, <1>3, VersionFacts, NoneFacts DEF IInv, WordsInv, StoreInv
  <1>9. TypeOK'
    BY <1>1, <1>6, <1>7, <1>8, IdleFacts DEF IInv, TypeOK, Held
  <1>10. Remembers /\ Stores /\ \A q \in Posts : Moves(q)
    BY <1>1, <1>6, NothingStored DEF Remembers
  <1>11. EditorInv'
    BY <1>1, <1>5, <1>6, <1>8, NoneFacts DEF EditorInv
  <1>12. SaverInv'
    <2>1. SaverInv /\ draft = None
      BY <1>1 DEF IInv, TaskInv
    <2>2. Saving => saver.saved # None
      BY <2>1 DEF SaverInv
    <2>3. (subject = saver.target)' => stored'[saver.target].words = Trimmed(draft')
      BY <1>1, <1>3, <1>6, <1>8
    <2>4. saver' = saver /\ waiting' = waiting
      BY <1>1
    <2> QED BY <2>1, <2>2, <2>3, <2>4 DEF SaverInv, Saving
  <1>13. TaskInv'
    BY <1>1, IdleFacts DEF TaskInv, Busy
  <1>14. CopyInv(post)'
    <2>1. CopyInv(c)'
      BY <1>1, <1>3, <1>5, <1>6, <1>9, CopyMade
    <2> QED BY <1>6, <2>1
  <1>15. HeldInv(draft)'
    <2>1. StoreInv(p) /\ edits' = edits
      BY <1>1 DEF IInv, WordsInv
    <2>2. ASSUME NEW q \in Posts, Exists(q), stored[q].by = "other", stored[q].words = v.words
          PROVE  <<q, v.words>> \in seen'
      <3>1. CASE v.by = "tab"
        <4>1. Foreign(v.words)
          BY <1>3, <2>1, <3>1, VersionFacts DEF StoreInv, Exists
        <4> QED BY <1>10, <2>2, <4>1 DEF Foreign, Remembers
      <3>2. CASE v.by = "other"
        <4>1. v.words.post = p
          BY <1>3, <2>1, <3>2, VersionFacts DEF StoreInv, Exists
        <4>2. v.words.post = q
          BY <2>2 DEF IInv, WordsInv, StoreInv
        <4> QED BY <1>6, <4>1, <4>2
      <3> QED BY <3>1, <3>2, VersionFacts
    <2>3. Foreign(v.words)'
      BY <1>1, <2>2 DEF Foreign, Exists
    <2>4. v.words.n <= edits' /\ Trimmed(v.words) = v.words
      BY <1>3, <2>1, VersionFacts DEF StoreInv, Exists
    <2>5. HeldInv(v.words)'
      BY <2>3, <2>4 DEF HeldInv
    <2> QED BY <1>6, <2>5
  <1>16. CopyInv(saver.saved)' /\ HeldInv(saver.snapshot)'
    BY <1>1, <1>9, <1>10, SavedMoves, StoresSnapshot
  <1> QED BY <1>9, <1>10, <1>11, <1>12, <1>13, <1>14, <1>15, <1>16, StoreTurn
--------------------------------------------------------------------------------
(* The loop: a round fails, or the next one follows. *)

LEMMA FailsKeeps ==
  ASSUME IInv, Fails, Stores, \A q \in Posts : Moves(q),
         advice' \in [Posts -> {"none", "pending", "ready"}], losses' \in 0..MaxLosses
  PROVE  IInv'
  <1>1. /\ saver' = Idle /\ dirty' = TRUE /\ error' = TRUE /\ waiting' = {}
        /\ dialog' = (IF "leave" \in waiting THEN "leave" ELSE dialog)
        /\ UNCHANGED <<post, draft, subject, timer, file, task, shown, pollTimer, polls, edits>>
    BY DEF Fails, polling
  <1>2. TypeOK'
    BY <1>1, IdleFacts DEF IInv, TypeOK, Stores
  <1>3. EditorInv'
    BY <1>1 DEF IInv, EditorInv
  <1>4. SaverInv'
    BY <1>1, IdleFacts DEF SaverInv, Saving, Writing, Uploading
  <1>5. TaskInv'
    <2>1. CASE task.op # "media"
      <3>1. TaskInv /\ TypeOK
        BY DEF IInv
      <3>2. task.op \notin {"none", "open"} => Reached(task.id, task.revision)'
        <4>1. SUFFICES ASSUME task.op \notin {"none", "open"}  PROVE Reached(task.id, task.revision)'
          OBVIOUS
        <4>2. PICK p \in Posts, r \in Nat : p = task.id /\ r = task.revision
          BY <4>1, Flags, TaskOf, ErrandTypes DEF Busy
        <4>3. Reached(p, r) /\ Moves(p)
          BY <3>1, <4>1, <4>2 DEF TaskInv
        <4>4. Reached(p, r)'
          BY <1>2, <3>1, <4>3, ReachedKept
        <4> QED BY <1>1, <4>2, <4>4 DEF Reached, Exists
      <3> QED BY <1>1, <2>1, <3>1, <3>2 DEF TaskInv, Busy
    <2>2. CASE task.op = "media"
      <3>1. waiting = {}
        BY <2>2 DEF IInv, TaskInv
      <3> QED BY <1>1, <1>2, <3>1, IdleFacts, TaskMoves DEF Stores
    <2> QED BY <2>1, <2>2
  <1>6. CopyInv(post)' /\ CopyInv(saver.saved)' /\ HeldInv(draft)' /\ HeldInv(saver.snapshot)'
    BY <1>1, <1>2, IdleFacts, PostMoves, SavedMoves, StoresDraft, StoresSnapshot DEF Stores
  <1> QED BY <1>2, <1>3, <1>4, <1>5, <1>6, StoreTurn

\* The copy the loop received: what is stored, and what the editor calls saved.
Receives(c, isDirty) ==
  /\ Stores /\ CopyInv(c)' /\ stored'[c.id].words = c.words /\ <<c.id, c.words>> \in seen'
  /\ Saving /\ c.id = saver.target
  /\ task.op = "none" \/ Moves(task.id)
  /\ ~isDirty /\ draft # None /\ subject = c.id => c.words = Trimmed(draft)

LEMMA GoesIs ==
  ASSUME IInv, NEW c \in Copies, NEW isDirty \in BOOLEAN, NEW chosen \in BOOLEAN
  PROVE  \E q \in Loop : /\ q = Goes(c, isDirty, chosen) /\ q.snapshot \in {draft, Blank}
                         /\ \/ q = Idle
                            \/ /\ q.at \in {"write", "upload"} /\ q # Idle /\ q.saved = c
                               /\ q.target = c.id /\ q.target # None
  <1>1. PICK s \in Copies \cup {None} : s = c
    OBVIOUS
  <1>2. s # None /\ s.id # None /\ s.id \in Posts
    BY <1>1, CopyTypes, NoneFacts
  <1>3. ASSUME NEW at \in {"write", "upload"}
        PROVE  \E q \in Loop : /\ q = Round(at, s) /\ q.snapshot = draft /\ q.at = at /\ q # Idle
                               /\ q.saved = s /\ q.target = s.id
    <2>1. PICK q \in Loop :
           /\ q = Round(at, s) /\ q.at = at /\ q.snapshot = draft /\ q.saved = s
           /\ q.target = (IF s = None THEN subject ELSE s.id) /\ q # Idle
      BY Flags, RoundFacts
    <2> QED BY <1>2, <2>1
  <1>4. CASE chosen
    <2>1. PICK at \in {"write", "upload"} : at = "upload"
      OBVIOUS
    <2>2. Goes(c, isDirty, chosen) = Round(at, s)
      BY <1>1, <1>4, <2>1 DEF Goes
    <2> QED BY <1>1, <1>2, <1>3, <2>2
  <1>5. CASE ~chosen /\ isDirty
    <2>1. PICK at \in {"write", "upload"} : at = "write"
      OBVIOUS
    <2>2. Goes(c, isDirty, chosen) = Round(at, s)
      BY <1>1, <1>5, <2>1 DEF Goes
    <2> QED BY <1>1, <1>2, <1>3, <2>2
  <1>6. CASE ~chosen /\ ~isDirty
    BY <1>6, IdleFacts DEF Goes
  <1> QED BY <1>4, <1>5, <1>6

LEMMA ContinueIs ==
  ASSUME NEW c, NEW isDirty, NEW chosen, NEW q, q = Goes(c, isDirty, chosen),
         Continue(c, isDirty, chosen)
  PROVE  /\ saver' = q /\ dirty' = isDirty /\ file' = chosen
         /\ UNCHANGED <<subject, timer, dialog, shown, polls, edits>>
         /\ q # Idle => post' = c /\ UNCHANGED <<draft, pollTimer, waiting, task, error>>
         /\ q = Idle => Return(c)
  BY DEF Continue

LEMMA ContinueKeeps ==
  ASSUME IInv, NEW c \in Copies, NEW isDirty \in BOOLEAN, NEW chosen \in BOOLEAN,
         Continue(c, isDirty, chosen), Receives(c, isDirty),
         UNCHANGED advice, losses' \in 0..MaxLosses
  PROVE  IInv'
  <1>1. PICK q \in Loop : /\ q = Goes(c, isDirty, chosen) /\ q.snapshot \in {draft, Blank}
                          /\ \/ q = Idle
                             \/ /\ q.at \in {"write", "upload"} /\ q # Idle /\ q.saved = c
                                /\ q.target = c.id /\ q.target # None
    BY GoesIs
  <1>2. /\ saver' = q /\ dirty' = isDirty /\ file' = chosen
        /\ UNCHANGED <<subject, timer, dialog, shown, polls, edits>>
        /\ q # Idle => post' = c /\ UNCHANGED <<draft, pollTimer, waiting, task, error>>
        /\ q = Idle => Return(c)
    BY <1>1, ContinueIs
  <1>3. /\ Stores /\ CopyInv(c)' /\ stored'[c.id].words = c.words /\ <<c.id, c.words>> \in seen'
        /\ Saving /\ c.id = saver.target
        /\ task.op = "none" \/ Moves(task.id)
        /\ ~isDirty /\ draft # None /\ subject = c.id => c.words = Trimmed(draft)
    BY DEF Receives
  <1>4. c # None /\ c.id \in Posts
    BY CopyTypes
  <1>5. /\ q = Idle => waiting' = {}
        /\ \/ post' = c /\ UNCHANGED <<draft, pollTimer>>
           \/ post' = None /\ draft' = None /\ pollTimer' = None /\ waiting # {}
        /\ task' = task \/ \E op \in {"adapt", "export"} : task' = Asks(op, c)
        /\ waiting' \in {waiting, {}} /\ error' \in BOOLEAN
    <2>1. CASE q # Idle
      BY <1>2, <2>1, Flags
    <2>2. CASE q = Idle
      <3>1. Return(c)
        BY <1>2, <2>2
      <3>2. waiting' = {} /\ (error' = error \/ error' = FALSE)
        BY <3>1, Zenon DEF Return
      <3>3. error' \in BOOLEAN
        BY <3>2, Flags, Zenon
      <3>4. \/ post' = c /\ UNCHANGED <<draft, pollTimer>>
            \/ post' = None /\ draft' = None /\ pollTimer' = None /\ waiting # {}
        BY <3>1 DEF Return, LeaveEditor
      <3>5. task' = task \/ \E op \in {"adapt", "export"} : task' = Asks(op, c)
        BY <3>1 DEF Return, Tasks
      <3> QED BY <3>2, <3>3, <3>4, <3>5, Zenon
    <2> QED BY <2>1, <2>2
  <1>6. PICK t \in Errand :
          /\ task' = t
          /\ \/ t = task
             \/ t.op \in {"adapt", "export"} /\ t.id = c.id /\ t.id # None /\ t.revision = c.revision
    <2>1. CASE task' = task
      BY <2>1, Flags
    <2>2. CASE task' # task
      <3>1. PICK op \in {"adapt", "export"} : task' = Asks(op, c)
        BY <1>5, <2>2
      <3>2. op \in {"none", "open", "adapt", "export", "media", "remove"}
        OBVIOUS
      <3>3. \E t \in Errand : /\ t = Asks(op, c) /\ t.op = op /\ t.id = c.id /\ t.revision = c.revision
                           /\ t.id # None
        BY <3>2, AsksFacts
      <3> QED BY <3>1, <3>3
    <2> QED BY <2>1, <2>2
  <1>7. TypeOK'
    BY <1>1, <1>2, <1>3, <1>5, <1>6 DEF IInv, TypeOK, Stores, Held
  <1>8. EditorInv'
    BY <1>2, <1>3, <1>4, <1>5, NoneFacts DEF IInv, EditorInv
  <1>9. SaverInv'
    <2>1. q # Idle /\ ~isDirty /\ draft # None /\ subject = c.id =>
            stored'[c.id].words = Trimmed(draft)
      BY <1>3
    <2> QED BY <1>1, <1>2, <1>4, <1>5, <2>1, IdleFacts DEF SaverInv, Saving, Writing, Uploading
  <1>10. TaskInv'
    <2>1. CASE t = task
      <3>1. TaskInv /\ TypeOK
        BY DEF IInv
      <3>2. CASE task.op = "none"
        BY <1>6, <2>1, <3>2 DEF TaskInv, Busy
      <3>3. CASE task.op = "open"
        BY <1>5, <1>6, <2>1, <3>1, <3>3 DEF TaskInv, Busy
      <3>4. CASE task.op \notin {"none", "open"}
        <4>1. PICK p \in Posts, r \in Nat : p = task.id /\ r = task.revision
          BY <3>4, Flags, TaskOf, ErrandTypes DEF Busy
        <4>2. Reached(p, r) /\ Moves(p)
          BY <1>3, <3>1, <3>4, <4>1 DEF TaskInv
        <4>3. Reached(p, r)'
          BY <1>7, <3>1, <4>2, ReachedKept
        <4>4. Reached(task.id, task.revision)' /\ task.id # None
          BY <1>6, <2>1, <4>1, <4>3, NoneFacts DEF Reached, Exists
        <4>5. CASE task.op # "media"
          BY <1>6, <2>1, <3>4, <4>4, <4>5 DEF TaskInv, Busy
        <4>6. CASE task.op = "media"
          <5>1. waiting = {} /\ dialog = "none" /\ task.id = c.id
            BY <1>3, <3>1, <4>6 DEF TaskInv
          <5>2. post' = c /\ draft' = draft /\ waiting' = {}
            BY <1>5, <5>1
          <5>3. Saving' => saver'.target = task.id
            BY <1>1, <1>2, <5>1, IdleFacts DEF Saving
          <5>4. ~dirty' /\ draft' # None /\ subject' = task.id =>
                  stored'[task.id].words = Trimmed(draft')
            BY <1>2, <1>3, <5>1, <5>2
          <5>5. <<task.id, stored'[task.id].words>> \in seen'
            BY <1>3, <5>1
          <5> QED BY <1>2, <1>4, <1>6, <2>1, <4>4, <4>6, <5>1, <5>2, <5>3, <5>4, <5>5 DEF TaskInv, Busy
        <4> QED BY <4>5, <4>6
      <3> QED BY <3>2, <3>3, <3>4
    <2>2. CASE t.op \in {"adapt", "export"} /\ t.id = c.id /\ t.id # None /\ t.revision = c.revision
      <3>1. Reached(c.id, c.revision)'
        BY <1>3, <1>4 DEF CopyInv
      <3>2. Reached(task.id, task.revision)'
        BY <1>6, <2>2, <3>1 DEF Reached, Exists
      <3> QED BY <1>6, <2>2, <3>2 DEF TaskInv, Busy
    <2> QED BY <1>6, <2>1, <2>2
  <1>11. CopyInv(post)'
    BY <1>3, <1>5 DEF CopyInv
  <1>12. CopyInv(saver.saved)'
    BY <1>1, <1>2, <1>3, IdleFacts DEF CopyInv
  <1>13. HeldInv(draft)' /\ HeldInv(saver.snapshot)'
    BY <1>1, <1>2, <1>3, <1>5, StoresDraft, StoresSnapshot
  <1> QED BY <1>3, <1>7, <1>8, <1>9, <1>10, <1>11, <1>12, <1>13, StoreTurn
--------------------------------------------------------------------------------
(* What this tab sends is stored. *)

LEMMA LoopFacts ==
  ASSUME IInv, Saving
  PROVE  /\ saver.target \in Posts
         /\ \/ saver.saved \in Copies /\ saver.saved # None /\ saver.target = saver.saved.id
            \/ /\ saver.saved = None /\ Writing /\ post = None /\ task.op = "none"
  BY Flags, LoopTypes, NoneFacts DEF IInv, SaverInv, Busy

LEMMA CommitStored ==
  ASSUME IInv, saver.at = "write", WriteAccepted, Commit, UNCHANGED edits
  PROVE  /\ Stores /\ stored'[saver.target] \in Version
         /\ stored'[saver.target].words = Trimmed(saver.snapshot)
         /\ saver.saved # None => \A q \in Posts : Moves(q)
         /\ <<saver.target, Trimmed(saver.snapshot)>> \in seen'
         /\ \A q \in Posts : Exists(q) /\ stored'[q].words # stored[q].words => <<q, stored[q].words>> \in seen
  <1>1. Saving
    BY DEF Saving
  <1>2. PICK p \in Posts : p = saver.target
    BY <1>1, LoopFacts
  <1>3. PICK w \in Words : w = Trimmed(saver.snapshot) /\ Trimmed(w) = w /\ Foreign(w) /\ w.n <= edits
    <2>1. PICK x \in Words : x = saver.snapshot
      BY Flags, LoopTypes DEF WriteAccepted, Held
    <2>2. HeldInv(x)
      BY <2>1 DEF IInv, WordsInv
    <2> QED BY <2>1, <2>2, TrimmedFacts DEF HeldInv
  <1>4. seen' = seen \cup {<<p, w>>} /\ Remembers
    BY <1>2, <1>3 DEF Commit, Remembers
  <1>5. \E v \in Version :
          /\ stored' = [stored EXCEPT ![p] = v] /\ v.words = w
          /\ v = stored[p] \/ v.by = "tab"
          /\ saver.saved # None => v.revision > stored[p].revision /\ Exists(p)
          /\ Exists(p) /\ w # stored[p].words => <<p, stored[p].words>> \in seen
    <2>1. CASE saver.saved = None
      <3>1. /\ stored' = [stored EXCEPT ![p] = Created(p, saver.snapshot)]
            /\ CreateAccepted(p, saver.snapshot)
        BY <1>2, <2>1 DEF Commit, Writes, WriteAccepted
      <3>2. CASE Exists(p)
        <4>1. PICK v \in Version : v = stored[p]
          BY <3>2, Flags DEF Exists
        <4> QED BY <1>3, <2>1, <3>1, <3>2, <4>1 DEF Created, CreateAccepted
      <3>3. CASE ~Exists(p)
        <4>1. PICK r \in Nat \ {0}, media \in BOOLEAN, by \in {"tab", "other"} :
                r = 1 /\ media = FALSE /\ by = "tab"
          <5>1. 1 \in Nat \ {0} /\ "tab" \in {"tab", "other"}
            OBVIOUS
          <5>2. FALSE \in BOOLEAN
            BY Zenon
          <5> QED BY <5>1, <5>2, Zenon
        <4>2. PICK v \in Version :
                /\ v = Stored(r, w, media, by) /\ v # None
                /\ v.revision = r /\ v.words = w /\ v.by = by
          BY StoredFacts
        <4> QED BY <1>3, <2>1, <3>1, <3>3, <4>1, <4>2 DEF Created
      <3> QED BY <3>2, <3>3
    <2>2. CASE saver.saved # None
      <3>1. stored' = [stored EXCEPT ![p] = Updated(p, saver.snapshot)] /\ Current(p, saver.saved.revision)
        BY <1>2, <2>2 DEF Commit, Writes, WriteAccepted
      <3>2. PICK u \in Version : u = stored[p]
        BY <3>1, Flags DEF Current, Exists
      <3>3. PICK r \in Nat \ {0}, media \in BOOLEAN, by \in {"tab", "other"} :
              r = u.revision + 1 /\ r > u.revision /\ media = u.media /\ by = "tab"
        <4>1. u.revision + 1 \in Nat \ {0} /\ u.revision + 1 > u.revision /\ u.media \in BOOLEAN
              /\ "tab" \in {"tab", "other"}
          BY VersionFacts
        <4> QED BY <4>1, Zenon
      <3>4. PICK v \in Version :
              /\ v = Stored(r, w, media, by) /\ v # None
              /\ v.revision = r /\ v.words = w /\ v.by = by
        BY StoredFacts
      <3>5. <<p, stored[p].words>> \in seen
        <4>1. saver.target = saver.saved.id
          BY <1>1, <2>2, LoopFacts
        <4>2. CopyInv(saver.saved)
          BY DEF IInv
        <4> QED BY <1>2, <2>2, <3>1, <4>1, <4>2 DEF CopyInv
      <3>6. v = Updated(p, saver.snapshot)
        BY <1>3, <3>2, <3>3, <3>4 DEF Updated
      <3> QED BY <3>1, <3>2, <3>3, <3>4, <3>5, <3>6 DEF Current
    <2> QED BY <2>1, <2>2
  <1>6. PICK v \in Version :
          /\ stored' = [stored EXCEPT ![p] = v] /\ v.words = w
          /\ v = stored[p] \/ v.by = "tab"
          /\ saver.saved # None => v.revision > stored[p].revision /\ Exists(p)
          /\ Exists(p) /\ w # stored[p].words => <<p, stored[p].words>> \in seen
    BY <1>5
  <1>7. stored'[p] = v /\ (\A q \in Posts \ {p} : stored'[q] = stored[q])
        /\ stored' \in [Posts -> Version \cup {None}] /\ v # None
    BY <1>6, Flags, VersionFacts
  <1>8. Quiet
    <2>1. v.by = "other" => v = stored[p]
      BY <1>6
    <2> QED BY <1>7, <2>1 DEF Quiet
  <1>9. saver.saved # None => \A q \in Posts : Moves(q)
    BY <1>6, <1>7 DEF Moves
  <1>10. ASSUME NEW q \in Posts  PROVE StoreInv(q)'
    <2>1. TypeOK /\ StoreInv(q) /\ edits' >= edits /\ edits \in Nat /\ edits' \in Nat
      BY Flags DEF IInv, WordsInv
    <2>2. CASE stored'[q] = stored[q]
      BY <1>4, <1>8, <2>1, <2>2, StoreKept
    <2>3. CASE stored'[q] # stored[q]
      <3>1. q = p /\ v.by = "tab"
        BY <1>6, <1>7, <2>3
      <3>2. Foreign(w)'
        BY <1>3, <1>4, <1>8, ForeignKept
      <3>3. w.n <= edits'
        BY <1>3
      <3> QED BY <1>3, <1>4, <1>6, <1>7, <3>1, <3>2, <3>3 DEF StoreInv, Exists
    <2> QED BY <2>2, <2>3
  <1>11. ASSUME NEW q \in Posts, Exists(q), stored'[q].words # stored[q].words
         PROVE  <<q, stored[q].words>> \in seen
    BY <1>6, <1>7, <1>11
  <1>12. Stores
    BY <1>4, <1>7, <1>8, <1>10, Flags DEF Stores
  <1> QED BY <1>2, <1>3, <1>4, <1>6, <1>7, <1>9, <1>11, <1>12

\* What the loop compares its words with.
LEMMA WordsOf ==
  ASSUME IInv, Saving, NEW c \in Copies, c.id = saver.target, c.words = Trimmed(saver.snapshot), Stores,
         stored'[c.id].words = c.words, CopyInv(c)', <<c.id, c.words>> \in seen',
         saver.saved # None => \A q \in Posts : Moves(q), Saved(c),
         UNCHANGED advice, losses' \in 0..MaxLosses
  PROVE  IInv'
  <1>1. PICK isDirty \in BOOLEAN, chosen \in BOOLEAN :
          isDirty = (saver.snapshot # draft) /\ chosen = file
    BY Flags
  <1>2. Continue(c, isDirty, chosen)
    BY <1>1 DEF Saved
  <1>3. task.op = "none" \/ Moves(task.id)
    BY LoopFacts, TaskOf DEF Busy
  <1>4. Receives(c, isDirty)
    BY <1>1, <1>3 DEF Receives
  <1> QED BY <1>2, <1>4, ContinueKeeps
--------------------------------------------------------------------------------
(* The requests of the loop. *)

LEMMA WriteAnsweredStep ==
  ASSUME IInv, WriteAnswered
  PROVE  IInv'
  <1>1. /\ saver.at = "write" /\ WriteAccepted /\ Commit
        /\ Saved(Copy(saver.target, stored'[saver.target])) /\ UNCHANGED <<advice, losses>>
    BY DEF WriteAnswered
  <1>2. UNCHANGED edits
    BY <1>1 DEF Saved, Continue
  <1>3. /\ Stores /\ stored'[saver.target] \in Version
        /\ stored'[saver.target].words = Trimmed(saver.snapshot)
        /\ saver.saved # None => \A q \in Posts : Moves(q)
        /\ <<saver.target, Trimmed(saver.snapshot)>> \in seen'
    BY <1>1, <1>2, CommitStored
  <1>4. Saving
    BY <1>1 DEF Saving
  <1>5. PICK p \in Posts : p = saver.target
    BY <1>4, LoopFacts
  <1>6. PICK v \in Version : v = stored'[p]
    BY <1>3, <1>5
  <1>7. PICK c \in Copies : /\ c = Copy(p, v) /\ c # None /\ c.id = p /\ c.revision = v.revision
                            /\ c.words = v.words
    BY CopyFacts
  <1>8. CopyInv(c)'
    <2>1. v.revision \in Nat /\ v.revision <= v.revision
      BY VersionFacts
    <2> QED BY <1>3, <1>5, <1>6, <1>7, <2>1 DEF CopyInv, Reached, Current, Exists
  <1>9. Saved(c) /\ c.words = Trimmed(saver.snapshot) /\ c.id = saver.target /\ stored'[c.id].words = c.words
        /\ <<c.id, c.words>> \in seen'
    BY <1>1, <1>3, <1>5, <1>6, <1>7
  <1>10. losses' \in 0..MaxLosses /\ UNCHANGED advice
    BY <1>1 DEF IInv, TypeOK
  <1> QED BY <1>3, <1>4, <1>8, <1>9, <1>10, WordsOf

\* The words may have arrived: the post is read back next.
LEMMA WriteFailsStep ==
  ASSUME IInv, WriteFails
  PROVE  IInv'
  <1>1. /\ saver.at = "write" /\ saver' = Going(saver, "confirm")
        /\ UNCHANGED <<advice, post, draft, subject, dirty, error, timer, dialog,
                       file, waiting, task, shown, pollTimer, polls, edits>>
        /\ losses' = losses \/ (losses < MaxLosses /\ losses' = losses + 1)
        /\ UNCHANGED <<stored, seen>> \/ (WriteAccepted /\ Commit)
    BY DEF WriteFails, Confirming, Going, polling
  <1>2. PICK at \in {"confirm", "inspect"} : at = "confirm"
    OBVIOUS
  <1>3. PICK g \in Loop : /\ g = Going(saver, at) /\ g.at = at /\ g.snapshot = saver.snapshot
                          /\ g.saved = saver.saved /\ g.target = saver.target
    BY Flags, GoingFacts
  <1>4. saver' = g /\ g.at = "confirm" /\ Saving
    BY <1>1, <1>2, <1>3 DEF Saving
  <1>5. Stores /\ (saver.saved # None => \A q \in Posts : Moves(q))
    <2>1. CASE UNCHANGED <<stored, seen>>
      BY <1>1, <2>1, NothingStored DEF Remembers
    <2>2. CASE WriteAccepted /\ Commit
      BY <1>1, <2>2, CommitStored
    <2> QED BY <1>1, <2>1, <2>2
  <1>6. losses' \in 0..MaxLosses
    BY <1>1, Bounds DEF IInv, TypeOK
  <1>7. TypeOK'
    BY <1>1, <1>4, <1>5, <1>6 DEF IInv, TypeOK, Stores
  <1>8. EditorInv'
    BY <1>1 DEF IInv, EditorInv
  <1>9. SaverInv'
    <2>1. Writing /\ SaverInv
      BY <1>1 DEF Writing, IInv
    <2> QED BY <1>1, <1>3, <1>4, <2>1 DEF SaverInv, Saving, Writing, Uploading, Busy
  <1>10. Remembers
    BY <1>5 DEF Stores
  <1>11. TaskInv'
    <2>1. CASE saver.saved # None
      BY <1>1, <1>3, <1>4, <1>5, <1>7, <1>10, <2>1, TaskMoves
    <2>2. CASE saver.saved = None
      <3>1. task.op = "none"
        BY <1>4, <2>2, LoopFacts
      <3> QED BY <1>1, <3>1 DEF TaskInv, Busy
    <2> QED BY <2>1, <2>2
  <1>12. CopyInv(post)' /\ CopyInv(saver.saved)'
    <2>1. CASE saver.saved # None
      BY <1>1, <1>3, <1>4, <1>5, <1>7, <1>10, <2>1, PostMoves, SavedMoves
    <2>2. CASE saver.saved = None
      <3>1. post = None
        BY <1>4, <2>2, LoopFacts
      <3> QED BY <1>1, <1>3, <1>4, <2>2, <3>1 DEF CopyInv
    <2> QED BY <2>1, <2>2
  <1>13. HeldInv(draft)' /\ HeldInv(saver.snapshot)'
    BY <1>1, <1>3, <1>4, <1>5, StoresDraft, StoresSnapshot
  <1> QED BY <1>5, <1>7, <1>8, <1>9, <1>11, <1>12, <1>13, StoreTurn

\* A round that failed with nothing stored.
LEMMA FailsQuietly ==
  ASSUME IInv, Fails, UNCHANGED <<stored, advice, seen>>,
         losses' = losses \/ (losses < MaxLosses /\ losses' = losses + 1)
  PROVE  IInv'
  <1>1. Stores /\ \A q \in Posts : Moves(q)
    BY NothingStored DEF Fails, Remembers
  <1>2. losses' \in 0..MaxLosses /\ advice' \in [Posts -> {"none", "pending", "ready"}]
    BY Bounds DEF IInv, TypeOK
  <1> QED BY <1>1, <1>2, FailsKeeps

\* The post holds the words that were sent.
LEMMA ConfirmStep ==
  ASSUME IInv, Confirm
  PROVE  IInv'
  <1>1. /\ saver.at = "confirm" /\ UNCHANGED <<stored, advice, seen>>
        /\ \/ Confirmed(saver.target) /\ Saved(Copy(saver.target, stored[saver.target])) /\ UNCHANGED losses
           \/ Fails /\ (losses' = losses \/ (losses < MaxLosses /\ losses' = losses + 1))
    BY DEF Confirm, server
  <1>2. CASE Fails /\ (losses' = losses \/ (losses < MaxLosses /\ losses' = losses + 1))
    BY <1>1, <1>2, FailsQuietly
  <1>3. CASE Confirmed(saver.target) /\ Saved(Copy(saver.target, stored[saver.target])) /\ UNCHANGED losses
    <2>1. Saving
      BY <1>1 DEF Saving
    <2>2. PICK p \in Posts : p = saver.target
      BY <2>1, LoopFacts
    <2>3. PICK v \in Version : v = stored[p] /\ v.words = saver.snapshot
      BY <1>3, <2>2, Flags DEF Confirmed, Exists
    <2>4. PICK c \in Copies : /\ c = Copy(p, v) /\ c # None /\ c.id = p /\ c.revision = v.revision
                              /\ c.words = v.words
      BY CopyFacts
    <2>5. UNCHANGED edits
      BY <1>3 DEF Saved, Continue
    <2>6. Stores /\ \A q \in Posts : Moves(q)
      BY <1>1, <2>5, NothingStored DEF Remembers
    <2>11. Trimmed(v.words) = v.words
      BY <2>3, VersionFacts DEF IInv, WordsInv, StoreInv, Exists
    <2>7. <<p, v.words>> \in seen'
      <3>1. StoreInv(p) /\ HeldInv(saver.snapshot)
        BY DEF IInv, WordsInv
      <3>2. CASE v.by = "tab"
        BY <1>1, <2>3, <3>1, <3>2, VersionFacts DEF StoreInv, Exists
      <3>3. CASE v.by = "other"
        <4>1. Foreign(v.words)
          BY <2>3, <2>11, <3>1, VersionFacts DEF HeldInv
        <4> QED BY <1>1, <2>3, <3>3, <4>1, VersionFacts DEF Foreign, Exists
      <3> QED BY <3>2, <3>3, VersionFacts
    <2>8. CopyInv(c)'
      <3>1. v.revision \in Nat /\ v.revision <= v.revision /\ stored' = stored
        BY <1>1, VersionFacts
      <3> QED BY <2>3, <2>4, <2>7, <3>1 DEF CopyInv, Reached, Current, Exists
    <2>9. Saved(c) /\ c.words = Trimmed(saver.snapshot) /\ c.id = saver.target /\ stored'[c.id].words = c.words
          /\ <<c.id, c.words>> \in seen'
      BY <1>1, <1>3, <2>2, <2>3, <2>4, <2>7, <2>11
    <2>10. losses' \in 0..MaxLosses /\ UNCHANGED advice
      BY <1>1, <1>3 DEF IInv, TypeOK
    <2> QED BY <2>1, <2>6, <2>8, <2>9, <2>10, WordsOf
  <1> QED BY <1>1, <1>2, <1>3

LEMMA UploadArrivesStep ==
  ASSUME IInv, UploadArrives
  PROVE  IInv'
  <1>1. /\ saver.at = "upload" /\ UNCHANGED <<stored, advice, seen>>
        /\ \/ /\ saver' = Going(saver, "inspect")
              /\ UNCHANGED <<post, draft, subject, dirty, error, timer, dialog, file, waiting,
                             task, shown, pollTimer, polls, edits, losses>>
           \/ Fails /\ (losses' = losses \/ (losses < MaxLosses /\ losses' = losses + 1))
    BY DEF UploadArrives, Going, polling
  <1>2. CASE Fails /\ (losses' = losses \/ (losses < MaxLosses /\ losses' = losses + 1))
    BY <1>1, <1>2, FailsQuietly
  <1>3. CASE /\ saver' = Going(saver, "inspect")
             /\ UNCHANGED <<post, draft, subject, dirty, error, timer, dialog, file, waiting,
                            task, shown, pollTimer, polls, edits, losses>>
    <2>1. PICK at \in {"confirm", "inspect"} : at = "inspect"
      OBVIOUS
    <2>2. PICK g \in Loop : /\ g = Going(saver, at) /\ g.at = at /\ g.snapshot = saver.snapshot
                            /\ g.saved = saver.saved /\ g.target = saver.target
      BY Flags, GoingFacts
    <2>3. saver' = g /\ g.at = "inspect" /\ Saving /\ Uploading /\ ~Writing
      BY <1>1, <1>3, <2>1, <2>2 DEF Saving, Uploading, Writing
    <2>4. Remembers /\ Stores /\ \A q \in Posts : Moves(q)
      BY <1>1, <1>3, NothingStored DEF Remembers
    <2>5. TypeOK'
      BY <1>1, <1>3, <2>3 DEF IInv, TypeOK
    <2>6. EditorInv'
      BY <1>3 DEF IInv, EditorInv
    <2>7. SaverInv'
      <3>1. SaverInv
        BY DEF IInv
      <3> QED BY <1>1, <1>3, <2>2, <2>3, <3>1 DEF SaverInv, Saving, Writing, Uploading, Current, Exists
    <2>8. TaskInv'
      BY <1>3, <2>2, <2>3, <2>4, <2>5, TaskMoves
    <2>9. CopyInv(post)' /\ CopyInv(saver.saved)' /\ HeldInv(draft)' /\ HeldInv(saver.snapshot)'
      BY <1>3, <2>2, <2>3, <2>4, <2>5, PostMoves, SavedMoves, StoresDraft, StoresSnapshot
    <2> QED BY <2>4, <2>5, <2>6, <2>7, <2>8, <2>9, StoreTurn
  <1> QED BY <1>1, <1>2, <1>3

\* The file is stored with the words it was uploaded for.
LEMMA InspectedStep ==
  ASSUME IInv, Inspected
  PROVE  IInv'
  <1>1. saver.at = "inspect" /\ UNCHANGED <<advice, seen>>
    BY DEF Inspected
  <1>2. Saving /\ Uploading /\ ~Writing
    BY <1>1 DEF Saving, Uploading, Writing
  <1>3. PICK p \in Posts, media \in BOOLEAN : p = saver.target /\ media = TRUE
    BY <1>2, LoopFacts
  <1>4. PICK s \in Copies : s = saver.saved /\ s # None /\ s.id = p
    BY <1>2, <1>3, LoopFacts
  <1>5. \/ /\ Current(p, s.revision) /\ stored' = [stored EXCEPT ![p] = WithMedia(p, TRUE)]
           /\ Continue(Copy(p, stored'[p]), dirty, FALSE) /\ UNCHANGED losses
        \/ /\ \/ UNCHANGED stored
              \/ Current(p, s.revision) /\ stored' = [stored EXCEPT ![p] = WithMedia(p, TRUE)]
           /\ Fails /\ (losses' = losses \/ (losses < MaxLosses /\ losses' = losses + 1))
    BY <1>3, <1>4 DEF Inspected
  <1>6. UNCHANGED edits
    BY <1>5 DEF Continue, Fails
  <1>7. ASSUME Current(p, s.revision), stored' = [stored EXCEPT ![p] = WithMedia(p, TRUE)]
        PROVE  /\ Stores /\ \A q \in Posts : Moves(q)
               /\ stored'[p] \in Version /\ stored'[p].words = stored[p].words
    <2>1. Exists(p) /\ stored' = [stored EXCEPT ![p] = WithMedia(p, media)]
      BY <1>3, <1>7 DEF Current
    <2> QED BY <1>1, <1>6, <2>1, MediaStored
  <1>8. CASE /\ Fails /\ (losses' = losses \/ (losses < MaxLosses /\ losses' = losses + 1))
             /\ \/ UNCHANGED stored
                \/ Current(p, s.revision) /\ stored' = [stored EXCEPT ![p] = WithMedia(p, TRUE)]
    <2>1. CASE UNCHANGED stored
      BY <1>1, <1>8, <2>1, FailsQuietly
    <2>2. CASE Current(p, s.revision) /\ stored' = [stored EXCEPT ![p] = WithMedia(p, TRUE)]
      <3>1. Stores /\ \A q \in Posts : Moves(q)
        BY <1>7, <2>2
      <3>2. losses' \in 0..MaxLosses /\ advice' \in [Posts -> {"none", "pending", "ready"}]
        BY <1>1, <1>8, Bounds DEF IInv, TypeOK
      <3> QED BY <1>8, <3>1, <3>2, FailsKeeps
    <2> QED BY <1>8, <2>1, <2>2
  <1>9. CASE /\ Current(p, s.revision) /\ stored' = [stored EXCEPT ![p] = WithMedia(p, TRUE)]
             /\ Continue(Copy(p, stored'[p]), dirty, FALSE) /\ UNCHANGED losses
    <2>1. /\ Stores /\ \A q \in Posts : Moves(q)
          /\ stored'[p] \in Version /\ stored'[p].words = stored[p].words
      BY <1>7, <1>9
    <2>2. PICK v \in Version : v = stored'[p]
      BY <2>1
    <2>3. PICK c \in Copies : /\ c = Copy(p, v) /\ c # None /\ c.id = p /\ c.revision = v.revision
                              /\ c.words = v.words
      BY CopyFacts
    <2>4. PICK isDirty \in BOOLEAN, chosen \in BOOLEAN : isDirty = dirty /\ chosen = FALSE
      BY Flags
    <2>5. Continue(c, isDirty, chosen)
      BY <1>9, <2>2, <2>3, <2>4
    <2>6. stored[p].words = s.words /\ <<p, s.words>> \in seen
      <3>1. CopyInv(s)
        BY <1>4 DEF IInv
      <3> QED BY <1>4, <1>9, <3>1 DEF CopyInv
    <2>7. <<p, v.words>> \in seen'
      BY <1>1, <2>1, <2>2, <2>6
    <2>8. CopyInv(c)'
      <3>1. v.revision \in Nat /\ v.revision <= v.revision
        BY VersionFacts
      <3> QED BY <2>2, <2>3, <2>7, <3>1 DEF CopyInv, Reached, Current, Exists
    <2>9. ~isDirty /\ draft # None /\ subject = c.id => c.words = Trimmed(draft)
      <3>1. SaverInv /\ Current(saver.target, saver.saved.revision)
        BY <1>3, <1>4, <1>9 DEF IInv
      <3> QED BY <1>2, <1>3, <2>1, <2>2, <2>3, <2>4, <3>1 DEF SaverInv
    <2>10. task.op = "none" \/ Moves(task.id)
      BY <2>1, TaskOf DEF Busy
    <2>11. Receives(c, isDirty)
      BY <1>2, <1>3, <2>1, <2>2, <2>3, <2>7, <2>8, <2>9, <2>10 DEF Receives
    <2>12. losses' \in 0..MaxLosses /\ UNCHANGED advice
      BY <1>1, <1>9 DEF IInv, TypeOK
    <2> QED BY <2>5, <2>11, <2>12, ContinueKeeps
  <1> QED BY <1>5, <1>8, <1>9
--------------------------------------------------------------------------------
(* Another tab writes words this one has not seen, or removes the post. *)

LEMMA ElsewhereStored ==
  ASSUME IInv, NEW p \in Posts, Exists(p), UNCHANGED seen, edits < MaxEdits, edits' = edits + 1,
         stored' = [stored EXCEPT ![p] =
             Stored(@.revision + 1, Written(p, edits + 1), @.media, "other")]
  PROVE  /\ stored' \in [Posts -> Version \cup {None}]
         /\ \A q \in Posts : Moves(q)
         /\ \A q \in Posts : StoreInv(q)'
         /\ \A w \in Held : HeldInv(w) => HeldInv(w)'
  <1>1. PICK u \in Version : u = stored[p]
    BY Flags DEF Exists
  <1>2. PICK n \in 0..MaxEdits : n = edits + 1 /\ n # 0 /\ n > edits
    BY Flags, Bounds
  <1>3. PICK w \in Words : w = Written(p, n) /\ w.n = n /\ w.post = p /\ Trimmed(w) = w
    BY WordsFacts
  <1>4. PICK r \in Nat \ {0}, media \in BOOLEAN, by \in {"tab", "other"} :
          r = u.revision + 1 /\ r > u.revision /\ media = u.media /\ by = "other"
    <2>1. u.revision + 1 \in Nat \ {0} /\ u.revision + 1 > u.revision /\ u.media \in BOOLEAN
          /\ "other" \in {"tab", "other"}
      BY VersionFacts
    <2> QED BY <2>1, Zenon
  <1>5. PICK v \in Version : /\ v = Stored(r, w, media, by) /\ v # None
                             /\ v.revision = r /\ v.words = w /\ v.by = by
    BY StoredFacts
  <1>6. stored' = [stored EXCEPT ![p] = v]
    BY <1>1, <1>2, <1>3, <1>4, <1>5
  <1>7. stored'[p] = v /\ (\A q \in Posts \ {p} : stored'[q] = stored[q])
        /\ stored' \in [Posts -> Version \cup {None}]
    BY <1>6, Flags
  <1>8. \A q \in Posts : Moves(q)
    BY <1>1, <1>4, <1>5, <1>7 DEF Moves, Exists
  <1>9. ASSUME NEW x \in Words, Foreign(x), x # w  PROVE Foreign(x)'
    <2>1. SUFFICES ASSUME NEW q \in Posts, stored'[q] # None, stored'[q].by = "other",
                          stored'[q].words = x
                   PROVE  <<q, x>> \in seen'
      BY DEF Foreign, Exists
    <2>2. q # p
      BY <1>5, <1>7, <1>9, <2>1
    <2> QED BY <1>7, <1>9, <2>1, <2>2 DEF Foreign, Exists
  <1>10. ASSUME NEW x \in Held, HeldInv(x)  PROVE HeldInv(x)'
    <2>1. CASE x \notin Words
      BY <2>1 DEF HeldInv
    <2>2. CASE x \in Words
      <3>1. PICK t \in Words : t = Trimmed(x) /\ t.n = x.n
        BY <2>2, TrimmedFacts
      <3>2. Foreign(t) /\ x.n <= edits
        BY <1>10, <2>2, <3>1 DEF HeldInv
      <3>3. t # w
        BY <1>2, <1>3, <2>2, <3>1, <3>2, Flags, WordsFacts
      <3>4. Foreign(t)'
        BY <1>9, <3>2, <3>3
      <3>5. x.n <= edits'
        BY <2>2, <3>2, Flags, WordsFacts
      <3> QED BY <3>1, <3>4, <3>5 DEF HeldInv
    <2> QED BY <2>1, <2>2
  <1>11. ASSUME NEW q \in Posts  PROVE StoreInv(q)'
    <2>1. CASE q = p
      BY <1>2, <1>3, <1>4, <1>5, <1>7, <2>1 DEF StoreInv, Exists
    <2>2. CASE q # p
      <3>1. SUFFICES ASSUME Exists(q)  PROVE StoreInv(q)'
        BY <1>7, <2>2 DEF StoreInv, Exists
      <3>2. PICK x \in Version : x = stored[q] /\ x = stored'[q] /\ x.words \in Words /\ x.words.n \in Nat
        BY <1>7, <2>2, <3>1, Flags, VersionFacts, WordsFacts DEF Exists
      <3>3. StoreInv(q) /\ x.words.n <= edits /\ edits \in Nat
        BY <3>1, <3>2, Flags DEF IInv, WordsInv, StoreInv
      <3>4. x.words # w
        BY <1>2, <1>3, <3>3
      <3>5. x.by = "tab" => Foreign(x.words)'
        BY <1>9, <3>1, <3>2, <3>3, <3>4 DEF StoreInv
      <3> QED BY <3>1, <3>2, <3>3, <3>5 DEF StoreInv, Exists
    <2> QED BY <2>1, <2>2
  <1> QED BY <1>7, <1>8, <1>10, <1>11

LEMMA ElsewhereStep ==
  ASSUME IInv, NEW p \in Posts, Elsewhere(p)
  PROVE  IInv'
  <1>1. /\ Exists(p) /\ edits < MaxEdits /\ edits' = edits + 1
        /\ UNCHANGED <<post, draft, subject, dirty, error, timer, dialog, file,
                       saver, waiting, task, shown, pollTimer, polls, seen, losses>>
        /\ advice' = advice \/ advice' = [advice EXCEPT ![p] = "none"]
    BY DEF Elsewhere
  <1>2. edits' \in 0..MaxEdits /\ edits' \in Nat /\ edits' >= edits
    BY <1>1, Flags, Bounds
  <1>3. Remembers
    BY <1>1 DEF Remembers
  <1>4. /\ stored' \in [Posts -> Version \cup {None}]
        /\ \A q \in Posts : Moves(q)
        /\ \A q \in Posts : StoreInv(q)'
        /\ \A w \in Held : HeldInv(w) => HeldInv(w)'
    <2>1. CASE stored' = [stored EXCEPT ![p] = None]
      <3>1. Stores /\ \A q \in Posts : Moves(q)
        BY <1>2, <1>3, <2>1, PostRemoved
      <3> QED BY <3>1, StoresHeld DEF Stores
    <2>2. CASE stored' = [stored EXCEPT ![p] =
                 Stored(@.revision + 1, Written(p, edits + 1), @.media, "other")]
      BY <1>1, <2>2, ElsewhereStored
    <2> QED BY <2>1, <2>2 DEF Elsewhere
  <1>5. TypeOK'
    BY <1>1, <1>2, <1>4 DEF IInv, TypeOK
  <1>6. EditorInv'
    BY <1>1 DEF IInv, EditorInv
  <1>7. TaskInv'
    BY <1>1, <1>3, <1>4, <1>5, TaskMoves
  <1>8. SaverInv'
    <2>1. ASSUME saver.saved = None, Saving  PROVE ~Busy'
      BY <1>1, <2>1, LoopFacts DEF Busy
    <2>2. ~Saving => waiting' = {}
      BY <1>1 DEF IInv, SaverInv
    <2> QED BY <1>1, <1>4, <1>5, <2>1, <2>2, SaverMoves
  <1>9. CopyInv(post)' /\ CopyInv(saver.saved)'
    BY <1>1, <1>3, <1>4, <1>5, PostMoves, SavedMoves
  <1>10. HeldInv(draft)' /\ HeldInv(saver.snapshot)'
    <2>1. PICK d \in Held, w \in Held : d = draft /\ w = saver.snapshot
      BY Flags, LoopTypes
    <2>2. HeldInv(d) /\ HeldInv(w)
      BY <2>1 DEF IInv, WordsInv
    <2>3. HeldInv(d)' /\ HeldInv(w)'
      BY <1>4, <2>2
    <2> QED BY <1>1, <2>1, <2>3
  <1>11. WordsInv'
    BY <1>4, <1>10 DEF WordsInv
  <1> QED BY <1>5, <1>6, <1>7, <1>8, <1>9, <1>11 DEF IInv
--------------------------------------------------------------------------------
(* The invariant holds, and what follows from it. *)

LEMMA InitInv ==
  ASSUME Init
  PROVE  IInv
  <1>1. /\ stored = [p \in Posts |-> None] /\ advice = [p \in Posts |-> "none"]
        /\ post = None /\ draft = None /\ subject = None
        /\ dirty = FALSE /\ error = FALSE /\ timer = FALSE /\ dialog = "none" /\ file = FALSE
        /\ saver = Idle /\ waiting = {} /\ task = NoTask
        /\ shown = None /\ pollTimer = None /\ polls = {}
        /\ seen = {} /\ edits = 0 /\ losses = 0
    BY DEF Init
  <1>2. 0 \in 0..MaxEdits /\ 0 \in 0..MaxLosses
    BY Bounds
  <1>3. TypeOK
    BY <1>1, <1>2, IdleFacts DEF TypeOK, Held
  <1>4. CopyInv(post) /\ CopyInv(saver.saved)
    BY <1>1, IdleFacts DEF CopyInv
  <1>5. EditorInv /\ SaverInv /\ TaskInv
    BY <1>1, IdleFacts DEF EditorInv, SaverInv, TaskInv, Saving, Writing, Uploading, Busy
  <1>6. WordsInv
    <2>1. \A p \in Posts : ~Exists(p)
      BY <1>1 DEF Exists
    <2> QED BY <1>1, <1>3, <2>1, IdleFacts, NothingHeld DEF WordsInv, StoreInv
  <1> QED BY <1>3, <1>4, <1>5, <1>6 DEF IInv

LEMMA Stutters ==
  ASSUME IInv, UNCHANGED vars
  PROVE  IInv'
  <1>1. UNCHANGED <<stored, advice, post, draft, subject, dirty, error, timer, dialog, file, saver,
                    waiting, task, shown, pollTimer, polls, seen, edits, losses>>
    BY DEF vars
  <1>2. TypeOK'
    BY <1>1 DEF IInv, TypeOK
  <1> QED BY <1>1, <1>2, OnlyShown

LEMMA NextInv ==
  ASSUME IInv, [Next]_vars
  PROVE  IInv'
  <1>1. CASE Typing
    BY <1>1, TypeStep, ApplySuggestionStep, UploadStep, RemoveFileStep, AddStep DEF Typing
  <1>2. CASE Choices
    BY <1>2, PrepareStep, AdaptStep, DownloadStep, BackStep, DiscardStep, AskToDeleteStep, KeepStep,
       DeleteStep, OpenPostStep DEF Choices
  <1>3. CASE Others
    BY <1>3, ElsewhereStep, AdaptedStep DEF Others
  <1>4. CASE Saves
    BY <1>4, TimerFiresStep, WriteAnsweredStep, WriteFailsStep, ConfirmStep, UploadArrivesStep,
       InspectedStep DEF Saves
  <1>5. CASE Answers
    BY <1>5, OpenedStep, AdaptAnsweredStep, ExportedStep, MediaAnsweredStep, RemoveAnsweredStep,
       TaskFailsStep, PollFiresStep, PollAnsweredStep DEF Answers
  <1>6. CASE UNCHANGED vars
    BY <1>6, Stutters
  <1> QED BY <1>1, <1>2, <1>3, <1>4, <1>5, <1>6 DEF Next

(* Every reachable state is one the invariant describes: a copy of a post is true
   at its own revision and was seen, a post saved for the first time is alone in
   the editor, and words of another tab are held only once they were shown. *)
THEOREM Invariant == Spec => []IInv
  <1>1. Init => IInv
    BY InitInv
  <1>2. IInv /\ [Next]_vars => IInv'
    BY NextInv
  <1> QED BY <1>1, <1>2, PTL DEF Spec

LEMMA SavedIsStored ==
  ASSUME IInv
  PROVE  SavedMeansStored
  <1>1. TypeOK /\ CopyInv(post) /\ EditorInv
    BY DEF IInv
  <1>2. ASSUME post # None, post.id = subject, draft # None, ~dirty,
               Exists(post.id), stored[post.id].revision = post.revision
        PROVE  stored[post.id].words = Trimmed(draft)
    BY <1>1, <1>2 DEF CopyInv, EditorInv, Current
  <1> QED BY <1>1, <1>2 DEF SavedMeansStored

(* What the editor calls saved is what the database holds, up to the space around
   the name, however many posts, edits and lost answers there are: dirty as
   saveLoop computes it is enough, though it never reads the stored words. *)
THEOREM SavedIsTrue == Spec => []SavedMeansStored
  <1>1. IInv => SavedMeansStored
    BY SavedIsStored
  <1> QED BY <1>1, Invariant, PTL

\* Only the loop stores words; the rest keeps them, or removes the post.
LEMMA OnlyTheLoopWrites ==
  ASSUME IInv, Next, NEW p \in Posts, Exists(p), Exists(p)', stored'[p].words # stored[p].words,
         stored'[p].by = "tab"
  PROVE  <<p, stored[p].words>> \in seen
  <1>1. SUFFICES ASSUME stored' # stored  PROVE <<p, stored[p].words>> \in seen
    OBVIOUS
  <1>2. ASSUME NEW q \in Posts, NEW media \in BOOLEAN, Current(q, stored[q].revision),
               stored' = [stored EXCEPT ![q] = WithMedia(q, media)], UNCHANGED <<edits, seen>>
        PROVE  FALSE
    <2>1. stored'[q].words = stored[q].words /\ \A o \in Posts \ {q} : stored'[o] = stored[o]
      BY <1>2, Flags, MediaStored DEF Current
    <2> QED BY <2>1
  <1>3. ASSUME NEW q \in Posts, stored' = [stored EXCEPT ![q] = None]
        PROVE  FALSE
    <2>1. stored'[q] = None /\ \A o \in Posts \ {q} : stored'[o] = stored[o]
      BY <1>3, Flags
    <2> QED BY <2>1 DEF Exists
  <1>4. ASSUME saver.at = "write", WriteAccepted, Commit, UNCHANGED edits
        PROVE  <<p, stored[p].words>> \in seen
    BY <1>4, CommitStored
  <1>5. CASE Typing
    BY <1>1, <1>5 DEF Typing, Type, ApplySuggestion, Upload, RemoveFile, Add, server
  <1>6. CASE Choices
    <2>1. UNCHANGED stored
      BY <1>6 DEF Choices, Prepare, Adapt, Download, Back, Discard, AskToDelete, Keep, Delete, OpenPost,
                  Save, server
    <2> QED BY <1>1, <2>1
  <1>7. CASE Others
    <2>1. PICK q \in Posts : Elsewhere(q)
      BY <1>1, <1>7 DEF Others, Adapted
    <2>2. stored' # [stored EXCEPT ![q] = None]
      BY <1>3
    <2>3. Exists(q) /\ edits < MaxEdits /\ edits' = edits + 1
          /\ stored' = [stored EXCEPT ![q] =
                 Stored(@.revision + 1, Written(q, edits + 1), @.media, "other")]
      BY <2>1, <2>2 DEF Elsewhere
    <2>4. p = q
      BY <2>3, Flags
    <2>5. stored'[p].by = "other"
      BY <2>3, <2>4, Flags, Zenon DEF Stored
    <2> QED BY <2>5
  <1>8. CASE Saves
    <2>1. CASE TimerFires
      BY <1>1, <2>1 DEF TimerFires, Save, server
    <2>2. CASE WriteAnswered
      <3>1. saver.at = "write" /\ WriteAccepted /\ Commit
        BY <2>2 DEF WriteAnswered
      <3>2. UNCHANGED edits
        BY <2>2 DEF WriteAnswered, Saved, Continue
      <3> QED BY <1>4, <3>1, <3>2
    <2>3. CASE WriteFails
      BY <1>1, <1>4, <2>3 DEF WriteFails
    <2>4. CASE Confirm
      BY <1>1, <2>4 DEF Confirm, server
    <2>5. CASE UploadArrives
      BY <1>1, <2>5 DEF UploadArrives
    <2>6. CASE Inspected
      <3>1. PICK q \in Posts, media \in BOOLEAN : q = saver.target /\ media = TRUE
        BY <2>6, LoopFacts DEF Inspected, Saving
      <3>2. Current(q, saver.saved.revision) /\ stored' = [stored EXCEPT ![q] = WithMedia(q, media)]
        BY <1>1, <2>6, <3>1 DEF Inspected
      <3>3. UNCHANGED seen
        BY <2>6 DEF Inspected
      <3>4. UNCHANGED edits
        BY <2>6 DEF Inspected, Continue, Fails
      <3> QED BY <1>2, <3>2, <3>3, <3>4 DEF Current
    <2> QED BY <1>8, <2>1, <2>2, <2>3, <2>4, <2>5, <2>6 DEF Saves
  <1>9. CASE Answers
    <2>1. MediaRemoved \/ Removed
      BY <1>1, <1>9 DEF Answers, Opened, AdaptAnswered, Exported, MediaAnswered, RemoveAnswered,
                        TaskFails, PollFires, PollAnswered, server
    <2>2. UNCHANGED <<edits, seen>>
      BY <1>1, <1>9 DEF Answers, Opened, AdaptAnswered, Exported, MediaAnswered, RemoveAnswered,
                        TaskFails, PollFires, PollAnswered, server
    <2>3. PICK q \in Posts, media \in BOOLEAN : q = task.id /\ media = FALSE
      BY <2>1, TaskOf DEF MediaRemoved, Removed, Busy
    <2>4. CASE MediaRemoved
      BY <1>2, <2>2, <2>3, <2>4 DEF MediaRemoved, Current
    <2>5. CASE Removed
      BY <1>3, <2>3, <2>5 DEF Removed
    <2> QED BY <2>1, <2>4, <2>5
  <1> QED BY <1>5, <1>6, <1>7, <1>8, <1>9 DEF Next

(* A save never replaces words this tab has neither shown nor sent: the copy it
   sends the revision of was seen, and is what is stored at that revision. *)
THEOREM UnseenWordsStay == Spec => UnseenWordsSurvive
  <1>1. IInv /\ [Next]_vars =>
          [\A p \in Posts :
             (/\ Exists(p) /\ Exists(p)' /\ stored'[p].words # stored[p].words
              /\ stored'[p].by = "tab")
               => <<p, stored[p].words>> \in seen]_vars
    BY OnlyTheLoopWrites
  <1> QED BY <1>1, Invariant, PTL DEF Spec, UnseenWordsSurvive
===============================================================================
