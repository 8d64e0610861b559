---------------------------- MODULE OwnerAuthProofs ----------------------------
(* Proofs about OwnerAuth.

   The service awaits each statement, so what a request has read may be out of date
   when it is used.  The invariant says what is still true of it then: a row that is
   gone stays gone, and a session of which anything was found was live at some moment
   since the request came (RequestInv).  A studio that signs out holds a cookie whose
   session is no longer honoured (BrowserInv), and sessions are issued to forms that
   were sent, so none is issued twice (TriesInv).  The failures that a row counts are
   the last ones of its client, all within the window it opened (WindowInv). *)
EXTENDS OwnerAuth, FiniteSetTheorems, TLAPS

(* The records the actions write. *)
Login(c, right, now) == [op |-> "login", client |-> c, right |-> right, at |-> now]
Logout == [op |-> "logout"]
Calling(st, call) == [st EXCEPT !.call = call]
Entered(id) == [ui |-> "in", cookie |-> id, call |-> None]

Sent(id) == [Idle("sent") EXCEPT !.id = id]
Looked(q, row) == [q EXCEPT !.pc = "looked", !.row = row]
Known(q, live) == [q EXCEPT !.live = live]
Again(q) == [q EXCEPT !.round = @ + 1]
Touching(q, now, row) == [q EXCEPT !.pc = "touched", !.at = now, !.row = row]
Touched2(row, now) == [seen |-> now, revision |-> row.revision + 1]

LEMMA Limits ==
  /\ Lifetime \in Nat /\ MaxSessions \in Nat /\ Window \in Nat /\ Block \in Nat
  /\ MaxFailures \in Nat /\ MaxWindows \in Nat /\ MaxTries \in Nat /\ MaxTime \in Nat
  /\ MaxFailures # 0 /\ MaxSessions # 0 /\ Window # 0 /\ Block # 0 /\ Block >= Window
  BY LimitsAssumption, BoundsAssumption, BlockAssumption

LEMMA LoginFacts ==
  ASSUME NEW c \in Client, NEW right \in BOOLEAN, NEW now \in Time
  PROVE  /\ Login(c, right, now) \in Call /\ Login(c, right, now) # None
         /\ Login(c, right, now).op = "login" /\ Login(c, right, now).at = now
  <1>1. Login(c, right, now) \in Call
    BY Zenon DEF Login, Call
  <1>2. Login(c, right, now).op = "login" /\ Login(c, right, now).at = now
    BY Zenon DEF Login
  <1> QED BY <1>1, <1>2, NoneAssumption

LEMMA AnswerFacts ==
  ASSUME NEW status \in {200, 401, 429, 500, 503}, NEW id \in 0..MaxTries
  PROVE  /\ Answers(status, id) \in Call /\ Answers(status, id) # None
         /\ Answers(status, id).op = "answer" /\ Answers(status, id).status = status
         /\ Answers(status, id).id = id
  <1>1. Answers(status, id) \in Call
    <2>1. Answers(status, id) \in [op : {"answer"}, status : {200, 401, 429, 500, 503}, id : 0..MaxTries]
      BY SMT DEF Answers
    <2> QED BY <2>1, SMT DEF Call
  <1>2. /\ Answers(status, id).op = "answer" /\ Answers(status, id).status = status
        /\ Answers(status, id).id = id
    BY Zenon DEF Answers
  <1> QED BY <1>1, <1>2, NoneAssumption

LEMMA LogoutFacts == Logout \in Call /\ Logout # None /\ Logout.op = "logout"
  <1>1. Logout \in Call
    BY Zenon DEF Logout, Call
  <1>2. Logout.op = "logout"
    BY Zenon DEF Logout
  <1> QED BY <1>1, <1>2, NoneAssumption

LEMMA CallFacts ==
  ASSUME NEW call \in Call
  PROVE  /\ call.op = "login" =>
              call.client \in Client /\ call.right \in BOOLEAN /\ call.at \in Time
         /\ call.op = "answer" => call.id \in 0..MaxTries /\ call.status \in {200, 401, 429, 500, 503}
  <1>1. CASE call \in [op : {"login"}, client : Client, right : BOOLEAN, at : Time]
    <2>1. call.op = "login" /\ call.client \in Client /\ call.right \in BOOLEAN /\ call.at \in Time
      BY <1>1, Zenon
    <2> QED BY <2>1, Zenon
  <1>2. CASE call \in [op : {"answer"}, status : {200, 401, 429, 500, 503}, id : 0..MaxTries]
    <2>1. call.op = "answer" /\ call.id \in 0..MaxTries /\ call.status \in {200, 401, 429, 500, 503}
      BY <1>2, SMT
    <2> QED BY <2>1, SMT
  <1>3. CASE call \in [op : {"logout"}]
    <2>1. call.op = "logout"
      BY <1>3, Zenon
    <2> QED BY <2>1, Zenon
  <1>4. \/ call \in [op : {"login"}, client : Client, right : BOOLEAN, at : Time]
        \/ call \in [op : {"answer"}, status : {200, 401, 429, 500, 503}, id : 0..MaxTries]
        \/ call \in [op : {"logout"}]
    BY SMT DEF Call
  <1> QED BY <1>1, <1>2, <1>3, <1>4, SMT

LEMMA CallingFacts ==
  ASSUME NEW st \in Studio, NEW call \in Call \cup {None}
  PROVE  /\ Calling(st, call) \in Studio /\ Calling(st, call).call = call
         /\ Calling(st, call).ui = st.ui /\ Calling(st, call).cookie = st.cookie
  BY Zenon DEF Calling, Studio

LEMMA StudioFacts ==
  /\ SignedOut \in Studio /\ SignedOut.call = None /\ SignedOut.ui = "out" /\ SignedOut.cookie = 0
  /\ \A id \in 0..MaxTries :
       Entered(id) \in Studio /\ Entered(id).call = None /\ Entered(id).ui = "in" /\ Entered(id).cookie = id
  <1>1. 0 \in 0..MaxTries
    BY Limits
  <1> QED BY <1>1, Zenon DEF SignedOut, Entered, Studio

LEMMA IdleFacts ==
  ASSUME NEW pc \in {"idle", "sent", "granted", "refused"}
  PROVE  /\ Idle(pc) \in Resolution /\ Idle(pc).pc = pc /\ Idle(pc).id = 0 /\ Idle(pc).at = 0
         /\ Idle(pc).round = 1
  <1>1. 0 \in 0..MaxTries /\ 0 \in Time /\ 1 \in 1..3
    BY Limits DEF Time
  <1> QED BY <1>1, Zenon DEF Idle, Resolution

LEMMA SentFacts ==
  ASSUME NEW id \in 0..MaxTries
  PROVE  /\ Sent(id) \in Resolution /\ Sent(id).pc = "sent" /\ Sent(id).id = id /\ Sent(id).at = 0
         /\ Sent(id).round = 1
  BY IdleFacts, Zenon DEF Sent, Resolution

LEMMA LookedFacts ==
  ASSUME NEW q \in Resolution, NEW row \in Row \cup {None}
  PROVE  /\ Looked(q, row) \in Resolution /\ Looked(q, row).pc = "looked" /\ Looked(q, row).id = q.id
         /\ Looked(q, row).at = q.at /\ Looked(q, row).round = q.round /\ Looked(q, row).row = row
         /\ (Looked(q, row).live <=> q.live)
  BY Zenon DEF Looked, Resolution

LEMMA KnownFacts ==
  ASSUME NEW q \in Resolution, NEW live \in BOOLEAN
  PROVE  /\ Known(q, live) \in Resolution /\ Known(q, live).pc = q.pc /\ Known(q, live).id = q.id
         /\ Known(q, live).at = q.at /\ Known(q, live).round = q.round /\ Known(q, live).row = q.row
         /\ (Known(q, live).live <=> live)
  BY Zenon DEF Known, Resolution

LEMMA AgainFacts ==
  ASSUME NEW q \in Resolution, q.round < 3
  PROVE  /\ Again(q) \in Resolution /\ Again(q).pc = q.pc /\ Again(q).id = q.id
         /\ Again(q).at = q.at /\ Again(q).round = q.round + 1 /\ Again(q).row = q.row
         /\ (Again(q).live <=> q.live)
  <1>1. q.round + 1 \in 1..3
    BY DEF Resolution
  <1> QED BY <1>1, Zenon DEF Again, Resolution

LEMMA TouchingFacts ==
  ASSUME NEW q \in Resolution, NEW now \in Time, NEW row \in Row \cup {None}
  PROVE  /\ Touching(q, now, row) \in Resolution /\ Touching(q, now, row).pc = "touched"
         /\ Touching(q, now, row).id = q.id /\ Touching(q, now, row).at = now
         /\ Touching(q, now, row).round = q.round /\ Touching(q, now, row).row = row
         /\ (Touching(q, now, row).live <=> q.live)
  BY Zenon DEF Touching, Resolution

LEMMA RowFacts ==
  /\ \A now \in Time : [seen |-> now, revision |-> 1] \in Row
  /\ \A now \in Time, row \in Row : Touched2(row, now) \in Row
  <1>1. ASSUME NEW row \in Row  PROVE row.revision + 1 \in Nat \ {0}
    BY DEF Row
  <1> QED BY <1>1, SMT DEF Row, Touched2
--------------------------------------------------------------------------------
(* The inductive invariant. *)

Is(call, op) == call # None /\ call.op = op

(* A studio holds no cookie that was not issued; once it is signing out, its
   session is no longer honoured. *)
BrowserInv(b) ==
  LET st == browser[b] IN
  /\ st.cookie <= Len(token)
  /\ st.ui = "in" => st.cookie # 0
  /\ Is(st.call, "login") => st.call.at <= clock
  /\ Is(st.call, "answer") => st.call.id <= Len(token) /\ (st.call.status = 200 => st.call.id # 0)
  /\ Is(st.call, "logout") => st.cookie # 0 /\ ~Live(st.cookie)

(* What the middleware has read still says something about the session. *)
RequestInv(r) ==
  LET q == request[r] IN
  /\ q.id <= Len(token) /\ q.at <= clock
  /\ q.pc \in {"sent", "looked", "touched"} => q.id # 0
  /\ q.pc = "sent" => q.round = 1
  /\ q.pc = "looked" /\ q.row = None => session[q.id] = None
  /\ q.pc = "looked" /\ (q.row # None \/ q.round > 1) => q.live
  /\ q.pc = "touched" => q.live /\ q.round < 3

SessionInv ==
  /\ \A i \in 1..Len(token) : token[i] <= clock
  /\ \A s \in SessionId : session[s] # None => s <= Len(token)
  /\ Cardinality(Stored) <= MaxSessions

(* Each session was issued to a form that was sent. *)
LoginCalls == {b \in Browser : Is(browser[b].call, "login")}
TriesInv == IsFiniteSet(LoginCalls) /\ Len(token) + Cardinality(LoginCalls) <= tries

(* The failures a row counts are the last ones of its client and lie in one window;
   the row blocks as long as it was said to. *)
WindowInv(c) ==
  LET w == window[c]
      f == failures[c] IN
  /\ Len(f) <= MaxFailures
  /\ barred[c] > clock => w # None /\ w.until = barred[c]
  /\ w # None =>
       /\ w.count <= Len(f)
       /\ \A i \in 1..Len(f) : i > Len(f) - w.count => w.start <= f[i] /\ f[i] < w.start + Window
       /\ IF w.count = MaxFailures THEN w.until >= w.start + Block ELSE w.until = 0

Browsers == \A b \in Browser : BrowserInv(b)
Requests == \A r \in Request : RequestInv(r)
Windows == \A c \in Client : WindowInv(c)
IInv == TypeOK /\ Browsers /\ Requests /\ SessionInv /\ TriesInv /\ Windows
--------------------------------------------------------------------------------
(* What the actions do, in terms of these records. *)

Answered(b, status, id) ==
  /\ browser' \in [Browser -> Studio]
  /\ \A o \in Browser : o # b => browser'[o] = browser[o]
  /\ browser'[b].cookie = browser[b].cookie /\ browser'[b].ui = browser[b].ui
  /\ browser'[b].call = Answers(status, id)

LEMMA AwaitsIs ==
  ASSUME TypeOK, NEW b \in Browser, NEW call, Awaits(b, call)
  PROVE  browser' = [browser EXCEPT ![b] = Calling(browser[b], call)]
  BY Zenon DEF Awaits, Calling, TypeOK

LEMMA AnswerIs ==
  ASSUME TypeOK, NEW b \in Browser, NEW status \in {200, 401, 429, 500, 503}, NEW id \in 0..MaxTries,
         Awaits(b, Answers(status, id))
  PROVE  Answered(b, status, id)
  <1>1. PICK st : st = Calling(browser[b], Answers(status, id))
    OBVIOUS
  <1>2. browser' = [browser EXCEPT ![b] = st]
    BY <1>1, AwaitsIs
  <1>3. browser[b] \in Studio /\ Answers(status, id) \in Call
    BY AnswerFacts DEF TypeOK
  <1>4. /\ st \in Studio /\ st.cookie = browser[b].cookie /\ st.ui = browser[b].ui
        /\ st.call = Answers(status, id)
    BY <1>1, <1>3, CallingFacts
  <1> QED BY <1>2, <1>4 DEF TypeOK, Answered

LEMMA SignInIs ==
  ASSUME TypeOK, NEW b \in Browser, NEW c \in Client, NEW right \in BOOLEAN, SignIn(b, c, right)
  PROVE  \E call \in Call :
           /\ call = Answers(429, 0) \/ call = Login(c, right, clock)
           /\ browser' = [browser EXCEPT ![b] = Calling(browser[b], call)]
  <1>1. \/ Awaits(b, Answers(429, 0))
        \/ Awaits(b, Login(c, right, clock))
    BY Zenon DEF SignIn, Login
  <1>2. Answers(429, 0) \in Call /\ Login(c, right, clock) \in Call
    BY AnswerFacts, LoginFacts, Limits DEF TypeOK
  <1> QED BY <1>1, <1>2, AwaitsIs

LEMMA SignedInIs ==
  ASSUME TypeOK, NEW b \in Browser, SignedIn(b)
  PROVE  \/ browser' = [browser EXCEPT ![b] = Calling(browser[b], None)]
         \/ /\ browser[b].call.status = 200
            /\ browser' = [browser EXCEPT ![b] = Entered(browser[b].call.id)]
  BY Zenon DEF SignedIn, Calling, Entered, TypeOK

LEMMA SignOutIs ==
  ASSUME TypeOK, NEW b \in Browser, SignOut(b)
  PROVE  browser' = [browser EXCEPT ![b] = Calling(browser[b], Logout)]
  BY Zenon DEF SignOut, Awaits, Calling, Logout, TypeOK

LEMMA LeavesStudioIs ==
  ASSUME TypeOK, NEW b \in Browser, LeavesStudio(b)
  PROVE  \/ browser' = [browser EXCEPT ![b] = Calling(browser[b], None)]
         \/ browser' = [browser EXCEPT ![b] = SignedOut]
  BY Zenon DEF LeavesStudio, Calling, TypeOK

LEMMA SendIs ==
  ASSUME TypeOK, NEW r \in Request, NEW b \in Browser, Send(r, b)
  PROVE  request' = [request EXCEPT ![r] = Sent(browser[b].cookie)]
  BY Zenon DEF Send, Step, Sent, TypeOK

LEMMA ArriveIs ==
  ASSUME TypeOK, NEW r \in Request, Arrive(r)
  PROVE  \/ /\ Expired(request[r].id)
            /\ request' = [request EXCEPT ![r] = Idle("refused")]
         \/ /\ ~Expired(request[r].id)
            /\ \E live \in BOOLEAN :
                 /\ (live <=> session[request[r].id] # None)
                 /\ request' = [request EXCEPT ![r] =
                                  Known(Looked(request[r], session[request[r].id]), live)]
  <1>1. CASE Expired(request[r].id)
    BY <1>1, Zenon DEF Arrive, Step
  <1>2. CASE ~Expired(request[r].id)
    <2>1. PICK live \in BOOLEAN : live = Live(request[r].id)
      BY Zenon DEF Live
    <2>2. request' = [request EXCEPT ![r] = Known(Looked(request[r], session[request[r].id]), live)]
      BY <1>2, <2>1, Zenon DEF Arrive, Step, Known, Looked, Looking
    <2>3. (live <=> session[request[r].id] # None)
      BY <1>2, <2>1, Zenon DEF Live
    <2> QED BY <1>2, <2>2, <2>3, Zenon
  <1> QED BY <1>1, <1>2, Zenon

LEMMA TouchIs ==
  ASSUME TypeOK, NEW r \in Request, NEW now, Touch(r, now)
  PROVE  \/ /\ session[request[r].id] # None
            /\ session' = [session EXCEPT ![request[r].id] = Touched2(request[r].row, now)]
            /\ request' = [request EXCEPT ![r] =
                              Touching(request[r], now, Touched2(request[r].row, now))]
         \/ /\ session' = session
            /\ request' = [request EXCEPT ![r] = Touching(request[r], now, None)]
  BY Zenon DEF Touch, Step, Touching, Touched2, Swaps

LEMMA TouchedIs ==
  ASSUME TypeOK, NEW r \in Request, Touched(r)
  PROVE  \/ /\ request[r].row # None
            /\ request' = [request EXCEPT ![r] = Idle("granted")]
         \/ request' = [request EXCEPT ![r] = Again(Looked(request[r], session[request[r].id]))]
  BY Zenon DEF Touched, Step, Again, Looked, Looking
--------------------------------------------------------------------------------
(* Sessions and windows. *)

LEMMA LoginPending ==
  ASSUME TypeOK, TriesInv, NEW b \in LoginCalls
  PROVE  Len(token) + 1 \in SessionId /\ Len(token) + 1 <= tries
  <1>1. Cardinality(LoginCalls) \in Nat /\ Cardinality(LoginCalls) # 0
    BY FS_CardinalityType, FS_EmptySet DEF TriesInv
  <1>2. Len(token) \in Nat /\ tries \in 0..MaxTries
    BY DEF TypeOK
  <1> QED BY <1>1, <1>2, Limits DEF TriesInv, SessionId

LEMMA LastOfFacts ==
  ASSUME NEW f \in Seq(Time), Len(f) <= MaxFailures, NEW now \in Time
  PROVE  \E g \in Seq(Time) :
           /\ g = LastOf(Append(f, now))
           /\ Len(g) \in Nat /\ Len(g) <= MaxFailures /\ Len(g) # 0 /\ g[Len(g)] = now
           /\ \/ Len(g) = Len(f) + 1
              \/ Len(g) = Len(f) /\ Len(f) = MaxFailures
           /\ \A i \in 1..(Len(g) - 1) : g[i] = f[i + 1 + Len(f) - Len(g)]
  <1>0. PICK g : g = LastOf(Append(f, now))
    OBVIOUS
  <1>1. /\ Append(f, now) \in Seq(Time) /\ Len(Append(f, now)) = Len(f) + 1 /\ Len(f) \in Nat
        /\ \A i \in 1..Len(f) : Append(f, now)[i] = f[i]
        /\ Append(f, now)[Len(f) + 1] = now
    OBVIOUS
  <1>2. CASE Len(f) + 1 <= MaxFailures
    <2>1. g = Append(f, now)
      BY <1>0, <1>1, <1>2 DEF LastOf
    <2> QED BY <1>0, <1>1, <1>2, <2>1, Limits
  <1>3. CASE Len(f) = MaxFailures
    <2>1. g = Tail(Append(f, now))
      BY <1>0, <1>1, <1>3, Limits DEF LastOf
    <2>2. g \in Seq(Time) /\ Len(g) = Len(f) /\ \A i \in 1..Len(f) : g[i] = Append(f, now)[i + 1]
      BY <1>1, <2>1
    <2> QED BY <1>0, <1>1, <1>3, <2>2, Limits
  <1> QED BY <1>1, <1>2, <1>3, Limits

Kept(now) == [k \in Client |-> IF Over(window[k], now) THEN None ELSE window[k]]

(* A window that a step leaves alone, or forgets because it is over. *)
LEMMA WindowKept ==
  ASSUME TypeOK, NEW c \in Client, WindowInv(c), clock' \in Time, clock' >= clock,
         NEW now \in Time, now <= clock,
         \/ window'[c] = window[c]
         \/ Over(window[c], now) /\ window'[c] = None,
         failures'[c] = failures[c], barred'[c] = barred[c]
  PROVE  WindowInv(c)'
  <1>1. PICK w : w = window[c]
    OBVIOUS
  <1>2. /\ w \in FailureRow \cup {None} /\ clock \in Time /\ barred[c] \in Nat
    BY <1>1 DEF TypeOK
  <1>3. CASE window'[c] = w
    <2>1. barred[c] > clock' => barred[c] > clock
      BY <1>2 DEF Time
    <2> QED BY <1>1, <1>3, <2>1 DEF WindowInv
  <1>4. CASE Over(w, now) /\ window'[c] = None
    <2>1. w # None /\ w.until <= now /\ w.until \in Nat
      BY <1>2, <1>4 DEF Over, FailureRow
    <2>2. ~(barred[c] > clock)
      BY <1>1, <1>2, <2>1 DEF WindowInv, Time
    <2>3. ~(barred[c] > clock')
      BY <1>2, <2>2 DEF Time
    <2> QED BY <1>4, <2>3 DEF WindowInv
  <1> QED BY <1>1, <1>3, <1>4

(* One more failure is counted: w is the row of the client, or None if it has none
   that is not over. *)
LEMMA WindowCounted ==
  ASSUME TypeOK, NEW c \in Client, WindowInv(c), clock' = clock, NEW now \in Time, now <= clock,
         NEW w, w = IF Over(window[c], now) THEN None ELSE window[c],
         ~Blocked(w, now), NEW row, row = Counted(w, now), ~(now < row.start),
         window'[c] = row, failures'[c] = LastOf(Append(failures[c], now)),
         barred'[c] = IF row.until # 0 THEN row.until ELSE barred[c]
  PROVE  /\ WindowInv(c)' /\ row \in FailureRow /\ failures'[c] \in Seq(Time)
         /\ barred'[c] \in Nat
  <1>1. /\ window[c] \in FailureRow \cup {None} /\ clock \in Time /\ barred[c] \in Nat
        /\ failures[c] \in Seq(Time) /\ Len(failures[c]) \in Nat /\ Len(failures[c]) <= MaxFailures
    BY DEF TypeOK, WindowInv
  <1>2. PICK f : f = failures[c]
    OBVIOUS
  <1>3. PICK g \in Seq(Time) :
           /\ g = LastOf(Append(f, now))
           /\ Len(g) \in Nat /\ Len(g) <= MaxFailures /\ Len(g) # 0 /\ g[Len(g)] = now
           /\ \/ Len(g) = Len(f) + 1
              \/ Len(g) = Len(f) /\ Len(f) = MaxFailures
           /\ \A i \in 1..(Len(g) - 1) : g[i] = f[i + 1 + Len(f) - Len(g)]
    BY <1>1, <1>2, LastOfFacts
  <1>4. /\ g \in Seq(Time) /\ Len(g) \in Nat /\ Len(g) <= MaxFailures /\ Len(g) # 0 /\ g[Len(g)] = now
        /\ \/ Len(g) = Len(f) + 1
           \/ Len(g) = Len(f) /\ Len(f) = MaxFailures
        /\ \A i \in 1..(Len(g) - 1) : g[i] = f[i + 1 + Len(f) - Len(g)]
    BY <1>3
  <1>5. now \in Nat /\ clock \in Nat
    BY <1>1 DEF Time
  <1>6. /\ row.start = (IF w = None THEN now ELSE w.start)
        /\ row.count = (IF w = None THEN 1 ELSE w.count + 1)
        /\ row.until = (IF row.count >= MaxFailures THEN now + Block ELSE 0)
    BY SMT DEF Counted
  <1>7. /\ row.start \in Time /\ row.count \in 1..MaxFailures /\ row.start <= now /\ now < row.start + Window
        /\ row.count <= Len(g)
        /\ \A i \in 1..Len(g) : i > Len(g) - row.count => row.start <= g[i] /\ g[i] < row.start + Window
    <2>1. CASE w = None
      <3>1. row.start = now /\ row.count = 1
        BY <1>6, <2>1
      <3>2. \A i \in 1..Len(g) : i > Len(g) - 1 => i = Len(g)
        BY <1>4
      <3> QED BY <1>4, <1>5, <3>1, <3>2, Limits
    <2>2. CASE w # None
      <3>1. w = window[c] /\ w \in FailureRow /\ ~Over(w, now)
        BY <1>1, <2>2
      <3>2. w.start \in Time /\ w.count \in 1..MaxFailures /\ w.until \in Nat /\ w.start \in Nat
        BY <3>1 DEF FailureRow, Time
      <3>3. row.start = w.start /\ row.count = w.count + 1
        BY <1>6, <2>2
      <3>4. w.until <= now /\ now < w.start + Window
        BY <1>5, <2>2, <3>1, <3>2, Limits DEF Blocked, Over
      <3>5. w.count # MaxFailures
        <4>1. w.count = MaxFailures => w.until >= w.start + Block
          BY <2>2, <3>1 DEF WindowInv
        <4> QED BY <1>5, <3>2, <3>4, <4>1, Limits
      <3>6. /\ w.count <= Len(f)
            /\ \A i \in 1..Len(f) : i > Len(f) - w.count => w.start <= f[i] /\ f[i] < w.start + Window
        BY <1>2, <2>2, <3>1 DEF WindowInv
      <3>7. Len(f) \in Nat
        BY <1>1, <1>2
      <3>8. row.count <= Len(g)
        BY <1>4, <3>2, <3>3, <3>5, <3>6, <3>7, Limits
      <3>9. ASSUME NEW i \in 1..Len(g), i > Len(g) - row.count
            PROVE  row.start <= g[i] /\ g[i] < row.start + Window
        <4>1. CASE i = Len(g)
          BY <1>4, <1>5, <3>2, <3>3, <3>4, <4>1
        <4>2. CASE i # Len(g)
          <5>1. i \in 1..(Len(g) - 1)
            BY <1>4, <4>2
          <5>2. PICK j : j = i + 1 + Len(f) - Len(g)
            OBVIOUS
          <5>3. j \in 1..Len(f) /\ j > Len(f) - w.count
            <6>1. w.count \in Nat /\ i \in Int /\ 1 <= i /\ i <= Len(g) - 1 /\ i > Len(g) - (w.count + 1)
              BY <1>4, <3>2, <3>3, <3>9, <5>1, Limits
            <6>2. Len(g) = Len(f) + 1 \/ Len(g) = Len(f)
              BY <1>4
            <6>3. j \in Int /\ 1 <= j /\ j <= Len(f) /\ j > Len(f) - w.count
              BY <1>4, <3>7, <5>2, <6>1, <6>2
            <6> QED BY <3>7, <6>3
          <5>4. g[i] = f[j]
            BY <1>4, <5>1, <5>2
          <5> QED BY <3>3, <3>6, <5>3, <5>4
        <4> QED BY <4>1, <4>2
      <3>10. row.count \in 1..MaxFailures
        BY <3>2, <3>3, <3>5, Limits
      <3>11. row.start <= now /\ now < row.start + Window
        BY <1>5, <3>2, <3>3, <3>4
      <3> QED BY <3>2, <3>3, <3>8, <3>9, <3>10, <3>11
    <2> QED BY <2>1, <2>2
  <1>8. /\ row.until \in Nat
        /\ IF row.count = MaxFailures THEN row.until >= row.start + Block ELSE row.until = 0
    <2>1. row.start \in Nat /\ row.count \in Nat
      BY <1>7 DEF Time
    <2>2. CASE row.count >= MaxFailures
      <3>1. row.count = MaxFailures /\ row.until = now + Block
        BY <1>6, <1>7, <2>1, <2>2, Limits
      <3> QED BY <1>5, <1>7, <2>1, <3>1, Limits
    <2>3. CASE ~(row.count >= MaxFailures)
      BY <1>6, <2>1, <2>3, Limits
    <2> QED BY <2>2, <2>3
  <1>9. row \in FailureRow
    <2>1. row = [start |-> row.start, count |-> row.count, until |-> row.until]
      BY Zenon DEF Counted
    <2> QED BY <1>7, <1>8, <2>1, Zenon DEF FailureRow
  <1>10. barred'[c] > clock' => barred'[c] = row.until
    <2>1. CASE row.until = 0
      <3>1. ~(barred[c] > clock)
        <4>1. SUFFICES ASSUME barred[c] > clock  PROVE FALSE
          OBVIOUS
        <4>2. window[c] # None /\ window[c].until = barred[c] /\ window[c] \in FailureRow
          BY <1>1, <4>1 DEF WindowInv
        <4>3. w = window[c]
          BY <1>1, <1>5, <4>1, <4>2 DEF Over
        <4> QED BY <1>1, <1>5, <4>1, <4>2, <4>3 DEF Blocked
      <3> QED BY <2>1, <3>1
    <2>2. CASE row.until # 0
      BY <2>2
    <2> QED BY <2>1, <2>2
  <1>11. row # None
    BY <1>9, NoneAssumption
  <1>12. WindowInv(c)'
    BY <1>2, <1>3, <1>4, <1>7, <1>8, <1>10, <1>11 DEF WindowInv
  <1>13. barred'[c] \in Nat
    BY <1>1, <1>8
  <1> QED BY <1>2, <1>3, <1>4, <1>9, <1>12, <1>13
--------------------------------------------------------------------------------
(* What every step leaves true. *)

(* Time goes on, sessions that were issued keep their time of issue, and those that
   are gone stay gone. *)
Onward ==
  /\ clock \in Time /\ clock' \in Time /\ clock' >= clock
  /\ Len(token) \in Nat /\ Len(token') \in Nat /\ Len(token') >= Len(token)
  /\ \A s \in 1..Len(token) :
       /\ token'[s] = token[s] /\ token[s] \in Time
       /\ session[s] = None => session'[s] = None

LEMMA GoneStays ==
  ASSUME Onward, NEW s \in 1..Len(token), ~Live(s)
  PROVE  ~Live(s)'
  <1>1. CASE session[s] = None
    BY <1>1 DEF Onward, Live
  <1>2. CASE Expired(s)
    <2>1. clock >= token[s] + Lifetime /\ token'[s] = token[s] /\ clock' >= clock
      BY <1>2 DEF Onward, Expired, ExpiresAt
    <2>2. clock \in Nat /\ clock' \in Nat /\ token[s] \in Nat
      BY DEF Onward, Time
    <2>3. clock' >= token'[s] + Lifetime
      BY <2>1, <2>2, Limits
    <2> QED BY <2>3 DEF Live, Expired, ExpiresAt
  <1> QED BY <1>1, <1>2 DEF Live

LEMMA BrowserKept ==
  ASSUME TypeOK, Onward, NEW b \in Browser, BrowserInv(b), browser'[b] = browser[b]
  PROVE  BrowserInv(b)'
  <1>1. PICK st \in Studio : st = browser[b]
    BY DEF TypeOK
  <1>2. st.cookie \in Nat /\ st.call \in Call \cup {None}
    BY <1>1, Limits DEF Studio
  <1>3. /\ Is(st.call, "login") => st.call.at \in Nat
        /\ Is(st.call, "answer") => st.call.id \in Nat
    BY <1>2, CallFacts, Limits DEF Is, Time
  <1>4. clock \in Nat /\ clock' \in Nat /\ clock <= clock' /\ Len(token) <= Len(token')
        /\ Len(token) \in Nat /\ Len(token') \in Nat
    BY DEF Onward, Time
  <1>5. ASSUME Is(st.call, "logout")  PROVE st.cookie # 0 /\ ~Live(st.cookie)'
    <2>1. st.cookie # 0 /\ ~Live(st.cookie) /\ st.cookie <= Len(token)
      BY <1>1, <1>5 DEF BrowserInv
    <2> QED BY <1>2, <1>4, <2>1, GoneStays
  <1>6. st.cookie <= Len(token') /\ (st.ui = "in" => st.cookie # 0)
    BY <1>1, <1>2, <1>4 DEF BrowserInv
  <1>7. Is(st.call, "login") => st.call.at <= clock'
    BY <1>1, <1>3, <1>4 DEF BrowserInv
  <1>8. Is(st.call, "answer") => st.call.id <= Len(token') /\ (st.call.status = 200 => st.call.id # 0)
    BY <1>1, <1>3, <1>4 DEF BrowserInv
  <1> QED BY <1>1, <1>5, <1>6, <1>7, <1>8 DEF BrowserInv

LEMMA RequestKept ==
  ASSUME TypeOK, Onward, NEW r \in Request, RequestInv(r), request'[r] = request[r]
  PROVE  RequestInv(r)'
  <1>1. PICK q \in Resolution : q = request[r]
    BY DEF TypeOK
  <1>2. q.id \in Nat /\ q.at \in Nat
    BY <1>1, Limits DEF Resolution, Time
  <1>3. clock \in Nat /\ clock' \in Nat /\ clock <= clock' /\ Len(token) <= Len(token')
        /\ Len(token) \in Nat /\ Len(token') \in Nat
    BY DEF Onward, Time
  <1>4. q.id <= Len(token') /\ q.at <= clock'
    BY <1>1, <1>2, <1>3 DEF RequestInv
  <1>5. ASSUME q.pc = "looked", q.row = None  PROVE session'[q.id] = None
    <2>1. q.id <= Len(token) /\ q.id # 0 /\ session[q.id] = None
      BY <1>1, <1>5 DEF RequestInv
    <2> QED BY <1>2, <1>3, <2>1 DEF Onward
  <1> QED BY <1>1, <1>4, <1>5 DEF RequestInv

LEMMA StoredFinite == IsFiniteSet(Stored) /\ Cardinality(Stored) \in Nat
  <1>1. IsFiniteSet(SessionId)
    BY FS_Interval, Limits DEF SessionId
  <1>2. Stored \in SUBSET SessionId
    BY DEF Stored
  <1> QED BY <1>1, <1>2, FS_Subset, FS_CardinalityType

(* No session more is stored. *)
LEMMA SessionKept ==
  ASSUME TypeOK, Onward, SessionInv, UNCHANGED token, Stored' \subseteq Stored
  PROVE  SessionInv'
  <1>1. Cardinality(Stored') <= Cardinality(Stored) /\ Cardinality(Stored') \in Nat /\ Cardinality(Stored) \in Nat
    BY StoredFinite, FS_Subset, FS_CardinalityType
  <1>2. Cardinality(Stored') <= MaxSessions
    BY <1>1, Limits DEF SessionInv
  <1>3. \A s \in SessionId : session'[s] # None => s <= Len(token')
    BY DEF SessionInv, Stored
  <1>4. ASSUME NEW i \in 1..Len(token')  PROVE token'[i] <= clock'
    <2>1. token[i] <= clock /\ token[i] \in Nat /\ clock \in Nat /\ clock' \in Nat /\ clock <= clock'
      BY <1>4 DEF SessionInv, Onward, Time
    <2> QED BY <2>1
  <1> QED BY <1>2, <1>3, <1>4 DEF SessionInv

LEMMA TriesKept ==
  ASSUME TypeOK, TriesInv, LoginCalls' \subseteq LoginCalls, UNCHANGED token, UNCHANGED tries
  PROVE  TriesInv'
  <1>1. /\ IsFiniteSet(LoginCalls') /\ Cardinality(LoginCalls') <= Cardinality(LoginCalls)
        /\ Cardinality(LoginCalls') \in Nat /\ Cardinality(LoginCalls) \in Nat
    BY FS_Subset, FS_CardinalityType DEF TriesInv
  <1>2. Len(token) \in Nat /\ tries \in Nat
    BY Limits DEF TypeOK
  <1> QED BY <1>1, <1>2 DEF TriesInv

LEMMA StillOnward ==
  ASSUME TypeOK, UNCHANGED clock, UNCHANGED token,
         \A s \in 1..Len(token) : session[s] = None => session'[s] = None
  PROVE  Onward
  <1>1. clock \in Time /\ Len(token) \in Nat /\ \A s \in 1..Len(token) : token[s] \in Time
    BY DEF TypeOK
  <1>2. clock >= clock /\ Len(token) >= Len(token)
    BY <1>1 DEF Time
  <1> QED BY <1>1, <1>2 DEF Onward

(* A step of the middleware. *)
LEMMA RequestTurns ==
  ASSUME IInv, NEW r \in Request, NEW q \in Resolution, request' = [request EXCEPT ![r] = q],
         session' \in [SessionId -> Row \cup {None}], Stored' \subseteq Stored,
         UNCHANGED <<clock, token, window, browser, tries, failures, barred>>,
         RequestInv(r)'
  PROVE  IInv' /\ Onward
  <1>1. TypeOK /\ Browsers /\ Requests /\ SessionInv /\ TriesInv /\ Windows
    BY DEF IInv
  <1>2. TypeOK'
    BY <1>1 DEF TypeOK
  <1>3. ASSUME NEW s \in 1..Len(token), session[s] = None  PROVE session'[s] = None
    <2>1. s \in SessionId
      <3>1. Len(token) \in Nat /\ Len(token) <= MaxTries
        BY <1>1 DEF TypeOK
      <3> QED BY <3>1, Limits DEF SessionId
    <2> QED BY <1>3, <2>1 DEF Stored
  <1>4. Onward
    BY <1>1, <1>3, StillOnward
  <1>5. Browsers'
    BY <1>1, <1>4, BrowserKept DEF Browsers
  <1>6. Requests'
    <2>1. ASSUME NEW o \in Request, o # r  PROVE RequestInv(o)'
      <3>1. request'[o] = request[o]
        BY <1>1, <2>1 DEF TypeOK
      <3> QED BY <1>1, <1>4, <3>1, RequestKept DEF Requests
    <2> QED BY <2>1 DEF Requests
  <1>7. SessionInv'
    BY <1>1, <1>4, SessionKept
  <1>8. TriesInv'
    BY <1>1, TriesKept DEF LoginCalls
  <1>9. Windows'
    BY <1>1 DEF Windows, WindowInv
  <1> QED BY <1>2, <1>4, <1>5, <1>6, <1>7, <1>8, <1>9 DEF IInv

(* A step of a studio that asks for no session. *)
LEMMA BrowserTurns ==
  ASSUME IInv, NEW b \in Browser, NEW st \in Studio, browser' = [browser EXCEPT ![b] = st],
         session' \in [SessionId -> Row \cup {None}], Stored' \subseteq Stored,
         UNCHANGED <<clock, token, window, request, tries, failures, barred>>,
         ~Is(st.call, "login"), BrowserInv(b)'
  PROVE  IInv' /\ Onward
  <1>1. TypeOK /\ Browsers /\ Requests /\ SessionInv /\ TriesInv /\ Windows
    BY DEF IInv
  <1>2. TypeOK'
    BY <1>1 DEF TypeOK
  <1>3. ASSUME NEW s \in 1..Len(token), session[s] = None  PROVE session'[s] = None
    <2>1. s \in SessionId
      <3>1. Len(token) \in Nat /\ Len(token) <= MaxTries
        BY <1>1 DEF TypeOK
      <3> QED BY <3>1, Limits DEF SessionId
    <2> QED BY <1>3, <2>1 DEF Stored
  <1>4. Onward
    BY <1>1, <1>3, StillOnward
  <1>5. browser'[b] = st /\ \A o \in Browser : o # b => browser'[o] = browser[o]
    BY <1>1 DEF TypeOK
  <1>6. Browsers'
    BY <1>1, <1>4, <1>5, BrowserKept DEF Browsers
  <1>7. Requests'
    BY <1>1, <1>4, RequestKept DEF Requests
  <1>8. SessionInv'
    BY <1>1, <1>4, SessionKept
  <1>9. TriesInv'
    <2>1. LoginCalls' \subseteq LoginCalls
      BY <1>5 DEF LoginCalls
    <2> QED BY <1>1, <2>1, TriesKept
  <1>10. Windows'
    BY <1>1 DEF Windows, WindowInv
  <1> QED BY <1>2, <1>4, <1>6, <1>7, <1>8, <1>9, <1>10 DEF IInv
--------------------------------------------------------------------------------
(* What a step may do to a request, to a session, and to a studio. *)

Truthful(r) ==
  /\ request[r].pc # "granted" /\ request'[r].pc = "granted" => request[r].live
  /\ request[r].pc # "refused" /\ request'[r].pc = "refused" => ~Live(request[r].id)

EndsDuly(s) ==
  session[s] # None /\ session'[s] = None =>
    \/ Expired(s)
    \/ \E b \in Browser : browser[b].cookie = s /\ browser'[b].call # browser[b].call

LeavesDuly(b) == browser[b].ui = "in" /\ browser'[b].ui = "out" => ~Live(browser[b].cookie)

Sound ==
  /\ IInv' /\ Onward
  /\ \A r \in Request : Truthful(r)
  /\ \A s \in 1..Len(token) : EndsDuly(s)
  /\ \A b \in Browser : LeavesDuly(b)

LEMMA TokenFacts ==
  ASSUME IInv
  PROVE  /\ Len(token) \in Nat /\ Len(token) <= MaxTries /\ clock \in Nat
         /\ \A s \in 1..Len(token) : s \in SessionId /\ token[s] \in Nat
  <1>1. Len(token) \in Nat /\ Len(token) <= MaxTries /\ clock \in Nat
    BY DEF IInv, TypeOK, Time
  <1>2. \A s \in 1..Len(token) : s \in SessionId
    BY <1>1, Limits DEF SessionId
  <1>3. \A s \in 1..Len(token) : token[s] \in Time
    BY DEF IInv, TypeOK
  <1>4. \A s \in 1..Len(token) : token[s] \in Nat
    BY <1>3 DEF Time
  <1> QED BY <1>1, <1>2, <1>4

(* A request that is on its way is about a session that was issued. *)
LEMMA RequestFacts ==
  ASSUME IInv, NEW r \in Request
  PROVE  /\ request[r] \in Resolution /\ RequestInv(r)
         /\ request[r].id \in 0..MaxTries /\ request[r].at \in Time /\ request[r].at <= clock
         /\ request[r].pc \in {"sent", "looked", "touched"} =>
              request[r].id \in 1..Len(token) /\ request[r].id \in SessionId
  <1>1. request[r] \in Resolution /\ RequestInv(r)
    BY DEF IInv, TypeOK, Requests
  <1>2. request[r].id \in 0..MaxTries /\ request[r].at \in Time
    BY <1>1 DEF Resolution
  <1> QED BY <1>1, <1>2, TokenFacts, Limits DEF RequestInv

LEMMA RequestSound ==
  ASSUME IInv, NEW r \in Request, NEW q \in Resolution, request' = [request EXCEPT ![r] = q],
         session' \in [SessionId -> Row \cup {None}], Stored' \subseteq Stored,
         UNCHANGED <<clock, token, window, browser, tries, failures, barred>>,
         RequestInv(r)', Truthful(r), \A s \in 1..Len(token) : EndsDuly(s)
  PROVE  Sound
  <1>1. IInv' /\ Onward
    BY RequestTurns
  <1>2. ASSUME NEW o \in Request, o # r  PROVE Truthful(o)
    BY <1>2 DEF IInv, TypeOK, Truthful
  <1> QED BY <1>1, <1>2 DEF Sound, LeavesDuly

LEMMA SendStep ==
  ASSUME IInv, NEW r \in Request, NEW b \in Browser, Send(r, b)
  PROVE  Sound
  <1>1. /\ UNCHANGED <<clock, token, session, window, browser, tries, failures, barred>>
        /\ browser[b].cookie # 0 /\ request' = [request EXCEPT ![r] = Sent(browser[b].cookie)]
    BY SendIs DEF Send, IInv
  <1>2. browser[b].cookie \in 0..MaxTries /\ browser[b].cookie <= Len(token)
    BY DEF IInv, TypeOK, Studio, Browsers, BrowserInv
  <1>3. PICK q \in Resolution :
          q = Sent(browser[b].cookie) /\ q.pc = "sent" /\ q.id = browser[b].cookie /\ q.at = 0 /\ q.round = 1
    BY <1>2, SentFacts
  <1>4. request'[r] = q /\ request' = [request EXCEPT ![r] = q]
    BY <1>1, <1>3 DEF IInv, TypeOK
  <1>5. RequestInv(r)'
    BY <1>1, <1>2, <1>3, <1>4, TokenFacts DEF RequestInv
  <1>6. Truthful(r) /\ \A s \in 1..Len(token) : EndsDuly(s)
    BY <1>1, <1>3, <1>4 DEF Truthful, EndsDuly
  <1>7. session' \in [SessionId -> Row \cup {None}] /\ Stored' \subseteq Stored
    BY <1>1 DEF IInv, TypeOK, Stored
  <1> QED BY <1>1, <1>4, <1>5, <1>6, <1>7, RequestSound

(* A verdict, or another reading, without a change of the sessions. *)
Honest(q, r) ==
  /\ q.id <= Len(token) /\ q.at <= clock /\ q.pc # "sent"
  /\ q.pc \in {"looked", "touched"} => q.id # 0
  /\ q.pc = "looked" /\ q.row = None => session[q.id] = None
  /\ q.pc = "looked" /\ (q.row # None \/ q.round > 1) => q.live
  /\ q.pc = "touched" => q.live /\ q.round < 3
  /\ q.pc = "granted" => request[r].live
  /\ q.pc = "refused" => ~Live(request[r].id)

LEMMA VerdictSound ==
  ASSUME IInv, NEW r \in Request, NEW q \in Resolution, request' = [request EXCEPT ![r] = q],
         UNCHANGED <<clock, token, session, window, browser, tries, failures, barred>>,
         Honest(q, r)
  PROVE  Sound
  <1>1. request'[r] = q
    BY DEF IInv, TypeOK
  <1>2. RequestInv(r)'
    BY <1>1 DEF RequestInv, Honest
  <1>3. Truthful(r) /\ \A s \in 1..Len(token) : EndsDuly(s)
    BY <1>1 DEF Truthful, EndsDuly, Honest
  <1>4. session' \in [SessionId -> Row \cup {None}] /\ Stored' \subseteq Stored
    BY DEF IInv, TypeOK, Stored
  <1> QED BY <1>2, <1>3, <1>4, RequestSound

LEMMA GrantSound ==
  ASSUME IInv, NEW r \in Request, request' = [request EXCEPT ![r] = Idle("granted")],
         UNCHANGED <<clock, token, session, window, browser, tries, failures, barred>>,
         request[r].live
  PROVE  Sound
  <1>1. PICK q \in Resolution : q = Idle("granted") /\ q.pc = "granted" /\ q.id = 0 /\ q.at = 0
    BY IdleFacts
  <1>2. request' = [request EXCEPT ![r] = q]
    BY <1>1
  <1>3. Honest(q, r)
    BY <1>1, TokenFacts DEF Honest
  <1> QED BY <1>2, <1>3, VerdictSound

LEMMA RefuseSound ==
  ASSUME IInv, NEW r \in Request, request' = [request EXCEPT ![r] = Idle("refused")],
         UNCHANGED <<clock, token, session, window, browser, tries, failures, barred>>,
         ~Live(request[r].id)
  PROVE  Sound
  <1>1. PICK q \in Resolution : q = Idle("refused") /\ q.pc = "refused" /\ q.id = 0 /\ q.at = 0
    BY IdleFacts
  <1>2. request' = [request EXCEPT ![r] = q]
    BY <1>1
  <1>3. Honest(q, r)
    BY <1>1, TokenFacts DEF Honest
  <1> QED BY <1>2, <1>3, VerdictSound

LEMMA ArriveStep ==
  ASSUME IInv, NEW r \in Request, Arrive(r)
  PROVE  Sound
  <1>1. /\ UNCHANGED <<clock, token, session, window, browser, tries, failures, barred>>
        /\ request[r].pc = "sent"
    BY DEF Arrive
  <1>2. PICK s : s = request[r].id
    OBVIOUS
  <1>3. s \in SessionId /\ s \in 1..Len(token) /\ session[s] \in Row \cup {None}
    BY <1>1, <1>2, RequestFacts DEF IInv, TypeOK
  <1>4. CASE Expired(s) /\ request' = [request EXCEPT ![r] = Idle("refused")]
    BY <1>1, <1>2, <1>4, RefuseSound DEF Live
  <1>5. ASSUME NEW live \in BOOLEAN, (live <=> session[s] # None),
               request' = [request EXCEPT ![r] = Known(Looked(request[r], session[s]), live)]
        PROVE  Sound
    <2>1. PICK k \in Resolution : /\ k = Looked(request[r], session[s]) /\ k.pc = "looked" /\ k.id = s
                                  /\ k.at = request[r].at /\ k.row = session[s]
                                  /\ k.round = request[r].round
      BY <1>2, <1>3, LookedFacts, RequestFacts
    <2>2. PICK q \in Resolution : /\ q = Known(k, live) /\ q.pc = k.pc /\ q.id = k.id /\ q.at = k.at
                                  /\ q.row = k.row /\ q.round = k.round /\ (q.live <=> live)
      BY KnownFacts, Zenon
    <2>3. request' = [request EXCEPT ![r] = q]
      BY <1>5, <2>1, <2>2
    <2>4. request[r].at <= clock /\ s <= Len(token) /\ s # 0
      BY <1>3, RequestFacts, TokenFacts
    <2>5. q.row # None => q.live
      BY <1>5, <2>1, <2>2
    <2>6. q.round = 1
      BY <1>1, <2>1, <2>2, RequestFacts DEF RequestInv
    <2>7. q.at <= clock /\ q.id = s /\ q.pc = "looked"
      BY <2>1, <2>2, <2>4
    <2>8. q.row = None => session[q.id] = None
      BY <2>1, <2>2
    <2>9. Honest(q, r)
      BY <2>4, <2>5, <2>6, <2>7, <2>8 DEF Honest
    <2> QED BY <1>1, <2>3, <2>9, VerdictSound
  <1> QED BY <1>2, <1>4, <1>5, ArriveIs DEF IInv

LEMMA ConsiderStep ==
  ASSUME IInv, NEW r \in Request, Consider(r)
  PROVE  Sound
  <1>1. /\ UNCHANGED <<clock, token, window, browser, tries, failures, barred>>
        /\ request[r].pc = "looked"
    BY Zenon DEF Consider
  <1>2. PICK s : s = request[r].id
    OBVIOUS
  <1>3. PICK row : row = request[r].row
    OBVIOUS
  <1>4. PICK now : now = IF request[r].round = 1 THEN clock ELSE request[r].at
    OBVIOUS
  <1>5. /\ s \in SessionId /\ s \in 1..Len(token) /\ row \in Row \cup {None} /\ RequestInv(r)
        /\ now \in Time /\ now <= clock /\ request[r] \in Resolution
    <2>1. clock \in Time /\ clock <= clock
      BY DEF IInv, TypeOK, Time
    <2> QED BY <1>1, <1>2, <1>3, <1>4, <2>1, RequestFacts DEF Resolution
  <1>6. session \in [SessionId -> Row \cup {None}] /\ request \in [Request -> Resolution]
    BY DEF IInv, TypeOK
  <1>7. \/ row = None /\ Step(r, Idle("refused")) /\ UNCHANGED session
        \/ /\ row # None /\ now >= ExpiresAt(s) /\ Step(r, Idle("refused"))
           /\ \/ session' = [session EXCEPT ![s] = None]
              \/ UNCHANGED session
        \/ row # None /\ Step(r, Idle("granted")) /\ UNCHANGED session
        \/ row # None /\ request[r].round < 3 /\ Touch(r, now)
    BY <1>2, <1>3, <1>4, Zenon DEF Consider
  <1>8. CASE row = None /\ Step(r, Idle("refused")) /\ UNCHANGED session
    <2>1. ~Live(s)
      BY <1>1, <1>2, <1>3, <1>5, <1>8 DEF RequestInv, Live
    <2> QED BY <1>1, <1>2, <1>8, <2>1, RefuseSound DEF Step
  <1>9. CASE /\ row # None /\ now >= ExpiresAt(s) /\ Step(r, Idle("refused"))
             /\ \/ session' = [session EXCEPT ![s] = None]
                \/ UNCHANGED session
    <2>1. Expired(s)
      <3>1. now \in Nat /\ clock \in Nat /\ token[s] \in Nat /\ now >= token[s] + Lifetime
        BY <1>5, <1>9, TokenFacts DEF ExpiresAt, Time
      <3>2. clock >= token[s] + Lifetime
        BY <1>5, <3>1, Limits
      <3> QED BY <3>2 DEF Expired, ExpiresAt
    <2>2. PICK q \in Resolution : q = Idle("refused") /\ q.pc = "refused" /\ q.id = 0 /\ q.at = 0
      BY IdleFacts
    <2>3. request' = [request EXCEPT ![r] = q] /\ request'[r] = q
      BY <1>6, <1>9, <2>2 DEF Step
    <2>4. RequestInv(r)' /\ Truthful(r)
      BY <1>1, <1>2, <2>1, <2>2, <2>3, TokenFacts DEF RequestInv, Truthful, Live
    <2>5. session' \in [SessionId -> Row \cup {None}] /\ Stored' \subseteq Stored
      BY <1>5, <1>6, <1>9 DEF Stored
    <2>6. \A t \in 1..Len(token) : EndsDuly(t)
      BY <1>5, <1>6, <1>9, <2>1, TokenFacts DEF EndsDuly
    <2> QED BY <1>1, <2>3, <2>4, <2>5, <2>6, RequestSound
  <1>10. CASE row # None /\ Step(r, Idle("granted")) /\ UNCHANGED session
    <2>1. request[r].live
      BY <1>1, <1>3, <1>5, <1>10 DEF RequestInv
    <2> QED BY <1>1, <1>10, <2>1, GrantSound DEF Step
  <1>11. CASE row # None /\ request[r].round < 3 /\ Touch(r, now)
    <2>1. request[r].live
      BY <1>1, <1>3, <1>5, <1>11 DEF RequestInv
    <2>2. Touched2(row, now) \in Row /\ Touched2(row, now) # None
      BY <1>5, <1>11, RowFacts, NoneAssumption
    <2>3. PICK new \in Row \cup {None} :
             /\ request' = [request EXCEPT ![r] = Touching(request[r], now, new)]
             /\ \/ session[s] # None /\ new # None /\ session' = [session EXCEPT ![s] = new]
                \/ session' = session
      <3>1. TypeOK
        BY DEF IInv
      <3> QED BY <1>2, <1>3, <1>11, <2>2, <3>1, TouchIs
    <2>4. PICK q \in Resolution : /\ q = Touching(request[r], now, new) /\ q.pc = "touched" /\ q.id = s
                                  /\ q.at = now /\ q.round = request[r].round /\ (q.live <=> request[r].live)
      BY <1>2, <1>5, TouchingFacts
    <2>5. request' = [request EXCEPT ![r] = q] /\ request'[r] = q
      BY <1>6, <2>3, <2>4
    <2>6. RequestInv(r)'
      BY <1>1, <1>5, <1>11, <2>1, <2>4, <2>5, TokenFacts DEF RequestInv
    <2>7. session' \in [SessionId -> Row \cup {None}] /\ Stored' \subseteq Stored
      BY <1>5, <1>6, <2>3 DEF Stored
    <2>8. Truthful(r)
      BY <2>4, <2>5 DEF Truthful
    <2>9. \A t \in 1..Len(token) : EndsDuly(t)
      BY <1>5, <1>6, <2>3, TokenFacts DEF EndsDuly
    <2> QED BY <1>1, <2>5, <2>6, <2>7, <2>8, <2>9, RequestSound
  <1> QED BY <1>7, <1>8, <1>9, <1>10, <1>11

LEMMA TouchedStep ==
  ASSUME IInv, NEW r \in Request, Touched(r)
  PROVE  Sound
  <1>1. /\ UNCHANGED <<clock, token, session, window, browser, tries, failures, barred>>
        /\ request[r].pc = "touched"
    BY Zenon DEF Touched
  <1>2. /\ request[r].live /\ request[r].round < 3 /\ request[r] \in Resolution
        /\ request[r].at <= clock /\ request[r].id \in 1..Len(token) /\ request[r].id \in SessionId
    BY <1>1, RequestFacts DEF RequestInv
  <1>3. CASE request' = [request EXCEPT ![r] = Idle("granted")]
    BY <1>1, <1>2, <1>3, GrantSound
  <1>4. CASE request' = [request EXCEPT ![r] = Again(Looked(request[r], session[request[r].id]))]
    <2>1. session[request[r].id] \in Row \cup {None}
      BY <1>2 DEF IInv, TypeOK
    <2>2. PICK k \in Resolution :
            /\ k = Looked(request[r], session[request[r].id]) /\ k.pc = "looked" /\ k.id = request[r].id
            /\ k.at = request[r].at /\ k.round = request[r].round /\ k.row = session[request[r].id]
            /\ (k.live <=> request[r].live)
      BY <1>2, <2>1, LookedFacts
    <2>3. PICK q \in Resolution : /\ q = Again(k) /\ q.pc = k.pc /\ q.id = k.id /\ q.at = k.at
                                  /\ q.row = k.row /\ (q.live <=> k.live)
      BY <1>2, <2>2, AgainFacts
    <2>4. request' = [request EXCEPT ![r] = q] /\ q.live
      BY <1>2, <1>4, <2>2, <2>3
    <2>5. q.id <= Len(token) /\ q.id # 0
      BY <1>2, <2>2, <2>3, TokenFacts
    <2>6. q.pc = "looked" /\ q.at <= clock /\ (q.row = None => session[q.id] = None)
      BY <1>2, <2>2, <2>3
    <2>7. Honest(q, r)
      BY <2>4, <2>5, <2>6 DEF Honest
    <2> QED BY <1>1, <2>4, <2>7, VerdictSound
  <1> QED BY <1>3, <1>4, TouchedIs DEF IInv
--------------------------------------------------------------------------------
(* Time, and the steps of the form. *)

LEMMA TickStep ==
  ASSUME IInv, Tick
  PROVE  Sound
  <1>1. /\ clock' = clock + 1 /\ clock < MaxTime
        /\ UNCHANGED <<token, session, window, browser, request, tries, failures, barred>>
    BY DEF Tick
  <1>2. TypeOK /\ Browsers /\ Requests /\ SessionInv /\ TriesInv /\ Windows
    BY DEF IInv
  <1>3. clock \in Time /\ clock' \in Time /\ clock' >= clock /\ clock <= clock
    BY <1>1, <1>2, Limits DEF TypeOK, Time
  <1>4. TypeOK'
    BY <1>1, <1>2, <1>3 DEF TypeOK
  <1>5. Onward
    <2>1. Len(token) \in Nat /\ Len(token) >= Len(token) /\ \A s \in 1..Len(token) : token[s] \in Time
      BY <1>2 DEF TypeOK
    <2> QED BY <1>1, <1>3, <2>1 DEF Onward
  <1>6. Browsers' /\ Requests'
    BY <1>1, <1>2, <1>5, BrowserKept, RequestKept DEF Browsers, Requests
  <1>7. SessionInv' /\ TriesInv'
    BY <1>1, <1>2, <1>5, SessionKept, TriesKept DEF Stored, LoginCalls
  <1>8. Windows'
    BY <1>1, <1>2, <1>3, WindowKept DEF Windows
  <1> QED BY <1>1, <1>4, <1>5, <1>6, <1>7, <1>8 DEF Sound, IInv, Truthful, EndsDuly, LeavesDuly

LEMMA BrowserSound ==
  ASSUME IInv, NEW b \in Browser, NEW st \in Studio, browser' = [browser EXCEPT ![b] = st],
         session' \in [SessionId -> Row \cup {None}], Stored' \subseteq Stored,
         UNCHANGED <<clock, token, window, request, tries, failures, barred>>,
         ~Is(st.call, "login"), BrowserInv(b)', LeavesDuly(b), \A s \in 1..Len(token) : EndsDuly(s)
  PROVE  Sound
  <1>1. IInv' /\ Onward
    BY BrowserTurns
  <1>2. ASSUME NEW o \in Browser, o # b  PROVE LeavesDuly(o)
    BY <1>2 DEF IInv, TypeOK, LeavesDuly
  <1> QED BY <1>1, <1>2 DEF Sound, Truthful

(* A step of a studio that leaves the sessions alone. *)
LEMMA StudioTurns ==
  ASSUME IInv, NEW b \in Browser, NEW st \in Studio, browser' = [browser EXCEPT ![b] = st],
         UNCHANGED <<clock, token, session, window, request, tries, failures, barred>>,
         st.call = None, st.cookie <= Len(token), st.ui = "in" => st.cookie # 0,
         browser[b].ui = "in" /\ st.ui = "out" => ~Live(browser[b].cookie)
  PROVE  Sound
  <1>1. browser'[b] = st
    BY DEF IInv, TypeOK
  <1>2. BrowserInv(b)'
    BY <1>1 DEF BrowserInv, Is
  <1>3. LeavesDuly(b) /\ \A s \in 1..Len(token) : EndsDuly(s)
    BY <1>1 DEF LeavesDuly, EndsDuly
  <1>4. session' \in [SessionId -> Row \cup {None}] /\ Stored' \subseteq Stored /\ ~Is(st.call, "login")
    BY DEF IInv, TypeOK, Stored, Is
  <1> QED BY <1>2, <1>3, <1>4, BrowserSound

LEMMA StudioIs ==
  ASSUME IInv, NEW b \in Browser
  PROVE  /\ browser[b] \in Studio /\ BrowserInv(b)
         /\ browser[b].cookie \in 0..MaxTries /\ browser[b].cookie <= Len(token)
         /\ browser[b].call \in Call \cup {None}
  <1>1. browser[b] \in Studio /\ BrowserInv(b)
    BY DEF IInv, TypeOK, Browsers
  <1> QED BY <1>1 DEF Studio, BrowserInv

LEMMA SignedInStep ==
  ASSUME IInv, NEW b \in Browser, SignedIn(b)
  PROVE  Sound
  <1>1. UNCHANGED <<clock, token, session, window, request, tries, failures, barred>>
    BY Zenon DEF SignedIn
  <1>2. Is(browser[b].call, "answer")
    BY Zenon DEF SignedIn, Is
  <1>3. CASE browser' = [browser EXCEPT ![b] = Calling(browser[b], None)]
    <2>1. PICK st \in Studio : /\ st = Calling(browser[b], None) /\ st.call = None
                               /\ st.ui = browser[b].ui /\ st.cookie = browser[b].cookie
      BY StudioIs, CallingFacts
    <2>2. browser' = [browser EXCEPT ![b] = st]
      BY <1>3, <2>1
    <2>3. st.cookie <= Len(token) /\ (st.ui = "in" => st.cookie # 0)
      BY <2>1, StudioIs DEF BrowserInv
    <2>4. browser[b].ui = "in" /\ st.ui = "out" => ~Live(browser[b].cookie)
      BY <2>1
    <2> QED BY <1>1, <2>1, <2>2, <2>3, <2>4, StudioTurns
  <1>4. CASE /\ browser[b].call.status = 200
             /\ browser' = [browser EXCEPT ![b] = Entered(browser[b].call.id)]
    <2>1. PICK id : id = browser[b].call.id
      OBVIOUS
    <2>2. id \in 0..MaxTries /\ id <= Len(token) /\ id # 0
      <3>1. browser[b].call \in Call
        BY <1>2, StudioIs DEF Is
      <3> QED BY <1>2, <1>4, <2>1, <3>1, StudioIs, CallFacts DEF BrowserInv, Is
    <2>3. PICK st \in Studio : st = Entered(id) /\ st.call = None /\ st.ui = "in" /\ st.cookie = id
      BY <2>2, StudioFacts
    <2>4. browser' = [browser EXCEPT ![b] = st]
      BY <1>4, <2>1, <2>3
    <2>5. st.cookie <= Len(token) /\ (st.ui = "in" => st.cookie # 0)
      BY <2>2, <2>3
    <2>6. browser[b].ui = "in" /\ st.ui = "out" => ~Live(browser[b].cookie)
      BY <2>3
    <2> QED BY <1>1, <2>3, <2>4, <2>5, <2>6, StudioTurns
  <1> QED BY <1>3, <1>4, SignedInIs DEF IInv

LEMMA LeavesStudioStep ==
  ASSUME IInv, NEW b \in Browser, LeavesStudio(b)
  PROVE  Sound
  <1>1. UNCHANGED <<clock, token, session, window, request, tries, failures, barred>>
    BY Zenon DEF LeavesStudio
  <1>2. Is(browser[b].call, "logout")
    BY Zenon DEF LeavesStudio, Is
  <1>3. ~Live(browser[b].cookie)
    BY <1>2, StudioIs DEF BrowserInv
  <1>4. CASE browser' = [browser EXCEPT ![b] = Calling(browser[b], None)]
    <2>1. PICK st \in Studio : /\ st = Calling(browser[b], None) /\ st.call = None
                               /\ st.ui = browser[b].ui /\ st.cookie = browser[b].cookie
      BY StudioIs, CallingFacts
    <2>2. browser' = [browser EXCEPT ![b] = st]
      BY <1>4, <2>1
    <2>3. st.cookie <= Len(token) /\ (st.ui = "in" => st.cookie # 0)
      BY <2>1, StudioIs DEF BrowserInv
    <2> QED BY <1>1, <1>3, <2>1, <2>2, <2>3, StudioTurns
  <1>5. CASE browser' = [browser EXCEPT ![b] = SignedOut]
    <2>1. PICK st \in Studio : st = SignedOut /\ st.call = None /\ st.ui = "out" /\ st.cookie = 0
      BY StudioFacts
    <2>2. browser' = [browser EXCEPT ![b] = st]
      BY <1>5, <2>1
    <2>3. st.cookie <= Len(token) /\ (st.ui = "in" => st.cookie # 0)
      BY <2>1, TokenFacts
    <2> QED BY <1>1, <1>3, <2>1, <2>2, <2>3, StudioTurns
  <1> QED BY <1>4, <1>5, LeavesStudioIs DEF IInv

LEMMA SignOutStep ==
  ASSUME IInv, NEW b \in Browser, SignOut(b)
  PROVE  Sound
  <1>1. PICK s : s = browser[b].cookie
    OBVIOUS
  <1>2. /\ UNCHANGED <<clock, token, window, request, tries, failures, barred>>
        /\ session' = IF Expired(s) THEN session ELSE [session EXCEPT ![s] = None]
        /\ browser[b].ui = "in" /\ browser[b].call = None
    BY <1>1, Zenon DEF SignOut
  <1>3. s \in 1..Len(token) /\ s \in SessionId /\ s # 0 /\ s <= Len(token)
    <2>1. s # 0
      BY <1>1, <1>2, StudioIs DEF BrowserInv
    <2> QED BY <1>1, <2>1, StudioIs, TokenFacts
  <1>4. session \in [SessionId -> Row \cup {None}] /\ browser \in [Browser -> Studio]
    BY DEF IInv, TypeOK
  <1>5. session' \in [SessionId -> Row \cup {None}] /\ Stored' \subseteq Stored
    BY <1>2, <1>3, <1>4 DEF Stored
  <1>6. ~Live(s)'
    <2>1. CASE Expired(s)
      BY <1>2, <2>1 DEF Live, Expired, ExpiresAt
    <2>2. CASE ~Expired(s)
      <3>1. session'[s] = None
        BY <1>2, <1>3, <1>4, <2>2
      <3> QED BY <3>1 DEF Live
    <2> QED BY <2>1, <2>2
  <1>7. PICK st \in Studio : /\ st = Calling(browser[b], Logout) /\ st.call = Logout
                             /\ st.ui = browser[b].ui /\ st.cookie = s
    BY <1>1, StudioIs, CallingFacts, LogoutFacts
  <1>8. browser' = [browser EXCEPT ![b] = st] /\ browser'[b] = st
    BY <1>4, <1>7, SignOutIs DEF IInv
  <1>9. st.call.op = "logout" /\ st.call # None
    BY <1>7, LogoutFacts
  <1>10. BrowserInv(b)'
    <2>1. st.cookie <= Len(token') /\ st.cookie # 0
      BY <1>2, <1>3, <1>7
    <2>2. ~Live(st.cookie)'
      BY <1>6, <1>7
    <2> QED BY <1>8, <1>9, <2>1, <2>2 DEF BrowserInv, Is
  <1>11. LeavesDuly(b)
    BY <1>2, <1>7, <1>8 DEF LeavesDuly
  <1>12. ASSUME NEW t \in 1..Len(token)  PROVE EndsDuly(t)
    <2>1. CASE t = s
      <3>1. browser[b].cookie = t /\ browser'[b].call # browser[b].call
        BY <1>1, <1>2, <1>8, <1>9, <2>1
      <3> QED BY <3>1 DEF EndsDuly
    <2>2. CASE t # s
      <3>1. session'[t] = session[t]
        BY <1>2, <1>3, <1>4, <2>2, TokenFacts
      <3> QED BY <3>1 DEF EndsDuly
    <2> QED BY <2>1, <2>2
  <1>13. ~Is(st.call, "login")
    BY <1>9 DEF Is
  <1> QED BY <1>2, <1>5, <1>8, <1>10, <1>11, <1>12, <1>13, BrowserSound

LEMMA SignInStep ==
  ASSUME IInv, NEW b \in Browser, NEW c \in Client, NEW right \in BOOLEAN, SignIn(b, c, right)
  PROVE  Sound
  <1>1. /\ UNCHANGED <<clock, token, session, window, request, failures, barred>>
        /\ tries' = tries + 1 /\ tries < MaxTries /\ browser[b].ui = "out"
    BY Zenon DEF SignIn
  <1>2. TypeOK /\ Browsers /\ Requests /\ SessionInv /\ TriesInv /\ Windows
    BY DEF IInv
  <1>3. PICK call \in Call :
           /\ call = Answers(429, 0) \/ call = Login(c, right, clock)
           /\ browser' = [browser EXCEPT ![b] = Calling(browser[b], call)]
    BY <1>2, SignInIs
  <1>4. PICK st \in Studio : /\ st = Calling(browser[b], call) /\ st.call = call
                             /\ st.ui = browser[b].ui /\ st.cookie = browser[b].cookie
    BY StudioIs, CallingFacts
  <1>5. /\ browser' \in [Browser -> Studio] /\ browser'[b] = st
        /\ \A o \in Browser : o # b => browser'[o] = browser[o]
    BY <1>2, <1>3, <1>4 DEF TypeOK
  <1>6. TypeOK'
    <2>1. tries + 1 \in 0..MaxTries
      BY <1>1, <1>2, Limits DEF TypeOK
    <2> QED BY <1>1, <1>2, <1>5, <2>1 DEF TypeOK
  <1>7. Onward
    BY <1>1, <1>2, StillOnward
  <1>8. clock \in Time /\ clock <= clock /\ 0 \in 0..MaxTries
    BY <1>2, Limits DEF TypeOK, Time
  <1>9. /\ Is(call, "login") => call.at <= clock
        /\ Is(call, "answer") => call.id = 0 /\ call.status = 429
        /\ ~Is(call, "logout")
    <2>1. CASE call = Answers(429, 0)
      <3>1. call.op = "answer" /\ call.status = 429 /\ call.id = 0
        BY <1>8, <2>1, AnswerFacts
      <3> QED BY <3>1 DEF Is
    <2>2. CASE call = Login(c, right, clock)
      <3>1. call.op = "login" /\ call.at = clock
        BY <1>8, <2>2, LoginFacts
      <3> QED BY <1>8, <3>1 DEF Is
    <2> QED BY <1>3, <2>1, <2>2
  <1>10. Browsers'
    <2>1. BrowserInv(b)'
      <3>1. st.cookie <= Len(token) /\ (st.ui = "in" => st.cookie # 0) /\ 0 <= Len(token)
        BY <1>4, StudioIs, TokenFacts DEF BrowserInv
      <3> QED BY <1>1, <1>4, <1>5, <1>9, <3>1 DEF BrowserInv
    <2> QED BY <1>2, <1>5, <1>7, <2>1, BrowserKept DEF Browsers
  <1>11. Requests' /\ SessionInv'
    BY <1>1, <1>2, <1>7, RequestKept, SessionKept DEF Requests, Stored
  <1>12. TriesInv'
    <2>1. LoginCalls' \subseteq LoginCalls \cup {b}
      BY <1>5 DEF LoginCalls
    <2>2. PICK pending : pending = LoginCalls
      OBVIOUS
    <2>3. IsFiniteSet(pending) /\ Cardinality(pending) \in Nat
      BY <1>2, <2>2, FS_CardinalityType DEF TriesInv
    <2>4. /\ IsFiniteSet(pending \cup {b})
          /\ \/ Cardinality(pending \cup {b}) = Cardinality(pending)
             \/ Cardinality(pending \cup {b}) = Cardinality(pending) + 1
      BY <2>3, FS_AddElement
    <2>5. Cardinality(pending \cup {b}) \in Nat /\ Cardinality(pending \cup {b}) <= Cardinality(pending) + 1
      BY <2>3, <2>4
    <2>6. /\ IsFiniteSet(LoginCalls') /\ Cardinality(LoginCalls') \in Nat
          /\ Cardinality(LoginCalls') <= Cardinality(pending \cup {b})
      BY <2>1, <2>2, <2>4, FS_Subset, FS_CardinalityType
    <2>7. Len(token) \in Nat /\ tries \in Nat /\ Len(token) + Cardinality(pending) <= tries
      BY <1>2, <2>2, Limits DEF TypeOK, TriesInv
    <2> QED BY <1>1, <2>3, <2>5, <2>6, <2>7 DEF TriesInv
  <1>13. Windows'
    BY <1>1, <1>2 DEF Windows, WindowInv
  <1>14. \A o \in Browser : LeavesDuly(o)
    BY <1>1, <1>4, <1>5 DEF LeavesDuly
  <1> QED BY <1>1, <1>6, <1>7, <1>10, <1>11, <1>12, <1>13, <1>14 DEF Sound, IInv, Truthful, EndsDuly
--------------------------------------------------------------------------------
(* The judgement of a password. *)

LEMMA Judged ==
  ASSUME IInv, NEW b \in LoginCalls, NEW status \in {200, 401, 429, 500, 503},
         NEW id \in 0..MaxTries, Answered(b, status, id)
  PROVE  /\ IsFiniteSet(LoginCalls') /\ LoginCalls' \subseteq LoginCalls
         /\ Cardinality(LoginCalls') \in Nat /\ Cardinality(LoginCalls) \in Nat
         /\ Cardinality(LoginCalls') + 1 <= Cardinality(LoginCalls)
  <1>1. b \in Browser
    BY DEF LoginCalls
  <1>2. ~Is(browser'[b].call, "login")
    BY AnswerFacts DEF Answered, Is
  <1>3. PICK pending : pending = LoginCalls
    OBVIOUS
  <1>4. LoginCalls' \subseteq pending \ {b}
    BY <1>1, <1>2, <1>3 DEF LoginCalls, Answered
  <1>5. IsFiniteSet(pending) /\ b \in pending /\ Cardinality(pending) \in Nat
    BY <1>3, FS_CardinalityType DEF IInv, TriesInv
  <1>6. IsFiniteSet(pending \ {b}) /\ Cardinality(pending \ {b}) = Cardinality(pending) - 1
    BY <1>5, FS_RemoveElement
  <1>7. /\ IsFiniteSet(LoginCalls') /\ Cardinality(LoginCalls') \in Nat
        /\ Cardinality(LoginCalls') <= Cardinality(pending \ {b})
    BY <1>4, <1>6, FS_Subset, FS_CardinalityType
  <1>8. Cardinality(LoginCalls') + 1 <= Cardinality(pending)
    BY <1>5, <1>6, <1>7
  <1> QED BY <1>3, <1>4, <1>5, <1>7, <1>8

LEMMA JudgeSound ==
  ASSUME IInv, NEW b \in LoginCalls, NEW status \in {200, 401, 429, 500, 503},
         NEW id \in 0..MaxTries, Answered(b, status, id),
         id <= Len(token'), status = 200 => id # 0, UNCHANGED <<clock, request, tries>>,
         Onward, TypeOK', SessionInv', TriesInv', Windows', \A s \in 1..Len(token) : EndsDuly(s)
  PROVE  Sound
  <1>1. TypeOK /\ Browsers /\ Requests
    BY DEF IInv
  <1>2. b \in Browser
    BY DEF LoginCalls
  <1>3. Requests'
    BY <1>1, RequestKept DEF Requests
  <1>4. BrowserInv(b)'
    <2>1. PICK call : call = Answers(status, id)
      OBVIOUS
    <2>2. browser'[b].call = call /\ call.op = "answer" /\ call.status = status /\ call.id = id
      BY <2>1, AnswerFacts DEF Answered
    <2>3. browser'[b].cookie = browser[b].cookie /\ browser'[b].ui = browser[b].ui
      BY DEF Answered
    <2>4. browser[b].cookie <= Len(token) /\ browser[b].cookie \in Nat
      BY <1>2, StudioIs
    <2>5. browser'[b].cookie <= Len(token')
      BY <2>3, <2>4 DEF Onward
    <2>6. browser'[b].ui = "in" => browser'[b].cookie # 0
      <3>1. BrowserInv(b)
        BY <1>2, StudioIs
      <3> QED BY <2>3, <3>1 DEF BrowserInv
    <2> QED BY <2>2, <2>5, <2>6 DEF BrowserInv, Is
  <1>5. Browsers'
    BY <1>1, <1>4, BrowserKept DEF Browsers, Answered
  <1>6. \A o \in Browser : LeavesDuly(o)
    <2>1. LeavesDuly(b)
      BY DEF LeavesDuly, Answered
    <2>2. ASSUME NEW o \in Browser, o # b  PROVE LeavesDuly(o)
      BY <2>2 DEF LeavesDuly, Answered
    <2> QED BY <2>1, <2>2
  <1> QED BY <1>3, <1>5, <1>6 DEF Sound, IInv, Truthful

(* An answer without a session: the windows may have changed. *)
Declined(b, status) ==
  /\ Awaits(b, Answers(status, 0)) /\ UNCHANGED <<clock, token, request, tries>>
  /\ session' \in [SessionId -> Row \cup {None}] /\ Stored' \subseteq Stored
  /\ \A s \in 1..Len(token) : EndsDuly(s)
  /\ window' \in [Client -> FailureRow \cup {None}] /\ failures' \in [Client -> Seq(Time)]
  /\ barred' \in [Client -> Nat] /\ Windows'

LEMMA DeclinedSound ==
  ASSUME IInv, NEW b \in LoginCalls, NEW status \in {401, 429, 500, 503}, Declined(b, status)
  PROVE  Sound
  <1>0. /\ Awaits(b, Answers(status, 0)) /\ UNCHANGED <<clock, token, request, tries>>
        /\ session' \in [SessionId -> Row \cup {None}] /\ Stored' \subseteq Stored
        /\ \A s \in 1..Len(token) : EndsDuly(s)
        /\ window' \in [Client -> FailureRow \cup {None}] /\ failures' \in [Client -> Seq(Time)]
        /\ barred' \in [Client -> Nat] /\ Windows'
    BY DEF Declined
  <1>1. TypeOK /\ SessionInv /\ TriesInv
    BY DEF IInv
  <1>2. b \in Browser /\ 0 \in 0..MaxTries /\ 0 <= Len(token) /\ status \in {200, 401, 429, 500, 503}
    BY TokenFacts, Limits DEF LoginCalls
  <1>3. Answered(b, status, 0)
    BY <1>0, <1>1, <1>2, AnswerIs
  <1>4. ASSUME NEW s \in 1..Len(token), session[s] = None  PROVE session'[s] = None
    BY <1>0, <1>4, TokenFacts DEF Stored
  <1>5. Onward
    BY <1>0, <1>1, <1>4, StillOnward
  <1>6. SessionInv'
    BY <1>0, <1>1, <1>5, SessionKept
  <1>7. TriesInv'
    BY <1>0, <1>1, <1>2, <1>3, Judged, TriesKept
  <1>8. browser' \in [Browser -> Studio]
    BY <1>3 DEF Answered
  <1>9. TypeOK'
    BY <1>0, <1>1, <1>8 DEF TypeOK
  <1>10. (status = 200 => 0 # 0) /\ 0 <= Len(token')
    BY <1>0, <1>2
  <1> QED BY <1>0, <1>2, <1>3, <1>5, <1>6, <1>7, <1>9, <1>10, JudgeSound

LEMMA AdmitStep ==
  ASSUME IInv, NEW b \in LoginCalls, NEW c \in Client, Admit(b, c), UNCHANGED <<clock, request, tries>>
  PROVE  Sound
  <1>1. TypeOK /\ SessionInv /\ TriesInv /\ Windows
    BY DEF IInv
  <1>2. PICK kept : kept = [s \in SessionId |-> IF s \in Purged THEN None ELSE session[s]]
    OBVIOUS
  <1>3. /\ kept \in [SessionId -> Row \cup {None}]
        /\ \A s \in SessionId : kept[s] # None => kept[s] = session[s] /\ s \in Stored \ Purged
        /\ \A s \in SessionId : session[s] # None /\ kept[s] = None => Expired(s)
    BY <1>1, <1>2 DEF TypeOK, Purged, Stored
  <1>4. PICK id : id = Len(token) + 1
    OBVIOUS
  <1>5. id \in SessionId /\ id \in 0..MaxTries /\ id \in Nat /\ id # 0 /\ Len(token) \in Nat
    <2>1. id \in SessionId /\ Len(token) \in Nat
      BY <1>1, <1>4, LoginPending, TokenFacts
    <2> QED BY <2>1, Limits DEF SessionId
  <1>6. \/ session' = kept /\ Awaits(b, Answers(503, 0)) /\ UNCHANGED <<token, window, failures, barred>>
        \/ /\ ~(Cardinality(Stored \ Purged) >= MaxSessions)
           /\ token' = Append(token, clock)
           /\ session' = [kept EXCEPT ![id] = [seen |-> clock, revision |-> 1]]
           /\ window' = [window EXCEPT ![c] = None]
           /\ failures' = [failures EXCEPT ![c] = <<>>]
           /\ barred' = [barred EXCEPT ![c] = 0]
           /\ Awaits(b, Answers(200, id))
    BY <1>2, <1>4, Zenon DEF Admit
  <1>7. CASE session' = kept /\ Awaits(b, Answers(503, 0)) /\ UNCHANGED <<token, window, failures, barred>>
    <2>1. Stored' \subseteq Stored /\ \A s \in 1..Len(token) : EndsDuly(s)
      BY <1>3, <1>7, TokenFacts DEF Stored, EndsDuly
    <2>2. Windows'
      BY <1>1, <1>7 DEF Windows, WindowInv
    <2>3. /\ window' \in [Client -> FailureRow \cup {None}] /\ failures' \in [Client -> Seq(Time)]
          /\ barred' \in [Client -> Nat]
      BY <1>1, <1>7 DEF TypeOK
    <2>4. PICK status \in {401, 429, 500, 503} : status = 503
      OBVIOUS
    <2>5. Declined(b, status)
      BY <1>3, <1>7, <2>1, <2>2, <2>3, <2>4 DEF Declined
    <2> QED BY <2>5, DeclinedSound
  <1>8. CASE /\ ~(Cardinality(Stored \ Purged) >= MaxSessions)
             /\ token' = Append(token, clock)
             /\ session' = [kept EXCEPT ![id] = [seen |-> clock, revision |-> 1]]
             /\ window' = [window EXCEPT ![c] = None]
             /\ failures' = [failures EXCEPT ![c] = <<>>]
             /\ barred' = [barred EXCEPT ![c] = 0]
             /\ Awaits(b, Answers(200, id))
    <2>1. b \in Browser /\ clock \in Time /\ clock \in Nat
      BY <1>1 DEF LoginCalls, TypeOK, Time
    <2>2. PICK row \in Row : row = [seen |-> clock, revision |-> 1] /\ row # None
      BY <2>1, RowFacts, NoneAssumption
    <2>3. Answered(b, 200, id)
      BY <1>1, <1>5, <1>8, <2>1, AnswerIs
    <2>4. /\ token' \in Seq(Time) /\ Len(token') = id
          /\ \A s \in 1..Len(token) : token'[s] = token[s]
          /\ token'[id] = clock
      BY <1>1, <1>4, <1>8, <2>1 DEF TypeOK
    <2>5. /\ session' = [kept EXCEPT ![id] = row] /\ session' \in [SessionId -> Row \cup {None}]
          /\ session'[id] = row
          /\ \A s \in SessionId : s # id => session'[s] = kept[s]
      BY <1>3, <1>5, <1>8, <2>2
    <2>6. /\ window' \in [Client -> FailureRow \cup {None}] /\ failures' \in [Client -> Seq(Time)]
          /\ barred' \in [Client -> Nat]
      BY <1>1, <1>8 DEF TypeOK
    <2>7. TypeOK'
      <3>1. browser' \in [Browser -> Studio]
        BY <2>3 DEF Answered
      <3>2. id <= MaxTries
        BY <1>5, Limits
      <3> QED BY <1>1, <2>4, <2>5, <2>6, <3>1, <3>2 DEF TypeOK
    <2>8. \A s \in 1..Len(token) : s \in SessionId /\ s # id
      BY <1>4, <1>5, TokenFacts
    <2>9. Onward
      <3>1. ASSUME NEW s \in 1..Len(token), session[s] = None  PROVE session'[s] = None
        BY <1>3, <2>5, <2>8, <3>1 DEF Stored
      <3>2. \A s \in 1..Len(token) : token[s] \in Time
        BY <1>1 DEF TypeOK
      <3>3. id >= Len(token) /\ clock >= clock
        BY <1>4, <1>5, <2>1
      <3> QED BY <1>5, <2>1, <2>4, <3>1, <3>2, <3>3 DEF Onward
    <2>10. SessionInv'
      <3>1. \A i \in 1..Len(token') : token'[i] <= clock'
        <4>1. ASSUME NEW i \in 1..Len(token')  PROVE token'[i] <= clock
          <5>1. i = id \/ i \in 1..Len(token)
            BY <1>4, <1>5, <2>4
          <5>2. clock <= clock
            BY <2>1
          <5> QED BY <1>1, <2>4, <5>1, <5>2 DEF SessionInv
        <4> QED BY <4>1
      <3>2. \A s \in SessionId : session'[s] # None => s <= Len(token')
        <4>1. ASSUME NEW s \in SessionId, session'[s] # None, s # id  PROVE s <= id
          <5>1. s <= Len(token)
            BY <1>1, <1>3, <2>5, <4>1 DEF SessionInv, Stored
          <5> QED BY <1>4, <1>5, <5>1 DEF SessionId
        <4>2. id <= id
          BY <1>5
        <4> QED BY <2>4, <4>1, <4>2
      <3>3. Cardinality(Stored') <= MaxSessions
        <4>1. PICK few : few = Stored \ Purged
          OBVIOUS
        <4>2. Stored' \subseteq few \cup {id}
          BY <1>3, <2>5, <4>1 DEF Stored
        <4>3. IsFiniteSet(few)
          <5>1. few \subseteq Stored
            BY <4>1
          <5> QED BY <5>1, StoredFinite, FS_Subset
        <4>4. /\ IsFiniteSet(few \cup {id}) /\ Cardinality(few) \in Nat
              /\ \/ Cardinality(few \cup {id}) = Cardinality(few)
                 \/ Cardinality(few \cup {id}) = Cardinality(few) + 1
          BY <4>3, FS_AddElement, FS_CardinalityType
        <4>5. Cardinality(Stored') <= Cardinality(few \cup {id}) /\ Cardinality(Stored') \in Nat
          BY <4>2, <4>4, FS_Subset, FS_CardinalityType
        <4>6. Cardinality(few) < MaxSessions
          BY <1>8, <4>1, <4>4, Limits
        <4> QED BY <4>4, <4>5, <4>6, Limits
      <3> QED BY <3>1, <3>2, <3>3 DEF SessionInv
    <2>11. TriesInv'
      <3>1. /\ IsFiniteSet(LoginCalls') /\ Cardinality(LoginCalls') \in Nat
            /\ Cardinality(LoginCalls) \in Nat
            /\ Cardinality(LoginCalls') + 1 <= Cardinality(LoginCalls)
        BY <1>5, <2>3, Judged
      <3>2. Len(token) + Cardinality(LoginCalls) <= tries /\ tries \in Nat
        BY <1>1, Limits DEF TriesInv, TypeOK
      <3>3. id + Cardinality(LoginCalls') <= tries
        BY <1>4, <1>5, <3>1, <3>2
      <3> QED BY <2>4, <3>1, <3>3 DEF TriesInv
    <2>12. Windows'
      <3>1. WindowInv(c)'
        <4>1. window'[c] = None /\ failures'[c] = <<>> /\ barred'[c] = 0 /\ clock' = clock
          BY <1>1, <1>8 DEF TypeOK
        <4>2. Len(<<>>) <= MaxFailures /\ ~(0 > clock)
          BY <2>1, Limits
        <4> QED BY <4>1, <4>2 DEF WindowInv
      <3>2. ASSUME NEW k \in Client, k # c  PROVE WindowInv(k)'
        <4>1. window'[k] = window[k] /\ failures'[k] = failures[k] /\ barred'[k] = barred[k] /\ clock' = clock
          BY <1>1, <1>8, <3>2 DEF TypeOK
        <4>2. WindowInv(k)
          BY <1>1 DEF Windows
        <4> QED BY <4>1, <4>2 DEF WindowInv
      <3> QED BY <3>1, <3>2 DEF Windows
    <2>13. \A s \in 1..Len(token) : EndsDuly(s)
      BY <1>3, <2>5, <2>8 DEF EndsDuly
    <2>14. PICK status \in {200, 401, 429, 500, 503} : status = 200
      OBVIOUS
    <2>15. id <= Len(token') /\ Answered(b, status, id) /\ (status = 200 => id # 0)
      BY <1>5, <2>3, <2>4, <2>14
    <2> QED BY <1>5, <2>7, <2>9, <2>10, <2>11, <2>12, <2>13, <2>15, JudgeSound
  <1> QED BY <1>6, <1>7, <1>8

LEMMA KeptFacts ==
  ASSUME IInv, NEW now \in Time
  PROVE  \E kept \in [Client -> FailureRow \cup {None}] :
           /\ kept = Kept(now)
           /\ \A k \in Client : kept[k] = IF Over(window[k], now) THEN None ELSE window[k]
  <1>1. window \in [Client -> FailureRow \cup {None}]
    BY DEF IInv, TypeOK
  <1>2. PICK kept : kept = Kept(now)
    OBVIOUS
  <1>3. \A k \in Client : kept[k] = IF Over(window[k], now) THEN None ELSE window[k]
    BY <1>2, Zenon DEF Kept
  <1>4. kept = [k \in Client |-> kept[k]]
    BY <1>2, Zenon DEF Kept
  <1>5. kept \in [Client -> FailureRow \cup {None}]
    <2>1. \A k \in Client : kept[k] \in FailureRow \cup {None}
      BY <1>1, <1>3
    <2> QED BY <1>4, <2>1
  <1> QED BY <1>2, <1>3, <1>5

(* Windows that are over are forgotten, and nothing is counted. *)
LEMMA ForgottenSound ==
  ASSUME IInv, NEW b \in LoginCalls, NEW now \in Time, now <= clock,
         NEW status \in {401, 429, 500, 503}, Awaits(b, Answers(status, 0)),
         window' = Kept(now) \/ UNCHANGED window,
         UNCHANGED <<clock, token, session, request, tries, failures, barred>>
  PROVE  Sound
  <1>1. TypeOK /\ Windows
    BY DEF IInv
  <1>2. window' \in [Client -> FailureRow \cup {None}]
    BY <1>1, KeptFacts DEF TypeOK
  <1>3. ASSUME NEW c \in Client  PROVE WindowInv(c)'
    <2>1. \/ window'[c] = window[c]
          \/ Over(window[c], now) /\ window'[c] = None
      BY KeptFacts
    <2>2. WindowInv(c) /\ failures'[c] = failures[c] /\ barred'[c] = barred[c]
      BY <1>1, <1>3 DEF Windows
    <2>3. clock' \in Time /\ clock' >= clock
      BY <1>1 DEF TypeOK, Time
    <2> QED BY <1>1, <2>1, <2>2, <2>3, WindowKept
  <1>4. Windows'
    BY <1>3 DEF Windows
  <1>5. /\ session' \in [SessionId -> Row \cup {None}] /\ Stored' \subseteq Stored
        /\ failures' \in [Client -> Seq(Time)] /\ barred' \in [Client -> Nat]
    BY <1>1 DEF TypeOK, Stored
  <1>6. \A s \in 1..Len(token) : EndsDuly(s)
    BY DEF EndsDuly
  <1>7. Declined(b, status)
    BY <1>2, <1>4, <1>5, <1>6 DEF Declined
  <1> QED BY <1>7, DeclinedSound

(* A failure is counted. *)
Counting(b, c, now, kept, row, status) ==
  /\ \A k \in Client : kept[k] = IF Over(window[k], now) THEN None ELSE window[k]
  /\ row = Counted(kept[c], now) /\ ~Blocked(kept[c], now) /\ ~(now < row.start)
  /\ window' = [kept EXCEPT ![c] = row]
  /\ failures' = [failures EXCEPT ![c] = LastOf(Append(failures[c], now))]
  /\ barred' = [barred EXCEPT ![c] = IF row.until # 0 THEN row.until ELSE barred[c]]
  /\ Awaits(b, Answers(status, 0)) /\ UNCHANGED <<clock, token, session, request, tries>>

LEMMA CountedSound ==
  ASSUME IInv, NEW b \in LoginCalls, NEW c \in Client, NEW now \in Time, now <= clock,
         NEW kept \in [Client -> FailureRow \cup {None}], NEW row,
         NEW status \in {401, 429, 500, 503}, Counting(b, c, now, kept, row, status)
  PROVE  Sound
  <1>0. /\ \A k \in Client : kept[k] = IF Over(window[k], now) THEN None ELSE window[k]
        /\ row = Counted(kept[c], now) /\ ~Blocked(kept[c], now) /\ ~(now < row.start)
        /\ window' = [kept EXCEPT ![c] = row]
        /\ failures' = [failures EXCEPT ![c] = LastOf(Append(failures[c], now))]
        /\ barred' = [barred EXCEPT ![c] = IF row.until # 0 THEN row.until ELSE barred[c]]
        /\ Awaits(b, Answers(status, 0)) /\ UNCHANGED <<clock, token, session, request, tries>>
    BY Zenon DEF Counting
  <1>1. TypeOK /\ Windows
    BY DEF IInv
  <1>2. /\ failures'[c] = LastOf(Append(failures[c], now))
        /\ barred'[c] = IF row.until # 0 THEN row.until ELSE barred[c]
        /\ window'[c] = row /\ WindowInv(c)
        /\ kept[c] = IF Over(window[c], now) THEN None ELSE window[c]
    BY <1>0, <1>1 DEF TypeOK, Windows
  <1>3. PICK w : w = kept[c]
    OBVIOUS
  <1>4. /\ WindowInv(c)' /\ row \in FailureRow /\ failures'[c] \in Seq(Time)
        /\ barred'[c] \in Nat
    <2>1. w = (IF Over(window[c], now) THEN None ELSE window[c]) /\ ~Blocked(w, now)
      BY <1>0, <1>2, <1>3
    <2>2. row = Counted(w, now)
      BY <1>0, <1>3
    <2> QED BY <1>0, <1>1, <1>2, <2>1, <2>2, WindowCounted
  <1>5. PICK f \in Seq(Time), n \in Nat : f = failures'[c] /\ n = barred'[c]
    BY <1>0, <1>4
  <1>6. failures' = [failures EXCEPT ![c] = f] /\ barred' = [barred EXCEPT ![c] = n]
    BY <1>0, <1>1, <1>5 DEF TypeOK
  <1>7. /\ window' \in [Client -> FailureRow \cup {None}] /\ failures' \in [Client -> Seq(Time)]
        /\ barred' \in [Client -> Nat]
    BY <1>0, <1>1, <1>4, <1>6 DEF TypeOK
  <1>8. ASSUME NEW k \in Client, k # c  PROVE WindowInv(k)'
    <2>1. failures'[k] = failures[k] /\ barred'[k] = barred[k] /\ WindowInv(k)
      BY <1>0, <1>1, <1>6, <1>8 DEF TypeOK, Windows
    <2>2. \/ window'[k] = window[k]
          \/ Over(window[k], now) /\ window'[k] = None
      BY <1>0, <1>8
    <2>3. clock' \in Time /\ clock' >= clock
      BY <1>0, <1>1 DEF TypeOK, Time
    <2> QED BY <1>0, <1>1, <2>1, <2>2, <2>3, WindowKept
  <1>9. Windows'
    BY <1>0, <1>4, <1>8 DEF Windows
  <1>10. session' \in [SessionId -> Row \cup {None}] /\ Stored' \subseteq Stored
    BY <1>0, <1>1 DEF TypeOK, Stored
  <1>11. \A s \in 1..Len(token) : EndsDuly(s)
    BY <1>0 DEF EndsDuly
  <1>12. Declined(b, status)
    BY <1>0, <1>7, <1>9, <1>10, <1>11 DEF Declined
  <1> QED BY <1>0, <1>12, DeclinedSound

LEMMA RejectStep ==
  ASSUME IInv, NEW b \in LoginCalls, NEW c \in Client, NEW now \in Time, now <= clock, Reject(b, c, now),
         UNCHANGED <<clock, token, session, request, tries>>
  PROVE  Sound
  <1>1. PICK kept \in [Client -> FailureRow \cup {None}] :
           /\ kept = Kept(now)
           /\ \A k \in Client : kept[k] = IF Over(window[k], now) THEN None ELSE window[k]
    BY KeptFacts
  <1>2. PICK row : row = Counted(kept[c], now)
    OBVIOUS
  <1>3. \/ window' = kept /\ Awaits(b, Answers(429, 0)) /\ UNCHANGED <<failures, barred>>
        \/ window' = kept /\ Awaits(b, Answers(503, 0)) /\ UNCHANGED <<failures, barred>>
        \/ Awaits(b, Answers(500, 0)) /\ UNCHANGED <<window, failures, barred>>
        \/ /\ ~Blocked(kept[c], now) /\ ~(now < row.start)
           /\ window' = [kept EXCEPT ![c] = row]
           /\ failures' = [failures EXCEPT ![c] = LastOf(Append(failures[c], now))]
           /\ barred' = [barred EXCEPT ![c] = IF row.until # 0 THEN row.until ELSE barred[c]]
           /\ Awaits(b, Answers(IF row.until # 0 THEN 429 ELSE 401, 0))
    BY <1>1, <1>2, Zenon DEF Reject, Kept
  <1>4. ASSUME NEW status \in {429, 500, 503}, Awaits(b, Answers(status, 0)),
               window' = kept \/ UNCHANGED window, UNCHANGED <<failures, barred>>
        PROVE  Sound
    <2>1. status \in {401, 429, 500, 503} /\ (window' = Kept(now) \/ UNCHANGED window)
      BY <1>1, <1>4
    <2> QED BY <1>4, <2>1, ForgottenSound
  <1>5. CASE /\ ~Blocked(kept[c], now) /\ ~(now < row.start)
             /\ window' = [kept EXCEPT ![c] = row]
             /\ failures' = [failures EXCEPT ![c] = LastOf(Append(failures[c], now))]
             /\ barred' = [barred EXCEPT ![c] = IF row.until # 0 THEN row.until ELSE barred[c]]
             /\ Awaits(b, Answers(IF row.until # 0 THEN 429 ELSE 401, 0))
    <2>1. PICK status \in {401, 429, 500, 503} : status = IF row.until # 0 THEN 429 ELSE 401
      OBVIOUS
    <2>2. Awaits(b, Answers(status, 0))
      BY <1>5, <2>1
    <2>3. Counting(b, c, now, kept, row, status)
      BY <1>1, <1>2, <1>5, <2>2, Zenon DEF Counting
    <2> QED BY <2>3, CountedSound
  <1>6. 429 \in {429, 500, 503} /\ 500 \in {429, 500, 503} /\ 503 \in {429, 500, 503}
    OBVIOUS
  <1> QED BY <1>3, <1>4, <1>5, <1>6

LEMMA JudgeStep ==
  ASSUME IInv, NEW b \in Browser, Judge(b)
  PROVE  Sound
  <1>1. PICK call : call = browser[b].call
    OBVIOUS
  <1>2. /\ call # None /\ call.op = "login"
        /\ \/ Admit(b, call.client)
           \/ Reject(b, call.client, call.at) /\ UNCHANGED <<token, session>>
        /\ UNCHANGED <<clock, request, tries>>
    BY <1>1, Zenon DEF Judge
  <1>3. Is(browser[b].call, "login") /\ b \in LoginCalls
    BY <1>1, <1>2 DEF Is, LoginCalls
  <1>4. call.client \in Client /\ call.at \in Time
    <2>1. call \in Call
      BY <1>1, <1>2, StudioIs
    <2> QED BY <1>2, <2>1, CallFacts
  <1>5. call.at <= clock
    <2>1. BrowserInv(b)
      BY StudioIs
    <2> QED BY <1>1, <1>3, <2>1 DEF BrowserInv
  <1>6. PICK c \in Client, now \in Time : c = call.client /\ now = call.at
    BY <1>4
  <1>7. CASE Admit(b, call.client)
    <2>1. Admit(b, c)
      BY <1>6, <1>7
    <2> QED BY <1>2, <1>3, <2>1, AdmitStep
  <1>8. CASE Reject(b, call.client, call.at) /\ UNCHANGED <<token, session>>
    <2>1. Reject(b, c, now) /\ now <= clock
      BY <1>5, <1>6, <1>8
    <2> QED BY <1>2, <1>3, <1>8, <2>1, RejectStep
  <1> QED BY <1>2, <1>7, <1>8
--------------------------------------------------------------------------------
(* The theorems. *)

LEMMA InitInv == Init => IInv
  <1> SUFFICES ASSUME Init  PROVE IInv
    OBVIOUS
  <1>1. TypeOK
    <2>1. clock \in Time /\ tries \in 0..MaxTries /\ token \in Seq(Time) /\ Len(token) <= MaxTries
      BY Limits DEF Init, Time
    <2>2. browser \in [Browser -> Studio] /\ request \in [Request -> Resolution]
      BY StudioFacts, IdleFacts DEF Init
    <2>3. session \in [SessionId -> Row \cup {None}] /\ window \in [Client -> FailureRow \cup {None}]
      BY DEF Init
    <2>4. failures \in [Client -> Seq(Time)] /\ barred \in [Client -> Nat]
      BY DEF Init
    <2> QED BY <2>1, <2>2, <2>3, <2>4 DEF TypeOK
  <1>2. Len(token) = 0 /\ clock = 0 /\ tries = 0
    BY DEF Init
  <1>3. Browsers
    <2>1. ASSUME NEW b \in Browser  PROVE BrowserInv(b)
      <3>1. /\ browser[b].call = None /\ browser[b].ui = "out" /\ browser[b].cookie = 0
        BY StudioFacts DEF Init
      <3> QED BY <1>2, <3>1 DEF BrowserInv, Is
    <2> QED BY <2>1 DEF Browsers
  <1>4. Requests
    <2>1. ASSUME NEW r \in Request  PROVE RequestInv(r)
      <3>1. request[r].pc = "idle" /\ request[r].id = 0 /\ request[r].at = 0
        BY IdleFacts DEF Init
      <3> QED BY <1>2, <3>1 DEF RequestInv
    <2> QED BY <2>1 DEF Requests
  <1>5. SessionInv
    <2>1. Stored = {}
      BY DEF Init, Stored
    <2>2. Cardinality(Stored) = 0
      BY <2>1, FS_EmptySet
    <2> QED BY <1>2, <2>2, Limits DEF SessionInv, Init
  <1>6. TriesInv
    <2>1. LoginCalls = {}
      BY StudioFacts DEF Init, LoginCalls, Is
    <2>2. Cardinality(LoginCalls) = 0 /\ IsFiniteSet(LoginCalls)
      BY <2>1, FS_EmptySet
    <2> QED BY <1>2, <2>2 DEF TriesInv
  <1>7. Windows
    <2>1. ASSUME NEW c \in Client  PROVE WindowInv(c)
      <3>1. window[c] = None /\ Len(failures[c]) = 0 /\ barred[c] = 0
        BY DEF Init
      <3> QED BY <1>2, <3>1, Limits DEF WindowInv
    <2> QED BY <2>1 DEF Windows
  <1> QED BY <1>1, <1>3, <1>4, <1>5, <1>6, <1>7 DEF IInv

LEMMA StutterStep ==
  ASSUME IInv, UNCHANGED vars
  PROVE  Sound
  <1>1. UNCHANGED <<clock, token, session, window, browser, request, tries, failures, barred>>
    BY DEF vars
  <1>2. IInv'
    BY <1>1 DEF IInv, TypeOK, Browsers, BrowserInv, Requests, RequestInv, SessionInv, Stored, TriesInv,
                LoginCalls, Windows, WindowInv, Live, Expired, ExpiresAt
  <1>3. Onward
    BY <1>1, StillOnward DEF IInv
  <1> QED BY <1>1, <1>2, <1>3 DEF Sound, Truthful, EndsDuly, LeavesDuly

LEMMA StepSound ==
  ASSUME IInv, [Next]_vars
  PROVE  Sound
  <1>1. CASE Tick
    BY <1>1, TickStep
  <1>2. ASSUME NEW b \in Browser, NEW c \in Client, NEW right \in BOOLEAN, SignIn(b, c, right)
        PROVE  Sound
    BY <1>2, SignInStep
  <1>3. ASSUME NEW b \in Browser, Judge(b) \/ SignedIn(b) \/ SignOut(b) \/ LeavesStudio(b)
        PROVE  Sound
    BY <1>3, JudgeStep, SignedInStep, SignOutStep, LeavesStudioStep
  <1>4. ASSUME NEW r \in Request, NEW b \in Browser, Send(r, b)
        PROVE  Sound
    BY <1>4, SendStep
  <1>5. ASSUME NEW r \in Request, Arrive(r) \/ Consider(r) \/ Touched(r)
        PROVE  Sound
    BY <1>5, ArriveStep, ConsiderStep, TouchedStep
  <1>6. CASE UNCHANGED vars
    BY <1>6, StutterStep
  <1> QED BY <1>1, <1>2, <1>3, <1>4, <1>5, <1>6, Zenon DEF Next

(* What is stored of sessions, windows and requests always agrees with what was
   issued, counted and read, whichever statements of the service come between. *)
THEOREM Invariant == Spec => []IInv
  <1>1. IInv /\ [Next]_vars => IInv'
    BY StepSound DEF Sound
  <1> QED BY <1>1, InitInv, PTL DEF Spec

LEMMA BlocksFollow == IInv => BlocksAreEarnedAndKept
  <1> SUFFICES ASSUME IInv  PROVE BlocksAreEarnedAndKept
    OBVIOUS
  <1>1. TypeOK /\ SessionInv /\ Windows
    BY DEF IInv
  <1>2. ASSUME NEW c \in Client, Blocked(window[c], clock)
        PROVE  /\ Len(failures[c]) = MaxFailures
               /\ \A i, j \in 1..MaxFailures : failures[c][i] < failures[c][j] + Window
    <2>1. PICK w : w = window[c]
      OBVIOUS
    <2>2. PICK f : f = failures[c]
      OBVIOUS
    <2>3. w # None /\ w.until > clock /\ clock \in Nat
      BY <1>1, <1>2, <2>1 DEF Blocked, TypeOK, Time
    <2>4. w \in FailureRow /\ f \in Seq(Time)
      BY <1>1, <2>1, <2>2, <2>3 DEF TypeOK
    <2>5. w.start \in Nat /\ w.count \in 1..MaxFailures /\ w.until \in Nat /\ Len(f) \in Nat
      BY <2>4 DEF FailureRow, Time
    <2>6. /\ Len(f) <= MaxFailures /\ w.count <= Len(f)
          /\ \A i \in 1..Len(f) : i > Len(f) - w.count => w.start <= f[i] /\ f[i] < w.start + Window
          /\ IF w.count = MaxFailures THEN w.until >= w.start + Block ELSE w.until = 0
      BY <1>1, <2>1, <2>2, <2>3 DEF Windows, WindowInv
    <2>7. w.count = MaxFailures
      BY <2>3, <2>5, <2>6
    <2>8. Len(f) = MaxFailures
      BY <2>5, <2>6, <2>7, Limits
    <2>9. \A i \in 1..MaxFailures : w.start <= f[i] /\ f[i] < w.start + Window
      BY <2>5, <2>6, <2>7, <2>8, Limits
    <2>10. \A i \in 1..MaxFailures : f[i] \in Nat
      <3>1. \A i \in 1..Len(f) : f[i] \in Time
        BY <2>4
      <3> QED BY <2>8, <3>1 DEF Time
    <2>11. \A i, j \in 1..MaxFailures : f[i] < f[j] + Window
      BY <2>5, <2>9, <2>10, Limits
    <2> QED BY <2>2, <2>8, <2>11
  <1>3. \A c \in Client : barred[c] > clock => window[c] # None /\ window[c].until = barred[c]
    BY <1>1 DEF Windows, WindowInv
  <1> QED BY <1>1, <1>2, <1>3 DEF BlocksAreEarnedAndKept, SessionInv

(* A client is blocked only for MaxFailures failures of its own within one window,
   and for as long as it was told; no more than MaxSessions sessions are stored. *)
THEOREM BlocksAreJust == Spec => []BlocksAreEarnedAndKept
  BY Invariant, BlocksFollow, PTL

(* Requests that touch one session in parallel, and a sign-out between any two of
   their statements, mislead none of them about it. *)
THEOREM VerdictsHold == Spec => VerdictsAreTrue
  <1>1. IInv /\ [Next]_vars =>
          [\A r \in Request :
             /\ request[r].pc # "granted" /\ request'[r].pc = "granted" => request[r].live
             /\ request[r].pc # "refused" /\ request'[r].pc = "refused" => ~Live(request[r].id)]_vars
    BY StepSound DEF Sound, Truthful
  <1> QED BY <1>1, Invariant, PTL DEF Spec, VerdictsAreTrue

(* A session ends by its time or by a sign-out of a studio that holds it, does not
   come back, and outlives no studio that shows itself signed out of it. *)
THEOREM SessionsEnd == Spec => SessionsEndOnce
  <1>1. IInv /\ [Next]_vars =>
          [/\ \A s \in 1..Len(token) :
                /\ session[s] = None => session'[s] = None
                /\ session[s] # None /\ session'[s] = None =>
                     \/ Expired(s)
                     \/ \E b \in Browser : browser[b].cookie = s /\ browser'[b].call # browser[b].call
           /\ \A b \in Browser :
                browser[b].ui = "in" /\ browser'[b].ui = "out" => ~Live(browser[b].cookie)]_vars
    BY StepSound DEF Sound, Onward, EndsDuly, LeavesDuly
  <1> QED BY <1>1, Invariant, PTL DEF Spec, SessionsEndOnce
===============================================================================
