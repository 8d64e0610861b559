------------------------------ MODULE OwnerAuth ------------------------------
(* Signing in to the studio and out of it: the rows of owner_sessions and
   login_failure_windows (campaign-repository.ts), the service in front of them
   (auth-service.ts), its routes and the middleware that guards the others (app.ts),
   and the forms of the studio that sign the owner in and out (admin.component.ts).

   The service awaits every statement of the repository, so that the requests of
   several browsers come between: what it read may be stale when it is used.  Time
   is counted in seconds, and one clock is everybody's.  A cookie is the session it
   names; that nobody forges one is the framework's business.  There is one owner,
   and a password is right or wrong. *)
EXTENDS Naturals, Sequences, FiniteSets

CONSTANTS
  Browser,      \* browsers at the form
  Client,       \* network addresses they may have
  Request,      \* requests to guarded routes
  None,
  Lifetime,     \* of a session, in seconds
  MaxSessions,  \* sessions stored
  Window,       \* seconds in which failures are counted together
  Block,        \* seconds for which a client is blocked
  MaxFailures,  \* failures within a window that block the client
  MaxWindows,   \* clients whose failures are counted
  MaxTries,     \* bound: times the form is sent
  MaxTime       \* bound: the clock stops

ASSUME LimitsAssumption ==
  {Lifetime, MaxSessions, Window, Block, MaxFailures, MaxWindows} \subseteq Nat \ {0}
ASSUME BoundsAssumption == {MaxTries, MaxTime} \subseteq Nat
\* A window is over by the time its block is.
ASSUME BlockAssumption == Block >= Window

VARIABLES
  clock,
  token,     \* when each session was issued, as the cookies of the session say
  session,   \* rows of owner_sessions
  window,    \* rows of login_failure_windows
  browser,   \* the form, the cookie, and the call of the service on its way
  request,   \* what the middleware knows of each request
  tries,
  failures,  \* history: the last failures counted against each client
  barred     \* history: until when each client is to be blocked

vars == <<clock, token, session, window, browser, request, tries, failures, barred>>

Time == 0..MaxTime
SessionId == 1..MaxTries
Row == [seen : Time, revision : Nat \ {0}]
FailureRow == [start : Time, count : 1..MaxFailures, until : Nat]
Call == [op : {"login"}, client : Client, right : BOOLEAN, at : Time]
        \cup [op : {"answer"}, status : {200, 401, 429, 500, 503}, id : 0..MaxTries]
        \cup [op : {"logout"}]
Studio == [ui : {"out", "in"}, cookie : 0..MaxTries, call : Call \cup {None}]
Resolution == [pc : {"idle", "sent", "looked", "touched", "granted", "refused"},
               id : 0..MaxTries, live : BOOLEAN, row : Row \cup {None}, at : Time, round : 1..3]

\* No row and no call is None, which stands for their absence.
ASSUME NoneAssumption == None \notin Row \cup FailureRow \cup Call

TypeOK ==
  /\ clock \in Time /\ tries \in 0..MaxTries
  /\ token \in Seq(Time) /\ Len(token) <= MaxTries
  /\ session \in [SessionId -> Row \cup {None}]
  /\ window \in [Client -> FailureRow \cup {None}]
  /\ browser \in [Browser -> Studio]
  /\ request \in [Request -> Resolution]
  /\ failures \in [Client -> Seq(Time)]
  /\ barred \in [Client -> Nat]

SignedOut == [ui |-> "out", cookie |-> 0, call |-> None]
Idle(pc) == [pc |-> pc, id |-> 0, live |-> FALSE, row |-> None, at |-> 0, round |-> 1]

Init ==
  /\ clock = 0 /\ tries = 0 /\ token = <<>>
  /\ session = [s \in SessionId |-> None]
  /\ window = [c \in Client |-> None]
  /\ browser = [b \in Browser |-> SignedOut]
  /\ request = [r \in Request |-> Idle("idle")]
  /\ failures = [c \in Client |-> <<>>]
  /\ barred = [c \in Client |-> 0]

Stored == {s \in SessionId : session[s] # None}
ExpiresAt(s) == token[s] + Lifetime
Expired(s) == clock >= ExpiresAt(s)
Live(s) == session[s] # None /\ ~Expired(s)

Tick ==
  /\ clock < MaxTime
  /\ clock' = clock + 1
  /\ UNCHANGED <<token, session, window, browser, request, tries, failures, barred>>
---------------------------------------------------------------------------
(* Signing in. *)

Awaits(b, call) == browser' = [browser EXCEPT ![b].call = call]
Answers(status, id) == [op |-> "answer", status |-> status, id |-> id]

\* ownerLoginThrottleState
Blocked(row, now) == row # None /\ row.until > now

(* The form is sent, and the service looks whether the client is blocked. *)
SignIn(b, c, right) ==
  /\ browser[b].ui = "out" /\ browser[b].call = None /\ tries < MaxTries
  /\ tries' = tries + 1
  /\ Awaits(b, IF Blocked(window[c], clock) THEN Answers(429, 0)
               ELSE [op |-> "login", client |-> c, right |-> right, at |-> clock])
  /\ UNCHANGED <<clock, token, session, window, request, failures, barred>>

\* Fault: room is made for the new session.
PurgedForRoom == {s \in Stored : Expired(s) \/ Cardinality(Stored) >= MaxSessions}

(* Expired sessions make room; live ones are never evicted. *)
Purged == {s \in Stored : Expired(s)}

(* createSessionAndClearLoginFailures, with the session issued at this moment. *)
Admit(b, c) ==
  LET id == Len(token) + 1
      kept == [s \in SessionId |-> IF s \in Purged THEN None ELSE session[s]]
  IN IF Cardinality(Stored \ Purged) >= MaxSessions
       THEN /\ session' = kept /\ Awaits(b, Answers(503, 0))
            /\ UNCHANGED <<token, window, failures, barred>>
       ELSE /\ token' = Append(token, clock)
            /\ session' = [kept EXCEPT ![id] = [seen |-> clock, revision |-> 1]]
            /\ window' = [window EXCEPT ![c] = None]
            /\ failures' = [failures EXCEPT ![c] = <<>>]
            /\ barred' = [barred EXCEPT ![c] = 0]
            /\ Awaits(b, Answers(200, id))

\* Fault: a window that is over is forgotten although it blocks.
OverInTime(row, now) == row # None /\ row.start + Window <= now

Over(row, now) == row # None /\ row.start + Window <= now /\ row.until <= now

(* One more failure of a client whose window, if it has one, is not over. *)
Counted(row, now) ==
  LET start == IF row = None THEN now ELSE row.start
      count == IF row = None THEN 1 ELSE row.count + 1
  IN [start |-> start, count |-> count,
      until |-> IF count >= MaxFailures THEN now + Block ELSE 0]

LastOf(s) == IF Len(s) <= MaxFailures THEN s ELSE Tail(s)

(* recordLoginFailure, with the time at which the attempt began.  The table takes
   no failure from before the start of its window (LOGIN_FAILURE_TABLE_SQL). *)
Reject(b, c, now) ==
  LET kept == [k \in Client |-> IF Over(window[k], now) THEN None ELSE window[k]]
      row == Counted(kept[c], now)
  IN IF Blocked(kept[c], now)
       THEN window' = kept /\ Awaits(b, Answers(429, 0)) /\ UNCHANGED <<failures, barred>>
     ELSE IF kept[c] = None /\ Cardinality({k \in Client : kept[k] # None}) >= MaxWindows
       THEN window' = kept /\ Awaits(b, Answers(503, 0)) /\ UNCHANGED <<failures, barred>>
     ELSE IF now < row.start
       THEN Awaits(b, Answers(500, 0)) /\ UNCHANGED <<window, failures, barred>>
     ELSE /\ window' = [kept EXCEPT ![c] = row]
          /\ failures' = [failures EXCEPT ![c] = LastOf(Append(@, now))]
          /\ barred' = [barred EXCEPT ![c] = IF row.until # 0 THEN row.until ELSE @]
          /\ Awaits(b, Answers(IF row.until # 0 THEN 429 ELSE 401, 0))

(* The credentials are compared when the client is known not to be blocked. *)
Judge(b) ==
  LET call == browser[b].call IN
  /\ call # None /\ call.op = "login"
  /\ IF call.right THEN Admit(b, call.client)
     ELSE Reject(b, call.client, call.at) /\ UNCHANGED <<token, session>>
  /\ UNCHANGED <<clock, request, tries>>

(* What the form makes of the answer; an answer that is lost is an error there. *)
SignedIn(b) ==
  /\ browser[b].call # None /\ browser[b].call.op = "answer"
  /\ \/ browser' = [browser EXCEPT ![b].call = None]
     \/ /\ browser[b].call.status = 200
        /\ browser' = [browser EXCEPT ![b] = [ui |-> "in", cookie |-> browser[b].call.id,
                                              call |-> None]]
  /\ UNCHANGED <<clock, token, session, window, request, tries, failures, barred>>
---------------------------------------------------------------------------
(* Signing out. *)

(* The row goes, unless the cookie itself has expired. *)
SignOut(b) ==
  LET s == browser[b].cookie IN
  /\ browser[b].ui = "in" /\ browser[b].call = None
  /\ session' = IF Expired(s) THEN session ELSE [session EXCEPT ![s] = None]
  /\ Awaits(b, [op |-> "logout"])
  /\ UNCHANGED <<clock, token, window, request, tries, failures, barred>>

(* Only an answer signs the studio out; otherwise the owner may try again. *)
LeavesStudio(b) ==
  /\ browser[b].call # None /\ browser[b].call.op = "logout"
  /\ \/ browser' = [browser EXCEPT ![b].call = None]
     \/ browser' = [browser EXCEPT ![b] = SignedOut]
  /\ UNCHANGED <<clock, token, session, window, request, tries, failures, barred>>
---------------------------------------------------------------------------
(* Guarded requests: requireOwnerSession and resolve. *)

Step(r, next) == request' = [request EXCEPT ![r] = next]
Looking(r) == [request[r] EXCEPT !.pc = "looked", !.row = session[request[r].id]]

(* A request leaves with the cookie of its browser ... *)
Send(r, b) ==
  /\ request[r].pc \in {"idle", "granted", "refused"} /\ browser[b].cookie # 0
  /\ Step(r, [Idle("sent") EXCEPT !.id = browser[b].cookie])
  /\ UNCHANGED <<clock, token, session, window, browser, tries, failures, barred>>

(* ... and arrives, perhaps late. *)
Arrive(r) ==
  LET s == request[r].id IN
  /\ request[r].pc = "sent"
  /\ IF Expired(s) THEN Step(r, Idle("refused"))
     ELSE Step(r, [Looking(r) EXCEPT !.live = Live(s)])
  /\ UNCHANGED <<clock, token, session, window, browser, tries, failures, barred>>

Swaps(s, row) == session[s] # None /\ session[s].revision = row.revision

(* touchSession *)
Touch(r, now) ==
  LET s == request[r].id
      old == request[r].row
      new == [seen |-> now, revision |-> old.revision + 1]
      done == Swaps(s, old) /\ now < ExpiresAt(s)
  IN /\ session' = IF done THEN [session EXCEPT ![s] = new] ELSE session
     /\ Step(r, [request[r] EXCEPT !.pc = "touched", !.at = now,
                                   !.row = IF done THEN new ELSE None])

(* What was read decides: there is no row, it has expired, the activity of another
   request is as recent, or it is touched.  The third reading is the last. *)
Consider(r) ==
  LET s == request[r].id
      row == request[r].row
      now == IF request[r].round = 1 THEN clock ELSE request[r].at
      expired == now >= ExpiresAt(s)
  IN
  /\ request[r].pc = "looked"
  /\ \/ row = None /\ Step(r, Idle("refused")) /\ UNCHANGED session
     \/ /\ row # None /\ expired
        /\ Step(r, Idle("refused"))
        /\ session' = IF request[r].round < 3 THEN [session EXCEPT ![s] = None] ELSE session
     \/ /\ row # None /\ ~expired /\ (request[r].round = 3 \/ now <= row.seen)
        /\ Step(r, Idle("granted")) /\ UNCHANGED session
     \/ /\ row # None /\ ~expired /\ request[r].round < 3 /\ now > row.seen
        /\ Touch(r, now)
  /\ UNCHANGED <<clock, token, window, browser, tries, failures, barred>>

\* Fault: a touch that is lost twice signs the owner out.
TouchedOnce(r) ==
  /\ request[r].pc = "touched"
  /\ Step(r, IF request[r].row # None THEN Idle("granted")
             ELSE IF request[r].round = 2 THEN Idle("refused")
             ELSE [Looking(r) EXCEPT !.round = @ + 1])
  /\ UNCHANGED <<clock, token, session, window, browser, tries, failures, barred>>

(* A touch that was lost to a parallel request, or to the end of the session, is
   followed by another reading. *)
Touched(r) ==
  /\ request[r].pc = "touched"
  /\ Step(r, IF request[r].row # None THEN Idle("granted")
             ELSE [Looking(r) EXCEPT !.round = @ + 1])
  /\ UNCHANGED <<clock, token, session, window, browser, tries, failures, barred>>
---------------------------------------------------------------------------
Next ==
  \/ Tick
  \/ \E b \in Browser :
       \/ \E c \in Client, right \in BOOLEAN : SignIn(b, c, right)
       \/ Judge(b) \/ SignedIn(b) \/ SignOut(b) \/ LeavesStudio(b)
  \/ \E r \in Request :
       \/ \E b \in Browser : Send(r, b)
       \/ Arrive(r) \/ Consider(r) \/ Touched(r)

Spec == Init /\ [][Next]_vars
---------------------------------------------------------------------------
(* Properties. *)

(* A request is let in only if its session was live when it arrived, and turned
   away only if its session is over by then: parallel requests that touch one
   session, and a sign-out between any two of their statements, mislead none of
   them. *)
VerdictsAreTrue ==
  [][\A r \in Request :
        /\ request[r].pc # "granted" /\ request'[r].pc = "granted" => request[r].live
        /\ request[r].pc # "refused" /\ request'[r].pc = "refused" => ~Live(request[r].id)]_vars

(* A session ends by its time or by being signed out of, and never for the sake of
   another one; it does not come back; and a studio that shows itself signed out
   has no session left that would still be honoured. *)
SessionsEndOnce ==
  [][/\ \A s \in 1..Len(token) :
          /\ session[s] = None => session'[s] = None
          /\ session[s] # None /\ session'[s] = None =>
               \/ Expired(s)
               \/ \E b \in Browser : browser[b].cookie = s /\ browser'[b].call # browser[b].call
     /\ \A b \in Browser :
          browser[b].ui = "in" /\ browser'[b].ui = "out" => ~Live(browser[b].cookie)]_vars

(* A client is blocked only after MaxFailures failures within one window, none of
   them before a correct password, and stays blocked until the time it was told,
   whatever other attempts are judged meanwhile, late ones included. (With the
   types of the variables.) *)
BlocksAreEarnedAndKept ==
  /\ TypeOK
  /\ \A c \in Client :
       /\ barred[c] > clock => window[c] # None /\ window[c].until = barred[c]
       /\ Blocked(window[c], clock) =>
            /\ Len(failures[c]) = MaxFailures
            /\ \A i, j \in 1..MaxFailures : failures[c][i] < failures[c][j] + Window
  /\ Cardinality(Stored) <= MaxSessions
=============================================================================
