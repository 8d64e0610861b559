------------------------- MODULE CampaignStudioProofs -------------------------
(* Proofs about CampaignStudio: what the owner wrote stays on the screen until it is
   saved, and what is called saved is stored.

   Neither holds by itself from step to step.  An edit is called saved when its
   request was accepted, so the invariant must say that an accepted request is in
   the history, and that the edit on its way was not called saved before (SaverInv).
   A campaign that is opened drops every edit, so there must be none: one is opened
   only from the list, and the list has no edits (ListInv).  What the server sends
   is a campaign only once there is one (ServerInv). *)
EXTENDS CampaignStudio, TLAPS

LEMMA FirstFacts == First \in Languages
  BY LanguagesAssumption DEF First

LEMMA NoneFacts == None \notin Edits /\ None \notin Runs /\ None \notin Campaigns
  BY NoneAssumption

(* The records the actions write. *)
LEMMA WordsFacts ==
  ASSUME NEW by \in {"run", "owner", "other"}, NEW n \in Nat
  PROVE  Words(by, n) \in Values
  BY Zenon DEF Words, Values

LEMMA CampaignFacts ==
  ASSUME NEW revision \in Nat, NEW text \in Texts, NEW refined \in Nat
  PROVE  \E c \in Campaigns : /\ c = Campaign(revision, text, refined) /\ c # None
                              /\ c.revision = revision /\ c.text = text /\ c.refined = refined
  <1>1. Campaign(revision, text, refined) \in Campaigns
    BY Zenon DEF Campaign, Campaigns
  <1>2. /\ Campaign(revision, text, refined).revision = revision
        /\ Campaign(revision, text, refined).text = text
        /\ Campaign(revision, text, refined).refined = refined
    BY Zenon DEF Campaign
  <1> QED BY <1>1, <1>2, NoneFacts, Zenon

LEMMA CampaignTypes ==
  ASSUME NEW c \in Campaigns
  PROVE  /\ c.revision \in Nat /\ c.text \in Texts /\ c.refined \in Nat /\ c # None
         /\ \A k \in Keys : c.text[k] \in Values
  <1>1. c.revision \in Nat /\ c.text \in Texts /\ c.refined \in Nat
    BY Zenon DEF Campaigns
  <1>2. \A k \in Keys : c.text[k] \in Values
    BY <1>1 DEF Texts
  <1> QED BY <1>1, <1>2, NoneFacts

\* A campaign with other words.
Reworded(c, text) == [c EXCEPT !.text = text]
Revised(c, revision) == [c EXCEPT !.revision = revision]

LEMMA RewordedFacts ==
  ASSUME NEW c \in Campaigns, NEW text \in Texts
  PROVE  \E d \in Campaigns : d = Reworded(c, text) /\ d.text = text /\ d.refined = c.refined
  <1>1. Reworded(c, text) \in Campaigns /\ Reworded(c, text).text = text
        /\ Reworded(c, text).refined = c.refined
    BY Zenon DEF Reworded, Campaigns
  <1> QED BY <1>1, Zenon

LEMMA RevisedFacts ==
  ASSUME NEW c \in Campaigns, NEW revision \in Nat
  PROVE  \E d \in Campaigns : d = Revised(c, revision) /\ d.text = c.text
  <1>1. Revised(c, revision) \in Campaigns /\ Revised(c, revision).text = c.text
    BY Zenon DEF Revised, Campaigns
  <1> QED BY <1>1, Zenon

LEMMA RunTypes ==
  ASSUME NEW st \in Runs
  PROVE  /\ st.n \in Nat /\ st.kind \in {"make", "refine"} /\ st.state \in States /\ st.base \in Nat
         /\ st.kind = "refine" => st.language \in Languages /\ st.draft \in Drafts
         /\ st # None
  <1>1. CASE st \in [n : Nat, kind : {"make"}, language : {None}, draft : {None}, base : {0}, state : States]
    <2>1. st.n \in Nat /\ st.kind \in {"make"} /\ st.base \in {0} /\ st.state \in States
      BY <1>1, Zenon
    <2> QED BY <2>1, NoneFacts
  <1>2. CASE st \in [n : Nat, kind : {"refine"}, language : Languages, draft : Drafts, base : Nat,
                     state : States]
    <2>1. /\ st.n \in Nat /\ st.kind \in {"refine"} /\ st.base \in Nat /\ st.state \in States
          /\ st.language \in Languages /\ st.draft \in Drafts
      BY <1>2, Zenon
    <2> QED BY <2>1, NoneFacts
  <1> QED BY <1>1, <1>2 DEF Runs

LEMMA MakeFacts ==
  ASSUME NEW n \in Nat, NEW state \in States
  PROVE  Run(n, "make", None, None, 0, state) \in Runs
  <1>1. Run(n, "make", None, None, 0, state)
          \in [n : Nat, kind : {"make"}, language : {None}, draft : {None}, base : {0}, state : States]
    BY Zenon DEF Run
  <1> QED BY <1>1 DEF Runs

LEMMA RefineFacts ==
  ASSUME NEW n \in Nat, NEW state \in States, NEW l \in Languages, NEW draft \in Drafts, NEW base \in Nat
  PROVE  Run(n, "refine", l, draft, base, state) \in Runs
  <1>1. Run(n, "refine", l, draft, base, state)
          \in [n : Nat, kind : {"refine"}, language : Languages, draft : Drafts, base : Nat, state : States]
    BY Zenon DEF Run
  <1> QED BY <1>1 DEF Runs

Ended(st, state) == [st EXCEPT !.state = state]

LEMMA EndedFacts ==
  ASSUME NEW st \in Runs, NEW state \in States
  PROVE  Ended(st, state) \in Runs
  <1>1. CASE st \in [n : Nat, kind : {"make"}, language : {None}, draft : {None}, base : {0}, state : States]
    <2>1. Ended(st, state) \in [n : Nat, kind : {"make"}, language : {None}, draft : {None}, base : {0},
                                state : States]
      BY <1>1, Zenon DEF Ended
    <2> QED BY <2>1 DEF Runs
  <1>2. CASE st \in [n : Nat, kind : {"refine"}, language : Languages, draft : Drafts, base : Nat,
                     state : States]
    <2>1. Ended(st, state) \in [n : Nat, kind : {"refine"}, language : Languages, draft : Drafts,
                                base : Nat, state : States]
      BY <1>2, Zenon DEF Ended
    <2> QED BY <2>1 DEF Runs
  <1> QED BY <1>1, <1>2 DEF Runs

LEMMA EditFacts ==
  ASSUME NEW value \in Values, NEW state \in {"dirty", "saving", "saved", "failed"}
  PROVE  \E e \in Edits : e = Edit(value, state) /\ e.value = value /\ e.state = state /\ e # None
  <1>1. Edit(value, state) \in Edits /\ Edit(value, state).value = value
        /\ Edit(value, state).state = state
    BY Zenon DEF Edit, Edits
  <1> QED BY <1>1, NoneFacts, Zenon

LEMMA EditTypes ==
  ASSUME NEW e \in Edits
  PROVE  e.value \in Values /\ e.state \in {"dirty", "saving", "saved", "failed"} /\ e # None
  <1>1. e.value \in Values /\ e.state \in {"dirty", "saving", "saved", "failed"}
    BY Zenon DEF Edits
  <1> QED BY <1>1, NoneFacts
--------------------------------------------------------------------------------
(* Requests and their answers. *)

LEMMA RequestFacts ==
  ASSUME NEW ops, NEW args, NEW bodies, NEW op \in ops, NEW arg \in args
  PROVE  /\ Asks(op, arg) \in Requests(ops, args, bodies)
         /\ Asks(op, arg).op = op /\ Asks(op, arg).arg = arg /\ Asks(op, arg).reply = None
  <1>1. None \in Replies(bodies) \cup {None}
    OBVIOUS
  <1> QED BY <1>1, Zenon DEF Asks, Requests

LEMMA RequestTypes ==
  ASSUME NEW ops, NEW args, NEW bodies, NEW r \in Requests(ops, args, bodies)
  PROVE  /\ r.op \in ops /\ r.arg \in args
         /\ r.reply \in Replies(bodies) \cup {None}
  BY Zenon DEF Requests

LEMMA ReplyTypes ==
  ASSUME NEW bodies, NEW a \in Replies(bodies)
  PROVE  /\ a.code \in {0, 200, 400, 401, 404, 409}
         /\ a.code = 200 => a.body \in bodies
         /\ a.code # 200 => a.body = None
  <1>1. CASE a \in [code : {200}, body : bodies]
    <2>1. a.code \in {200} /\ a.body \in bodies
      BY <1>1, Zenon
    <2> QED BY <2>1
  <1>2. CASE a \in [code : {0, 400, 401, 404, 409}, body : {None}]
    <2>1. a.code \in {0, 400, 401, 404, 409} /\ a.body \in {None}
      BY <1>2, Zenon
    <2> QED BY <2>1
  <1> QED BY <1>1, <1>2 DEF Replies

LEMMA FreeFacts ==
  /\ Free.op = "none" /\ Free.reply = None
  /\ Free \in Savings /\ Free \in Follow /\ Free \in Ordering
  <1>1. Free.op = "none" /\ Free.reply = None
    BY Zenon DEF Free, Asks
  <1> QED BY <1>1 DEF Savings, Follow, Ordering

Slots == {"saver", "follow", "order"}

LEMMA SaverSet ==
  ASSUME DOMAIN req = Slots, NEW x, req' = [req EXCEPT !.saver = x]
  PROVE  DOMAIN req' = Slots /\ req'.saver = x /\ req'.follow = req.follow /\ req'.order = req.order
  BY DEF Slots

LEMMA FollowSet ==
  ASSUME DOMAIN req = Slots, NEW x, req' = [req EXCEPT !.follow = x]
  PROVE  DOMAIN req' = Slots /\ req'.saver = req.saver /\ req'.follow = x /\ req'.order = req.order
  BY DEF Slots

LEMMA OrderSet ==
  ASSUME DOMAIN req = Slots, NEW x, req' = [req EXCEPT !.order = x]
  PROVE  DOMAIN req' = Slots /\ req'.saver = req.saver /\ req'.follow = req.follow /\ req'.order = x
  BY DEF Slots

LEMMA BothSet ==
  ASSUME DOMAIN req = Slots, NEW x, NEW y, req' = [req EXCEPT !.order = x, !.follow = y]
  PROVE  DOMAIN req' = Slots /\ req'.saver = req.saver /\ req'.follow = y /\ req'.order = x
  BY DEF Slots

\* The slots one by one.
SavingTypes(r) ==
  /\ r.op \in {"none", "patch", "conflict"}
  /\ r.op # "none" => r.arg \in Patches
  /\ r.reply # None => r.op # "none" /\ r.reply.code \in {0, 200, 400, 401, 404, 409}
  /\ r.op = "patch" /\ r.reply # None /\ r.reply.code = 200 => r.reply.body \in Nat
  /\ r.op = "conflict" /\ r.reply # None /\ r.reply.code = 200 => r.reply.body \in Campaigns

LEMMA SavingFacts ==
  /\ \A r \in Savings : SavingTypes(r)
  /\ \A a \in Patches : \A op \in {"patch", "conflict"} :
       Asks(op, a) \in Savings /\ Asks(op, a).op = op /\ Asks(op, a).arg = a /\ Asks(op, a).reply = None
  <1>1. ASSUME NEW r \in Requests({"patch"}, Patches, Nat)  PROVE SavingTypes(r)
    <2>1. r.op \in {"patch"} /\ r.arg \in Patches /\ r.reply \in Replies(Nat) \cup {None}
      BY RequestTypes
    <2> QED BY <2>1, ReplyTypes DEF SavingTypes
  <1>2. ASSUME NEW r \in Requests({"conflict"}, Patches, Campaigns)  PROVE SavingTypes(r)
    <2>1. r.op \in {"conflict"} /\ r.arg \in Patches /\ r.reply \in Replies(Campaigns) \cup {None}
      BY RequestTypes
    <2> QED BY <2>1, ReplyTypes DEF SavingTypes
  <1>3. SavingTypes(Free)
    BY FreeFacts DEF SavingTypes
  <1>4. \A a \in Patches : \A op \in {"patch"} :
          /\ Asks(op, a) \in Requests({"patch"}, Patches, Nat)
          /\ Asks(op, a).op = op /\ Asks(op, a).arg = a /\ Asks(op, a).reply = None
    BY RequestFacts
  <1>5. \A a \in Patches : \A op \in {"conflict"} :
          /\ Asks(op, a) \in Requests({"conflict"}, Patches, Campaigns)
          /\ Asks(op, a).op = op /\ Asks(op, a).arg = a /\ Asks(op, a).reply = None
    BY RequestFacts
  <1> QED BY <1>1, <1>2, <1>3, <1>4, <1>5 DEF Savings

LEMMA PatchFacts ==
  /\ \A a \in Patches : a.key \in Keys /\ a.value \in Values /\ a.revision \in Nat
  /\ \A k \in Keys, v \in Values, n \in Nat :
       \E a \in Patches : Patch(k, v, n) = Asks("patch", a) /\ a.key = k /\ a.value = v
  <1>1. \A a \in Patches : a.key \in Keys /\ a.value \in Values /\ a.revision \in Nat
    BY Zenon DEF Patches
  <1>2. ASSUME NEW k \in Keys, NEW v \in Values, NEW n \in Nat
        PROVE  \E a \in Patches : Patch(k, v, n) = Asks("patch", a) /\ a.key = k /\ a.value = v
    <2>1. /\ [key |-> k, value |-> v, revision |-> n] \in Patches
          /\ [key |-> k, value |-> v, revision |-> n].key = k
          /\ [key |-> k, value |-> v, revision |-> n].value = v
      BY Zenon DEF Patches
    <2>2. Patch(k, v, n) = Asks("patch", [key |-> k, value |-> v, revision |-> n])
      BY Zenon DEF Patch
    <2> QED BY <2>1, <2>2, Zenon
  <1> QED BY <1>1, <1>2

FollowOps == {"status", "recover", "open", "overlay", "recovered", "get", "final"}

FollowTypes(r) ==
  /\ r.op \in FollowOps \cup {"none"}
  /\ r.op # "none" => r.arg \in Following
  /\ r.reply # None => r.op # "none" /\ r.reply.code \in {0, 200, 400, 401, 404, 409}
  /\ r.op = "status" /\ r.reply # None /\ r.reply.code = 200 => r.reply.body \in Runs
  /\ r.op = "recover" /\ r.reply # None => r.reply.body \in Runs \cup {None}
  /\ r.op \in FollowOps \ {"status", "recover"} /\ r.reply # None /\ r.reply.code = 200 =>
       r.reply.body \in Campaigns

LEMMA FollowFacts ==
  /\ \A r \in Follow : FollowTypes(r)
  /\ \A a \in Following : \A op \in FollowOps :
       Asks(op, a) \in Follow /\ Asks(op, a).op = op /\ Asks(op, a).arg = a /\ Asks(op, a).reply = None
  <1>1. ASSUME NEW r \in Requests({"status"}, Following, Runs)  PROVE FollowTypes(r)
    <2>1. r.op \in {"status"} /\ r.arg \in Following /\ r.reply \in Replies(Runs) \cup {None}
      BY RequestTypes
    <2> QED BY <2>1, ReplyTypes DEF FollowTypes, FollowOps
  <1>2. ASSUME NEW r \in Requests({"recover"}, Following, Runs \cup {None})  PROVE FollowTypes(r)
    <2>1. r.op \in {"recover"} /\ r.arg \in Following /\ r.reply \in Replies(Runs \cup {None}) \cup {None}
      BY RequestTypes
    <2>2. \A a \in Replies(Runs \cup {None}) :
            a.code \in {0, 200, 400, 401, 404, 409} /\ a.body \in Runs \cup {None}
      BY ReplyTypes
    <2> QED BY <2>1, <2>2 DEF FollowTypes, FollowOps
  <1>3. ASSUME NEW r \in Requests({"open", "overlay", "recovered", "get", "final"}, Following, Campaigns)
        PROVE  FollowTypes(r)
    <2>1. /\ r.op \in {"open", "overlay", "recovered", "get", "final"} /\ r.arg \in Following
          /\ r.reply \in Replies(Campaigns) \cup {None}
      BY RequestTypes
    <2> QED BY <2>1, ReplyTypes DEF FollowTypes, FollowOps
  <1>4. FollowTypes(Free)
    BY FreeFacts DEF FollowTypes, FollowOps
  <1>5. \A a \in Following : \A op \in {"status"} :
          /\ Asks(op, a) \in Requests({"status"}, Following, Runs)
          /\ Asks(op, a).op = op /\ Asks(op, a).arg = a /\ Asks(op, a).reply = None
    BY RequestFacts
  <1>6. \A a \in Following : \A op \in {"recover"} :
          /\ Asks(op, a) \in Requests({"recover"}, Following, Runs \cup {None})
          /\ Asks(op, a).op = op /\ Asks(op, a).arg = a /\ Asks(op, a).reply = None
    BY RequestFacts
  <1>7. \A a \in Following : \A op \in {"open", "overlay", "recovered", "get", "final"} :
          /\ Asks(op, a) \in Requests({"open", "overlay", "recovered", "get", "final"}, Following, Campaigns)
          /\ Asks(op, a).op = op /\ Asks(op, a).arg = a /\ Asks(op, a).reply = None
    BY RequestFacts
  <1>8. \A r \in Follow : FollowTypes(r)
    BY <1>1, <1>2, <1>3, <1>4 DEF Follow
  <1>9. ASSUME NEW a \in Following, NEW op \in FollowOps
        PROVE  Asks(op, a) \in Follow /\ Asks(op, a).op = op /\ Asks(op, a).arg = a /\ Asks(op, a).reply = None
    <2>1. CASE op \in {"status"}
      BY <1>5, <2>1 DEF Follow
    <2>2. CASE op \in {"recover"}
      BY <1>6, <2>2 DEF Follow
    <2>3. CASE op \in {"open", "overlay", "recovered", "get", "final"}
      BY <1>7, <2>3 DEF Follow
    <2> QED BY <2>1, <2>2, <2>3 DEF FollowOps
  <1> QED BY <1>8, <1>9

LEMMA FollowingFacts ==
  /\ \A a \in Following : a.want \in Nat \cup {None} /\ a.status \in Runs \cup {None}
  /\ \A want \in Nat \cup {None}, st \in Runs \cup {None} :
       \E a \in Following : a = [want |-> want, status |-> st] /\ a.want = want /\ a.status = st
  <1>1. \A a \in Following : a.want \in Nat \cup {None} /\ a.status \in Runs \cup {None}
    BY Zenon DEF Following
  <1>2. ASSUME NEW want \in Nat \cup {None}, NEW st \in Runs \cup {None}
        PROVE  \E a \in Following : a = [want |-> want, status |-> st] /\ a.want = want /\ a.status = st
    <2>1. /\ [want |-> want, status |-> st] \in Following
          /\ [want |-> want, status |-> st].want = want /\ [want |-> want, status |-> st].status = st
      BY Zenon DEF Following
    <2> QED BY <2>1, Zenon
  <1> QED BY <1>1, <1>2

OrderTypes(r) ==
  /\ r.op \in {"none", "create", "retry", "refine", "refused"}
  /\ r.op = "refine" => r.arg \in Orders
  /\ r.op = "refused" => r.arg \in Nat
  /\ r.reply # None => r.op # "none" /\ r.reply.code \in {0, 200, 400, 401, 404, 409}
  /\ r.op = "refused" /\ r.reply # None /\ r.reply.code = 200 => r.reply.body \in Campaigns

LEMMA OrderFacts ==
  /\ \A r \in Ordering : OrderTypes(r)
  /\ \A op \in {"create", "retry"} :
       Asks(op, None) \in Ordering /\ Asks(op, None).op = op /\ Asks(op, None).reply = None
  /\ \A a \in Orders : \A op \in {"refine"} :
       Asks(op, a) \in Ordering /\ Asks(op, a).op = op /\ Asks(op, a).arg = a /\ Asks(op, a).reply = None
  /\ \A a \in Nat : \A op \in {"refused"} :
       Asks(op, a) \in Ordering /\ Asks(op, a).op = op /\ Asks(op, a).arg = a /\ Asks(op, a).reply = None
  <1>1. ASSUME NEW r \in Requests({"create", "retry"}, {None}, {None})  PROVE OrderTypes(r)
    <2>1. r.op \in {"create", "retry"} /\ r.reply \in Replies({None}) \cup {None}
      BY RequestTypes
    <2> QED BY <2>1, ReplyTypes DEF OrderTypes
  <1>2. ASSUME NEW r \in Requests({"refine"}, Orders, {None})  PROVE OrderTypes(r)
    <2>1. r.op \in {"refine"} /\ r.arg \in Orders /\ r.reply \in Replies({None}) \cup {None}
      BY RequestTypes
    <2> QED BY <2>1, ReplyTypes DEF OrderTypes
  <1>3. ASSUME NEW r \in Requests({"refused"}, Nat, Campaigns)  PROVE OrderTypes(r)
    <2>1. r.op \in {"refused"} /\ r.arg \in Nat /\ r.reply \in Replies(Campaigns) \cup {None}
      BY RequestTypes
    <2> QED BY <2>1, ReplyTypes DEF OrderTypes
  <1>4. OrderTypes(Free)
    BY FreeFacts DEF OrderTypes
  <1>5. \A op \in {"create", "retry"} : \A a \in {None} :
          /\ Asks(op, a) \in Requests({"create", "retry"}, {None}, {None})
          /\ Asks(op, a).op = op /\ Asks(op, a).reply = None
    BY RequestFacts
  <1>6. \A a \in Orders : \A op \in {"refine"} :
          /\ Asks(op, a) \in Requests({"refine"}, Orders, {None})
          /\ Asks(op, a).op = op /\ Asks(op, a).arg = a /\ Asks(op, a).reply = None
    BY RequestFacts
  <1>7. \A a \in Nat : \A op \in {"refused"} :
          /\ Asks(op, a) \in Requests({"refused"}, Nat, Campaigns)
          /\ Asks(op, a).op = op /\ Asks(op, a).arg = a /\ Asks(op, a).reply = None
    BY RequestFacts
  <1>8. \A r \in Ordering : OrderTypes(r)
    BY <1>1, <1>2, <1>3, <1>4 DEF Ordering
  <1>9. \A op \in {"create", "retry"} :
         Asks(op, None) \in Ordering /\ Asks(op, None).op = op /\ Asks(op, None).reply = None
    BY <1>5 DEF Ordering
  <1>10. \A a \in Orders : \A op \in {"refine"} :
         Asks(op, a) \in Ordering /\ Asks(op, a).op = op /\ Asks(op, a).arg = a /\ Asks(op, a).reply = None
    BY <1>6 DEF Ordering
  <1>11. \A a \in Nat : \A op \in {"refused"} :
         Asks(op, a) \in Ordering /\ Asks(op, a).op = op /\ Asks(op, a).arg = a /\ Asks(op, a).reply = None
    BY <1>7 DEF Ordering
  <1> QED BY <1>8, <1>9, <1>10, <1>11

LEMMA OrdersFacts ==
  /\ \A a \in Orders : a.language \in Languages /\ a.revision \in Nat /\ a.draft \in Drafts
  /\ \A l \in Languages, n \in Nat, d \in Drafts :
       [language |-> l, revision |-> n, draft |-> d] \in Orders
  BY Zenon DEF Orders
--------------------------------------------------------------------------------
(* The inductive invariant. *)

\* What was not saved is on the screen.
Shows == shown # None => \A k \in Keys : Unsaved(k) => shown.text[k] = edits[k].value

\* Until there is a campaign, nothing was shown, sent or refined.
ServerInv ==
  /\ run = None => stored = None
  /\ stored = None =>
       /\ shown = None /\ req.saver.op = "none" /\ req.order.op \notin {"refine", "refused"}
       /\ run # None => run.kind = "make"
       /\ req.follow.op \in Reads /\ req.follow.reply # None => req.follow.reply.code # 200

\* What is on its way is not called saved yet, and is stored once it is accepted.
SaverInv ==
  LET r == req.saver IN
  /\ r.op # "none" =>
       \A k \in Keys : k = r.arg.key /\ edits[k] # None /\ edits[k].value = r.arg.value =>
                         edits[k].state # "saved"
  /\ r.op = "patch" /\ r.reply # None /\ r.reply.code = 200 => <<r.arg.key, r.arg.value>> \in written

\* In the list nothing is edited, and only there a campaign is opened.
ListInv ==
  /\ view = "list" => \A k \in Keys : edits[k] = None
  /\ req.follow.op = "open" => view = "list"

Screen == Shows /\ SavedMeansStored /\ SaverInv /\ ListInv
IInv == Types /\ ServerInv /\ Screen
--------------------------------------------------------------------------------
(* What the steps leave alone. *)

LEMMA TypeFacts ==
  ASSUME IInv
  PROVE  /\ Types /\ ServerInv /\ Screen
         /\ DOMAIN req = Slots /\ req.saver \in Savings /\ req.follow \in Follow /\ req.order \in Ordering
         /\ SavingTypes(req.saver) /\ FollowTypes(req.follow) /\ OrderTypes(req.order)
         /\ stored \in Campaigns \cup {None} /\ shown \in Campaigns \cup {None}
         /\ run \in Runs \cup {None} /\ known \in Runs \cup {None} /\ language \in Languages
         /\ edits \in [Keys -> Edits \cup {None}] /\ events \in Nat /\ events \in 0..MaxEvents
         /\ written \subseteq Keys \X Values
         /\ session \in BOOLEAN /\ signed \in BOOLEAN /\ dialog \in BOOLEAN
         /\ generating \in BOOLEAN /\ refining \in BOOLEAN /\ retry \in BOOLEAN
  <1>1. Types /\ ServerInv /\ Screen
    BY DEF IInv
  <1>2. /\ DOMAIN req = Slots /\ req.saver \in Savings /\ req.follow \in Follow /\ req.order \in Ordering
        /\ stored \in Campaigns \cup {None} /\ shown \in Campaigns \cup {None}
        /\ run \in Runs \cup {None} /\ known \in Runs \cup {None} /\ language \in Languages
        /\ edits \in [Keys -> Edits \cup {None}] /\ events \in 0..MaxEvents
        /\ written \subseteq Keys \X Values
        /\ session \in BOOLEAN /\ signed \in BOOLEAN /\ dialog \in BOOLEAN
        /\ generating \in BOOLEAN /\ refining \in BOOLEAN /\ retry \in BOOLEAN
    BY <1>1 DEF Types, Slots
  <1>3. SavingTypes(req.saver) /\ FollowTypes(req.follow) /\ OrderTypes(req.order)
    BY <1>2, SavingFacts, FollowFacts, OrderFacts
  <1>4. events \in Nat
    BY <1>2, BoundsAssumption
  <1> QED BY <1>1, <1>2, <1>3, <1>4

\* The copy on the screen stays, or goes with it.
LEMMA ScreenStays ==
  ASSUME IInv, UNCHANGED <<edits, written>>, shown' \in {shown, None}, view' \in {view, "campaign"},
         req'.saver = req.saver, req'.follow.op = "open" => view' = "list"
  PROVE  Screen'
  <1>1. Screen
    BY DEF IInv
  <1>2. Shows' /\ SavedMeansStored'
    BY <1>1 DEF Screen, Shows, SavedMeansStored, Unsaved
  <1>3. SaverInv' /\ ListInv'
    BY <1>1 DEF Screen, SaverInv, ListInv
  <1> QED BY <1>2, <1>3 DEF Screen

LEMMA ScreenEmptied ==
  ASSUME IInv, edits' = NoEdits, UNCHANGED written, req'.saver = req.saver,
         req'.follow.op = "open" => view' = "list"
  PROVE  Screen'
  <1>1. \A k \in Keys : edits'[k] = None
    BY DEF NoEdits
  <1>2. Screen
    BY DEF IInv
  <1>3. Shows' /\ SavedMeansStored'
    BY <1>1 DEF Shows, SavedMeansStored, Unsaved
  <1>4. SaverInv' /\ ListInv'
    BY <1>1, <1>2 DEF Screen, SaverInv, ListInv
  <1> QED BY <1>3, <1>4 DEF Screen

\* Nothing is stored, and nothing asked of a campaign there is not.
LEMMA ServerStays ==
  ASSUME IInv, UNCHANGED <<stored, run>>,
         stored = None => /\ shown' = None /\ req'.saver.op = "none"
                          /\ req'.order.op \notin {"refine", "refused"},
         req'.follow = req.follow \/ req'.follow.reply = None
  PROVE  ServerInv'
  BY DEF IInv, ServerInv

LEMMA UnchangedReq ==
  ASSUME IInv, UNCHANGED req
  PROVE  /\ req'.saver = req.saver /\ req'.follow = req.follow /\ req'.order = req.order
         /\ req'.follow.op = "open" => view = "list"
  BY DEF IInv, Screen, ListInv

\* The slot "follow" after a request was put there.
Taken(op) ==
  /\ DOMAIN req' = Slots /\ req'.saver = req.saver /\ req'.order = req.order
  /\ req'.follow \in Follow /\ req'.follow.op = op /\ req'.follow.reply = None

LEMMA FollowsIs ==
  ASSUME IInv, NEW op \in FollowOps, NEW want \in Nat \cup {None}, NEW st \in Runs \cup {None},
         Follows(op, want, st)
  PROVE  Taken(op)
  <1>1. PICK a \in Following : a = [want |-> want, status |-> st]
    BY FollowingFacts
  <1>2. PICK x \in Follow : x = Asks(op, a) /\ x.op = op /\ x.reply = None
    BY FollowFacts
  <1>3. req' = [req EXCEPT !.follow = x]
    BY <1>1, <1>2 DEF Follows
  <1>4. DOMAIN req' = Slots /\ req'.saver = req.saver /\ req'.follow = x /\ req'.order = req.order
    BY <1>3, TypeFacts, FollowSet
  <1> QED BY <1>2, <1>4 DEF Taken

LEMMA RecoverableType ==
  ASSUME IInv
  PROVE  Recoverable \in Runs \cup {None}
  BY TypeFacts DEF Recoverable

\* An answer that is awaited no more may be kept, and counts as an event.
LEMMA OvertakesFacts ==
  ASSUME IInv, NEW others, Overtakes(others)
  PROVE  events' \in 0..MaxEvents
  BY TypeFacts, BoundsAssumption DEF Overtakes, Spend

\* Work that goes on is looked for, or will be.
LEMMA LooksStep ==
  ASSUME IInv, Follows("recover", None, None) \/ UNCHANGED req,
         signed' \in BOOLEAN, session' \in BOOLEAN, known' \in Runs \cup {None}, events' \in 0..MaxEvents,
         UNCHANGED <<stored, run, written, view, language, dialog, generating, refining, retry,
                     shown, edits, waiting>>
  PROVE  IInv'
  <1>1. CASE Follows("recover", None, None)
    <2>1. "recover" \in FollowOps /\ None \in Nat \cup {None} /\ None \in Runs \cup {None}
      BY DEF FollowOps
    <2>2. Taken("recover")
      BY <1>1, <2>1, FollowsIs
    <2>3. Types'
      BY <2>2 DEF IInv, Types, Taken, Slots
    <2>4. ServerInv'
      BY <2>2, ServerStays DEF Taken, IInv, ServerInv
    <2>5. Screen'
      BY <2>2, ScreenStays DEF Taken
    <2> QED BY <2>3, <2>4, <2>5 DEF IInv
  <1>2. CASE UNCHANGED req
    <2>1. Types'
      BY <1>2 DEF IInv, Types
    <2>2. ServerInv'
      BY <1>2 DEF IInv, ServerInv
    <2>3. Screen'
      BY <1>2, UnchangedReq, ScreenStays
    <2> QED BY <2>1, <2>2, <2>3 DEF IInv
  <1> QED BY <1>1, <1>2

LEMMA SignInStep ==
  ASSUME IInv, SignIn
  PROVE  IInv'
  <1>1. /\ signed' = TRUE /\ session' = TRUE /\ known' = Recoverable
        /\ Follows("recover", None, None) \/ UNCHANGED req
        /\ UNCHANGED <<stored, run, written, view, language, dialog, generating, refining, retry,
                       shown, edits, waiting>>
    BY DEF SignIn, flags
  <1>2. events' \in 0..MaxEvents
    BY TypeFacts, BoundsAssumption DEF SignIn, Spend
  <1> QED BY <1>1, <1>2, RecoverableType, LooksStep

LEMMA LoadedStep ==
  ASSUME IInv, Loaded
  PROVE  IInv'
  <1>1. /\ Follows("recover", None, None) \/ UNCHANGED req
        /\ UNCHANGED <<stored, run, session, written, signed, view, language, dialog, generating, refining,
                       retry, shown, edits, known, waiting>>
    BY DEF Loaded, server, place, flags
  <1>2. events' \in 0..MaxEvents
    BY TypeFacts, OvertakesFacts DEF Loaded
  <1> QED BY <1>1, <1>2, TypeFacts, LooksStep
--------------------------------------------------------------------------------
(* The loop that saves. *)

\* What became of the edits, which keep their words, and of what was saved.
Carried(e, d) ==
  \A k \in Keys : /\ d[k] = None <=> e[k] = None
                  /\ e[k] # None => d[k].value = e[k].value /\ (d[k].state = "saved" <=> e[k].state = "saved")

LEMMA CarriedOn ==
  ASSUME NEW a, NEW b, NEW c, Carried(a, b), Carried(b, c)
  PROVE  Carried(a, c)
  BY DEF Carried

Written == [Keys -> Edits \cup {None}]

\* The edits of a set of keys in a new state.
Turned(e, K, state) == [k \in Keys |-> IF k \in K THEN Edit(e[k].value, state) ELSE e[k]]

LEMMA TurnedFacts ==
  ASSUME NEW e \in Written, NEW K \in SUBSET Keys, \A k \in K : e[k] # None,
         NEW state \in {"dirty", "saving", "saved", "failed"}
  PROVE  /\ Turned(e, K, state) \in Written
         /\ \A k \in Keys : k \notin K => Turned(e, K, state)[k] = e[k]
         /\ \A k \in K : /\ Turned(e, K, state)[k] # None /\ Turned(e, K, state)[k].value = e[k].value
                         /\ Turned(e, K, state)[k].state = state
  <1>1. \A k \in K : /\ e[k] \in Edits /\ e[k].value \in Values
    BY EditTypes DEF Written
  <1>2. \A k \in K : /\ Edit(e[k].value, state) \in Edits /\ Edit(e[k].value, state) # None
                     /\ Edit(e[k].value, state).value = e[k].value
                     /\ Edit(e[k].value, state).state = state
    BY <1>1, EditFacts
  <1>3. \A k \in Keys : Turned(e, K, state)[k] = IF k \in K THEN Edit(e[k].value, state) ELSE e[k]
    BY DEF Turned
  <1>4. \A k \in Keys : (IF k \in K THEN Edit(e[k].value, state) ELSE e[k]) \in Edits \cup {None}
    BY <1>2 DEF Written
  <1>5. Turned(e, K, state) \in Written
    BY <1>4 DEF Turned, Written
  <1> QED BY <1>2, <1>3, <1>5

LEMMA SettledFacts ==
  ASSUME NEW e \in Written, NEW c
  PROVE  /\ Settled(e, c) \in Written /\ Carried(e, Settled(e, c))
         /\ c = None => In(Settled(e, c), "saving") = {}
         /\ c # None => Settled(e, c) = e
  <1>1. CASE c = None
    <2>1. Settled(e, c) = Turned(e, In(e, "saving"), "failed")
      BY <1>1 DEF Settled, Turned
    <2>2. In(e, "saving") \in SUBSET Keys /\ \A k \in In(e, "saving") : e[k] # None /\ e[k].state = "saving"
      BY DEF In
    <2>3. /\ Settled(e, c) \in Written
          /\ \A k \in Keys : k \notin In(e, "saving") => Settled(e, c)[k] = e[k]
          /\ \A k \in In(e, "saving") : /\ Settled(e, c)[k] # None /\ Settled(e, c)[k].value = e[k].value
                                        /\ Settled(e, c)[k].state = "failed"
      <3>1. "failed" \in {"dirty", "saving", "saved", "failed"}
        OBVIOUS
      <3> QED BY <2>1, <2>2, <3>1, TurnedFacts
    <2>4. Carried(e, Settled(e, c))
      BY <2>2, <2>3 DEF Carried
    <2>5. In(Settled(e, c), "saving") = {}
      BY <2>2, <2>3 DEF In
    <2> QED BY <1>1, <2>3, <2>4, <2>5
  <1>2. CASE c # None
    <2>1. Settled(e, c) = e
      BY <1>2 DEF Settled, Written
    <2> QED BY <1>2, <2>1 DEF Carried
  <1> QED BY <1>1, <1>2

\* The slot "saver" after the loop went on.
Drained(e, c) ==
  /\ DOMAIN req' = Slots /\ req'.follow = req.follow /\ req'.order = req.order
  /\ req'.saver \in Savings /\ req'.saver.reply = None
  /\ req'.saver.op # "none" => \E k \in Keys : /\ c # None /\ e[k] # None /\ e[k].state = "saving"
                                               /\ req'.saver.arg.key = k /\ req'.saver.arg.value = e[k].value

LEMMA DrainFacts ==
  ASSUME IInv, NEW e \in Written, NEW c \in Campaigns \cup {None},
         c = None => In(e, "saving") = {}, Drain(e, c)
  PROVE  Drained(e, c)
  <1>1. CASE In(e, "saving") = {}
    <2>1. req' = [req EXCEPT !.saver = Free]
      BY <1>1 DEF Drain
    <2> QED BY <2>1, TypeFacts, SaverSet, FreeFacts DEF Drained
  <1>2. CASE In(e, "saving") # {}
    <2>1. PICK k \in In(e, "saving") : req' = [req EXCEPT !.saver = Patch(k, e[k].value, c.revision)]
      BY <1>2 DEF Drain
    <2>2. k \in Keys /\ e[k] # None /\ e[k].state = "saving" /\ c # None
      BY <1>2 DEF In
    <2>3. e[k].value \in Values /\ c.revision \in Nat
      BY <2>2, EditTypes, CampaignTypes DEF Written
    <2>4. PICK a \in Patches : Patch(k, e[k].value, c.revision) = Asks("patch", a)
                               /\ a.key = k /\ a.value = e[k].value
      BY <2>2, <2>3, PatchFacts
    <2>5. PICK x \in Savings : x = Asks("patch", a) /\ x.op = "patch" /\ x.arg = a /\ x.reply = None
      BY SavingFacts
    <2>6. req' = [req EXCEPT !.saver = x]
      BY <2>1, <2>4, <2>5
    <2>7. DOMAIN req' = Slots /\ req'.saver = x /\ req'.follow = req.follow /\ req'.order = req.order
      BY <2>6, TypeFacts, SaverSet
    <2> QED BY <2>2, <2>4, <2>5, <2>7 DEF Drained
  <1> QED BY <1>1, <1>2

\* Edits that keep their words, while the loop goes on, keep the screen as it was.
Saves ==
  /\ edits' \in Written /\ Carried(edits, edits')
  /\ DOMAIN req' = Slots /\ req'.follow = req.follow /\ req'.order = req.order /\ req'.saver \in Savings
  /\ req'.saver = req.saver \/ Drained(edits', shown)

LEMMA QueueFacts ==
  ASSUME IInv, NEW K \in SUBSET Keys, \A k \in K : Unsaved(k), Queue(K)
  PROVE  Saves
  <1>1. edits \in Written /\ shown \in Campaigns \cup {None}
    BY TypeFacts DEF Written
  <1>2. \A k \in K : edits[k] # None /\ edits[k].state # "saved"
    BY DEF Unsaved
  <1>3. PICK q : q = Turned(edits, K, "saving")
    OBVIOUS
  <1>4. q \in Written /\ Carried(edits, q)
    <2>1. "saving" \in {"dirty", "saving", "saved", "failed"}
      OBVIOUS
    <2>2. /\ q \in Written
          /\ \A k \in Keys : k \notin K => q[k] = edits[k]
          /\ \A k \in K : q[k] # None /\ q[k].value = edits[k].value /\ q[k].state = "saving"
      BY <1>1, <1>2, <1>3, <2>1, TurnedFacts
    <2> QED BY <1>2, <2>2 DEF Carried
  <1>5. CASE req.saver.op = "none"
    <2>1. edits' = Settled(q, shown) /\ Drain(edits', shown)
      BY <1>3, <1>5 DEF Queue, Turned
    <2>2. /\ edits' \in Written /\ Carried(q, edits')
          /\ shown = None => In(edits', "saving") = {}
      BY <2>1, <1>4, SettledFacts
    <2>3. Carried(edits, edits')
      BY <1>4, <2>2, CarriedOn
    <2>4. Drained(edits', shown)
      BY <1>1, <2>1, <2>2, DrainFacts
    <2> QED BY <2>2, <2>3, <2>4 DEF Saves, Drained
  <1>6. CASE req.saver.op # "none"
    <2>1. edits' = q /\ req' = req
      BY <1>3, <1>6 DEF Queue, Turned
    <2> QED BY <1>4, <2>1, TypeFacts DEF Saves
  <1> QED BY <1>5, <1>6

LEMMA SavesStep ==
  ASSUME IInv, Saves, UNCHANGED <<stored, run, session, signed, known, view, shown, written>>,
         language' \in Languages, dialog' \in BOOLEAN,
         {generating', refining', retry'} \subseteq BOOLEAN,
         waiting' \subseteq {"leave", "refine", "retry"}, events' \in 0..MaxEvents
  PROVE  IInv'
  <1>1. Carried(edits, edits') /\ edits' \in Written
    BY DEF Saves
  <1>2. Types'
    BY DEF IInv, Types, Saves, Slots, Written
  <1>3. ServerInv'
    <2>1. stored = None => req'.saver.op = "none"
      BY DEF IInv, ServerInv, Saves, Drained
    <2> QED BY <2>1, ServerStays DEF IInv, ServerInv, Saves
  <1>4. Shows' /\ SavedMeansStored'
    BY <1>1 DEF IInv, Screen, Shows, SavedMeansStored, Unsaved, Carried
  <1>5. ListInv'
    BY <1>1 DEF IInv, Screen, ListInv, Carried, Saves
  <1>6. SaverInv'
    <2>1. CASE req'.saver = req.saver
      BY <1>1, <2>1 DEF IInv, Screen, SaverInv, Carried
    <2>2. CASE Drained(edits', shown)
      <3>1. ASSUME req'.saver.op # "none", NEW k \in Keys, k = req'.saver.arg.key
            PROVE  edits'[k].state # "saved"
        BY <2>2, <3>1 DEF Drained
      <3> QED BY <2>2, <3>1 DEF SaverInv, Drained
    <2> QED BY <2>1, <2>2 DEF Saves
  <1> QED BY <1>2, <1>3, <1>4, <1>5, <1>6 DEF IInv, Screen
--------------------------------------------------------------------------------
(* The owner's steps, and what waited for the loop. *)

LEMMA DirtyUnsaved ==
  \A state \in {"dirty", "saving", "failed"} :
    In(edits, state) \in SUBSET Keys /\ \A k \in In(edits, state) : Unsaved(k)
  BY DEF In, Unsaved

LEMMA OwnerSaves ==
  ASSUME IInv,
         \/ SelectSection \/ Leave \/ Retry
         \/ \E k \in Keys : Blur(k) \/ RetrySave(k)
         \/ \E l \in Languages : SelectLanguage(l)
  PROVE  IInv'
  <1> DEFINE Rest == /\ UNCHANGED <<stored, run, session, signed, known, view, shown, written, dialog,
                                    generating, refining, retry>>
                     /\ language' \in Languages /\ waiting' \subseteq {"leave", "refine", "retry"}
                     /\ events' \in 0..MaxEvents
  <1>a. waiting \subseteq {"leave", "refine", "retry"}
    BY DEF IInv, Types
  <1>b. Spend => events' \in 0..MaxEvents
    BY TypeFacts, BoundsAssumption DEF Spend
  <1>1. SelectSection => Saves /\ Rest
    BY <1>a, DirtyUnsaved, TypeFacts, QueueFacts DEF SelectSection, server, place, flags
  <1>2. Leave => Saves /\ Rest
    BY <1>a, DirtyUnsaved, TypeFacts, QueueFacts DEF Leave, server, place, flags
  <1>3. Retry => Saves /\ Rest
    BY <1>a, DirtyUnsaved, TypeFacts, QueueFacts DEF Retry, server, place, flags
  <1>4. ASSUME NEW k \in Keys, Blur(k)  PROVE Saves /\ Rest
    <2>1. {k} \in SUBSET Keys /\ Unsaved(k)
      BY <1>4 DEF Blur, In, Unsaved
    <2> QED BY <1>4, <1>a, <2>1, TypeFacts, QueueFacts DEF Blur, server, place, flags
  <1>5. ASSUME NEW k \in Keys, RetrySave(k)  PROVE Saves /\ Rest
    <2>1. {k} \in SUBSET Keys /\ Unsaved(k)
      BY <1>5 DEF RetrySave, In, Unsaved
    <2> QED BY <1>5, <1>a, <1>b, <2>1, TypeFacts, QueueFacts DEF RetrySave, server, place, flags
  <1>6. ASSUME NEW l \in Languages, SelectLanguage(l)  PROVE Saves /\ Rest
    BY <1>6, <1>a, DirtyUnsaved, TypeFacts, QueueFacts DEF SelectLanguage, server, place, flags
  <1>7. Saves /\ Rest
    BY <1>1, <1>2, <1>3, <1>4, <1>5, <1>6
  <1>8. dialog' \in BOOLEAN /\ {generating', refining', retry'} \subseteq BOOLEAN
    BY <1>7, TypeFacts
  <1> QED BY <1>7, <1>8, SavesStep

\* A step that leaves the requests, the edits and what is known of the campaign.
LEMMA QuietStep ==
  ASSUME IInv, UNCHANGED <<stored, run, written, shown, edits, known, view, req>>,
         {session', signed', dialog', generating', refining', retry'} \subseteq BOOLEAN,
         language' \in Languages, waiting' \subseteq {"leave", "refine", "retry"},
         events' \in 0..MaxEvents
  PROVE  IInv'
  <1>1. Types'
    BY DEF IInv, Types
  <1>2. ServerInv'
    BY DEF IInv, ServerInv
  <1>3. Screen'
    BY UnchangedReq, ScreenStays DEF IInv, Screen, ListInv
  <1> QED BY <1>1, <1>2, <1>3 DEF IInv

LEMMA RefineStep ==
  ASSUME IInv, Refine \/ KeepEditing \/ SessionEnds \/ UNCHANGED vars
  PROVE  IInv'
  <1>1. {session', signed', dialog', generating', refining', retry'} \subseteq BOOLEAN
    <2>1. CASE Refine
      BY <2>1, TypeFacts DEF Refine, server, place
    <2>2. CASE KeepEditing
      <3>1. session' = session /\ signed' = signed /\ dialog' = FALSE /\ generating' = generating
            /\ refining' = refining /\ retry' = retry
        BY <2>2 DEF KeepEditing, server, flags
      <3> QED BY <3>1, TypeFacts
    <2>3. CASE SessionEnds
      <3>1. session' = FALSE /\ signed' = signed /\ dialog' = dialog /\ generating' = generating
            /\ refining' = refining /\ retry' = retry
        BY <2>3 DEF SessionEnds, flags
      <3> QED BY <3>1, TypeFacts
    <2>4. CASE UNCHANGED vars
      <3>1. session' = session /\ signed' = signed /\ dialog' = dialog /\ generating' = generating
            /\ refining' = refining /\ retry' = retry
        BY <2>4 DEF vars
      <3> QED BY <3>1, TypeFacts
    <2> QED BY <2>1, <2>2, <2>3, <2>4
  <1>2. events' \in 0..MaxEvents
    BY TypeFacts, BoundsAssumption DEF Refine, KeepEditing, SessionEnds, Spend, vars
  <1>3. language' \in Languages /\ waiting' \subseteq {"leave", "refine", "retry"}
        /\ UNCHANGED <<stored, run, written, shown, edits, known, view, req>>
    BY TypeFacts DEF Refine, KeepEditing, SessionEnds, server, place, vars, Types
  <1> QED BY <1>1, <1>2, <1>3, QuietStep

LEMMA TypeStep ==
  ASSUME IInv, NEW k \in Keys, Type(k)
  PROVE  IInv'
  <1>1. PICK v : v = Words("owner", events + 1)
    OBVIOUS
  <1>2. /\ Form /\ Spend
        /\ edits' = [edits EXCEPT ![k] = Edit(v, "dirty")]
        /\ shown' = [shown EXCEPT !.text[k] = v]
        /\ UNCHANGED <<stored, run, session, written, signed, view, language, dialog,
                       generating, refining, retry, known, waiting, req>>
    BY <1>1 DEF Type, server, place, flags
  <1>3. v \in Values
    BY <1>1, TypeFacts, WordsFacts
  <1>4. PICK e \in Edits : e = Edit(v, "dirty") /\ e.value = v /\ e.state = "dirty"
    BY <1>3, EditFacts
  <1>5. /\ edits' \in [Keys -> Edits \cup {None}] /\ edits'[k] = e
        /\ \A j \in Keys : j # k => edits'[j] = edits[j]
    BY <1>2, <1>4, TypeFacts
  <1>6. shown \in Campaigns /\ view = "campaign"
    BY <1>2, TypeFacts DEF Form
  <1>7. PICK t : t = [shown.text EXCEPT ![k] = v]
    OBVIOUS
  <1>8. t \in Texts /\ t[k] = v /\ \A j \in Keys : j # k => t[j] = shown.text[j]
    BY <1>3, <1>6, <1>7, CampaignTypes DEF Texts
  <1>9. PICK d \in Campaigns : d = Reworded(shown, t) /\ d.text = t
    BY <1>6, <1>8, RewordedFacts
  <1>10. shown' = d
    BY <1>2, <1>6, <1>7, <1>9, Zenon DEF Reworded, Campaigns
  <1>11. events' \in 0..MaxEvents
    BY <1>2, TypeFacts, BoundsAssumption DEF Spend
  <1>12. Types'
    BY <1>2, <1>5, <1>9, <1>10, <1>11 DEF IInv, Types
  <1>13. ServerInv'
    BY <1>2, <1>6, ServerStays, TypeFacts, NoneFacts DEF IInv, ServerInv
  <1>14. Shows' /\ SavedMeansStored'
    <2>1. Shows /\ SavedMeansStored /\ written' = written /\ shown # None
      BY <1>2, <1>6, NoneFacts DEF IInv, Screen
    <2>2. \A j \in Keys : Unsaved(j)' => shown'.text[j] = edits'[j].value
      <3>1. ASSUME NEW j \in Keys, j # k, Unsaved(j)'  PROVE shown'.text[j] = edits'[j].value
        BY <2>1, <3>1, <1>5, <1>8, <1>9, <1>10 DEF Shows, Unsaved
      <3>2. shown'.text[k] = edits'[k].value
        BY <1>4, <1>5, <1>8, <1>9, <1>10
      <3> QED BY <3>1, <3>2
    <2>3. SavedMeansStored'
      BY <2>1, <1>4, <1>5 DEF SavedMeansStored
    <2> QED BY <2>2, <2>3 DEF Shows
  <1>15. SaverInv' /\ ListInv'
    BY <1>2, <1>4, <1>5, <1>6 DEF IInv, Screen, SaverInv, ListInv
  <1> QED BY <1>12, <1>13, <1>14, <1>15 DEF IInv, Screen

LEMMA OpenStep ==
  ASSUME IInv, OpenCampaign
  PROVE  IInv'
  <1>1. /\ view = "list" /\ stored # None /\ Follows("open", None, None)
        /\ UNCHANGED <<stored, run, session, written, signed, view, language, dialog, generating, refining,
                       retry, shown, edits, known, waiting>>
    BY DEF OpenCampaign, server, place, flags
  <1>6. events' \in 0..MaxEvents
    BY OvertakesFacts DEF OpenCampaign
  <1>2. Taken("open")
    <2>1. "open" \in FollowOps /\ None \in Nat \cup {None} /\ None \in Runs \cup {None}
      BY DEF FollowOps
    <2> QED BY <1>1, <2>1, FollowsIs
  <1>3. Types'
    BY <1>1, <1>2, <1>6 DEF IInv, Types, Taken, Slots
  <1>4. ServerInv'
    BY <1>1, <1>2, ServerStays DEF Taken, IInv, ServerInv
  <1>5. Screen'
    BY <1>1, <1>2, ScreenStays DEF Taken
  <1> QED BY <1>3, <1>4, <1>5 DEF IInv

\* The list, with nothing open.
LEMMA ListStep ==
  ASSUME IInv, ToList, UNCHANGED <<stored, run, session, written, signed, language, generating, refining,
                                   retry, req, events>>,
         dialog' \in BOOLEAN, waiting' \subseteq {"leave", "refine", "retry"}
  PROVE  IInv'
  <1>1. view' = "list" /\ shown' = None /\ edits' = NoEdits /\ known' \in {known, Recoverable}
    BY DEF ToList
  <1>2. edits' \in [Keys -> Edits \cup {None}]
    BY <1>1 DEF NoEdits
  <1>3. Types'
    BY <1>1, <1>2, RecoverableType DEF IInv, Types
  <1>4. ServerInv'
    BY <1>1 DEF IInv, ServerInv
  <1>5. Screen'
    BY <1>1, ScreenEmptied
  <1> QED BY <1>3, <1>4, <1>5 DEF IInv

LEMMA DiscardStep ==
  ASSUME IInv, Discard
  PROVE  IInv'
  BY ListStep DEF Discard, server, flags, IInv, Types
--------------------------------------------------------------------------------
(* Orders, and what waited for the loop that saves. *)

\* The slot "order" after a request was put there, or it was freed.
Asked(op) ==
  /\ DOMAIN req' = Slots /\ req'.saver = req.saver /\ req'.follow = req.follow
  /\ req'.order \in Ordering /\ req'.order.op = op /\ req'.order.reply = None

LEMMA AskedStep ==
  ASSUME IInv, NEW op, Asked(op), op \in {"refine", "refused"} => stored # None,
         UNCHANGED <<stored, run, session, signed, known, view, shown, edits, written, dialog, language>>,
         {generating', refining', retry'} \subseteq BOOLEAN,
         waiting' \subseteq {"leave", "refine", "retry"}, events' \in 0..MaxEvents
  PROVE  IInv'
  <1>1. Types'
    BY DEF IInv, Types, Asked, Slots
  <1>2. ServerInv'
    BY ServerStays DEF Asked, IInv, ServerInv
  <1>3. Screen'
    BY ScreenStays DEF Asked, IInv, Screen, ListInv
  <1> QED BY <1>1, <1>2, <1>3 DEF IInv

LEMMA CreateStep ==
  ASSUME IInv, CreateCampaign
  PROVE  IInv'
  <1>1. /\ generating' = TRUE /\ refining' = FALSE
        /\ req' = [req EXCEPT !.order = Asks("create", None)]
        /\ UNCHANGED <<stored, run, session, written, signed, view, language, dialog, retry, shown,
                       edits, known, waiting, events>>
    BY DEF CreateCampaign, server, place
  <1>2. PICK x \in Ordering : x = Asks("create", None) /\ x.op = "create" /\ x.reply = None
    BY OrderFacts
  <1>3. Asked("create")
    BY <1>1, <1>2, TypeFacts, OrderSet DEF Asked
  <1>4. /\ {generating', refining', retry'} \subseteq BOOLEAN
        /\ waiting' \subseteq {"leave", "refine", "retry"} /\ events' \in 0..MaxEvents
    BY <1>1 DEF IInv, Types
  <1>5. PICK op : op = "create"
    OBVIOUS
  <1> QED BY <1>1, <1>3, <1>4, <1>5, AskedStep

LEMMA LeaveResumesStep ==
  ASSUME IInv, LeaveResumes
  PROVE  IInv'
  <1>1. waiting' \subseteq {"leave", "refine", "retry"}
    BY DEF LeaveResumes, Resumes, IInv, Types
  <1>2. UNCHANGED <<stored, run, session, written, signed, language, generating, refining, retry, req, events>>
    BY DEF LeaveResumes, server, flags
  <1>3. CASE ToList /\ UNCHANGED dialog
    BY <1>1, <1>2, <1>3, TypeFacts, ListStep
  <1>4. CASE dialog' = TRUE /\ UNCHANGED <<view, shown, edits, known>>
    <2>1. {session', signed', dialog', generating', refining', retry'} \subseteq BOOLEAN
      BY <1>2, <1>4, TypeFacts
    <2> QED BY <1>1, <1>2, <1>4, <2>1, TypeFacts, QuietStep
  <1> QED BY <1>3, <1>4 DEF LeaveResumes

LEMMA RefineResumesStep ==
  ASSUME IInv, RefineResumes
  PROVE  IInv'
  <1>1. waiting' \subseteq {"leave", "refine", "retry"}
    BY DEF RefineResumes, Resumes, IInv, Types
  <1>2. UNCHANGED <<stored, run, session, written, signed, view, language, dialog, refining, retry, shown,
                    edits, known, events>>
    BY DEF RefineResumes, server, place
  <1>3. generating' \in BOOLEAN
    BY TypeFacts DEF RefineResumes
  <1>4. CASE shown = None
    <2>1. UNCHANGED req
      BY <1>4 DEF RefineResumes
    <2>2. {session', signed', dialog', generating', refining', retry'} \subseteq BOOLEAN
      BY <1>2, <1>3, TypeFacts
    <2> QED BY <1>1, <1>2, <2>1, <2>2, TypeFacts, QuietStep
  <1>5. CASE shown # None
    <2>1. PICK draft : draft = [f \in Fields |-> shown.text[<<language, f>>]]
      OBVIOUS
    <2>2. shown \in Campaigns /\ language \in Languages
      BY <1>5, TypeFacts
    <2>3. draft \in Drafts
      <3>1. ASSUME NEW f \in Fields  PROVE shown.text[<<language, f>>] \in Values
        BY <2>2, CampaignTypes DEF Keys
      <3> QED BY <2>1, <3>1 DEF Drafts
    <2>4. PICK a \in Orders : a = [language |-> language, revision |-> shown.revision, draft |-> draft]
      BY <2>2, <2>3, CampaignTypes, OrdersFacts
    <2>5. PICK op \in {"refine"} : op = "refine"
      OBVIOUS
    <2>6. PICK x \in Ordering : x = Asks(op, a) /\ x.op = op /\ x.reply = None
      BY OrderFacts
    <2>7. req' = [req EXCEPT !.order = x]
      BY <1>5, <2>1, <2>4, <2>5, <2>6 DEF RefineResumes
    <2>8. Asked(op)
      BY <2>6, <2>7, TypeFacts, OrderSet DEF Asked
    <2>9. stored # None
      BY <1>5 DEF IInv, ServerInv
    <2>10. {generating', refining', retry'} \subseteq BOOLEAN /\ events' \in 0..MaxEvents
      BY <1>2, <1>3, TypeFacts
    <2> QED BY <1>1, <1>2, <2>8, <2>9, <2>10, AskedStep
  <1> QED BY <1>4, <1>5

LEMMA RetryResumesStep ==
  ASSUME IInv, RetryResumes
  PROVE  IInv'
  <1>1. waiting' \subseteq {"leave", "refine", "retry"}
    BY DEF RetryResumes, Resumes, IInv, Types
  <1>2. UNCHANGED <<stored, run, session, written, signed, view, language, dialog, refining, shown,
                    edits, known, events>>
    BY DEF RetryResumes, server, place
  <1>3. CASE HasUnsaved \/ generating
    <2>1. UNCHANGED <<generating, retry, req>>
      BY <1>3 DEF RetryResumes
    <2>2. {session', signed', dialog', generating', refining', retry'} \subseteq BOOLEAN
      BY <1>2, <2>1, TypeFacts
    <2> QED BY <1>1, <1>2, <2>1, <2>2, TypeFacts, QuietStep
  <1>4. CASE ~(HasUnsaved \/ generating)
    <2>1. /\ generating' = TRUE /\ retry' = FALSE
          /\ req' = [req EXCEPT !.order = Asks("retry", None)]
      BY <1>4 DEF RetryResumes
    <2>2. PICK x \in Ordering : x = Asks("retry", None) /\ x.op = "retry" /\ x.reply = None
      BY OrderFacts
    <2>3. Asked("retry")
      BY <2>1, <2>2, TypeFacts, OrderSet DEF Asked
    <2>4. {generating', refining', retry'} \subseteq BOOLEAN /\ events' \in 0..MaxEvents
      BY <1>2, <2>1, TypeFacts
    <2>5. PICK op : op = "retry"
      OBVIOUS
    <2> QED BY <1>1, <1>2, <2>3, <2>4, <2>5, AskedStep
  <1> QED BY <1>3, <1>4
--------------------------------------------------------------------------------
(* The worker, and the other tab. *)

\* What is stored changes, and is never taken away.
LEMMA StoredStep ==
  ASSUME IInv, stored' \in Campaigns \cup {None}, run' \in Runs \cup {None},
         stored' = None => stored = None /\ (run' # None => run'.kind = "make"),
         run' = None => stored' = None, events' \in 0..MaxEvents,
         UNCHANGED <<session, signed, view, shown, language, generating, refining, retry, dialog,
                     edits, known, waiting, req, written>>
  PROVE  IInv'
  <1>1. Types'
    BY DEF IInv, Types
  <1>2. ServerInv'
    BY DEF IInv, ServerInv
  <1>3. Screen'
    BY UnchangedReq, ScreenStays DEF IInv, Screen, ListInv
  <1> QED BY <1>1, <1>2, <1>3 DEF IInv

LEMMA ElsewhereStep ==
  ASSUME IInv, NEW k \in Keys, Elsewhere(k)
  PROVE  IInv'
  <1>1. stored \in Campaigns /\ events' \in 0..MaxEvents
    BY TypeFacts, BoundsAssumption DEF Elsewhere, Spend
  <1>2. PICK v \in Values : v = Words("other", events + 1)
    <2>1. "other" \in {"run", "owner", "other"} /\ events + 1 \in Nat
      BY TypeFacts
    <2>2. Words("other", events + 1) \in Values
      BY <2>1, WordsFacts
    <2> QED BY <2>2
  <1>3. PICK t \in Texts : t = [stored.text EXCEPT ![k] = v]
    BY <1>1, CampaignTypes DEF Texts
  <1>4. stored.revision + 1 \in Nat /\ stored.refined \in Nat
    BY <1>1, CampaignTypes
  <1>5. PICK c \in Campaigns : c = Campaign(stored.revision + 1, t, stored.refined) /\ c # None
    BY <1>4, CampaignFacts
  <1>6. stored' = c /\ run' = run
    BY <1>2, <1>3, <1>5 DEF Elsewhere
  <1>7. run # None
    BY <1>1, NoneFacts DEF IInv, ServerInv
  <1>8. UNCHANGED <<session, signed, view, shown, language, generating, refining, retry, dialog,
                    edits, known, waiting, req, written>>
    BY DEF Elsewhere
  <1> QED BY <1>1, <1>5, <1>6, <1>7, <1>8, TypeFacts, StoredStep

LEMMA ResultType ==
  ASSUME IInv, Running, run.kind = "refine" => stored # None
  PROVE  Result \in Campaigns
  <1>1. run \in Runs
    BY TypeFacts DEF Running
  <1>2. run.n \in Nat
    BY <1>1, RunTypes
  <1>3. PICK v \in Values : v = Words("run", run.n)
    BY <1>2, WordsFacts
  <1>4. CASE run.kind = "make"
    <2>1. PICK t \in Texts : t = [k \in Keys |-> v]
      BY DEF Texts
    <2>2. Campaign(1, t, 0) \in Campaigns
      <3>1. 1 \in Nat /\ 0 \in Nat
        OBVIOUS
      <3> QED BY <3>1, CampaignFacts
    <2> QED BY <1>3, <1>4, <2>1, <2>2 DEF Result
  <1>5. CASE run.kind # "make"
    <2>1. stored \in Campaigns
      BY <1>1, <1>5, RunTypes, TypeFacts
    <2>2. PICK t : t = [k \in Keys |-> IF run.language \in {k[1], "en"} THEN v ELSE stored.text[k]]
      OBVIOUS
    <2>3. \A k \in Keys : stored.text[k] \in Values
      BY <2>1, CampaignTypes
    <2>4. t \in Texts
      BY <2>2, <2>3 DEF Texts
    <2>5. stored.revision + 1 \in Nat
      BY <2>1, CampaignTypes
    <2>6. Campaign(stored.revision + 1, t, run.n) \in Campaigns
      BY <1>2, <2>4, <2>5, CampaignFacts
    <2> QED BY <1>3, <1>5, <2>2, <2>6 DEF Result
  <1> QED BY <1>4, <1>5

LEMMA RunEndsStep ==
  ASSUME IInv, RunEnds
  PROVE  IInv'
  <1>1. /\ Running
        /\ UNCHANGED <<session, signed, view, shown, language, generating, refining, retry, dialog,
                       edits, known, waiting, req, written, events>>
    BY DEF RunEnds
  <1>2. run \in Runs /\ events \in 0..MaxEvents
    BY <1>1, TypeFacts DEF Running
  <1>3. run.kind = "refine" => stored # None
    BY <1>2, NoneFacts DEF IInv, ServerInv
  <1>4. PICK c \in Campaigns : c = Result
    BY <1>1, <1>3, ResultType
  <1>5. \A state \in {"succeeded", "failed"} : Ended(run, state) \in Runs
    BY <1>2, EndedFacts DEF States
  <1>6. CASE stored' = Result /\ run' = [run EXCEPT !.state = "succeeded"]
    <2>1. run' = Ended(run, "succeeded")
      BY <1>6 DEF Ended
    <2>2. run' \in Runs /\ stored' = c
      BY <1>4, <1>5, <1>6, <2>1
    <2> QED BY <1>1, <1>2, <2>2, NoneFacts, StoredStep
  <1>7. CASE run' = [run EXCEPT !.state = "failed"] /\ UNCHANGED stored
    <2>1. run' = Ended(run, "failed")
      BY <1>7 DEF Ended
    <2>2. run' \in Runs /\ stored' = stored
      BY <1>5, <1>7, <2>1
    <2>3. stored = None => run'.kind = "make"
      <3>1. Ended(run, "failed").kind = run.kind
        <4>1. CASE run \in [n : Nat, kind : {"make"}, language : {None}, draft : {None}, base : {0}, state : States]
          BY <4>1, Zenon DEF Ended
        <4>2. CASE run \in [n : Nat, kind : {"refine"}, language : Languages, draft : Drafts, base : Nat,
                            state : States]
          BY <4>2, Zenon DEF Ended
        <4> QED BY <1>2, <4>1, <4>2 DEF Runs
      <3> QED BY <1>2, <2>1, <3>1, NoneFacts DEF IInv, ServerInv
    <2> QED BY <1>1, <1>2, <2>2, <2>3, NoneFacts, TypeFacts, StoredStep
  <1> QED BY <1>6, <1>7 DEF RunEnds
--------------------------------------------------------------------------------
(* The server. *)

Replied(r, a) == [r EXCEPT !.reply = a]

LEMMA RepliedFacts ==
  ASSUME NEW ops, NEW args, NEW bodies, NEW r \in Requests(ops, args, bodies), NEW a \in Replies(bodies)
  PROVE  /\ Replied(r, a) \in Requests(ops, args, bodies)
         /\ Replied(r, a).op = r.op /\ Replied(r, a).arg = r.arg /\ Replied(r, a).reply = a
  <1>1. a \in Replies(bodies) \cup {None}
    OBVIOUS
  <1> QED BY <1>1, Zenon DEF Replied, Requests

LEMMA AnswerTypes ==
  /\ \A bodies : \A b \in bodies : Reply(200, b) \in Replies(bodies) /\ Reply(200, b).code = 200
  /\ \A bodies : \A code \in {0, 400, 401, 404, 409} :
       Reply(code, None) \in Replies(bodies) /\ Reply(code, None).code = code
  <1>1. ASSUME NEW bodies, NEW b \in bodies
        PROVE  Reply(200, b) \in Replies(bodies) /\ Reply(200, b).code = 200
    <2>1. Reply(200, b) \in [code : {200}, body : bodies] /\ Reply(200, b).code = 200
      BY Zenon DEF Reply
    <2> QED BY <2>1 DEF Replies
  <1>2. ASSUME NEW bodies, NEW code \in {0, 400, 401, 404, 409}
        PROVE  Reply(code, None) \in Replies(bodies) /\ Reply(code, None).code = code
    <2>1. None \in {None}
      OBVIOUS
    <2>2. PICK codes : codes = {0, 400, 401, 404, 409}
      OBVIOUS
    <2>3. code \in codes
      BY <2>2
    <2>4. Reply(code, None) \in [code : codes, body : {None}] /\ Reply(code, None).code = code
      BY <2>1, <2>3, Zenon DEF Reply
    <2> QED BY <2>2, <2>4 DEF Replies
  <1> QED BY <1>1, <1>2

Answer(r) == IF Accepted(r) THEN Reply(200, Body(r)) ELSE Reply(Refusal(r), None)

Sends(r, bodies) == Accepted(r) => Body(r) \in bodies
Told(r, a, bodies) == a \in Replies(bodies) /\ (a.code = 200 => a = Answer(r) /\ Accepted(r))

LEMMA AnswerFacts ==
  ASSUME NEW r, NEW bodies, Sends(r, bodies), NEW a, a = Answer(r) \/ a \in {Lost, Declined}
  PROVE  Told(r, a, bodies)
  <1>1. Refusal(r) \in {400, 401, 404, 409}
    BY DEF Refusal
  <1>2. CASE a \in {Lost, Declined}
    <2>1. a \in Replies(bodies) /\ a.code # 200
      BY <1>2, AnswerTypes DEF Lost, Declined
    <2> QED BY <2>1 DEF Told
  <1>3. CASE a = Answer(r) /\ Accepted(r)
    <2>1. a = Reply(200, Body(r)) /\ Body(r) \in bodies
      BY <1>3 DEF Answer, Sends
    <2>2. a \in Replies(bodies)
      BY <2>1, AnswerTypes
    <2> QED BY <1>3, <2>2 DEF Told
  <1>4. CASE a = Answer(r) /\ ~Accepted(r)
    <2>1. PICK code \in {400, 401, 404, 409} : code = Refusal(r)
      BY <1>1
    <2>2. a = Reply(code, None)
      BY <1>4, <2>1 DEF Answer
    <2>3. a \in Replies(bodies) /\ a.code = code
      BY <2>2, AnswerTypes
    <2>4. code # 200
      BY <2>1
    <2> QED BY <2>3, <2>4 DEF Told
  <1> QED BY <1>2, <1>3, <1>4

\* A request, served, has kept what it asks for.
Served(r, x, a) == x.op = r.op /\ x.arg = r.arg /\ x.reply = a /\ x = Replied(r, a)

LEMMA ServedSaver ==
  ASSUME IInv, NEW r, r = req.saver, r.op # "none", NEW a, a = Answer(r) \/ a \in {Lost, Declined}
  PROVE  Replied(r, a) \in Savings /\ Served(r, Replied(r, a), a) /\ (a.code = 200 => a = Answer(r) /\ Accepted(r))
  <1>1. stored # None /\ r \in Savings
    BY TypeFacts DEF ServerInv
  <1>2. CASE r \in Requests({"patch"}, Patches, Nat)
    <2>1. r.op = "patch"
      BY <1>2, RequestTypes
    <2>2. Body(r) = stored.revision + 1
      BY <2>1 DEF Body, Reads
    <2>3. Body(r) \in Nat
      BY <1>1, <2>2, TypeFacts, CampaignTypes
    <2>6. Sends(r, Nat)
      BY <2>3 DEF Sends
    <2>4. Told(r, a, Nat)
      BY <2>6, AnswerFacts
    <2>5. Replied(r, a) \in Requests({"patch"}, Patches, Nat) /\ Served(r, Replied(r, a), a)
      BY <1>2, <2>4, RepliedFacts DEF Served, Told
    <2> QED BY <2>4, <2>5 DEF Told, Savings
  <1>3. CASE r \in Requests({"conflict"}, Patches, Campaigns)
    <2>1. r.op = "conflict"
      BY <1>3, RequestTypes
    <2>2. Body(r) \in Campaigns
      BY <1>1, <2>1, TypeFacts DEF Body, Reads
    <2>6. Sends(r, Campaigns)
      BY <2>2 DEF Sends
    <2>4. Told(r, a, Campaigns)
      BY <2>6, AnswerFacts
    <2>5. Replied(r, a) \in Requests({"conflict"}, Patches, Campaigns) /\ Served(r, Replied(r, a), a)
      BY <1>3, <2>4, RepliedFacts DEF Served, Told
    <2> QED BY <2>4, <2>5 DEF Told, Savings
  <1> QED BY <1>1, <1>2, <1>3, FreeFacts DEF Savings

LEMMA ServedFollow ==
  ASSUME IInv, NEW r, r = req.follow, r.op # "none", NEW a, a = Answer(r) \/ a \in {Lost, Declined}
  PROVE  Replied(r, a) \in Follow /\ Served(r, Replied(r, a), a) /\ (a.code = 200 => a = Answer(r) /\ Accepted(r))
  <1>1. r \in Follow
    BY TypeFacts
  <1>2. CASE r \in Requests({"status"}, Following, Runs)
    <2>1. r.op = "status"
      BY <1>2, RequestTypes
    <2>2. Accepted(r) => Body(r) \in Runs
      BY <2>1, TypeFacts DEF Body, Reads, Accepted
    <2>6. Sends(r, Runs)
      BY <2>2 DEF Sends
    <2>4. Told(r, a, Runs)
      BY <2>6, AnswerFacts
    <2>5. Replied(r, a) \in Requests({"status"}, Following, Runs) /\ Served(r, Replied(r, a), a)
      BY <1>2, <2>4, RepliedFacts DEF Served, Told
    <2> QED BY <2>4, <2>5 DEF Told, Follow
  <1>3. CASE r \in Requests({"recover"}, Following, Runs \cup {None})
    <2>1. r.op = "recover"
      BY <1>3, RequestTypes
    <2>2. Body(r) \in Runs \cup {None}
      BY <2>1, RecoverableType DEF Body, Reads
    <2>6. Sends(r, Runs \cup {None})
      BY <2>2 DEF Sends
    <2>4. Told(r, a, Runs \cup {None})
      BY <2>6, AnswerFacts
    <2>5. Replied(r, a) \in Requests({"recover"}, Following, Runs \cup {None}) /\ Served(r, Replied(r, a), a)
      BY <1>3, <2>4, RepliedFacts DEF Served, Told
    <2> QED BY <2>4, <2>5 DEF Told, Follow
  <1>4. CASE r \in Requests({"open", "overlay", "recovered", "get", "final"}, Following, Campaigns)
    <2>1. r.op \in {"open", "overlay", "recovered", "get", "final"}
      BY <1>4, RequestTypes
    <2>2. Accepted(r) => Body(r) \in Campaigns
      BY <2>1, TypeFacts DEF Body, Reads, Accepted
    <2>6. Sends(r, Campaigns)
      BY <2>2 DEF Sends
    <2>4. Told(r, a, Campaigns)
      BY <2>6, AnswerFacts
    <2>5. /\ Replied(r, a) \in Requests({"open", "overlay", "recovered", "get", "final"}, Following, Campaigns)
          /\ Served(r, Replied(r, a), a)
      BY <1>4, <2>4, RepliedFacts DEF Served, Told
    <2> QED BY <2>4, <2>5 DEF Told, Follow
  <1> QED BY <1>1, <1>2, <1>3, <1>4, FreeFacts DEF Follow

LEMMA ServedOrder ==
  ASSUME IInv, NEW r, r = req.order, r.op # "none", NEW a, a = Answer(r) \/ a \in {Lost, Declined}
  PROVE  Replied(r, a) \in Ordering /\ Served(r, Replied(r, a), a) /\ (a.code = 200 => a = Answer(r) /\ Accepted(r))
  <1>1. r \in Ordering
    BY TypeFacts
  <1>2. CASE r \in Requests({"create", "retry"}, {None}, {None})
    <2>1. r.op \in {"create", "retry"}
      BY <1>2, RequestTypes
    <2>2. Body(r) \in {None}
      BY <2>1 DEF Body, Reads
    <2>6. Sends(r, {None})
      BY <2>2 DEF Sends
    <2>4. Told(r, a, {None})
      BY <2>6, AnswerFacts
    <2>5. Replied(r, a) \in Requests({"create", "retry"}, {None}, {None}) /\ Served(r, Replied(r, a), a)
      BY <1>2, <2>4, RepliedFacts DEF Served, Told
    <2> QED BY <2>4, <2>5 DEF Told, Ordering
  <1>3. CASE r \in Requests({"refine"}, Orders, {None})
    <2>1. r.op = "refine"
      BY <1>3, RequestTypes
    <2>2. Body(r) \in {None}
      BY <2>1 DEF Body, Reads
    <2>6. Sends(r, {None})
      BY <2>2 DEF Sends
    <2>4. Told(r, a, {None})
      BY <2>6, AnswerFacts
    <2>5. Replied(r, a) \in Requests({"refine"}, Orders, {None}) /\ Served(r, Replied(r, a), a)
      BY <1>3, <2>4, RepliedFacts DEF Served, Told
    <2> QED BY <2>4, <2>5 DEF Told, Ordering
  <1>4. CASE r \in Requests({"refused"}, Nat, Campaigns)
    <2>1. r.op = "refused"
      BY <1>4, RequestTypes
    <2>2. Accepted(r) => Body(r) \in Campaigns
      BY <2>1, TypeFacts DEF Body, Reads, Accepted
    <2>6. Sends(r, Campaigns)
      BY <2>2 DEF Sends
    <2>4. Told(r, a, Campaigns)
      BY <2>6, AnswerFacts
    <2>5. Replied(r, a) \in Requests({"refused"}, Nat, Campaigns) /\ Served(r, Replied(r, a), a)
      BY <1>4, <2>4, RepliedFacts DEF Served, Told
    <2> QED BY <2>4, <2>5 DEF Told, Ordering
  <1> QED BY <1>1, <1>2, <1>3, <1>4, FreeFacts DEF Ordering

\* What serving a request, or losing it, does to the database.
Kindly == /\ stored' \in Campaigns \cup {None} /\ run' \in Runs \cup {None}
          /\ written \subseteq written' /\ written' \subseteq Keys \X Values
          /\ stored' = None => stored = None /\ (run' # None => run'.kind = "make")
          /\ run' = None => stored' = None

LEMMA MakeKind ==
  ASSUME NEW n, NEW state
  PROVE  Run(n, "make", None, None, 0, state).kind = "make"
  BY Zenon DEF Run

LEMMA UpdateFacts ==
  ASSUME IInv, NEW r, r = req.saver, r.op = "patch", UpdateCopy(r.arg)
  PROVE  Kindly /\ <<r.arg.key, r.arg.value>> \in written'
  <1>1. stored \in Campaigns /\ r.arg \in Patches /\ run # None
    BY TypeFacts DEF ServerInv, SavingTypes
  <1>2. r.arg.key \in Keys /\ r.arg.value \in Values
    BY <1>1, PatchFacts
  <1>3. PICK t \in Texts : t = [stored.text EXCEPT ![r.arg.key] = r.arg.value]
    BY <1>1, <1>2, CampaignTypes DEF Texts
  <1>4. stored.revision + 1 \in Nat /\ stored.refined \in Nat
    BY <1>1, CampaignTypes
  <1>5. PICK c \in Campaigns : c = Campaign(stored.revision + 1, t, stored.refined) /\ c # None
    BY <1>4, CampaignFacts
  <1>6. stored' = c /\ run' = run /\ written' = written \cup {<<r.arg.key, r.arg.value>>}
    BY <1>3, <1>5 DEF UpdateCopy
  <1> QED BY <1>1, <1>2, <1>5, <1>6, TypeFacts DEF Kindly

LEMMA OrderEffect ==
  ASSUME IInv, NEW r, r = req.order, r.op \in {"create", "refine", "retry"}, Order(r)
  PROVE  Kindly /\ written' = written
  <1>1. UNCHANGED <<stored, written>>
    BY DEF Order
  <1>2. CASE r.op = "refine"
    <2>1. stored # None /\ run \in Runs /\ r.arg \in Orders
      BY <1>2, TypeFacts DEF ServerInv, OrderTypes
    <2>2. r.arg.language \in Languages /\ r.arg.draft \in Drafts /\ r.arg.revision \in Nat
      BY <2>1, OrdersFacts
    <2>3. run.n + 1 \in Nat /\ "active" \in States
      BY <2>1, RunTypes DEF States
    <2>4. Run(run.n + 1, "refine", r.arg.language, r.arg.draft, r.arg.revision, "active") \in Runs
      BY <2>2, <2>3, RefineFacts
    <2>5. run' \in Runs
      BY <1>2, <2>4 DEF Order
    <2> QED BY <1>1, <2>1, <2>5, TypeFacts, NoneFacts DEF Kindly
  <1>3. CASE r.op # "refine"
    <2>1. PICK n : n = IF run = None THEN 1 ELSE run.n + 1
      OBVIOUS
    <2>2. n \in Nat /\ "active" \in States
      BY <2>1, TypeFacts, RunTypes DEF States
    <2>3. Run(n, "make", None, None, 0, "active") \in Runs
          /\ Run(n, "make", None, None, 0, "active").kind = "make"
      BY <2>2, MakeFacts, MakeKind
    <2>4. run' = Run(n, "make", None, None, 0, "active")
      BY <1>3, <2>1 DEF Order
    <2> QED BY <1>1, <2>3, <2>4, TypeFacts, NoneFacts DEF Kindly
  <1> QED BY <1>2, <1>3, <1>1

LEMMA EffectFacts ==
  ASSUME IInv, NEW s \in Slots, NEW r, r = req[s], Effect(r) \/ UNCHANGED <<stored, run, written>>
  PROVE  /\ Kindly
         /\ s # "saver" => written' = written
         /\ r.op = "patch" /\ Accepted(r) /\ Effect(r) => <<r.arg.key, r.arg.value>> \in written'
         /\ r.op \notin {"patch", "create", "refine", "retry"} => stored' = stored
  <1>1. CASE UNCHANGED <<stored, run, written>>
    <2>1. Kindly
      BY <1>1, TypeFacts DEF Kindly, ServerInv
    <2>2. r.op = "patch" /\ Accepted(r) /\ Effect(r) => UpdateCopy(r.arg)
      BY DEF Effect, Reads
    <2>3. r.op = "patch" => r = req.saver
      BY TypeFacts DEF FollowTypes, FollowOps, OrderTypes, Slots
    <2> QED BY <1>1, <2>1, <2>2, <2>3, UpdateFacts
  <1>2. CASE r.op = "patch" /\ UpdateCopy(r.arg)
    <2>1. r = req.saver /\ s = "saver"
      BY <1>2, TypeFacts DEF FollowTypes, FollowOps, OrderTypes, Slots
    <2> QED BY <1>2, <2>1, UpdateFacts
  <1>3. CASE r.op \in {"create", "refine", "retry"} /\ Order(r)
    <2>1. r = req.order
      BY <1>3, TypeFacts DEF FollowTypes, FollowOps, SavingTypes, Slots
    <2> QED BY <1>3, <2>1, OrderEffect
  <1> QED BY <1>1, <1>2, <1>3 DEF Effect

LEMMA SlotSet ==
  ASSUME DOMAIN req = Slots, NEW s \in Slots, NEW x, req' = [req EXCEPT ![s] = x]
  PROVE  /\ DOMAIN req' = Slots
         /\ s = "saver" => req'.saver = x /\ req'.follow = req.follow /\ req'.order = req.order
         /\ s = "follow" => req'.saver = req.saver /\ req'.follow = x /\ req'.order = req.order
         /\ s = "order" => req'.saver = req.saver /\ req'.follow = req.follow /\ req'.order = x
  BY DEF Slots

\* The three slots after one of them was answered.
SlotsTold(s, r, x, a) ==
  /\ Served(r, x, a) /\ (a.code = 200 => a = Answer(r) /\ Accepted(r))
  /\ DOMAIN req' = Slots /\ req'.saver \in Savings /\ req'.follow \in Follow /\ req'.order \in Ordering
  /\ s = "saver" => req'.saver = x /\ req'.follow = req.follow /\ req'.order = req.order
  /\ s = "follow" => req'.saver = req.saver /\ req'.follow = x /\ req'.order = req.order
  /\ s = "order" => req'.saver = req.saver /\ req'.follow = req.follow /\ req'.order = x

LEMMA ServedFacts ==
  ASSUME IInv, NEW s \in Slots, NEW r, r = req[s], r.op # "none", NEW a, a = Answer(r) \/ a \in {Lost, Declined},
         NEW x, x = Replied(r, a), req' = [req EXCEPT ![s] = x]
  PROVE  SlotsTold(s, r, x, a)
  <1>1. /\ DOMAIN req' = Slots
        /\ s = "saver" => req'.saver = x /\ req'.follow = req.follow /\ req'.order = req.order
        /\ s = "follow" => req'.saver = req.saver /\ req'.follow = x /\ req'.order = req.order
        /\ s = "order" => req'.saver = req.saver /\ req'.follow = req.follow /\ req'.order = x
    BY TypeFacts, SlotSet
  <1>2. CASE s = "saver"
    <2>1. r = req.saver
      BY <1>2
    <2>2. x \in Savings /\ Served(r, x, a) /\ (a.code = 200 => a = Answer(r) /\ Accepted(r))
      BY <2>1, ServedSaver
    <2> QED BY <1>1, <1>2, <2>2, TypeFacts DEF SlotsTold
  <1>3. CASE s = "follow"
    <2>1. r = req.follow
      BY <1>3
    <2>2. x \in Follow /\ Served(r, x, a) /\ (a.code = 200 => a = Answer(r) /\ Accepted(r))
      BY <2>1, ServedFollow
    <2> QED BY <1>1, <1>3, <2>2, TypeFacts DEF SlotsTold
  <1>4. CASE s = "order"
    <2>1. r = req.order
      BY <1>4
    <2>2. x \in Ordering /\ Served(r, x, a) /\ (a.code = 200 => a = Answer(r) /\ Accepted(r))
      BY <2>1, ServedOrder
    <2> QED BY <1>1, <1>4, <2>2, TypeFacts DEF SlotsTold
  <1> QED BY <1>2, <1>3, <1>4 DEF Slots

LEMMA ServeStep ==
  ASSUME IInv, NEW s \in Slots, Serve(s)
  PROVE  IInv'
  <1>1. PICK r : r = req[s]
    OBVIOUS
  <1>2. /\ r.op # "none" /\ r.reply = None
        /\ UNCHANGED <<session, signed, view, shown, language, generating, refining, retry, dialog,
                       edits, known, waiting>>
    BY <1>1 DEF Serve
  <1>3. PICK a : /\ \/ a = Answer(r) /\ Effect(r)
                    \/ a \in {Lost, Declined} /\ (Effect(r) \/ UNCHANGED <<stored, run, written>>)
                 /\ req' = [req EXCEPT ![s].reply = a]
    BY <1>1 DEF Serve, Answer
  <1>4. events' \in 0..MaxEvents
    BY <1>1, TypeFacts, BoundsAssumption DEF Serve, Spend
  <1>5. PICK x : x = Replied(r, a)
    OBVIOUS
  <1>6. req' = [req EXCEPT ![s] = x]
    BY <1>1, <1>3, <1>5, Zenon DEF Replied
  <1>7. SlotsTold(s, r, x, a)
    BY <1>1, <1>2, <1>3, <1>5, <1>6, ServedFacts
  <1>8. /\ Kindly
        /\ s # "saver" => written' = written
        /\ r.op = "patch" /\ Accepted(r) /\ Effect(r) => <<r.arg.key, r.arg.value>> \in written'
        /\ r.op \notin {"patch", "create", "refine", "retry"} => stored' = stored
    BY <1>1, <1>3, EffectFacts
  <1>9. a.code = 200 => Accepted(r) /\ Effect(r)
    <2>1. Lost.code = 0 /\ Declined.code = 400
      BY AnswerTypes DEF Lost, Declined
    <2> QED BY <1>3, <1>7, <2>1 DEF SlotsTold
  <1>10. req'.saver.op = req.saver.op /\ req'.follow.op = req.follow.op /\ req'.order.op = req.order.op
    BY <1>1, <1>7 DEF SlotsTold, Served, Slots
  <1>11. Types'
    BY <1>2, <1>4, <1>7, <1>8 DEF IInv, Types, SlotsTold, Kindly, Slots
  <1>12. ServerInv'
    <2>1. ASSUME stored' = None, req'.follow.op \in Reads, req'.follow.reply # None
          PROVE  req'.follow.reply.code # 200
      <3>1. stored = None
        BY <2>1, <1>8 DEF Kindly
      <3>2. CASE s = "follow"
        <4>1. req'.follow.reply = a /\ r.op \in Reads
          BY <1>7, <2>1, <3>2 DEF SlotsTold, Served
        <4> QED BY <1>9, <3>1, <4>1 DEF Accepted
      <3>3. CASE s # "follow"
        BY <1>7, <2>1, <3>1, <3>3, TypeFacts DEF SlotsTold, Slots, ServerInv
      <3> QED BY <3>2, <3>3
    <2> QED BY <1>2, <1>8, <1>10, <2>1, TypeFacts DEF ServerInv, Kindly
  <1>13. Shows' /\ SavedMeansStored'
    BY <1>2, <1>8 DEF IInv, Screen, Shows, SavedMeansStored, Unsaved, Kindly
  <1>14. ListInv'
    BY <1>2, <1>10 DEF IInv, Screen, ListInv
  <1>15. SaverInv'
    <2>1. CASE s = "saver"
      <3>1. req'.saver.op = r.op /\ req'.saver.arg = r.arg /\ req'.saver.reply = a /\ r = req.saver
        BY <1>1, <1>7, <2>1 DEF SlotsTold, Served
      <3>2. SaverInv
        BY DEF IInv, Screen
      <3> QED BY <1>2, <1>8, <1>9, <3>1, <3>2 DEF SaverInv
    <2>2. CASE s # "saver"
      <3>1. req'.saver = req.saver
        BY <1>7, <2>2 DEF SlotsTold, Slots
      <3> QED BY <1>2, <1>8, <3>1 DEF IInv, Screen, SaverInv, Kindly
    <2> QED BY <2>1, <2>2
  <1> QED BY <1>11, <1>12, <1>13, <1>14, <1>15 DEF IInv, Screen
--------------------------------------------------------------------------------
(* The answers to the loop that saves. *)

LEMMA MarkFacts ==
  ASSUME IInv, req.saver.op # "none", NEW state \in {"saved", "failed"},
         NEW r, r = req.saver, NEW m, m = Mark(edits, r.arg, state)
  PROVE  /\ m \in Written
         /\ \A k \in Keys : \/ m[k] = edits[k]
                            \/ /\ k = r.arg.key /\ edits[k] # None /\ edits[k].value = r.arg.value
                               /\ edits[k].state # "saved"
                               /\ m[k] # None /\ m[k].value = r.arg.value /\ m[k].state = state
  <1>1. PICK K : K = {k \in Keys : k = r.arg.key /\ edits[k] # None /\ edits[k].value = r.arg.value}
    OBVIOUS
  <1>2. K \in SUBSET Keys /\ \A k \in K : edits[k] # None
    BY <1>1
  <1>3. m = Turned(edits, K, state)
    BY <1>1 DEF Mark, Turned
  <1>4. state \in {"dirty", "saving", "saved", "failed"} /\ edits \in Written
    BY TypeFacts DEF Written
  <1>5. /\ m \in Written
        /\ \A k \in Keys : k \notin K => m[k] = edits[k]
        /\ \A k \in K : m[k] # None /\ m[k].value = edits[k].value /\ m[k].state = state
    BY <1>2, <1>3, <1>4, TurnedFacts
  <1>6. SaverInv
    BY DEF IInv, Screen
  <1> QED BY <1>1, <1>5, <1>6 DEF SaverInv

\* Edits of which some were saved, and the others are still what the screen shows.
StillShown(m) ==
  \A k \in Keys :
    /\ m[k] = None <=> edits[k] = None
    /\ m[k] # None /\ m[k].state # "saved" => Unsaved(k) /\ m[k].value = edits[k].value
    /\ m[k] # None /\ m[k].state = "saved" => <<k, m[k].value>> \in written

LEMMA LoopStep ==
  ASSUME IInv, req.saver.op # "none", NEW m \in Written, StillShown(m),
         edits' = Settled(m, shown'), Drain(edits', shown'), shown' \in Campaigns \cup {None},
         shown' # None => \A k \in Keys : Unsaved(k) => shown'.text[k] = edits[k].value,
         UNCHANGED <<stored, run, session, written, signed, view, language, dialog, generating, refining,
                     retry, known, waiting, events>>
  PROVE  IInv'
  <1>1. edits' \in Written /\ Carried(m, edits') /\ (shown' = None => In(edits', "saving") = {})
    BY SettledFacts
  <1>2. Drained(edits', shown')
    BY <1>1, DrainFacts
  <1>3. Types'
    BY <1>1, <1>2 DEF IInv, Types, Drained, Slots, Written
  <1>4. stored # None
    BY DEF IInv, ServerInv
  <1>5. ServerInv'
    BY <1>2, <1>4, ServerStays DEF Drained
  <1>6. Shows' /\ SavedMeansStored'
    <2>1. ASSUME NEW k \in Keys, Unsaved(k)'  PROVE Unsaved(k) /\ edits'[k].value = edits[k].value
      BY <1>1, <2>1 DEF Carried, StillShown, Unsaved
    <2>2. SavedMeansStored'
      BY <1>1 DEF Carried, StillShown, SavedMeansStored
    <2> QED BY <2>1, <2>2 DEF Shows
  <1>7. SaverInv'
    BY <1>2 DEF SaverInv, Drained
  <1>8. ListInv'
    BY <1>1, <1>2 DEF IInv, Screen, ListInv, Drained, Carried, StillShown
  <1> QED BY <1>3, <1>5, <1>6, <1>7, <1>8 DEF IInv, Screen

LEMMA PatchAnsweredStep ==
  ASSUME IInv, PatchAnswered
  PROVE  IInv'
  <1>1. PICK r : r = req.saver
    OBVIOUS
  <1>2. /\ r.op = "patch" /\ r.reply # None
        /\ UNCHANGED <<stored, run, session, written, signed, view, language, dialog, generating, refining,
                       retry, known, waiting, events>>
    BY <1>1 DEF PatchAnswered, server, place, flags
  <1>3. SavingTypes(r) /\ r.arg \in Patches
    BY <1>1, <1>2, TypeFacts DEF SavingTypes
  <1>4. CASE r.reply.code = 409
    <2>1. req' = [req EXCEPT !.saver = Asks("conflict", r.arg)] /\ UNCHANGED <<shown, edits>>
      BY <1>1, <1>4 DEF PatchAnswered
    <2>2. PICK op \in {"patch", "conflict"} : op = "conflict"
      OBVIOUS
    <2>3. PICK x \in Savings : x = Asks(op, r.arg) /\ x.op = op /\ x.arg = r.arg /\ x.reply = None
      BY <1>3, SavingFacts
    <2>4. req' = [req EXCEPT !.saver = x]
      BY <2>1, <2>2, <2>3
    <2>5. DOMAIN req' = Slots /\ req'.saver = x /\ req'.follow = req.follow /\ req'.order = req.order
      BY <2>4, TypeFacts, SaverSet
    <2>6. Types'
      BY <1>2, <2>1, <2>5 DEF IInv, Types, Slots
    <2>7. stored # None
      BY <1>1, <1>2 DEF IInv, ServerInv
    <2>8. ServerInv'
      BY <1>2, <2>5, <2>7, ServerStays
    <2>9. Shows' /\ SavedMeansStored' /\ ListInv'
      BY <1>2, <2>1, <2>5 DEF IInv, Screen, Shows, SavedMeansStored, Unsaved, ListInv
    <2>10. SaverInv'
      BY <1>1, <1>2, <2>1, <2>2, <2>3, <2>5 DEF IInv, Screen, SaverInv
    <2> QED BY <2>6, <2>8, <2>9, <2>10 DEF IInv, Screen
  <1>5. CASE r.reply.code # 409
    <2>1. PICK state : state = IF r.reply.code = 200 THEN "saved" ELSE "failed"
      OBVIOUS
    <2>2. PICK m : m = Mark(edits, r.arg, state)
      OBVIOUS
    <2>3. /\ shown' = IF r.reply.code = 200 /\ shown # None
                        THEN [shown EXCEPT !.revision = r.reply.body] ELSE shown
          /\ edits' = Settled(m, shown') /\ Drain(edits', shown')
      BY <1>1, <1>5, <2>1, <2>2 DEF PatchAnswered
    <2>4. state \in {"saved", "failed"}
      BY <2>1
    <2>5. /\ m \in Written
          /\ \A k \in Keys : \/ m[k] = edits[k]
                             \/ /\ k = r.arg.key /\ edits[k] # None /\ edits[k].value = r.arg.value
                                /\ edits[k].state # "saved"
                                /\ m[k] # None /\ m[k].value = r.arg.value /\ m[k].state = state
      BY <1>1, <1>2, <2>2, <2>4, MarkFacts
    <2>6. SaverInv /\ SavedMeansStored /\ Shows
      BY DEF IInv, Screen
    <2>7. state = "saved" => <<r.arg.key, r.arg.value>> \in written
      BY <1>1, <1>2, <2>1, <2>6 DEF SaverInv
    <2>8. StillShown(m)
      BY <2>5, <2>6, <2>7 DEF StillShown, SavedMeansStored, Unsaved
    <2>9. shown' \in Campaigns \cup {None} /\ (shown' # None => shown # None /\ shown'.text = shown.text)
      <3>1. CASE r.reply.code = 200 /\ shown # None
        <4>1. r.reply.body \in Nat /\ shown \in Campaigns
          BY <1>2, <1>3, <3>1, TypeFacts DEF SavingTypes
        <4>2. PICK d \in Campaigns : d = Revised(shown, r.reply.body) /\ d.text = shown.text
          BY <4>1, RevisedFacts
        <4>3. shown' = d
          BY <2>3, <3>1, <4>2 DEF Revised
        <4> QED BY <3>1, <4>2, <4>3
      <3>2. CASE ~(r.reply.code = 200 /\ shown # None)
        BY <2>3, <3>2, TypeFacts
      <3> QED BY <3>1, <3>2
    <2>10. shown' # None => \A k \in Keys : Unsaved(k) => shown'.text[k] = edits[k].value
      BY <2>6, <2>9 DEF Shows
    <2> QED BY <1>1, <1>2, <2>3, <2>5, <2>8, <2>9, <2>10, LoopStep
  <1> QED BY <1>4, <1>5

\* What is shown of a campaign over edits.
LEMMA OverlaidFacts ==
  ASSUME NEW c \in Campaigns, NEW e \in Written
  PROVE  \E d \in Campaigns :
           /\ d = Overlaid(c, e)
           /\ \A k \in Keys : e[k] # None /\ e[k].state # "saved" => d.text[k] = e[k].value
  <1>1. PICK t : t = [k \in Keys |-> IF e[k] # None /\ e[k].state # "saved" THEN e[k].value ELSE c.text[k]]
    OBVIOUS
  <1>2. \A k \in Keys : e[k] # None => e[k].value \in Values
    BY EditTypes DEF Written
  <1>3. \A k \in Keys : c.text[k] \in Values
    BY CampaignTypes
  <1>4. t \in Texts /\ \A k \in Keys : e[k] # None /\ e[k].state # "saved" => t[k] = e[k].value
    BY <1>1, <1>2, <1>3 DEF Texts
  <1>5. PICK d \in Campaigns : d = Reworded(c, t) /\ d.text = t
    BY <1>4, RewordedFacts
  <1>6. d = Overlaid(c, e)
    BY <1>1, <1>5 DEF Reworded, Overlaid
  <1> QED BY <1>4, <1>5, <1>6

LEMMA ConflictAnsweredStep ==
  ASSUME IInv, ConflictAnswered
  PROVE  IInv'
  <1>1. PICK r : r = req.saver
    OBVIOUS
  <1>2. /\ r.op = "conflict" /\ r.reply # None
        /\ UNCHANGED <<stored, run, session, written, signed, view, language, dialog, generating, refining,
                       retry, known, waiting, events>>
    BY <1>1 DEF ConflictAnswered, server, place, flags
  <1>3. PICK m : m = Mark(edits, r.arg, "failed")
    OBVIOUS
  <1>4. /\ shown' = IF r.reply.code = 200 THEN Overlaid(r.reply.body, edits) ELSE shown
        /\ edits' = Settled(m, shown') /\ Drain(edits', shown')
    BY <1>1, <1>3 DEF ConflictAnswered
  <1>5. PICK state \in {"saved", "failed"} : state = "failed"
    OBVIOUS
  <1>6. /\ m \in Written
        /\ \A k \in Keys : \/ m[k] = edits[k]
                           \/ /\ k = r.arg.key /\ edits[k] # None /\ edits[k].value = r.arg.value
                              /\ edits[k].state # "saved"
                              /\ m[k] # None /\ m[k].value = r.arg.value /\ m[k].state = state
    BY <1>1, <1>2, <1>3, <1>5, MarkFacts
  <1>7. SavedMeansStored /\ Shows
    BY DEF IInv, Screen
  <1>8. StillShown(m)
    BY <1>5, <1>6, <1>7 DEF StillShown, SavedMeansStored, Unsaved
  <1>9. /\ shown' \in Campaigns \cup {None}
        /\ shown' # None => \A k \in Keys : Unsaved(k) => shown'.text[k] = edits[k].value
    <2>1. CASE r.reply.code = 200
      <3>1. r.reply.body \in Campaigns /\ edits \in Written
        BY <1>1, <1>2, <2>1, TypeFacts DEF SavingTypes, Written
      <3>2. PICK d \in Campaigns :
              /\ d = Overlaid(r.reply.body, edits)
              /\ \A k \in Keys : edits[k] # None /\ edits[k].state # "saved" => d.text[k] = edits[k].value
        BY <3>1, OverlaidFacts
      <3> QED BY <1>4, <2>1, <3>2 DEF Unsaved
    <2>2. CASE r.reply.code # 200
      BY <1>4, <1>7, <2>2, TypeFacts DEF Shows
    <2> QED BY <2>1, <2>2
  <1> QED BY <1>1, <1>2, <1>4, <1>6, <1>8, <1>9, LoopStep
--------------------------------------------------------------------------------
(* The answers that are drawn on the screen. *)

\* The requests after an answer that was followed or was not.
Slotted ==
  /\ DOMAIN req' = Slots /\ req'.saver = req.saver /\ req'.follow \in Follow /\ req'.order \in Ordering
  /\ req'.follow = req.follow \/ (req'.follow.op # "open" /\ req'.follow.reply = None)
  /\ req'.order = req.order \/ (req'.order.op \in {"refine", "refused"} => stored # None)

\* The copy afterwards: an edit is what it was or gone, and shown if it was not saved.
Refreshed ==
  /\ edits' \in Written /\ shown' \in Campaigns \cup {None} /\ (stored = None => shown' = None)
  /\ \A k \in Keys : edits'[k] \in {None, edits[k]}
  /\ Shows'

\* The switches of the screen.
Switches ==
  /\ {signed', generating', refining', retry'} \subseteq BOOLEAN
  /\ view' \in {"list", "campaign"} /\ language' \in Languages /\ known' \in Runs \cup {None}

LEMMA AnsweredStep ==
  ASSUME IInv, Slotted, Refreshed, Switches,
         view' = "list" => view = "list" \/ edits' = NoEdits,
         req'.follow.op = "open" => view' = view,
         UNCHANGED <<stored, run, session, written, dialog, waiting>>, events' \in 0..MaxEvents
  PROVE  IInv'
  <1>1. Types'
    BY DEF IInv, Types, Slotted, Refreshed, Switches, Slots, Written
  <1>2. ServerInv'
    BY ServerStays DEF Slotted, Refreshed, IInv, ServerInv
  <1>3. SavedMeansStored' /\ SaverInv'
    BY DEF IInv, Screen, SavedMeansStored, SaverInv, Refreshed, Slotted
  <1>4. ListInv'
    <2>1. ListInv
      BY DEF IInv, Screen
    <2>2. view' = "list" => \A k \in Keys : edits'[k] = None
      BY <2>1 DEF ListInv, Refreshed, NoEdits
    <2> QED BY <2>1, <2>2 DEF ListInv, Slotted
  <1> QED BY <1>1, <1>2, <1>3, <1>4 DEF IInv, Screen, Refreshed

LEMMA AnswerStep ==
  ASSUME IInv, Slotted, Refreshed, Switches,
         view' = "list" => view = "list" \/ edits' = NoEdits,
         req'.follow.op = "open" => view' = view,
         UNCHANGED <<stored, run, session, written, dialog, waiting, events>>
  PROVE  IInv'
  <1>1. events' \in 0..MaxEvents
    BY TypeFacts
  <1> QED BY <1>1, AnsweredStep

LEMMA SameFacts ==
  ASSUME IInv, UNCHANGED edits, shown' \in {shown, None}
  PROVE  Refreshed
  <1>1. \A k \in Keys : edits'[k] \in {None, edits[k]}
    OBVIOUS
  <1>2. edits' \in Written
    BY TypeFacts DEF Written
  <1>3. shown' \in Campaigns \cup {None} /\ (stored = None => shown' = None)
    BY TypeFacts DEF ServerInv
  <1>4. Shows'
    BY DEF IInv, Screen, Shows, Unsaved
  <1> QED BY <1>1, <1>2, <1>3, <1>4 DEF Refreshed

LEMMA EmptiedFacts ==
  ASSUME edits' = NoEdits, shown' \in Campaigns \cup {None}, stored = None => shown' = None
  PROVE  Refreshed
  <1>1. edits' \in Written /\ \A k \in Keys : edits'[k] = None
    BY DEF NoEdits, Written
  <1>2. Shows'
    BY <1>1 DEF Shows, Unsaved
  <1> QED BY <1>1, <1>2 DEF Refreshed

LEMMA DraftedFacts ==
  ASSUME NEW c \in Campaigns, NEW st \in Runs \cup {None}
  PROVE  Drafted(st, c) \in Campaigns
  <1>1. CASE st # None /\ st.kind = "refine" /\ st.state # "succeeded"
    <2>1. st.draft \in Drafts
      BY <1>1, RunTypes
    <2>2. PICK t : t = [k \in Keys |-> IF k[1] = st.language THEN st.draft[k[2]] ELSE c.text[k]]
      OBVIOUS
    <2>3. \A k \in Keys : k[2] \in Fields /\ c.text[k] \in Values
      BY CampaignTypes DEF Keys
    <2>4. t \in Texts
      BY <2>1, <2>2, <2>3 DEF Texts, Drafts
    <2>5. PICK d \in Campaigns : d = Reworded(c, t)
      BY <2>4, RewordedFacts
    <2>6. Drafted(st, c) = d
      BY <1>1, <2>2, <2>5 DEF Drafted, Reworded
    <2> QED BY <2>6
  <1>2. CASE ~(st # None /\ st.kind = "refine" /\ st.state # "succeeded")
    BY <1>2 DEF Drafted
  <1> QED BY <1>1, <1>2

\* What an answer that can be read may do to the edits.
LEMMA RefreshFacts ==
  ASSUME IInv, NEW reply, NEW st \in Runs \cup {None},
         reply.code = 200 => reply.body \in Campaigns /\ stored # None,
         Refresh(reply, st)
  PROVE  /\ Refreshed
         /\ \A k \in Keys : edits[k] # None /\ edits'[k] = None => Done(st, reply.body)
  <1>1. CASE reply.code = 200
    <2>1. PICK c \in Campaigns : c = reply.body /\ stored # None
      BY <1>1
    <2>2. PICK e : e = Kept(st, c)
      OBVIOUS
    <2>3. edits' = e /\ shown' = Overlaid(Drafted(st, c), e)
      BY <1>1, <2>1, <2>2 DEF Refresh
    <2>4. /\ e \in Written /\ \A k \in Keys : e[k] \in {None, edits[k]}
          /\ \A k \in Keys : edits[k] # None /\ e[k] = None => Done(st, c)
      <3>1. edits \in Written
        BY TypeFacts DEF Written
      <3> QED BY <2>2, <3>1 DEF Kept, Written
    <2>5. PICK d \in Campaigns : d = Drafted(st, c)
      BY DraftedFacts
    <2>6. PICK s \in Campaigns :
            /\ s = Overlaid(d, e)
            /\ \A k \in Keys : e[k] # None /\ e[k].state # "saved" => s.text[k] = e[k].value
      BY <2>4, OverlaidFacts
    <2>7. shown' = s /\ edits' = e
      BY <2>3, <2>5, <2>6
    <2>8. Shows'
      BY <2>6, <2>7 DEF Shows, Unsaved
    <2> QED BY <2>1, <2>4, <2>6, <2>7, <2>8 DEF Refreshed
  <1>2. CASE reply.code # 200
    <2>1. UNCHANGED <<edits, shown>>
      BY <1>2 DEF Refresh
    <2> QED BY <2>1, SameFacts
  <1> QED BY <1>1, <1>2

LEMMA FollowFreed ==
  ASSUME IInv, req' = [req EXCEPT !.follow = Free]
  PROVE  Slotted /\ req'.follow.op = "none"
  BY TypeFacts, FreeFacts, FollowSet DEF Slotted

LEMMA FollowedSlots ==
  ASSUME IInv, NEW op, Taken(op), op # "open"
  PROVE  Slotted /\ req'.follow.op # "open"
  BY TypeFacts DEF Slotted, Taken

LEMMA FollowOn ==
  ASSUME IInv, NEW op \in FollowOps \ {"open"}, NEW want \in Nat \cup {None}, NEW st \in Runs \cup {None},
         Follows(op, want, st)
  PROVE  Slotted /\ req'.follow.op # "open"
  <1>1. op \in FollowOps /\ op # "open"
    OBVIOUS
  <1> QED BY <1>1, FollowsIs, FollowedSlots

LEMMA StatusOn ==
  ASSUME IInv, NEW want \in Nat \cup {None}, Follows("status", want, None)
  PROVE  Slotted /\ req'.follow.op # "open"
  <1>1. PICK op \in FollowOps \ {"open"} : op = "status"
    BY DEF FollowOps
  <1>2. PICK st \in Runs \cup {None} : st = None
    OBVIOUS
  <1>3. Follows(op, want, st)
    BY <1>1, <1>2
  <1> QED BY <1>3, FollowOn

LEMMA ExpiredFacts ==
  ASSUME IInv, Expired
  PROVE  Refreshed /\ Switches /\ edits' = NoEdits
  <1>1. Refreshed
    BY EmptiedFacts DEF Expired
  <1>2. Switches
    BY FirstFacts DEF Expired, Switches
  <1> QED BY <1>1, <1>2 DEF Expired

LEMMA ConcludesFacts ==
  ASSUME IInv, NEW st, NEW want \in Nat \cup {None}, Concludes(st, want)
  PROVE  Slotted /\ req'.follow.op # "open" /\ generating' \in BOOLEAN /\ retry' \in BOOLEAN
  <1>1. CASE /\ retry' = TRUE /\ generating' = FALSE
             /\ req' = [req EXCEPT !.follow = Free]
    BY <1>1, FollowFreed
  <1>2. CASE /\ retry' = FALSE /\ generating' = FALSE
             /\ Follows("final", want, None)
    <2>1. PICK op \in FollowOps \ {"open"} : op = "final"
      BY DEF FollowOps
    <2>2. PICK none \in Runs \cup {None} : none = None
      OBVIOUS
    <2>3. Follows(op, want, none)
      BY <1>2, <2>1, <2>2
    <2>4. Slotted /\ req'.follow.op # "open"
      BY <2>3, FollowOn
    <2> QED BY <1>2, <2>4
  <1>3. CASE UNCHANGED <<retry, generating>> /\ Follows("status", want, None)
    BY <1>3, StatusOn, TypeFacts
  <1> QED BY <1>1, <1>2, <1>3 DEF Concludes

LEMMA RecoversFacts ==
  ASSUME IInv, NEW st, Recovers(st)
  PROVE  Slotted /\ req'.follow.op # "open" /\ generating' \in BOOLEAN /\ retry' \in BOOLEAN
  <1>1. retry' = Failing(st) /\ generating' = ~Failing(st)
    BY DEF Recovers
  <1>2. generating' \in BOOLEAN /\ retry' \in BOOLEAN
    BY <1>1, Zenon DEF Failing
  <1>3. CASE req' = [req EXCEPT !.follow = Free]
    BY <1>2, <1>3, FollowFreed
  <1>4. CASE Follows("status", None, None)
    <2>1. PICK want \in Nat \cup {None} : want = None
      OBVIOUS
    <2>2. Follows("status", want, None)
      BY <1>4, <2>1
    <2> QED BY <1>2, <2>2, StatusOn
  <1> QED BY <1>3, <1>4 DEF Recovers

\* What an answer to a request that is followed brings.
LEMMA FollowBrings ==
  ASSUME IInv, NEW r, r = req.follow, r.op # "none", r.reply # None
  PROVE  /\ r.arg.want \in Nat \cup {None} /\ r.arg.status \in Runs \cup {None}
         /\ r.op \in FollowOps \ {"status", "recover"} /\ r.reply.code = 200 =>
              r.reply.body \in Campaigns /\ stored # None
         /\ r.op = "status" /\ r.reply.code = 200 => r.reply.body \in Runs
         /\ r.op = "recover" => r.reply.body \in Runs \cup {None}
  <1>1. FollowTypes(r) /\ r.arg \in Following
    BY TypeFacts DEF FollowTypes
  <1>2. r.arg.want \in Nat \cup {None} /\ r.arg.status \in Runs \cup {None}
    BY <1>1, FollowingFacts
  <1>3. r.op \in FollowOps \ {"status", "recover"} => r.op \in Reads
    BY DEF FollowOps, Reads
  <1> QED BY <1>1, <1>2, <1>3, TypeFacts DEF ServerInv, FollowTypes

LEMMA OpenAnsweredStep ==
  ASSUME IInv, OpenAnswered
  PROVE  IInv'
  <1>1. PICK r : r = req.follow
    OBVIOUS
  <1>2. /\ r.op = "open" /\ r.reply # None
        /\ UNCHANGED <<stored, run, session, written, signed, dialog, known, waiting, events>>
    BY <1>1 DEF OpenAnswered, server
  <1>3. CASE r.reply.code = 200
    <2>1. /\ shown' = r.reply.body /\ edits' = NoEdits /\ view' = "campaign"
          /\ language' = IF Refines(known) THEN known.language ELSE First
          /\ refining' = Refines(known)
          /\ retry' = (Failing(known) /\ ~Refines(known))
          /\ generating' = (Active(known) /\ ~Refines(known))
          /\ IF Refines(known) THEN Follows("overlay", None, known)
             ELSE IF Active(known) THEN Follows("status", None, None)
             ELSE req' = [req EXCEPT !.follow = Free]
      BY <1>1, <1>3 DEF OpenAnswered
    <2>2. r.reply.body \in Campaigns /\ stored # None
      <3>1. "open" \in FollowOps \ {"status", "recover"}
        BY DEF FollowOps
      <3> QED BY <1>1, <1>2, <1>3, <3>1, FollowBrings
    <2>3. Refreshed
      BY <2>1, <2>2, EmptiedFacts
    <2>4. refining' \in BOOLEAN /\ retry' \in BOOLEAN /\ generating' \in BOOLEAN
      BY <2>1, Zenon DEF Refines, Failing, Active
    <2>5. language' \in Languages
      BY <2>1, TypeFacts, FirstFacts, RunTypes DEF Refines
    <2>6. Switches
      BY <1>2, <2>1, <2>4, <2>5, TypeFacts DEF Switches
    <2>7. Slotted /\ req'.follow.op # "open"
      <3>1. CASE Follows("overlay", None, known)
        <4>1. PICK op \in FollowOps \ {"open"} : op = "overlay"
          BY DEF FollowOps
        <4>2. PICK want \in Nat \cup {None} : want = None
          OBVIOUS
        <4>3. Follows(op, want, known)
          BY <3>1, <4>1, <4>2
        <4> QED BY <4>3, FollowOn, TypeFacts
      <3>2. CASE Follows("status", None, None)
        <4>1. PICK want \in Nat \cup {None} : want = None
          OBVIOUS
        <4>2. Follows("status", want, None)
          BY <3>2, <4>1
        <4> QED BY <4>2, StatusOn
      <3>3. CASE req' = [req EXCEPT !.follow = Free]
        BY <3>3, FollowFreed
      <3> QED BY <2>1, <3>1, <3>2, <3>3
    <2> QED BY <1>2, <2>1, <2>3, <2>6, <2>7, AnswerStep
  <1>4. CASE r.reply.code # 200
    <2>1. /\ req' = [req EXCEPT !.follow = Free]
          /\ UNCHANGED <<shown, edits, view, language, generating, refining, retry>>
      BY <1>1, <1>4 DEF OpenAnswered, flags
    <2>2. Slotted /\ req'.follow.op = "none"
      BY <2>1, FollowFreed
    <2>3. Refreshed
      BY <2>1, SameFacts
    <2>4. Switches
      BY <1>2, <2>1, TypeFacts DEF Switches, IInv, Types
    <2> QED BY <1>2, <2>1, <2>2, <2>3, <2>4, AnswerStep
  <1> QED BY <1>3, <1>4

LEMMA FreedStep ==
  ASSUME IInv, req' = [req EXCEPT !.follow = Free], edits' = edits, shown' = shown, Switches,
         view' = "list" => view = "list",
         UNCHANGED <<stored, run, session, written, dialog, waiting, events>>
  PROVE  IInv'
  <1>1. Slotted /\ req'.follow.op = "none"
    BY FollowFreed
  <1>2. Refreshed
    BY SameFacts
  <1> QED BY <1>1, <1>2, AnswerStep

LEMMA ExpiredStep ==
  ASSUME IInv, Expired, Slotted, req'.follow.op # "open",
         UNCHANGED <<stored, run, session, written, dialog, waiting, events>>
  PROVE  IInv'
  BY ExpiredFacts, AnswerStep

LEMMA OverlayAnsweredStep ==
  ASSUME IInv, OverlayAnswered
  PROVE  IInv'
  <1>1. PICK r : r = req.follow
    OBVIOUS
  <1>2. /\ r.op = "overlay" /\ r.reply # None
        /\ UNCHANGED <<stored, run, session, written, signed, view, language, dialog, refining, known,
                       waiting, events>>
    BY <1>1 DEF OverlayAnswered, server, place
  <1>3. CASE r.reply = Lost
    <2>1. req' = [req EXCEPT !.follow = Free] /\ UNCHANGED <<shown, edits, retry, generating>>
      BY <1>1, <1>3 DEF OverlayAnswered
    <2>2. Switches
      BY <1>2, <2>1, TypeFacts DEF Switches, IInv, Types
    <2> QED BY <1>2, <2>1, <2>2, FreedStep
  <1>4. CASE r.reply # Lost
    <2>1. PICK st : st = r.arg.status
      OBVIOUS
    <2>2. /\ Refresh(r.reply, st)
          /\ retry' = (retry \/ Failing(st)) /\ generating' = (generating \/ Active(st))
          /\ IF Active(st) THEN Follows("status", None, None)
             ELSE req' = [req EXCEPT !.follow = Free]
      BY <1>1, <1>4, <2>1 DEF OverlayAnswered
    <2>3. st \in Runs \cup {None} /\ (r.reply.code = 200 => r.reply.body \in Campaigns /\ stored # None)
      <3>1. "overlay" \in FollowOps \ {"status", "recover"}
        BY DEF FollowOps
      <3> QED BY <1>1, <1>2, <2>1, <3>1, FollowBrings
    <2>4. Refreshed
      BY <2>2, <2>3, RefreshFacts
    <2>5. retry' \in BOOLEAN /\ generating' \in BOOLEAN
      BY <2>2, Zenon DEF Failing, Active
    <2>6. Switches
      BY <1>2, <2>5, TypeFacts DEF Switches, IInv, Types
    <2>7. Slotted /\ req'.follow.op # "open"
      <3>1. CASE Follows("status", None, None)
        <4>1. PICK want \in Nat \cup {None} : want = None
          OBVIOUS
        <4>2. Follows("status", want, None)
          BY <3>1, <4>1
        <4> QED BY <4>2, StatusOn
      <3>2. CASE req' = [req EXCEPT !.follow = Free]
        BY <3>2, FollowFreed
      <3> QED BY <2>2, <3>1, <3>2
    <2> QED BY <1>2, <2>4, <2>6, <2>7, AnswerStep
  <1> QED BY <1>3, <1>4

LEMMA RecoverAnsweredStep ==
  ASSUME IInv, RecoverAnswered
  PROVE  IInv'
  <1>1. PICK r : r = req.follow
    OBVIOUS
  <1>2. PICK st : st = r.reply.body
    OBVIOUS
  <1>3. r.op = "recover" /\ r.reply # None /\ UNCHANGED <<stored, run, session, written, dialog, waiting, events>>
    BY <1>1 DEF RecoverAnswered, server
  <1>4. st \in Runs \cup {None}
    BY <1>1, <1>2, <1>3, FollowBrings
  <1>5. CASE signed /\ r.reply.code = 401
    <2>1. Expired /\ req' = [req EXCEPT !.follow = Free]
      BY <1>1, <1>5 DEF RecoverAnswered
    <2>2. Slotted /\ req'.follow.op # "open"
      BY <2>1, FollowFreed
    <2> QED BY <1>3, <2>1, <2>2, ExpiredStep
  <1>6. CASE ~(signed /\ r.reply.code = 401) /\ (~signed \/ st = None)
    <2>1. /\ req' = [req EXCEPT !.follow = Free]
          /\ UNCHANGED <<known, refining, language, view, retry, generating, signed, shown, edits>>
      BY <1>1, <1>2, <1>6 DEF RecoverAnswered
    <2>2. Switches
      BY <2>1, TypeFacts DEF Switches, IInv, Types
    <2> QED BY <1>3, <2>1, <2>2, FreedStep
  <1>7. CASE ~(signed /\ r.reply.code = 401) /\ signed /\ st # None
    <2>1. /\ known' = st /\ refining' = Refines(st) /\ view' = "campaign"
          /\ language' = IF Refines(st) THEN st.language ELSE language
          /\ IF Refines(st) THEN Follows("recovered", None, st) /\ UNCHANGED <<retry, generating>>
             ELSE Recovers(st)
          /\ UNCHANGED <<signed, shown, edits>>
      <3>1. /\ IF ~signed \/ st = None
                 THEN /\ req' = [req EXCEPT !.follow = Free]
                      /\ UNCHANGED <<known, refining, language, view, retry, generating>>
                 ELSE /\ known' = st /\ refining' = Refines(st) /\ view' = "campaign"
                      /\ language' = IF Refines(st) THEN st.language ELSE language
                      /\ IF Refines(st)
                           THEN Follows("recovered", None, st) /\ UNCHANGED <<retry, generating>>
                           ELSE Recovers(st)
            /\ UNCHANGED <<signed, shown, edits>>
        BY <1>1, <1>2, <1>7, Zenon DEF RecoverAnswered
      <3> QED BY <1>7, <3>1, Zenon
    <2>2. refining' \in BOOLEAN
      BY <2>1, Zenon DEF Refines
    <2>3. language' \in Languages
      BY <1>4, <1>7, <2>1, TypeFacts, RunTypes DEF Refines
    <2>4. /\ Slotted /\ req'.follow.op # "open" /\ retry' \in BOOLEAN /\ generating' \in BOOLEAN
      <3>1. CASE Follows("recovered", None, st) /\ UNCHANGED <<retry, generating>>
        <4>1. PICK op \in FollowOps \ {"open"} : op = "recovered"
          BY DEF FollowOps
        <4>2. PICK want \in Nat \cup {None} : want = None
          OBVIOUS
        <4>3. Follows(op, want, st)
          BY <3>1, <4>1, <4>2
        <4>4. Slotted /\ req'.follow.op # "open"
          BY <1>4, <4>3, FollowOn
        <4> QED BY <3>1, <4>4, TypeFacts
      <3>2. CASE Recovers(st)
        BY <1>4, <1>7, <3>2, RecoversFacts
      <3> QED BY <2>1, <3>1, <3>2
    <2>5. Switches
      BY <1>4, <2>1, <2>2, <2>3, <2>4, TypeFacts DEF Switches
    <2>6. Refreshed
      BY <2>1, SameFacts
    <2> QED BY <1>3, <2>1, <2>4, <2>5, <2>6, AnswerStep
  <1> QED BY <1>5, <1>6, <1>7

\* A run that a campaign is read again for is one.
LEMMA RecoveredAnsweredStep ==
  ASSUME IInv, RecoveredAnswered
  PROVE  IInv'
  <1>1. PICK r : r = req.follow
    OBVIOUS
  <1>2. /\ r.op = "recovered" /\ r.reply # None
        /\ UNCHANGED <<stored, run, session, written, signed, view, language, dialog, refining, known,
                       waiting, events>>
    BY <1>1 DEF RecoveredAnswered, server, place
  <1>3. CASE r.reply = Lost
    <2>1. req' = [req EXCEPT !.follow = Free] /\ UNCHANGED <<shown, edits, retry, generating>>
      BY <1>1, <1>3 DEF RecoveredAnswered
    <2>2. Switches
      BY <1>2, <2>1, TypeFacts DEF Switches, IInv, Types
    <2> QED BY <1>2, <2>1, <2>2, FreedStep
  <1>4. CASE r.reply # Lost
    <2>1. PICK st : st = r.arg.status
      OBVIOUS
    <2>2. Refresh(r.reply, st) /\ Recovers(st)
      BY <1>1, <1>4, <2>1 DEF RecoveredAnswered
    <2>3. st \in Runs \cup {None} /\ (r.reply.code = 200 => r.reply.body \in Campaigns /\ stored # None)
      <3>1. "recovered" \in FollowOps \ {"status", "recover"}
        BY DEF FollowOps
      <3> QED BY <1>1, <1>2, <2>1, <3>1, FollowBrings
    <2>4. Refreshed
      BY <2>2, <2>3, RefreshFacts
    <2>5. Slotted /\ req'.follow.op # "open" /\ generating' \in BOOLEAN /\ retry' \in BOOLEAN
      BY <2>2, <2>3, RecoversFacts
    <2>6. Switches
      BY <1>2, <2>5, TypeFacts DEF Switches, IInv, Types
    <2> QED BY <1>2, <2>4, <2>5, <2>6, AnswerStep
  <1> QED BY <1>3, <1>4

LEMMA GetAnsweredStep ==
  ASSUME IInv, GetAnswered
  PROVE  IInv'
  <1>1. PICK r : r = req.follow
    OBVIOUS
  <1>2. /\ r.op = "get" /\ r.reply # None
        /\ UNCHANGED <<stored, run, session, written, signed, view, language, dialog, refining, known,
                       waiting, events>>
    BY <1>1 DEF GetAnswered, server, place
  <1>3. PICK want : want = r.arg.want
    OBVIOUS
  <1>4. want \in Nat \cup {None}
    BY <1>1, <1>2, <1>3, FollowBrings
  <1>5. CASE r.reply = Lost
    <2>1. Follows("status", want, None) /\ UNCHANGED <<shown, edits, retry, generating>>
      BY <1>1, <1>3, <1>5 DEF GetAnswered
    <2>2. Switches
      BY <1>2, <2>1, TypeFacts DEF Switches, IInv, Types
    <2>3. Slotted /\ req'.follow.op # "open"
      BY <1>4, <2>1, StatusOn
    <2>4. Refreshed
      BY <2>1, SameFacts
    <2> QED BY <1>2, <2>2, <2>3, <2>4, AnswerStep
  <1>6. CASE r.reply # Lost
    <2>1. PICK st : st = r.arg.status
      OBVIOUS
    <2>2. Refresh(r.reply, st) /\ Concludes(st, want)
      BY <1>1, <1>3, <1>6, <2>1 DEF GetAnswered
    <2>3. st \in Runs \cup {None} /\ (r.reply.code = 200 => r.reply.body \in Campaigns /\ stored # None)
      <3>1. "get" \in FollowOps \ {"status", "recover"}
        BY DEF FollowOps
      <3> QED BY <1>1, <1>2, <2>1, <3>1, FollowBrings
    <2>4. Refreshed
      BY <2>2, <2>3, RefreshFacts
    <2>5. Slotted /\ req'.follow.op # "open" /\ generating' \in BOOLEAN /\ retry' \in BOOLEAN
      BY <1>4, <2>2, <2>3, ConcludesFacts
    <2>6. Switches
      BY <1>2, <2>5, TypeFacts DEF Switches, IInv, Types
    <2> QED BY <1>2, <2>4, <2>5, <2>6, AnswerStep
  <1> QED BY <1>5, <1>6

LEMMA StatusAnsweredStep ==
  ASSUME IInv, StatusAnswered
  PROVE  IInv'
  <1>1. PICK r : r = req.follow
    OBVIOUS
  <1>2. PICK st : st = r.reply.body
    OBVIOUS
  <1>3. PICK want : want = r.arg.want
    OBVIOUS
  <1>4. r.op = "status" /\ r.reply # None /\ UNCHANGED <<stored, run, session, written, dialog, waiting, events>>
    BY <1>1 DEF StatusAnswered, server
  <1>5. want \in Nat \cup {None} /\ (r.reply.code = 200 => st \in Runs)
    BY <1>1, <1>2, <1>3, <1>4, FollowBrings
  <1>6. CASE /\ r.reply = Lost /\ Follows("status", want, None)
             /\ UNCHANGED <<signed, view, language, flags, shown, edits, known>>
    <2>1. UNCHANGED <<signed, view, language, generating, refining, retry, known>>
      BY <1>6 DEF flags
    <2>2. Switches
      BY <2>1, TypeFacts DEF Switches, IInv, Types
    <2>3. Slotted /\ req'.follow.op # "open"
      BY <1>5, <1>6, StatusOn
    <2>4. Refreshed
      BY <1>6, SameFacts
    <2> QED BY <1>4, <2>1, <2>2, <2>3, <2>4, AnswerStep
  <1>7. CASE Expired /\ req' = [req EXCEPT !.follow = Free]
    <2>1. Slotted /\ req'.follow.op # "open"
      BY <1>7, FollowFreed
    <2> QED BY <1>4, <1>7, <2>1, ExpiredStep
  <1>8. CASE /\ generating' = FALSE /\ req' = [req EXCEPT !.follow = Free]
             /\ UNCHANGED <<signed, view, language, refining, retry, shown, edits, known>>
    <2>1. Switches
      BY <1>8, TypeFacts DEF Switches, IInv, Types
    <2> QED BY <1>4, <1>8, <2>1, FreedStep
  <1>9. CASE /\ r.reply.code = 200 /\ known' = st /\ refining' = Refines(st)
             /\ IF Refines(st) \/ st.state = "succeeded"
                  THEN Follows("get", want, st) /\ UNCHANGED <<retry, generating>>
                  ELSE Concludes(st, want)
             /\ UNCHANGED <<signed, view, language, shown, edits>>
    <2>1. st \in Runs
      BY <1>5, <1>9
    <2>2. refining' \in BOOLEAN
      BY <1>9, Zenon DEF Refines
    <2>3. Slotted /\ req'.follow.op # "open" /\ generating' \in BOOLEAN /\ retry' \in BOOLEAN
      <3>1. CASE Follows("get", want, st) /\ UNCHANGED <<retry, generating>>
        <4>1. PICK op \in FollowOps \ {"open"} : op = "get"
          BY DEF FollowOps
        <4>2. Follows(op, want, st)
          BY <3>1, <4>1
        <4>3. Slotted /\ req'.follow.op # "open"
          BY <1>5, <2>1, <4>2, FollowOn
        <4> QED BY <3>1, <4>3, TypeFacts
      <3>2. CASE Concludes(st, want)
        BY <1>5, <3>2, ConcludesFacts
      <3> QED BY <1>9, <3>1, <3>2
    <2>4. Switches
      BY <1>9, <2>1, <2>2, <2>3, TypeFacts DEF Switches, IInv, Types
    <2>5. Refreshed
      BY <1>9, SameFacts
    <2> QED BY <1>4, <1>9, <2>3, <2>4, <2>5, AnswerStep
  <1> QED BY <1>1, <1>2, <1>3, <1>6, <1>7, <1>8, <1>9 DEF StatusAnswered

LEMMA FinalAnsweredStep ==
  ASSUME IInv, FinalAnswered
  PROVE  IInv'
  <1>1. PICK r : r = req.follow
    OBVIOUS
  <1>2. /\ r.op = "final" /\ r.reply # None
        /\ UNCHANGED <<stored, run, session, written, signed, view, language, dialog, generating, refining,
                       retry, waiting, events>>
    BY <1>1 DEF FinalAnswered, server, place, flags
  <1>3. PICK want : want = r.arg.want
    OBVIOUS
  <1>4. want \in Nat \cup {None}
    BY <1>1, <1>2, <1>3, FollowBrings
  <1>5. CASE r.reply = Lost
    <2>1. Follows("status", want, None) /\ UNCHANGED <<shown, edits>> /\ known' \in {known, Recoverable}
      BY <1>1, <1>3, <1>5 DEF FinalAnswered
    <2>2. Switches
      BY <1>2, <2>1, RecoverableType, TypeFacts DEF Switches, IInv, Types
    <2>3. Slotted /\ req'.follow.op # "open"
      BY <1>4, <2>1, StatusOn
    <2>4. Refreshed
      BY <2>1, SameFacts
    <2> QED BY <1>2, <2>2, <2>3, <2>4, AnswerStep
  <1>6. CASE r.reply # Lost
    <2>1. PICK st \in Runs \cup {None} : st = None
      OBVIOUS
    <2>2. Refresh(r.reply, st) /\ known' \in {known, Recoverable} /\ req' = [req EXCEPT !.follow = Free]
      BY <1>1, <1>6, <2>1 DEF FinalAnswered
    <2>3. r.reply.code = 200 => r.reply.body \in Campaigns /\ stored # None
      <3>1. "final" \in FollowOps \ {"status", "recover"}
        BY DEF FollowOps
      <3> QED BY <1>1, <1>2, <3>1, FollowBrings
    <2>4. Refreshed
      BY <2>2, <2>3, RefreshFacts
    <2>5. Switches
      BY <1>2, <2>2, RecoverableType, TypeFacts DEF Switches, IInv, Types
    <2>6. Slotted /\ req'.follow.op = "none"
      BY <2>2, FollowFreed
    <2> QED BY <1>2, <2>4, <2>5, <2>6, AnswerStep
  <1> QED BY <1>5, <1>6

LEMMA LateAnsweredStep ==
  ASSUME IInv, LateAnswered
  PROVE  IInv'
  <1>1. UNCHANGED <<stored, run, session, written, signed, view, language, dialog, refining, shown, edits,
                    waiting, req, events>>
    BY DEF LateAnswered, server, place
  <1>2. generating' \in BOOLEAN /\ retry' \in BOOLEAN /\ known' \in Runs \cup {None}
    <2>1. PICK t \in late \ {Load} :
            \/ t = <<"overlay", "active">> /\ generating' = TRUE /\ UNCHANGED <<retry, known>>
            \/ t = <<"overlay", "failed">> /\ retry' = TRUE /\ UNCHANGED <<generating, known>>
            \/ /\ t[1] = "get" /\ generating' = FALSE /\ retry' = (t[2] = "failed")
               /\ known' \in {known, Recoverable}
            \/ t[1] = "final" /\ known' \in {known, Recoverable} /\ UNCHANGED <<retry, generating>>
      BY DEF LateAnswered
    <2>2. (t[2] = "failed") \in BOOLEAN
      OBVIOUS
    <2>3. generating' \in {TRUE, FALSE, generating} /\ retry' \in {TRUE, retry, (t[2] = "failed")}
          /\ known' \in {known, Recoverable}
      BY <2>1, Zenon
    <2> QED BY <2>2, <2>3, TypeFacts, RecoverableType
  <1>3. Slotted
    BY <1>1, UnchangedReq, TypeFacts DEF Slotted
  <1>4. Refreshed
    BY <1>1, SameFacts
  <1>5. Switches
    BY <1>1, <1>2, TypeFacts DEF Switches, IInv, Types
  <1> QED BY <1>1, <1>3, <1>4, <1>5, AnswerStep
--------------------------------------------------------------------------------
(* The answers to the orders. *)

LEMMA OrderFreed ==
  ASSUME IInv, Dropped
  PROVE  Slotted /\ req'.follow = req.follow /\ events' \in 0..MaxEvents
  BY TypeFacts, FreeFacts, OrderSet DEF Slotted, Dropped

LEMMA BothStatus ==
  ASSUME IInv, NEW want \in Nat \cup {None},
         req' = [req EXCEPT !.order = Free, !.follow = Asks("status", [want |-> want, status |-> None])]
  PROVE  Slotted /\ req'.follow.op # "open"
  <1>1. PICK st \in Runs \cup {None} : st = None
    OBVIOUS
  <1>2. PICK a \in Following : a = [want |-> want, status |-> st]
    BY FollowingFacts
  <1>3. PICK op \in FollowOps : op = "status"
    BY DEF FollowOps
  <1>4. PICK y \in Follow : y = Asks(op, a) /\ y.op = op /\ y.reply = None
    BY FollowFacts
  <1>5. PICK x \in Ordering : x = Free /\ x.op = "none"
    BY FreeFacts
  <1>6. req' = [req EXCEPT !.order = x, !.follow = y]
    BY <1>1, <1>2, <1>3, <1>4, <1>5
  <1>7. DOMAIN req' = Slots /\ req'.saver = req.saver /\ req'.follow = y /\ req'.order = x
    BY <1>6, TypeFacts, BothSet
  <1> QED BY <1>3, <1>4, <1>5, <1>7, TypeFacts DEF Slotted

LEMMA OrderedAsFacts ==
  ASSUME IInv, NEW want \in Nat \cup {None}, OrderedAs(want)
  PROVE  Slotted /\ req'.follow.op # "open" /\ events' \in 0..MaxEvents
  BY BothStatus, OvertakesFacts DEF OrderedAs

LEMMA OrderedFacts ==
  ASSUME IInv, Ordered
  PROVE  Slotted /\ req'.follow.op # "open" /\ events' \in 0..MaxEvents
  <1>1. PICK want \in Nat \cup {None} : want = None
    OBVIOUS
  <1>2. OrderedAs(want)
    BY <1>1 DEF Ordered
  <1> QED BY <1>2, OrderedAsFacts

LEMMA ExpiredOrderStep ==
  ASSUME IInv, ExpiredOrder, UNCHANGED <<stored, run, session, written, dialog, waiting>>
  PROVE  IInv'
  <1>1. Expired /\ req' = [req EXCEPT !.order = Free, !.follow = Free] /\ events' \in 0..MaxEvents
    BY OvertakesFacts DEF ExpiredOrder
  <1>2. DOMAIN req' = Slots /\ req'.saver = req.saver /\ req'.follow = Free /\ req'.order = Free
    BY <1>1, TypeFacts, BothSet
  <1>3. Slotted /\ req'.follow.op # "open"
    BY <1>2, TypeFacts, FreeFacts DEF Slotted
  <1> QED BY <1>1, <1>3, ExpiredFacts, AnsweredStep

\* An order that was accepted leaves the copy, and so does one that was dropped.
LEMMA OrderedStep ==
  ASSUME IInv, Ordered \/ Dropped, edits' = edits, shown' \in {shown, None}, view' \in {view, "campaign"},
         Dropped => view' = view, {generating', refining', retry'} \subseteq BOOLEAN,
         UNCHANGED <<stored, run, session, written, signed, language, known, dialog, waiting>>
  PROVE  IInv'
  <1>1. Refreshed
    BY SameFacts
  <1>2. Switches
    BY TypeFacts DEF Switches, IInv, Types
  <1>3. CASE Ordered
    BY <1>1, <1>2, <1>3, OrderedFacts, AnsweredStep
  <1>4. CASE Dropped
    BY <1>1, <1>2, <1>4, OrderFreed, AnsweredStep
  <1> QED BY <1>3, <1>4

LEMMA CreateAnsweredStep ==
  ASSUME IInv, CreateAnswered
  PROVE  IInv'
  <1>1. UNCHANGED <<stored, run, session, written, dialog, waiting>>
    BY DEF CreateAnswered, server
  <1>2. CASE Ordered /\ shown' = None /\ view' = "campaign" /\ UNCHANGED <<signed, language, flags, edits, known>>
    <2>1. UNCHANGED <<signed, language, generating, refining, retry, edits, known>>
      BY <1>2 DEF flags
    <2>2. Slotted /\ req'.follow.op # "open" /\ events' \in 0..MaxEvents
      BY <1>2, OrderedFacts
    <2>3. Refreshed
      BY <1>2, SameFacts
    <2>4. Switches
      BY <1>2, <2>1, TypeFacts DEF Switches
    <2> QED BY <1>1, <1>2, <2>2, <2>3, <2>4, AnsweredStep
  <1>3. CASE ExpiredOrder
    BY <1>1, <1>3, ExpiredOrderStep
  <1>4. CASE /\ Dropped /\ generating' = FALSE
             /\ UNCHANGED <<signed, view, language, refining, retry, shown, edits, known>>
    <2>1. {generating', refining', retry'} \subseteq BOOLEAN
      BY <1>4, TypeFacts
    <2> QED BY <1>1, <1>4, <2>1, OrderedStep
  <1> QED BY <1>2, <1>3, <1>4 DEF CreateAnswered

LEMMA SameScreen ==
  ASSUME IInv, Slotted, req'.follow.op = "open" => view' = view,
         UNCHANGED <<signed, view, language, generating, refining, retry, shown, edits, known,
                     stored, run, session, written, dialog, waiting>>, events' \in 0..MaxEvents
  PROVE  IInv'
  <1>1. Refreshed
    BY SameFacts
  <1>2. Switches
    BY TypeFacts DEF Switches, IInv, Types
  <1> QED BY <1>1, <1>2, AnsweredStep

LEMMA RefineAnsweredStep ==
  ASSUME IInv, RefineAnswered
  PROVE  IInv'
  <1>1. PICK r : r = req.order
    OBVIOUS
  <1>2. /\ r.op = "refine" /\ r.reply # None
        /\ UNCHANGED <<stored, run, session, written, dialog, waiting>>
    BY <1>1 DEF RefineAnswered, server
  <1>3. r.arg \in Orders /\ stored # None
    BY <1>1, <1>2, TypeFacts DEF OrderTypes, ServerInv
  <1>4. r.arg.revision \in Nat
    BY <1>3, OrdersFacts
  <1>5. CASE ExpiredOrder
    BY <1>2, <1>5, ExpiredOrderStep
  <1>6. CASE UNCHANGED <<signed, view, language, flags, shown, edits, known>>
    <2>1. UNCHANGED <<signed, view, language, generating, refining, retry, shown, edits, known>>
      BY <1>6 DEF flags
    <2>2. Slotted /\ (req'.follow.op = "open" => view' = view) /\ events' \in 0..MaxEvents
      <3>1. CASE Ordered
        BY <3>1, OrderedFacts
      <3>2. CASE req' = [req EXCEPT !.order = Asks("refused", r.arg.revision)] /\ UNCHANGED events
        <4>1. PICK op \in {"refused"} : op = "refused"
          OBVIOUS
        <4>2. PICK x \in Ordering : x = Asks(op, r.arg.revision)
          BY <1>4, OrderFacts
        <4>3. req' = [req EXCEPT !.order = x]
          BY <3>2, <4>1, <4>2
        <4>4. Slotted /\ req'.follow = req.follow
          BY <1>3, <4>2, <4>3, TypeFacts, OrderSet DEF Slotted
        <4> QED BY <2>1, <3>2, <4>4, TypeFacts
      <3>3. CASE OrderedAs(r.arg.revision)
        <4>1. PICK want \in Nat \cup {None} : want = r.arg.revision
          BY <1>4
        <4>2. OrderedAs(want)
          BY <3>3, <4>1
        <4> QED BY <4>2, OrderedAsFacts
      <3>4. CASE ExpiredOrder
        <4>1. req' = [req EXCEPT !.order = Free, !.follow = Free] /\ events' \in 0..MaxEvents
          BY <3>4, OvertakesFacts DEF ExpiredOrder
        <4> QED BY <4>1, TypeFacts, FreeFacts, BothSet DEF Slotted
      <3>5. CASE Dropped
        BY <2>1, <3>5, OrderFreed
      <3> QED BY <1>1, <2>1, <3>1, <3>2, <3>3, <3>4, <3>5 DEF RefineAnswered
    <2> QED BY <1>2, <2>1, <2>2, SameScreen
  <1>7. CASE /\ Dropped /\ generating' = FALSE
             /\ UNCHANGED <<signed, view, language, refining, retry, shown, edits, known>>
    <2>1. {generating', refining', retry'} \subseteq BOOLEAN
      BY <1>7, TypeFacts
    <2> QED BY <1>2, <1>7, <2>1, OrderedStep
  <1> QED BY <1>5, <1>6, <1>7 DEF RefineAnswered

LEMMA RefusedAnsweredStep ==
  ASSUME IInv, RefusedAnswered
  PROVE  IInv'
  <1>1. PICK r : r = req.order
    OBVIOUS
  <1>2. /\ r.op = "refused" /\ r.reply # None
        /\ UNCHANGED <<stored, run, session, written, signed, view, language, dialog, refining, retry, known,
                       waiting>>
    BY <1>1 DEF RefusedAnswered, server, place
  <1>3. /\ r.arg \in Nat /\ stored # None
        /\ r.reply.code = 200 => r.reply.body \in Campaigns
    BY <1>1, <1>2, TypeFacts DEF OrderTypes, ServerInv
  <1>4. CASE r.reply = Lost
    <2>1. PICK want \in Nat \cup {None} : want = r.arg
      BY <1>3
    <2>2. OrderedAs(want) /\ UNCHANGED <<generating, shown, edits>>
      BY <1>1, <1>4, <2>1 DEF RefusedAnswered
    <2>3. Slotted /\ req'.follow.op # "open" /\ events' \in 0..MaxEvents
      BY <2>2, OrderedAsFacts
    <2> QED BY <1>2, <2>2, <2>3, SameScreen
  <1>5. CASE r.reply # Lost
    <2>1. PICK st \in Runs \cup {None} : st = None
      OBVIOUS
    <2>2. Refresh(r.reply, st) /\ generating' = FALSE /\ Dropped
      BY <1>1, <1>5, <2>1 DEF RefusedAnswered
    <2>3. Refreshed
      BY <1>3, <2>2, RefreshFacts
    <2>4. Slotted /\ req'.follow = req.follow /\ events' \in 0..MaxEvents
      BY <2>2, OrderFreed
    <2>5. Switches
      BY <1>2, <2>2, TypeFacts DEF Switches, IInv, Types
    <2> QED BY <1>2, <2>3, <2>4, <2>5, AnsweredStep
  <1> QED BY <1>4, <1>5

LEMMA RetryAnsweredStep ==
  ASSUME IInv, RetryAnswered
  PROVE  IInv'
  <1>1. UNCHANGED <<stored, run, session, written, dialog, waiting>>
    BY DEF RetryAnswered, server
  <1>2. CASE Ordered /\ UNCHANGED <<signed, view, language, flags, shown, edits, known>>
    <2>1. UNCHANGED <<signed, view, language, generating, refining, retry, shown, edits, known>>
      BY <1>2 DEF flags
    <2>2. Slotted /\ req'.follow.op # "open" /\ events' \in 0..MaxEvents
      BY <1>2, OrderedFacts
    <2> QED BY <1>1, <2>1, <2>2, SameScreen
  <1>3. CASE ExpiredOrder
    BY <1>1, <1>3, ExpiredOrderStep
  <1>4. CASE /\ Dropped /\ retry' = TRUE /\ generating' = FALSE
             /\ UNCHANGED <<signed, view, language, refining, shown, edits, known>>
    <2>1. {generating', refining', retry'} \subseteq BOOLEAN
      BY <1>4, TypeFacts
    <2> QED BY <1>1, <1>4, <2>1, OrderedStep
  <1> QED BY <1>2, <1>3, <1>4 DEF RetryAnswered
--------------------------------------------------------------------------------
(* The invariant holds. *)

LEMMA InitInv ==
  ASSUME Init
  PROVE  IInv
  <1>1. /\ session = FALSE /\ signed = FALSE /\ view = "list" /\ shown = None /\ language = First
        /\ generating = FALSE /\ refining = FALSE /\ retry = FALSE /\ dialog = FALSE
        /\ edits = NoEdits /\ known = None /\ waiting = {}
        /\ req = [s \in {"saver", "follow", "order"} |-> Free]
        /\ written = {} /\ events = 0
    BY DEF Init
  <1>2. DOMAIN req = {"saver", "follow", "order"} /\ req.saver = Free /\ req.follow = Free /\ req.order = Free
    BY <1>1
  <1>3. edits \in [Keys -> Edits \cup {None}] /\ \A k \in Keys : edits[k] = None
    BY <1>1 DEF NoEdits
  <1>4. stored \in Campaigns \cup {None} /\ run \in Runs \cup {None}
        /\ (run = None => stored = None) /\ (stored = None => run = None)
    <2>1. CASE stored = None /\ run = None
      BY <2>1
    <2>2. CASE /\ stored = Campaign(1, [k \in Keys |-> Words("run", 1)], 0)
               /\ run = Run(1, "make", None, None, 0, "succeeded")
      <3>1. 1 \in Nat /\ 0 \in Nat /\ "run" \in {"run", "owner", "other"}
            /\ "succeeded" \in States
        BY DEF States
      <3>2. PICK v \in Values : v = Words("run", 1)
        BY <3>1, WordsFacts
      <3>3. PICK t \in Texts : t = [k \in Keys |-> v]
        BY DEF Texts
      <3>4. PICK c \in Campaigns : c = Campaign(1, t, 0) /\ c # None
        BY <3>1, CampaignFacts
      <3>5. run \in Runs
        BY <2>2, <3>1, MakeFacts
      <3> QED BY <2>2, <3>2, <3>3, <3>4, <3>5, NoneFacts
    <2> QED BY <2>1, <2>2 DEF Init
  <1>5. Types
    <2>1. /\ stored \in Campaigns \cup {None} /\ shown \in Campaigns \cup {None}
          /\ run \in Runs \cup {None} /\ known \in Runs \cup {None}
      BY <1>1, <1>4
    <2>2. {session, signed, dialog, generating, refining, retry} \subseteq BOOLEAN
      BY <1>1
    <2>3. view \in {"list", "campaign"} /\ language \in Languages /\ waiting \subseteq {"leave", "refine", "retry"}
      BY <1>1, FirstFacts
    <2>4. written \subseteq Keys \X Values /\ events \in 0..MaxEvents
      BY <1>1, BoundsAssumption
    <2>5. req.saver \in Savings /\ req.follow \in Follow /\ req.order \in Ordering
      BY <1>2, FreeFacts
    <2> QED BY <1>2, <1>3, <2>1, <2>2, <2>3, <2>4, <2>5 DEF Types
  <1>6. ServerInv
    BY <1>1, <1>2, <1>4, FreeFacts DEF ServerInv
  <1>7. Screen
    BY <1>1, <1>2, <1>3, FreeFacts DEF Screen, Shows, SavedMeansStored, SaverInv, ListInv
  <1> QED BY <1>5, <1>6, <1>7 DEF IInv

LEMMA OwnerStep ==
  ASSUME IInv, Owner
  PROVE  IInv'
  <1>1. CASE SignIn  BY <1>1, SignInStep
  <1>2. CASE OpenCampaign  BY <1>2, OpenStep
  <1>3. CASE CreateCampaign  BY <1>3, CreateStep
  <1>4. CASE Refine \/ KeepEditing  BY <1>4, RefineStep
  <1>5. CASE Discard  BY <1>5, DiscardStep
  <1>6. CASE \/ SelectSection \/ Leave \/ Retry
             \/ \E k \in Keys : Blur(k) \/ RetrySave(k)
             \/ \E l \in Languages : SelectLanguage(l)
    BY <1>6, OwnerSaves
  <1>7. CASE \E k \in Keys : Type(k)
    BY <1>7, TypeStep
  <1> QED BY <1>1, <1>2, <1>3, <1>4, <1>5, <1>6, <1>7 DEF Owner

LEMMA AnswersStep ==
  ASSUME IInv, NEW s \in DOMAIN req, Answers(s)
  PROVE  IInv'
  <1>1. CASE PatchAnswered  BY <1>1, PatchAnsweredStep
  <1>2. CASE ConflictAnswered  BY <1>2, ConflictAnsweredStep
  <1>3. CASE OpenAnswered  BY <1>3, OpenAnsweredStep
  <1>4. CASE OverlayAnswered  BY <1>4, OverlayAnsweredStep
  <1>5. CASE RecoverAnswered  BY <1>5, RecoverAnsweredStep
  <1>6. CASE RecoveredAnswered  BY <1>6, RecoveredAnsweredStep
  <1>7. CASE StatusAnswered  BY <1>7, StatusAnsweredStep
  <1>8. CASE GetAnswered  BY <1>8, GetAnsweredStep
  <1>9. CASE FinalAnswered  BY <1>9, FinalAnsweredStep
  <1>10. CASE CreateAnswered  BY <1>10, CreateAnsweredStep
  <1>11. CASE RefineAnswered  BY <1>11, RefineAnsweredStep
  <1>12. CASE RefusedAnswered  BY <1>12, RefusedAnsweredStep
  <1>13. CASE RetryAnswered  BY <1>13, RetryAnsweredStep
  <1> QED BY <1>1, <1>2, <1>3, <1>4, <1>5, <1>6, <1>7, <1>8, <1>9, <1>10, <1>11, <1>12, <1>13
          DEF Answers

LEMMA NextStep ==
  ASSUME IInv, Next \/ UNCHANGED vars
  PROVE  IInv'
  <1>1. CASE Resume
    BY <1>1, LeaveResumesStep, RefineResumesStep, RetryResumesStep DEF Resume
  <1>2. CASE Owner
    BY <1>2, OwnerStep
  <1>3. CASE \E s \in DOMAIN req : Serve(s) \/ Answers(s)
    BY <1>3, TypeFacts, ServeStep, AnswersStep
  <1>4. CASE RunEnds
    BY <1>4, RunEndsStep
  <1>5. CASE SessionEnds \/ UNCHANGED vars
    BY <1>5, RefineStep
  <1>6. CASE \E k \in Keys : Elsewhere(k)
    BY <1>6, ElsewhereStep
  <1>7. CASE Loaded \/ LateAnswered
    BY <1>7, LoadedStep, LateAnsweredStep
  <1> QED BY <1>1, <1>2, <1>3, <1>4, <1>5, <1>6, <1>7 DEF Next

(* The inductive invariant: types, what there is before there is a campaign, and how
   the edits, the loop that saves and the screen hang together. *)
THEOREM Invariant == Spec => []IInv
  <1>1. Init => IInv
    BY InitInv
  <1>2. IInv /\ [Next]_vars => IInv'
    BY NextStep
  <1> QED BY <1>1, <1>2, PTL DEF Spec

\* What is still to come.
LEMMA LateStep ==
  ASSUME late \subseteq Tails, Next \/ UNCHANGED vars
  PROVE  late' \subseteq Tails
  <1>1. Overtaken(req.follow) \subseteq Tails
    BY DEF Overtaken
  <1>2. Load \in Tails
    BY DEF Load, Tails
  <1>3. ASSUME NEW others, others \subseteq Tails, Overtakes(others)
        PROVE  late' \subseteq Tails
    BY <1>1, <1>3 DEF Overtakes
  <1>4. CASE UNCHANGED late
    BY <1>4
  <1>5. CASE Overtakes(late)
    BY <1>3, <1>5
  <1>6. CASE Owner
    <2>1. CASE SignIn
      BY <1>2, <2>1 DEF SignIn
    <2>2. CASE OpenCampaign
      BY <1>5, <2>2 DEF OpenCampaign
    <2> QED BY <1>4, <1>6, <2>1, <2>2
            DEF Owner, CreateCampaign, Refine, Retry, Leave, Discard, KeepEditing, SelectSection, Type, Blur,
                RetrySave, SelectLanguage
  <1>7. CASE \E s \in DOMAIN req : Answers(s)
    <2>1. CASE PatchAnswered \/ ConflictAnswered \/ OpenAnswered \/ OverlayAnswered \/ RecoverAnswered
               \/ RecoveredAnswered \/ StatusAnswered \/ GetAnswered \/ FinalAnswered
      BY <1>4, <2>1 DEF PatchAnswered, ConflictAnswered, OpenAnswered, OverlayAnswered, RecoverAnswered,
                        RecoveredAnswered, StatusAnswered, GetAnswered, FinalAnswered
    <2>2. CASE CreateAnswered \/ RefineAnswered \/ RefusedAnswered \/ RetryAnswered
      BY <1>4, <1>5, <2>2 DEF CreateAnswered, RefineAnswered, RefusedAnswered, RetryAnswered, Ordered,
                              OrderedAs, Dropped, ExpiredOrder
    <2> QED BY <1>7, <2>1, <2>2 DEF Answers
  <1>8. CASE Loaded
    <2>1. late \ {Load} \subseteq Tails
      OBVIOUS
    <2> QED BY <1>3, <1>8, <2>1 DEF Loaded
  <1>9. CASE LateAnswered
    BY <1>9 DEF LateAnswered
  <1>10. CASE \/ Resume \/ RunEnds \/ SessionEnds \/ UNCHANGED vars
              \/ \E k \in Keys : Elsewhere(k)
              \/ \E s \in DOMAIN req : Serve(s)
    BY <1>4, <1>10 DEF Resume, LeaveResumes, RefineResumes, RetryResumes, RunEnds, SessionEnds, Elsewhere, Serve,
                       vars
  <1> QED BY <1>6, <1>7, <1>8, <1>9, <1>10 DEF Next

LEMMA LateInvariant == Spec => [](late \subseteq Tails)
  <1>1. Init => late \subseteq Tails
    BY DEF Init
  <1>2. late \subseteq Tails /\ [Next]_vars => (late \subseteq Tails)'
    BY LateStep
  <1> QED BY <1>1, <1>2, PTL DEF Spec

(* Whatever is read of the server, and whenever it comes, an edit that was not saved
   is what the screen shows (admin.component.ts:1578). *)
THEOREM WordsStay == Spec => []PendingWordsStay
  <1>1. IInv /\ late \subseteq Tails => PendingWordsStay
    BY DEF IInv, Screen, Shows, PendingWordsStay, TypeOK
  <1> QED BY <1>1, Invariant, LateInvariant, PTL

(* What the screen calls saved the server has accepted, for any number of edits,
   requests and answers that are lost. *)
THEOREM SavedIsStored == Spec => []SavedMeansStored
  <1>1. IInv => SavedMeansStored
    BY DEF IInv, Screen
  <1> QED BY <1>1, Invariant, PTL
--------------------------------------------------------------------------------
(* An edit that was not saved is not lost. *)

\* No edit goes.
Keeps == \A k \in Keys : edits[k] # None => edits'[k] # None

LEMMA QueuesKeep ==
  ASSUME IInv,
         \/ SelectSection \/ Leave \/ Retry
         \/ \E k \in Keys : Blur(k) \/ RetrySave(k)
         \/ \E l \in Languages : SelectLanguage(l)
  PROVE  Keeps
  <1>1. SelectSection => Saves
    BY DirtyUnsaved, QueueFacts DEF SelectSection
  <1>2. Leave => Saves
    BY DirtyUnsaved, QueueFacts DEF Leave
  <1>3. Retry => Saves
    BY DirtyUnsaved, QueueFacts DEF Retry
  <1>4. ASSUME NEW k \in Keys, Blur(k) \/ RetrySave(k)  PROVE Saves
    <2>1. {k} \in SUBSET Keys /\ Unsaved(k) /\ Queue({k})
      BY <1>4 DEF Blur, RetrySave, In, Unsaved
    <2> QED BY <2>1, QueueFacts
  <1>5. ASSUME NEW l \in Languages, SelectLanguage(l)  PROVE Saves
    BY <1>5, DirtyUnsaved, QueueFacts DEF SelectLanguage
  <1>6. Saves
    BY <1>1, <1>2, <1>3, <1>4, <1>5
  <1> QED BY <1>6 DEF Saves, Carried, Keeps

LEMMA TypeKeeps ==
  ASSUME IInv, NEW k \in Keys, Type(k)
  PROVE  Keeps
  <1>1. PICK v : v = Words("owner", events + 1)
    OBVIOUS
  <1>2. v \in Values
    BY <1>1, TypeFacts, WordsFacts
  <1>3. PICK e \in Edits : e = Edit(v, "dirty") /\ e # None
    BY <1>2, EditFacts
  <1>4. edits' = [edits EXCEPT ![k] = e]
    BY <1>1, <1>3 DEF Type
  <1> QED BY <1>3, <1>4, TypeFacts DEF Keeps

LEMMA LoopKeeps ==
  ASSUME IInv, PatchAnswered \/ ConflictAnswered
  PROVE  Keeps
  <1>1. PICK r : r = req.saver
    OBVIOUS
  <1>2. r.op # "none"
    BY <1>1 DEF PatchAnswered, ConflictAnswered
  <1>3. CASE edits' = edits
    BY <1>3 DEF Keeps
  <1>4. CASE \E state \in {"saved", "failed"} : edits' = Settled(Mark(edits, r.arg, state), shown')
    <2>1. PICK state \in {"saved", "failed"} : edits' = Settled(Mark(edits, r.arg, state), shown')
      BY <1>4
    <2>2. PICK m : m = Mark(edits, r.arg, state)
      OBVIOUS
    <2>3. /\ m \in Written
          /\ \A k \in Keys : edits[k] # None => m[k] # None
      <3>1. /\ m \in Written
            /\ \A k \in Keys : \/ m[k] = edits[k]
                               \/ /\ k = r.arg.key /\ edits[k] # None /\ edits[k].value = r.arg.value
                                  /\ edits[k].state # "saved"
                                  /\ m[k] # None /\ m[k].value = r.arg.value /\ m[k].state = state
        BY <1>1, <1>2, <2>2, MarkFacts
      <3> QED BY <3>1
    <2>4. Carried(m, edits')
      BY <2>1, <2>2, <2>3, SettledFacts
    <2> QED BY <2>3, <2>4 DEF Carried, Keeps
  <1> QED BY <1>1, <1>3, <1>4 DEF PatchAnswered, ConflictAnswered

\* What is read of the server takes the place of an edit only after a refinement.
LEMMA RefreshKeeps ==
  ASSUME IInv, OverlayAnswered \/ RecoveredAnswered \/ GetAnswered \/ FinalAnswered \/ RefusedAnswered
  PROVE  Keeps \/ Replaced
  <1>1. ASSUME NEW r, r = req.follow, r.reply # None, r.op \in {"overlay", "recovered", "get"},
               Refresh(r.reply, r.arg.status)
        PROVE  Keeps \/ Replaced
    <2>1. r.op # "none" /\ r.op \in FollowOps \ {"status", "recover"}
      BY <1>1 DEF FollowOps
    <2>2. PICK st : st = r.arg.status
      OBVIOUS
    <2>3. st \in Runs \cup {None} /\ (r.reply.code = 200 => r.reply.body \in Campaigns /\ stored # None)
      BY <1>1, <2>1, <2>2, FollowBrings
    <2>4. \A k \in Keys : edits[k] # None /\ edits'[k] = None => Done(st, r.reply.body)
      BY <1>1, <2>2, <2>3, RefreshFacts
    <2>5. Done(st, r.reply.body) => Replaced
      BY <1>1, <2>2 DEF Done, Replaced, Refines
    <2> QED BY <2>4, <2>5 DEF Keeps
  <1>2. ASSUME NEW reply, reply.code = 200 => reply.body \in Campaigns /\ stored # None, Refresh(reply, None)
        PROVE  Keeps
    <2>1. PICK st \in Runs \cup {None} : st = None
      OBVIOUS
    <2>2. \A k \in Keys : edits[k] # None /\ edits'[k] = None => Done(st, reply.body)
      BY <1>2, <2>1, RefreshFacts
    <2> QED BY <2>1, <2>2 DEF Done, Keeps
  <1>3. CASE OverlayAnswered \/ RecoveredAnswered \/ GetAnswered
    <2>1. CASE edits' = edits
      BY <2>1 DEF Keeps
    <2>2. CASE edits' # edits
      <3>1. PICK r : r = req.follow
        OBVIOUS
      <3>2. /\ r.reply # None /\ r.op \in {"overlay", "recovered", "get"}
            /\ Refresh(r.reply, r.arg.status)
        BY <1>3, <2>2, <3>1 DEF OverlayAnswered, RecoveredAnswered, GetAnswered
      <3> QED BY <1>1, <3>1, <3>2
    <2> QED BY <2>1, <2>2
  <1>4. CASE FinalAnswered
    <2>1. CASE edits' = edits
      BY <2>1 DEF Keeps
    <2>2. CASE edits' # edits
      <3>1. PICK r : r = req.follow
        OBVIOUS
      <3>2. r.op = "final" /\ r.reply # None /\ Refresh(r.reply, None)
        BY <1>4, <2>2, <3>1 DEF FinalAnswered
      <3>3. r.op # "none" /\ r.op \in FollowOps \ {"status", "recover"}
        BY <3>2 DEF FollowOps
      <3>4. r.reply.code = 200 => r.reply.body \in Campaigns /\ stored # None
        BY <3>1, <3>2, <3>3, FollowBrings
      <3> QED BY <1>2, <3>2, <3>4
    <2> QED BY <2>1, <2>2
  <1>5. CASE RefusedAnswered
    <2>1. CASE edits' = edits
      BY <2>1 DEF Keeps
    <2>2. CASE edits' # edits
      <3>1. PICK r : r = req.order
        OBVIOUS
      <3>2. r.op = "refused" /\ r.reply # None /\ Refresh(r.reply, None)
        BY <1>5, <2>2, <3>1 DEF RefusedAnswered
      <3>3. r.reply.code = 200 => r.reply.body \in Campaigns /\ stored # None
        BY <3>1, <3>2, TypeFacts DEF OrderTypes, ServerInv
      <3> QED BY <1>2, <3>2, <3>3
    <2> QED BY <2>1, <2>2
  <1> QED BY <1>3, <1>4, <1>5

\* In the list there is no edit that opening a campaign could take.
LEMMA OpenKeeps ==
  ASSUME IInv, OpenAnswered
  PROVE  Keeps
  <1>1. req.follow.op = "open"
    BY DEF OpenAnswered
  <1> QED BY <1>1 DEF IInv, Screen, ListInv, Keeps

LEMMA UnsavedStep ==
  ASSUME IInv, Next \/ UNCHANGED vars, NEW k \in Keys, Unsaved(k), edits'[k] = None
  PROVE  dialog \/ ~signed' \/ Replaced
  <1>1. CASE Keeps \/ Replaced
    BY <1>1 DEF Keeps, Unsaved
  <1>2. CASE Discard
    BY <1>2 DEF Discard
  <1>3. CASE LeaveResumes
    BY <1>3 DEF LeaveResumes, HasUnsaved, Unsaved
  <1>4. CASE Expired
    BY <1>4 DEF Expired
  <1>5. CASE edits' = edits
    BY <1>5 DEF Unsaved
  <1>6. CASE Resume \/ RunEnds \/ SessionEnds \/ (\E j \in Keys : Elsewhere(j)) \/ UNCHANGED vars
    BY <1>3, <1>5, <1>6 DEF Resume, RefineResumes, RetryResumes, RunEnds, SessionEnds, Elsewhere, vars
  <1>7. CASE Owner
    <2>1. CASE SignIn \/ OpenCampaign \/ CreateCampaign \/ Refine \/ KeepEditing
      BY <1>5, <2>1 DEF SignIn, OpenCampaign, CreateCampaign, Refine, KeepEditing
    <2>2. CASE \/ SelectSection \/ Leave \/ Retry
               \/ \E j \in Keys : Blur(j) \/ RetrySave(j)
               \/ \E l \in Languages : SelectLanguage(l)
      BY <1>1, <2>2, QueuesKeep
    <2>3. CASE \E j \in Keys : Type(j)
      BY <1>1, <2>3, TypeKeeps
    <2> QED BY <1>2, <1>7, <2>1, <2>2, <2>3 DEF Owner
  <1>8. CASE (\E s \in DOMAIN req : Serve(s)) \/ Loaded \/ LateAnswered
    BY <1>5, <1>8 DEF Serve, Loaded, LateAnswered
  <1>9. CASE \E s \in DOMAIN req : Answers(s)
    <2>1. CASE PatchAnswered \/ ConflictAnswered
      BY <1>1, <2>1, LoopKeeps
    <2>2. CASE OpenAnswered
      BY <1>1, <2>2, OpenKeeps
    <2>3. CASE OverlayAnswered \/ RecoveredAnswered \/ GetAnswered \/ FinalAnswered \/ RefusedAnswered
      BY <1>1, <2>3, RefreshKeeps
    <2>4. CASE RecoverAnswered \/ StatusAnswered
      BY <1>4, <1>5, <2>4 DEF RecoverAnswered, StatusAnswered
    <2>5. CASE CreateAnswered \/ RefineAnswered \/ RetryAnswered
      BY <1>4, <1>5, <2>5 DEF CreateAnswered, RefineAnswered, RetryAnswered, ExpiredOrder
    <2> QED BY <1>9, <2>1, <2>2, <2>3, <2>4, <2>5 DEF Answers
  <1> QED BY <1>6, <1>7, <1>8, <1>9 DEF Next

(* An edit that was not saved is given up only when the owner says so, signing in
   again is needed, or a refinement has replaced the draft it was part of: no answer
   that comes late takes it. *)
THEOREM UnsavedStays == Spec => UnsavedIsKept
  <1>1. IInv /\ [Next]_vars => [\A k \in Keys : Unsaved(k) /\ edits'[k] = None =>
                                   dialog \/ ~signed' \/ Replaced]_vars
    BY UnsavedStep
  <1> QED BY <1>1, Invariant, PTL DEF Spec, UnsavedIsKept
===============================================================================
