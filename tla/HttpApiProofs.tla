--------------------------- MODULE HttpApiProofs ---------------------------
(***************************************************************************)
(* Theorems about the accounts and the channels of the REST API, and about *)
(* what all three parts promise together.                                  *)
(***************************************************************************)
EXTENDS ChatsProofs

----------------------------------------------------------------------------
(* Accounts *)

(* A SELECT, with what it answers.                                         *)
LEMMA SelectEffect ==
  ASSUME Shaped, CountersOK, NEW w \in Workers, NEW passes \in BOOLEAN,
         NEW next, NEW code, Select(w, passes, next, code)
  PROVE  \/ /\ passes /\ job'[w].at = next /\ job'[w].arg = job[w].arg
            /\ job'[w].disturbed = job[w].disturbed /\ answers' = answers
         \/ /\ job'[w].at = "idle"
            /\ \A a \in answers' \ answers : a.code = code \/ (a.code = 500 /\ a.faulty)
<1>1. PICK out \in Outcomes :
           \/ out.ok /\ passes /\ Continue(w, out, FALSE, job[w].row, job[w].rest, next)
           \/ out.ok /\ ~passes /\ Answer(w, out, FALSE, job[w].row, code)
           \/ ~out.ok /\ Answer(w, out, FALSE, job[w].row, 500)
  BY SelectMoves, ZenonT(60)
<1>o. out.ok \in BOOLEAN
  BY OutcomeFacts
<1>2. CASE passes /\ Continue(w, out, FALSE, job[w].row, job[w].rest, next)
  <2>1. PICK changes \in BOOLEAN : Continue(w, out, changes, job[w].row, job[w].rest, next)
    BY <1>2
  <2> QED
    BY <1>2, <2>1, ContinueEffect
<1>3. ASSUME NEW c, NEW changes \in BOOLEAN, NEW r, Answer(w, out, changes, r, c),
             c = code \/ (c = 500 /\ ~out.ok)
      PROVE  /\ job'[w].at = "idle"
             /\ \A a \in answers' \ answers : a.code = code \/ (a.code = 500 /\ a.faulty)
  <2>1. job'[w].at = "idle" /\ answers' = answers \cup {Report(w, r, c, out.ok)}
    BY <1>3, AnswerEffect, IdleFields
  <2>2. ASSUME NEW a \in answers' \ answers PROVE a.code = code \/ (a.code = 500 /\ a.faulty)
    <3>1. a = Report(w, r, c, out.ok)
      BY <2>1
    <3>2. a.code = c /\ a.faulty = (job[w].faulty \/ ~out.ok)
      BY <1>o, <3>1, ReportFields
    <3> QED
      BY <1>3, <3>2
  <2> QED
    BY <2>1, <2>2
<1>4. CASE Answer(w, out, FALSE, job[w].row, code)
  BY <1>3, <1>4
<1>5. CASE ~out.ok /\ Answer(w, out, FALSE, job[w].row, 500)
  <2>1. PICK c : c = 500
    OBVIOUS
  <2>2. Answer(w, out, FALSE, job[w].row, c)
    BY <1>5, <2>1
  <2> QED
    BY <1>3, <1>5, <2>1, <2>2
<1> QED
  BY <1>1, <1>2, <1>4, <1>5

(* What the look-ups of a registration said is still so, or the request    *)
(* knows that the tables changed.                                          *)
LookedUp(w) ==
  /\ job[w].at \in {"email", "phone", "insert"} =>
       job[w].disturbed \/ ~Has("username", job[w].arg.username)
  /\ job[w].at \in {"phone", "insert"} =>
       job[w].disturbed \/ ~Has("email", job[w].arg.email)
  /\ job[w].at = "insert" =>
       job[w].disturbed \/ job[w].arg.phone = EMPTY \/ ~Has("phone", job[w].arg.phone)

Registered(a) ==
  \E i \in DOMAIN users : users[i].username = a.arg.username /\ users[i].email = a.arg.email

(* ConflictsAnswered and RegisteredKept, for one answer.                   *)
Conflict(a) == a.route = "register" /\ a.code = 500 => a.faulty \/ a.disturbed
Kept(a)     == a.route = "register" /\ a.code = 201 => Registered(a)

AccountsInv ==
  /\ \A w \in Workers : LookedUp(w)
  /\ \A a \in answers : Conflict(a) /\ Kept(a)

AccountsSettled(w) ==
  /\ users' = users \/ Noted(w)
  /\ LookedUp(w)'
  /\ \A a \in answers' \ answers : Conflict(a) /\ Kept(a)'

LEMMA NothingLookedUp ==
  ASSUME NEW w \in Workers, job'[w].at \notin {"email", "phone", "insert"}
  PROVE  LookedUp(w)'
BY DEF LookedUp

(* The look-up of one column: what it rests on and what it adds.           *)
LEMMA LookUpSettles ==
  ASSUME Base, NEW w \in Workers, NEW passes \in BOOLEAN, NEW next, Select(w, passes, next, 409),
         users' = users,
         passes /\ job'[w].at = next /\ job'[w].arg = job[w].arg /\ job'[w].disturbed = job[w].disturbed
           => LookedUp(w)'
  PROVE  AccountsSettled(w)
<1>1. PICK code : code = 409
  OBVIOUS
<1>2. Select(w, passes, next, code)
  BY <1>1
<1>3. \/ /\ passes /\ job'[w].at = next /\ job'[w].arg = job[w].arg
         /\ job'[w].disturbed = job[w].disturbed /\ answers' = answers
      \/ /\ job'[w].at = "idle"
         /\ \A a \in answers' \ answers : a.code = code \/ (a.code = 500 /\ a.faulty)
  BY <1>2, SelectEffect DEF Base
<1>4. \A a \in answers' \ answers : a.code = 409 \/ (a.code = 500 /\ a.faulty)
  BY <1>1, <1>3
<1>5. LookedUp(w)'
  BY <1>3, NothingLookedUp
<1>6. \A a \in answers' \ answers : Conflict(a) /\ Kept(a)'
  BY <1>4 DEF Conflict, Kept
<1> QED
  BY <1>5, <1>6 DEF AccountsSettled

LEMMA InsertSettles ==
  ASSUME Base, NEW w \in Workers, insert_user(w), LookedUp(w)
  PROVE  AccountsSettled(w)
<1> DEFINE row   == Stored(job[w].arg)
           legal == Unique(row)
<1>1. job[w].at = "insert" /\ job[w].route = "register" /\ job[w].arg \in Forms
  BY DEF insert_user, At, Base, JobsSound, JobSound, AccountJob
<1>2. /\ row \in UserRow /\ row.username = job[w].arg.username /\ row.email = job[w].arg.email
      /\ row.phone = IF job[w].arg.phone = EMPTY THEN NULL ELSE job[w].arg.phone
  BY <1>1, StoredRow
<1>3. PICK out \in Outcomes : /\ users' = IF out.done /\ legal THEN Append(users, row) ELSE users
                              /\ Last(w, out, legal, 201, 500)
  BY DEF insert_user
<1>4. legal \in BOOLEAN
  BY DEF Unique
<1>5. ~legal => job[w].disturbed
  <2>1. ~legal => \/ Has("username", row.username) \/ Has("email", row.email)
                  \/ row.phone # NULL /\ Has("phone", row.phone)
    BY DEF Unique
  <2>2. /\ job[w].disturbed \/ ~Has("username", row.username)
        /\ job[w].disturbed \/ ~Has("email", row.email)
        /\ job[w].disturbed \/ job[w].arg.phone = EMPTY \/ ~Has("phone", job[w].arg.phone)
    BY <1>1, <1>2 DEF LookedUp
  <2> QED
    BY <1>2, <2>1, <2>2
<1>6. users \in Seq(UserRow)
  BY DEF Base, AccountsTypeOK, UserRow
<1> HIDE DEF row, legal
<1>7. /\ Append(users, row)[Len(users) + 1] = row /\ Len(users) + 1 \in DOMAIN Append(users, row)
  BY <1>2, <1>6, AppendFacts
<1>o. out.done \in BOOLEAN /\ out.ok \in BOOLEAN /\ (out.ok => out.done)
  BY OutcomeFacts
<1>8. PICK changes, r, c :
        /\ changes \in BOOLEAN /\ changes = legal /\ Answer(w, out, changes, r, c)
        /\ out.ok /\ legal => c = 201
        /\ ~(out.ok /\ legal) => c = 500
  <2>1. PICK changes, code, broken :
          changes \in BOOLEAN /\ changes = legal /\ code = 201 /\ broken = 500 /\ Last(w, out, changes, code, broken)
    BY <1>3, <1>4
  <2>2. PICK c : /\ Answer(w, out, changes, job[w].row, c)
                 /\ out.ok /\ changes => c = code
                 /\ ~out.ok => c = 500
                 /\ out.ok /\ ~changes => c = broken
    BY <2>1, LastAnswers
  <2> QED
    BY <1>o, <2>1, <2>2
<1>9. /\ out.done /\ changes => Noted(w)
      /\ job'[w].at = "idle" /\ answers' = answers \cup {Report(w, r, c, out.ok)}
  BY <1>8, AnswerEffect, IdleFields DEF Base
<1>10. users' = users \/ Noted(w)
  BY <1>3, <1>8, <1>9
<1>11. ASSUME NEW a \in answers' \ answers PROVE Conflict(a) /\ Kept(a)'
  <2>1. a = Report(w, r, c, out.ok)
    BY <1>9
  <2>2. /\ a.code = c /\ a.arg = job[w].arg /\ a.faulty = (job[w].faulty \/ ~out.ok)
        /\ a.disturbed = job[w].disturbed
    BY <1>o, <2>1, ReportFields
  <2>3. Conflict(a)
    BY <1>5, <1>8, <2>2 DEF Conflict
  <2>4. ASSUME a.code = 201 PROVE Registered(a)'
    <3>1. users' = Append(users, row)
      BY <1>o, <1>3, <1>8, <2>2, <2>4
    <3>2. users'[Len(users) + 1] = row /\ Len(users) + 1 \in DOMAIN users'
      BY <1>7, <3>1
    <3> QED
      BY <1>2, <2>2, <3>2 DEF Registered
  <2> QED
    BY <2>3, <2>4 DEF Kept
<1> QED
  BY <1>9, <1>10, <1>11, NothingLookedUp DEF AccountsSettled

LEMMA UpdateSettles ==
  ASSUME Base, NEW w \in Workers, update_user(w)
  PROVE  AccountsSettled(w)
<1> DEFINE legal == \A i \in DOMAIN users \ {job[w].row} : users[i].phone # job[w].arg.phone
<1>1. job[w].at = "update" /\ job[w].route = "update_me"
  BY DEF update_user, At, Base, JobsSound, JobSound, AccountJob
<1>2. PICK out \in Outcomes : /\ (out.done /\ legal) \/ users' = users
                              /\ Last(w, out, legal, 200, 500)
  BY DEF update_user
<1>3. legal \in BOOLEAN
  OBVIOUS
<1> HIDE DEF legal
<1>o. out.ok \in BOOLEAN
  BY OutcomeFacts
<1>4. PICK changes, r, c : changes \in BOOLEAN /\ changes = legal /\ Answer(w, out, changes, r, c)
  <2>1. PICK changes, code, broken :
        changes \in BOOLEAN /\ changes = legal /\ Last(w, out, changes, code, broken)
    BY <1>2, <1>3
  <2>2. PICK c : Answer(w, out, changes, job[w].row, c)
    BY <2>1, LastAnswers
  <2> QED
    BY <2>1, <2>2
<1>5. /\ out.done /\ changes => Noted(w)
      /\ job'[w].at = "idle" /\ answers' = answers \cup {Report(w, r, c, out.ok)}
  BY <1>4, AnswerEffect, IdleFields DEF Base
<1>6. users' = users \/ Noted(w)
  BY <1>2, <1>4, <1>5
<1>7. ASSUME NEW a \in answers' \ answers PROVE Conflict(a) /\ Kept(a)'
  <2>1. a = Report(w, r, c, out.ok)
    BY <1>5
  <2>2. a.route = "update_me"
    BY <1>o, <1>1, <2>1, ReportFields
  <2> QED
    BY <2>2 DEF Conflict, Kept
<1> QED
  BY <1>5, <1>6, <1>7, NothingLookedUp DEF AccountsSettled

LEMMA AccountsSettle ==
  ASSUME Base, NEW w \in Workers, LookedUp(w), AccountsStep(w)
  PROVE  AccountsSettled(w)
<1>1. CASE register(w) \/ update_me(w)
  <2>1. UNCHANGED users
    BY <1>1 DEF register, update_me
  <2>2. PICK route, u, arg, r, label : /\ Request(w, route, u, arg, r, label)
                                       /\ label \in {"username", "update"}
    BY <1>1 DEF register, update_me
  <2>3. job'[w].at = label /\ answers' = answers
    BY <2>2, RequestEffect DEF Base
  <2> QED
    BY <2>1, <2>2, <2>3, NothingLookedUp DEF AccountsSettled
<1>2. CASE check_username(w)
  <2> DEFINE free == ~Has("username", job[w].arg.username)
  <2>1. Select(w, free, "email", 409) /\ users' = users /\ free \in BOOLEAN
    BY <1>2 DEF check_username, Has
  <2>2. ASSUME free, job'[w].at = "email", job'[w].arg = job[w].arg PROVE LookedUp(w)'
    BY <2>1, <2>2 DEF LookedUp, Has
  <2> HIDE DEF free
  <2>3. PICK next : next = "email"
    OBVIOUS
  <2> QED
    BY <2>1, <2>2, <2>3, LookUpSettles
<1>3. CASE check_email(w)
  <2> DEFINE free == ~Has("email", job[w].arg.email)
             next == IF job[w].arg.phone = EMPTY THEN "insert" ELSE "phone"
  <2>1. Select(w, free, next, 409) /\ users' = users /\ free \in BOOLEAN /\ job[w].at = "email"
    BY <1>3 DEF check_email, Has, At
  <2>2. next \in {"insert", "phone"} /\ (next = "insert" => job[w].arg.phone = EMPTY)
    OBVIOUS
  <2> HIDE DEF next
  <2>3. ASSUME free, job'[w].at = next, job'[w].arg = job[w].arg, job'[w].disturbed = job[w].disturbed
        PROVE  LookedUp(w)'
    BY <2>1, <2>2, <2>3 DEF LookedUp, Has
  <2> HIDE DEF free
  <2> QED
    BY <2>1, <2>3, LookUpSettles
<1>4. CASE check_phone(w)
  <2> DEFINE free == ~Has("phone", job[w].arg.phone)
  <2>1. Select(w, free, "insert", 409) /\ users' = users /\ free \in BOOLEAN /\ job[w].at = "phone"
    BY <1>4 DEF check_phone, Has, At
  <2>2. ASSUME free, job'[w].at = "insert", job'[w].arg = job[w].arg, job'[w].disturbed = job[w].disturbed
        PROVE  LookedUp(w)'
    BY <2>1, <2>2 DEF LookedUp, Has
  <2> HIDE DEF free
  <2>3. PICK next : next = "insert"
    OBVIOUS
  <2> QED
    BY <2>1, <2>2, <2>3, LookUpSettles
<1>5. CASE insert_user(w)
  BY <1>5, InsertSettles
<1>6. CASE update_user(w)
  BY <1>6, UpdateSettles
<1> QED
  BY <1>1, <1>2, <1>3, <1>4, <1>5, <1>6 DEF AccountsStep

(* What one worker does leaves what the others were told, and what was     *)
(* answered, true.                                                         *)
LEMMA AccountsSettledKeep ==
  ASSUME AccountsInv, NEW w \in Workers, Frame(w), UsersKept, AccountsSettled(w)
  PROVE  AccountsInv'
<1>1. ASSUME NEW v \in Workers, v # w PROVE LookedUp(v)'
  <2>1. /\ job'[v].at = job[v].at /\ job'[v].arg = job[v].arg
        /\ job[v].disturbed => job'[v].disturbed
    BY <1>1 DEF Frame, Others
  <2>2. CASE users' = users
    BY <2>1, <2>2 DEF AccountsInv, LookedUp, Has
  <2>3. CASE Noted(w)
    BY <1>1, <2>1, <2>3 DEF Noted, LookedUp
  <2> QED
    BY <2>2, <2>3 DEF AccountsSettled
<1>2. \A a : Registered(a) => Registered(a)'
  BY DEF UsersKept, Registered
<1>3. \A a \in answers : Conflict(a) /\ Kept(a)'
  BY <1>2 DEF AccountsInv, Kept
<1> QED
  BY <1>1, <1>3 DEF AccountsSettled, AccountsInv, Conflict

LEMMA AccountsInvByOthers ==
  ASSUME AccountsInv, NEW w \in Workers, Frame(w), users' = users,
         NEW L, NEW R, Within(w, L, R), L \cap AccountLabels = {}, R \cap AccountRoutes = {}
  PROVE  AccountsInv'
<1>1. job'[w].at \notin {"email", "phone", "insert"}
  BY DEF Within, AccountLabels
<1>2. \A a \in answers' \ answers : Conflict(a) /\ Kept(a)'
  BY DEF Within, AccountRoutes, Conflict, Kept
<1>3. UsersKept
  BY DEF UsersKept
<1> QED
  BY <1>1, <1>2, <1>3, NothingLookedUp, AccountsSettledKeep DEF AccountsSettled

LEMMA AccountsInvNext ==
  ASSUME Base, AccountsInv, [Next]_vars
  PROVE  AccountsInv'
<1>1. ASSUME NEW w \in Workers, AccountsStep(w), UNCHANGED <<chatVars, channelVars>> PROVE AccountsInv'
  <2>1. Frame(w) /\ UsersKept
    BY <1>1, AccountsBase
  <2>2. AccountsSettled(w)
    BY <1>1, AccountsSettle DEF AccountsInv
  <2> QED
    BY <2>1, <2>2, AccountsSettledKeep
<1>2. ASSUME NEW w \in Workers, ChatsStep(w), UNCHANGED <<users, channelVars>> PROVE AccountsInv'
  <2>1. Frame(w) /\ Within(w, ChatLabels, ChatRoutes) /\ users' = users
    BY <1>2, ChatsBase DEF ChatStart
  <2>2. ChatLabels \cap AccountLabels = {} /\ ChatRoutes \cap AccountRoutes = {}
    BY DEF AccountLabels, ChatLabels, AccountRoutes, ChatRoutes
  <2> QED
    BY <2>1, <2>2, AccountsInvByOthers
<1>3. ASSUME NEW w \in Workers, ChannelsStep(w), UNCHANGED <<users, chatVars>> PROVE AccountsInv'
  <2>1. Frame(w) /\ Within(w, ChannelLabels, ChannelRoutes) /\ users' = users
    BY <1>3, ChannelsBase DEF ChannelStart
  <2>2. ChannelLabels \cap AccountLabels = {} /\ ChannelRoutes \cap AccountRoutes = {}
    BY DEF AccountLabels, ChannelLabels, AccountRoutes, ChannelRoutes
  <2> QED
    BY <2>1, <2>2, AccountsInvByOthers
<1>4. ASSUME UNCHANGED <<answers, users>>, \A w \in Workers : job'[w].at = "idle" \/ job'[w] = job[w]
      PROVE  AccountsInv'
  BY <1>4 DEF AccountsInv, LookedUp, Has, Conflict, Kept, Registered
<1>5. ASSUME Restart, UNCHANGED tables PROVE AccountsInv'
  BY <1>4, <1>5, RestartEffect
<1>6. ASSUME UNCHANGED vars PROVE AccountsInv'
  BY <1>4, <1>6 DEF vars, pgVars, tables
<1> QED
  BY <1>1, <1>2, <1>3, <1>5, <1>6 DEF Next

LEMMA AccountsInvariant == Spec => []AccountsInv
<1>1. Init => AccountsInv
  <2>1. Init => answers = {} /\ \A w \in Workers : job[w].at = "idle"
    BY BaseInit DEF Init, PgInit
  <2> QED
    BY <2>1 DEF AccountsInv, LookedUp
<1>2. Base /\ AccountsInv /\ [Next]_vars => AccountsInv'
  BY AccountsInvNext
<1> QED
  BY <1>1, <1>2, BaseInvariant, PTL DEF Spec

(* A registration that nobody disturbs and no fault hits is never answered *)
(* "Server error": at its INSERT every look-up it made still holds, and    *)
(* the look-ups cover the three unique columns.                            *)
THEOREM ConflictsFound == Spec => []ConflictsAnswered
<1>1. AccountsInv => ConflictsAnswered
  BY DEF AccountsInv, Conflict, ConflictsAnswered
<1> QED
  BY <1>1, AccountsInvariant, PTL

(* Who was answered 201 by route_register() has an account for good.       *)
THEOREM RegisteredStay == Spec => []RegisteredKept
<1>1. AccountsInv => RegisteredKept
  BY DEF AccountsInv, Kept, Registered, RegisteredKept
<1> QED
  BY <1>1, AccountsInvariant, PTL

----------------------------------------------------------------------------
(* Channels *)

(* What a channel handler knows when it stands at its second statement.    *)
ChannelKnown(w) ==
  /\ job[w].at = "channel owner" =>
       /\ channels[job[w].row].owner_id = job[w].user
       /\ channels[job[w].row].username = job[w].arg
       /\ Subscribed(job[w].row, job[w].user) => job[w].disturbed
  /\ job[w].at = "post" => IsOwner(job[w].row, job[w].user)

(* ChannelsOwned for one channel, ChannelsComplete for one answer.         *)
Owned(c) ==
  \/ IsOwner(c, channels[c].owner_id)
  \/ \E w \in Workers : At(w, "channel owner") /\ job[w].row = c
  \/ restarts > 0
  \/ \E a \in answers : /\ a.route = "create_channel" /\ a.arg = channels[c].username
                        /\ a.faulty \/ (a.row = c /\ a.code = 409 /\ a.disturbed)

Made(a) == a.route = "create_channel" /\ a.code = 201 => IsOwner(a.row, a.user)

ChannelsInv ==
  /\ \A w \in Workers : ChannelKnown(w)
  /\ \A c \in DOMAIN channels : Owned(c)
  /\ \A a \in answers : Made(a)
  /\ PostsByOwners

ChannelSettled(w) ==
  /\ ChannelKnown(w)'
  /\ \A c \in DOMAIN channels' \ DOMAIN channels : Owned(c)'
  /\ job[w].at = "channel owner" => \A c : c = job[w].row => Owned(c)'
  /\ \A a \in answers' \ answers : Made(a)'
  /\ \A p \in channel_posts' \ channel_posts : IsOwner(p.channel, p.author)'

LEMMA NothingKnown ==
  ASSUME NEW w \in Workers, job'[w].at \notin {"channel owner", "post"}
  PROVE  ChannelKnown(w)'
BY DEF ChannelKnown

(* A step that makes no channel and no post, is not the second of          *)
(* create_channel, and does not answer that one.                           *)
LEMMA NothingMade ==
  ASSUME NEW w \in Workers, job'[w].at \notin {"channel owner", "post"}, job[w].at # "channel owner",
         DOMAIN channels' = DOMAIN channels, channel_posts' \subseteq channel_posts,
         \A a \in answers' \ answers : a.route # "create_channel" \/ a.code # 201
  PROVE  ChannelSettled(w)
<1>1. ChannelKnown(w)'
  BY NothingKnown
<1>2. \A a \in answers' \ answers : Made(a)'
  BY DEF Made
<1> QED
  BY <1>1, <1>2 DEF ChannelSettled

LEMMA ChannelSettles ==
  ASSUME Base, NEW w \in Workers, insert_channel(w)
  PROVE  ChannelSettled(w)
<1>b. Shaped /\ CountersOK /\ JobsSound /\ ChannelsTypeOK
  BY DEF Base
<1>1. PICK new : new = [username |-> job[w].arg, owner_id |-> job[w].user, subscriber_count |-> 0]
  OBVIOUS
<1>2. PICK id : id = Len(channels) + 1
  OBVIOUS
<1>3. /\ ChannelStart(w) /\ job[w].at = "channel"
      /\ UNCHANGED <<channel_subscribers, channel_posts>>
      /\ new \in ChannelRow /\ new.username = job[w].arg /\ new.owner_id = job[w].user
      /\ new.subscriber_count = 0
      /\ \A a \in answers' \ answers : a.code # 201
      /\ \/ UNCHANGED <<channels, repeats>>
         \/ channels' = Append(channels, new) /\ repeats' = Append(repeats, 0)
      /\ \/ /\ job'[w].at = "channel owner" /\ job'[w].user = job[w].user /\ job'[w].arg = job[w].arg
            /\ job'[w].row = id /\ channels' = Append(channels, new) /\ repeats' = Append(repeats, 0)
         \/ /\ job'[w].at = "idle"
            /\ \/ UNCHANGED channels
               \/ \E a \in answers' : a.route = "create_channel" /\ a.arg = job[w].arg /\ a.faulty
  <2>1. ChannelInserted(w, new, id)
    BY <1>b, <1>1, <1>2, ChannelEffect
  <2> QED
    BY <2>1 DEF ChannelInserted
<1>4. \A a \in answers' \ answers : Made(a)'
  BY <1>3 DEF Made
<1>5. CASE UNCHANGED channels /\ job'[w].at = "idle"
  BY <1>3, <1>4, <1>5, NothingKnown DEF ChannelSettled
<1>6. CASE channels' = Append(channels, new) /\ repeats' = Append(repeats, 0)
  <2>1. /\ DOMAIN channels' = DOMAIN channels \cup {id} /\ id \notin DOMAIN channels
        /\ channels'[id] = new /\ \A r \in channel_subscribers : r.channel # id
    <3>1. plan' = plan /\ new \in ChannelRow /\ UNCHANGED <<channel_subscribers, channel_posts>>
      BY <1>3 DEF ChannelStart, Frame
    <3>2. /\ ChannelsTypeOK' /\ ChannelsKept /\ DOMAIN channels' = DOMAIN channels \cup {id}
          /\ id \in Nat /\ id \notin DOMAIN channels /\ channels'[id] = new /\ repeats'[id] = 0
          /\ \A c \in DOMAIN channels : channels'[c] = channels[c] /\ repeats'[c] = repeats[c]
          /\ \A r \in channel_subscribers : r.channel # id
      BY <1>b, <1>2, <1>6, <3>1, ChannelAppended
    <3> QED
      BY <3>2
  <2>2. ~Subscribed(id, job[w].user)'
    BY <1>3, <2>1 DEF Subscribed
  <2>3. CASE job'[w].at = "channel owner" /\ job'[w].row = id
             /\ job'[w].user = job[w].user /\ job'[w].arg = job[w].arg
    <3>1. ~(\E r \in channel_subscribers' : r.channel = job'[w].row /\ r.user = job'[w].user)
      BY <1>3, <2>1, <2>3
    <3>2. ChannelKnown(w)'
      BY <1>3, <2>1, <2>3, <3>1 DEF ChannelKnown, Subscribed
    <3>3. Owned(id)'
      BY <2>3 DEF Owned, At
    <3>4. \A c \in DOMAIN channels' \ DOMAIN channels : Owned(c)'
      BY <2>1, <3>3, ZenonT(60) DEF Owned
    <3> QED
      BY <1>3, <1>4, <3>2, <3>4 DEF ChannelSettled
  <2>4. ASSUME job'[w].at = "idle",
               \E a \in answers' : a.route = "create_channel" /\ a.arg = job[w].arg /\ a.faulty
        PROVE  ChannelSettled(w)
    <3>1. ChannelKnown(w)'
      BY <2>4, NothingKnown
    <3>2. \A c \in DOMAIN channels' \ DOMAIN channels : Owned(c)'
      <4> SUFFICES ASSUME NEW c, c = id PROVE Owned(c)'
        BY <2>1
      <4>1. channels'[c].username = job[w].arg
        BY <1>3, <2>1
      <4> QED
        BY <2>4, <4>1 DEF Owned
    <3> QED
      BY <1>3, <1>4, <3>1, <3>2 DEF ChannelSettled
  <2>5. channels' # channels
    BY <2>1
  <2> QED
    BY <1>3, <2>3, <2>4, <2>5
<1> QED
  BY <1>3, <1>5, <1>6

LEMMA ChannelOwnerSettles ==
  ASSUME Base, NEW w \in Workers, ChannelKnown(w), insert_channel_owner(w)
  PROVE  ChannelSettled(w)
<1>b. Shaped /\ CountersOK /\ JobsSound /\ ChannelsTypeOK
  BY DEF Base
<1>1. PICK c : c = job[w].row
  OBVIOUS
<1>2. PICK u : u = job[w].user
  OBVIOUS
<1>r. PICK r : r = Subscriber(job[w].row, job[w].user, "owner")
  OBVIOUS
<1>3. /\ ChannelStart(w) /\ job[w].at = "channel owner" /\ job'[w].at = "idle"
      /\ UNCHANGED <<channels, channel_posts, repeats>>
      /\ \/ channel_subscribers' = channel_subscribers
         \/ channel_subscribers' = channel_subscribers \cup {r}
      /\ \E a \in answers' :
           /\ answers' = answers \cup {a} /\ a.route = "create_channel" /\ a.arg = job[w].arg
           /\ a.row = job[w].row /\ a.user = job[w].user /\ a.disturbed = job[w].disturbed
           /\ a.code = 201 => r \in channel_subscribers'
           /\ a.faulty \/ r \in channel_subscribers' \/ (a.code = 409 /\ Subscribed(job[w].row, job[w].user))
  <2>1. OwnerInserted(w, r)
    BY <1>b, <1>r, ChannelOwnerEffect
  <2> QED
    BY <2>1 DEF OwnerInserted
<1>4. PICK a \in answers' :
           /\ answers' = answers \cup {a} /\ a.route = "create_channel" /\ a.arg = job[w].arg
           /\ a.row = c /\ a.user = u /\ a.disturbed = job[w].disturbed
           /\ a.code = 201 => r \in channel_subscribers'
           /\ a.faulty \/ r \in channel_subscribers' \/ (a.code = 409 /\ Subscribed(c, u))
  BY <1>1, <1>2, <1>3
<1>o. r \in channel_subscribers' => IsOwner(c, u)'
  BY <1>1, <1>2, <1>r DEF IsOwner
<1>5. /\ channels'[c].owner_id = u /\ channels'[c].username = a.arg
      /\ Subscribed(c, u) => a.disturbed
  BY <1>1, <1>2, <1>3, <1>4 DEF ChannelKnown
<1>6. Owned(c)'
  <2>1. CASE IsOwner(c, u)'
    BY <1>5, <2>1 DEF Owned, IsOwner
  <2>2. CASE a.faulty \/ (a.code = 409 /\ a.disturbed)
    BY <1>4, <1>5, <2>2 DEF Owned
  <2> QED
    BY <1>4, <1>5, <1>o, <2>1, <2>2
<1>7. \A b \in answers' \ answers : Made(b)'
  BY <1>4, <1>o DEF Made, IsOwner
<1>8. \A d : d = job[w].row => Owned(d)'
  BY <1>1, <1>6, ZenonT(60) DEF Owned
<1> QED
  BY <1>3, <1>7, <1>8, NothingKnown DEF ChannelSettled

LEMMA PostSettles ==
  ASSUME Base, NEW w \in Workers, ChannelKnown(w), insert_post(w)
  PROVE  ChannelSettled(w)
<1>1. PICK post : post = [id |-> job[w].arg, channel |-> job[w].row, author |-> job[w].user]
  OBVIOUS
<1>2. /\ ChannelStart(w) /\ job[w].at = "post" /\ job'[w].at = "idle"
      /\ UNCHANGED <<channels, channel_subscribers, repeats>>
      /\ \A a \in answers' \ answers : a.route = "create_post"
      /\ post.channel = job[w].row /\ post.author = job[w].user
      /\ channel_posts' \subseteq channel_posts \cup {post}
  BY <1>1, PostEffect DEF Base
<1>3. IsOwner(post.channel, post.author)
  BY <1>2 DEF ChannelKnown
<1>4. \A p \in channel_posts' \ channel_posts : IsOwner(p.channel, p.author)'
  BY <1>2, <1>3 DEF IsOwner
<1>5. \A a \in answers' \ answers : Made(a)'
  BY <1>2 DEF Made
<1> QED
  BY <1>2, <1>4, <1>5, NothingKnown DEF ChannelSettled

LEMMA ChannelsSettle ==
  ASSUME Base, NEW w \in Workers, ChannelKnown(w), ChannelsStep(w)
  PROVE  ChannelSettled(w)
<1>b. Shaped /\ CountersOK /\ JobsSound /\ ChannelsTypeOK
  BY DEF Base
<1>1. CASE create_channel(w) \/ subscribe_channel(w) \/ create_post(w) \/ delete_post(w)
  <2>1. /\ UNCHANGED channelVars /\ answers' = answers /\ job[w].at = "idle"
        /\ job'[w].at \in {"channel", "subscribe", "role", "delete"}
    BY <1>b, <1>1, ChannelRequests
  <2> QED
    BY <2>1, NothingMade DEF channelVars
<1>2. CASE insert_channel(w)
  BY <1>2, ChannelSettles
<1>3. CASE insert_channel_owner(w)
  BY <1>3, ChannelOwnerSettles
<1>4. CASE insert_subscriber(w)
  <2>1. PICK c : c = job[w].row
    OBVIOUS
  <2>2. PICK u : u = job[w].user
    OBVIOUS
  <2>3. SubscriptionDone(w, c, u)
    BY <1>b, <1>4, <2>1, <2>2, SubscribeEffect
  <2>4. /\ job[w].at = "subscribe" /\ job'[w].at \in {"idle", "count"}
        /\ UNCHANGED <<channels, channel_posts>> /\ \A a \in answers' \ answers : a.route = "subscribe_channel"
    BY <2>3 DEF SubscriptionDone
  <2> QED
    BY <2>4, NothingMade
<1>5. CASE count_subscriber(w)
  <2>1. PICK c : c = job[w].row
    OBVIOUS
  <2>2. /\ job[w].at = "count" /\ job'[w].at = "idle" /\ c \in DOMAIN channels
        /\ UNCHANGED <<channel_subscribers, channel_posts, repeats>>
        /\ \A a \in answers' \ answers : a.route = "subscribe_channel"
        /\ \/ channels' = Counted(c)
           \/ channels' = channels /\ (conn => fails' > 0)
    BY <1>b, <1>5, <2>1, CountEffect
  <2>3. DOMAIN channels' = DOMAIN channels
    BY <2>2 DEF Counted
  <2> QED
    BY <2>2, <2>3, NothingMade
<1>6. CASE check_role(w)
  <2>1. /\ job[w].at = "role" /\ UNCHANGED channelVars
        /\ \A a \in answers' \ answers : a.route = "create_post"
        /\ \/ job'[w].at = "idle"
           \/ /\ job'[w].at = "post" /\ job'[w].user = job[w].user /\ job'[w].row = job[w].row
              /\ IsOwner(job[w].row, job[w].user)
    BY <1>b, <1>6, RoleEffect
  <2>2. ChannelKnown(w)'
    BY <2>1 DEF ChannelKnown, IsOwner, channelVars
  <2>3. \A a \in answers' \ answers : Made(a)'
    BY <2>1 DEF Made
  <2> QED
    BY <2>1, <2>2, <2>3 DEF ChannelSettled, channelVars
<1>7. CASE insert_post(w)
  BY <1>7, PostSettles
<1>8. CASE delete_row(w)
  <2>1. /\ job[w].at = "delete" /\ job'[w].at = "idle" /\ UNCHANGED <<channels, channel_subscribers, repeats>>
        /\ \A a \in answers' \ answers : a.route = "delete_post"
        /\ channel_posts' \subseteq channel_posts
    BY <1>b, <1>8, DeleteEffect
  <2> QED
    BY <2>1, NothingMade
<1> QED
  BY <1>1, <1>2, <1>3, <1>4, <1>5, <1>6, <1>7, <1>8 DEF ChannelsStep

(* Rows of owners stay, so what a step settles is all there is to show.    *)
LEMMA ChannelsSettledKeep ==
  ASSUME Base, ChannelsInv, NEW w \in Workers, Frame(w), ChannelsKept,
         channel_subscribers' = channel_subscribers \/ Noted(w), ChannelSettled(w)
  PROVE  ChannelsInv'
<1>1. \A c, u : IsOwner(c, u) => IsOwner(c, u)'
  BY DEF ChannelsKept, IsOwner
<1>2. \A v \in Workers : v # w =>
        /\ job'[v].at = job[v].at /\ job'[v].row = job[v].row /\ job'[v].user = job[v].user
        /\ job'[v].arg = job[v].arg /\ (job[v].disturbed => job'[v].disturbed)
  BY DEF Frame, Others
<1>3. ASSUME NEW v \in Workers, v # w PROVE ChannelKnown(v)'
  <2>1. CASE job[v].at = "channel owner"
    <3>1. /\ channels[job[v].row].owner_id = job[v].user /\ channels[job[v].row].username = job[v].arg
          /\ Subscribed(job[v].row, job[v].user) => job[v].disturbed
          /\ job[v].row \in DOMAIN channels
      BY <2>1 DEF ChannelsInv, ChannelKnown, Base, JobsSound, JobSound, ChannelJob
    <3>2. channels'[job[v].row].owner_id = job[v].user /\ channels'[job[v].row].username = job[v].arg
      BY <3>1 DEF ChannelsKept
    <3>3. CASE channel_subscribers' = channel_subscribers
      BY <1>2, <1>3, <2>1, <3>1, <3>2, <3>3 DEF ChannelKnown, Subscribed
    <3>4. CASE Noted(w)
      <4>1. job'[v].disturbed
        BY <1>3, <2>1, <3>4 DEF Noted
      <4> QED
        BY <1>2, <1>3, <2>1, <3>2, <4>1 DEF ChannelKnown
    <3> QED
      BY <3>3, <3>4
  <2>2. CASE job[v].at = "post"
    <3>1. IsOwner(job[v].row, job[v].user)
      BY <2>2 DEF ChannelsInv, ChannelKnown
    <3> QED
      BY <1>2, <1>3, <2>2, <3>1 DEF ChannelKnown, ChannelsKept, IsOwner
  <2>3. CASE job[v].at \notin {"channel owner", "post"}
    BY <1>2, <1>3, <2>3, NothingKnown
  <2> QED
    BY <2>1, <2>2, <2>3
<1>4. ASSUME NEW c \in DOMAIN channels, ~(job[w].at = "channel owner" /\ c = job[w].row)
      PROVE  Owned(c)'
  <2>1. channels'[c].username = channels[c].username /\ channels'[c].owner_id = channels[c].owner_id
    BY DEF ChannelsKept
  <2>2. CASE IsOwner(c, channels[c].owner_id)
    BY <2>1, <2>2 DEF Owned, IsOwner, ChannelsKept
  <2>3. CASE \E v \in Workers : At(v, "channel owner") /\ job[v].row = c
    BY <1>2, <1>4, <2>3 DEF Owned, At
  <2>4. CASE restarts > 0
    BY <2>4 DEF Owned, Frame
  <2>5. CASE \E a \in answers : /\ a.route = "create_channel" /\ a.arg = channels[c].username
                                /\ a.faulty \/ (a.row = c /\ a.code = 409 /\ a.disturbed)
    BY <2>1, <2>5 DEF Owned, Frame
  <2> QED
    BY <2>2, <2>3, <2>4, <2>5 DEF ChannelsInv, Owned
<1>5. \A c \in DOMAIN channels' : Owned(c)'
  BY <1>4 DEF ChannelSettled
<1>6. \A a \in answers' : Made(a)'
  <2>1. \A a \in answers : Made(a)'
    BY DEF ChannelsInv, Made, IsOwner, ChannelsKept
  <2> QED
    BY <2>1 DEF ChannelSettled
<1>7. PostsByOwners'
  BY <1>1 DEF ChannelsInv, ChannelSettled, PostsByOwners
<1> QED
  BY <1>3, <1>5, <1>6, <1>7 DEF ChannelSettled, ChannelsInv

LEMMA ChannelsInvByOthers ==
  ASSUME Base, ChannelsInv, NEW w \in Workers, Frame(w), UNCHANGED <<channels, channel_subscribers, channel_posts>>,
         NEW L, NEW R, Within(w, L, R), L \cap ChannelLabels = {}, R \cap ChannelRoutes = {}
  PROVE  ChannelsInv'
<1>1. job'[w].at \notin {"channel owner", "post"} /\ job[w].at # "channel owner"
  <2>1. {"channel owner", "post"} \subseteq ChannelLabels
    BY DEF ChannelLabels
  <2>2. "channel owner" \notin L \cup {"idle"} /\ "post" \notin L \cup {"idle"}
    BY <2>1
  <2>3. job[w].at \in L \cup {"idle"} /\ job'[w].at \in L \cup {"idle"}
    BY DEF Within
  <2> QED
    BY <2>2, <2>3
<1>2. \A a \in answers' \ answers : a.route # "create_channel"
  BY DEF Within, ChannelRoutes
<1>3. ChannelSettled(w)
  BY <1>1, <1>2, NothingMade
<1>4. ChannelsKept
  BY DEF ChannelsKept
<1> QED
  BY <1>3, <1>4, ChannelsSettledKeep

LEMMA ChannelsInvNext ==
  ASSUME Base, ChannelsInv, [Next]_vars
  PROVE  ChannelsInv'
<1>1. ASSUME NEW w \in Workers, AccountsStep(w), UNCHANGED <<chatVars, channelVars>> PROVE ChannelsInv'
  <2>1. /\ Frame(w) /\ Within(w, AccountLabels, AccountRoutes)
        /\ UNCHANGED <<channels, channel_subscribers, channel_posts>>
    BY <1>1, AccountsBase
  <2>2. AccountLabels \cap ChannelLabels = {} /\ AccountRoutes \cap ChannelRoutes = {}
    BY DEF AccountLabels, ChannelLabels, AccountRoutes, ChannelRoutes
  <2> QED
    BY <2>1, <2>2, ChannelsInvByOthers
<1>2. ASSUME NEW w \in Workers, ChatsStep(w), UNCHANGED <<users, channelVars>> PROVE ChannelsInv'
  <2>1. /\ Frame(w) /\ Within(w, ChatLabels, ChatRoutes)
        /\ UNCHANGED <<channels, channel_subscribers, channel_posts>>
    BY <1>2, ChatsBase DEF ChatStart
  <2>2. ChatLabels \cap ChannelLabels = {} /\ ChatRoutes \cap ChannelRoutes = {}
    BY DEF ChatLabels, ChannelLabels, ChatRoutes, ChannelRoutes
  <2> QED
    BY <2>1, <2>2, ChannelsInvByOthers
<1>3. ASSUME NEW w \in Workers, ChannelsStep(w), UNCHANGED <<users, chatVars>> PROVE ChannelsInv'
  <2>1. Frame(w) /\ ChannelsKept /\ (channel_subscribers' = channel_subscribers \/ Noted(w))
    BY <1>3, ChannelsBase DEF ChannelStart
  <2>2. ChannelSettled(w)
    BY <1>3, ChannelsSettle DEF ChannelsInv
  <2> QED
    BY <2>1, <2>2, ChannelsSettledKeep
<1>4. ASSUME Restart, UNCHANGED tables PROVE ChannelsInv'
  <2>1. /\ \A w \in Workers : job'[w].at = "idle"
        /\ restarts' > 0
        /\ UNCHANGED <<answers, channels, channel_subscribers, channel_posts>>
    BY <1>4, RestartEffect
  <2>2. \A w \in Workers : ChannelKnown(w)'
    BY <2>1, NothingKnown
  <2>3. (\A c \in DOMAIN channels : Owned(c))'
    BY <2>1 DEF Owned
  <2> QED
    BY <2>1, <2>2, <2>3 DEF ChannelsInv, Made, PostsByOwners, IsOwner
<1>5. ASSUME UNCHANGED vars PROVE ChannelsInv'
  <2>1. UNCHANGED <<job, restarts, answers, channels, channel_subscribers, channel_posts>>
    BY <1>5 DEF vars, pgVars, tables, channelVars
  <2>2. \A w \in Workers : ChannelKnown(w)'
    BY <2>1 DEF ChannelsInv, ChannelKnown, IsOwner, Subscribed
  <2>3. (\A c \in DOMAIN channels : Owned(c))'
    <3>1. ASSUME NEW c PROVE Owned(c)' <=> Owned(c)
      BY <2>1 DEF Owned, IsOwner, At
    <3> QED
      BY <2>1, <3>1 DEF ChannelsInv, Owned, IsOwner, At
  <2>4. (\A a \in answers : Made(a))' /\ PostsByOwners'
    BY <2>1 DEF ChannelsInv, Made, PostsByOwners, IsOwner
  <2> QED
    BY <2>2, <2>3, <2>4 DEF ChannelsInv
<1> QED
  BY <1>1, <1>2, <1>3, <1>4, <1>5 DEF Next

LEMMA ChannelsInvariant == Spec => []ChannelsInv
<1>1. Init => ChannelsInv
  <2>1. Init => /\ answers = {} /\ channels = <<>> /\ channel_posts = {}
                /\ \A w \in Workers : job[w].at = "idle"
    BY BaseInit DEF Init, PgInit, ChannelsInit
  <2>2. Init => DOMAIN channels = {}
    BY <2>1
  <2> QED
    BY <2>1, <2>2 DEF ChannelsInv, ChannelKnown, PostsByOwners
<1>2. Base /\ ChannelsInv /\ [Next]_vars => ChannelsInv'
  BY ChannelsInvNext
<1> QED
  BY <1>1, <1>2, BaseInvariant, PTL DEF Spec

(* The author of every post is an owner of its channel: rows of owners are *)
(* never changed or deleted, so what check_role() saw still holds when     *)
(* insert_post() runs, and ever after.                                     *)
THEOREM OwnersPost == Spec => []PostsByOwners
<1>1. ChannelsInv => PostsByOwners
  BY DEF ChannelsInv
<1> QED
  BY <1>1, ChannelsInvariant, PTL

(* A channel without an owner's row is being created, or its creation was  *)
(* hit by a fault or a restart, or its creator subscribed in between and   *)
(* was told that the name is taken.                                        *)
THEOREM ChannelsHaveOwners == Spec => []ChannelsOwned
<1>1. ChannelsInv => ChannelsOwned
  BY DEF ChannelsInv, Owned, ChannelsOwned
<1> QED
  BY <1>1, ChannelsInvariant, PTL

(* Whatever was answered 201 exists completely and for good: accounts,     *)
(* direct chats, groups and channels, through lost connections, restarts   *)
(* and everything other requests do in between.                            *)
THEOREM AnsweredComplete == Spec => []AnsweredIsComplete
<1>1. ChannelsInv => ChannelsComplete
  BY DEF ChannelsInv, Made, ChannelsComplete
<1> QED
  BY <1>1, ChannelsInvariant, RegisteredStay, ChatsStayComplete, PTL DEF AnsweredIsComplete

----------------------------------------------------------------------------
(* Counters of channels *)

(* CountAccounted for one channel.                                         *)
Pending(c)   == {w \in Workers : At(w, "count") /\ job[w].row = c}
Rows(c)      == {r \in channel_subscribers : r.channel = c /\ r.role = "subscriber"}
CountOf(c)   == channels[c].subscriber_count + Cardinality(Pending(c))
RealOf(c)    == Cardinality(Rows(c)) + repeats[c]
Accounted(c) ==
  /\ CountOf(c) <= RealOf(c)
  /\ fails = 0 /\ restarts = 0 => CountOf(c) = RealOf(c)

(* Who is about to raise the counter has the connection, unless a          *)
(* statement failed.                                                       *)
CountInv ==
  /\ IsFiniteSet(channel_subscribers)
  /\ \A w \in Workers : At(w, "count") => conn \/ fails > 0
  /\ \A c \in DOMAIN channels : Accounted(c)

LEMMA CountTypes ==
  ASSUME ChannelsTypeOK, IsFiniteSet(channel_subscribers), NEW c \in DOMAIN channels
  PROVE  /\ IsFiniteSet(Pending(c)) /\ Cardinality(Pending(c)) \in Nat
         /\ IsFiniteSet(Rows(c)) /\ Cardinality(Rows(c)) \in Nat
         /\ channels[c].subscriber_count \in Nat /\ repeats[c] \in Nat
         /\ CountOf(c) \in Nat /\ RealOf(c) \in Nat
<1>1. Pending(c) \in SUBSET Workers /\ Rows(c) \in SUBSET channel_subscribers
  BY DEF Pending, Rows
<1>2. IsFiniteSet(Pending(c)) /\ IsFiniteSet(Rows(c))
  BY <1>1, WorkersAssumption, FS_Subset
<1>3. channels[c] \in ChannelRow
  <2>1. channels \in Seq(ChannelRow)
    BY DEF ChannelsTypeOK, ChannelRow
  <2>2. c \in 1..Len(channels)
    BY <2>1
  <2> QED
    BY <2>1, <2>2
<1>4. channels[c].subscriber_count \in Nat
  BY <1>3 DEF ChannelRow
<1>5. repeats[c] \in Nat
  BY DEF ChannelsTypeOK
<1>6. Cardinality(Pending(c)) \in Nat /\ Cardinality(Rows(c)) \in Nat
  BY <1>2, FS_CardinalityType
<1>7. CountOf(c) \in Nat /\ RealOf(c) \in Nat
  BY <1>4, <1>5, <1>6 DEF CountOf, RealOf
<1> QED
  BY <1>2, <1>4, <1>5, <1>6, <1>7

(* How a step of w changes who is about to raise the counter of c.         *)
LEMMA PendingStep ==
  ASSUME NEW w \in Workers, Frame(w), NEW c
  PROVE  /\ job'[w].at = "count" /\ job'[w].row = c => Pending(c)' = Pending(c) \cup {w}
         /\ ~(job'[w].at = "count" /\ job'[w].row = c) => Pending(c)' = Pending(c) \ {w}
<1>1. Pending(c)' = {v \in Workers : job'[v].at = "count" /\ job'[v].row = c}
  BY DEF Pending, At
<1>2. Pending(c) = {v \in Workers : job[v].at = "count" /\ job[v].row = c}
  BY DEF Pending, At
<1>3. \A v \in Workers : v # w => job'[v].at = job[v].at /\ job'[v].row = job[v].row
  BY DEF Frame, Others
<1> QED
  BY <1>1, <1>2, <1>3

(* Both sides grow together, or a fault accounts for the difference.       *)
LEMMA AccountedMoves ==
  ASSUME NEW c, Accounted(c), CountOf(c) \in Nat, RealOf(c) \in Nat, CountersOK, CountersOK',
         fails' >= fails, restarts' = restarts,
         \/ CountOf(c)' = CountOf(c) /\ RealOf(c)' = RealOf(c)
         \/ CountOf(c)' = CountOf(c) + 1 /\ RealOf(c)' = RealOf(c) + 1
         \/ CountOf(c)' = CountOf(c) /\ RealOf(c)' = RealOf(c) + 1 /\ fails' > 0
         \/ CountOf(c)' = CountOf(c) - 1 /\ RealOf(c)' = RealOf(c) /\ fails' > 0
  PROVE  Accounted(c)'
<1>1. fails \in Nat /\ fails' \in Nat
  <2>1. plan.fails \in Nat /\ plan'.fails \in Nat
    BY PlansAssumption DEF CountersOK
  <2> QED
    BY <2>1 DEF CountersOK
<1>2. fails' = 0 /\ restarts' = 0 => fails = 0 /\ restarts = 0
  BY <1>1
<1>3. CountOf(c) <= RealOf(c) /\ (fails = 0 /\ restarts = 0 => CountOf(c) = RealOf(c))
  BY DEF Accounted
<1>4. CountOf(c)' <= RealOf(c)'
  BY <1>3
<1>5. fails' = 0 /\ restarts' = 0 => CountOf(c)' = RealOf(c)'
  BY <1>1, <1>2, <1>3
<1> QED
  BY <1>4, <1>5 DEF Accounted

CountSettled(w) ==
  /\ job'[w].at = "count" => conn' \/ fails' > 0
  /\ \A c \in DOMAIN channels' : Accounted(c)'

LEMMA CountUntouched ==
  ASSUME Base, CountInv, NEW w \in Workers, Frame(w), NEW c \in DOMAIN channels,
         ~(job[w].at = "count" /\ job[w].row = c), ~(job'[w].at = "count" /\ job'[w].row = c),
         channels'[c].subscriber_count = channels[c].subscriber_count,
         repeats'[c] = repeats[c], Rows(c)' = Rows(c)
  PROVE  Accounted(c)'
<1>1. w \notin Pending(c)
  BY DEF Pending, At
<1>2. Pending(c)' = Pending(c)
  BY <1>1, PendingStep
<1>3. CountOf(c)' = CountOf(c) /\ RealOf(c)' = RealOf(c)
  BY <1>2 DEF CountOf, RealOf
<1>4. Accounted(c) /\ CountersOK /\ CountersOK' /\ fails' >= fails /\ restarts' = restarts
  BY DEF CountInv, Base, Frame
<1>5. CountOf(c) \in Nat /\ RealOf(c) \in Nat
  BY CountTypes DEF Base, CountInv
<1> QED
  BY <1>3, <1>4, <1>5, AccountedMoves

LEMMA SubscribeCounts ==
  ASSUME Base, CountInv, NEW w \in Workers, insert_subscriber(w)
  PROVE  CountSettled(w)
<1>b. Shaped /\ CountersOK /\ JobsSound /\ ChannelsTypeOK /\ IsFiniteSet(channel_subscribers)
  BY DEF Base, CountInv
<1>1. PICK c : c = job[w].row
  OBVIOUS
<1>2. PICK u : u = job[w].user
  OBVIOUS
<1>r. PICK r : r = Subscriber(c, u, "subscriber")
  OBVIOUS
<1>3. /\ ChannelStart(w) /\ job[w].at = "subscribe" /\ channels' = channels /\ c \in DOMAIN channels
      /\ \/ UNCHANGED <<channel_subscribers, repeats>> /\ job'[w].at = "idle"
         \/ /\ \/ /\ channel_subscribers' = channel_subscribers \cup {r}
                  /\ r \notin channel_subscribers /\ repeats' = repeats
               \/ /\ channel_subscribers' = channel_subscribers
                  /\ repeats' = [repeats EXCEPT ![c] = @ + 1]
            /\ \/ job'[w].at = "count" /\ job'[w].row = c /\ conn'
               \/ job'[w].at = "idle" /\ fails' > 0
  <2>1. SubscriptionDone(w, c, u)
    BY <1>b, <1>1, <1>2, SubscribeEffect
  <2> QED
    BY <2>1, <1>r DEF SubscriptionDone
<1>4. Frame(w)
  BY <1>3 DEF ChannelStart
<1>5. \A d \in DOMAIN channels : ~(job[w].at = "count" /\ job[w].row = d)
  BY <1>3
<1>6. ASSUME NEW d \in DOMAIN channels, d # c PROVE Accounted(d)'
  <2>1. Rows(d)' = Rows(d) /\ repeats'[d] = repeats[d]
    <3>1. r.channel = c
      BY <1>r DEF Subscriber
    <3>2. Rows(d)' = Rows(d)
      BY <1>3, <1>6, <3>1 DEF Rows
    <3>3. repeats \in [DOMAIN channels -> Nat]
      BY <1>b DEF ChannelsTypeOK
    <3> QED
      BY <1>3, <1>6, <3>2, <3>3
  <2>2. ~(job'[w].at = "count" /\ job'[w].row = d)
    BY <1>3, <1>6
  <2>3. channels'[d].subscriber_count = channels[d].subscriber_count
    BY <1>3
  <2> QED
    BY <1>4, <1>5, <2>1, <2>2, <2>3, CountUntouched
<1>7. Accounted(c)'
  <2>1. CASE UNCHANGED <<channel_subscribers, repeats>> /\ job'[w].at = "idle"
    <3>1. Rows(c)' = Rows(c) /\ repeats'[c] = repeats[c]
      BY <2>1 DEF Rows
    <3>2. ~(job'[w].at = "count" /\ job'[w].row = c) /\ channels'[c].subscriber_count = channels[c].subscriber_count
      BY <1>3, <2>1
    <3> QED
      BY <1>3, <1>4, <1>5, <3>1, <3>2, CountUntouched
  <2>2. CASE /\ \/ /\ channel_subscribers' = channel_subscribers \cup {r}
                   /\ r \notin channel_subscribers /\ repeats' = repeats
                \/ /\ channel_subscribers' = channel_subscribers
                   /\ repeats' = [repeats EXCEPT ![c] = @ + 1]
             /\ \/ job'[w].at = "count" /\ job'[w].row = c /\ conn'
                \/ job'[w].at = "idle" /\ fails' > 0
    <3>1. /\ IsFiniteSet(Pending(c)) /\ Cardinality(Pending(c)) \in Nat
          /\ IsFiniteSet(Rows(c)) /\ Cardinality(Rows(c)) \in Nat
          /\ channels[c].subscriber_count \in Nat /\ repeats[c] \in Nat
          /\ CountOf(c) \in Nat /\ RealOf(c) \in Nat
      BY <1>b, <1>3, CountTypes
    <3>2. RealOf(c)' = RealOf(c) + 1
      <4>1. CASE channel_subscribers' = channel_subscribers \cup {r} /\ r \notin channel_subscribers
                 /\ repeats' = repeats
        <5>1. r.channel = c /\ r.role = "subscriber"
          BY <1>r DEF Subscriber
        <5>2. Rows(c)' = Rows(c) \cup {r} /\ r \notin Rows(c)
          BY <4>1, <5>1 DEF Rows
        <5>3. Cardinality(Rows(c) \cup {r}) = Cardinality(Rows(c)) + 1
          BY <3>1, <5>2, FS_AddElement
        <5>4. Cardinality(Rows(c))' = Cardinality(Rows(c)) + 1
          BY <5>2, <5>3
        <5>5. repeats'[c] = repeats[c]
          BY <4>1
        <5> QED
          BY <3>1, <5>4, <5>5 DEF RealOf
      <4>2. CASE channel_subscribers' = channel_subscribers /\ repeats' = [repeats EXCEPT ![c] = @ + 1]
        <5>1. Rows(c)' = Rows(c)
          BY <4>2 DEF Rows
        <5>2. repeats'[c] = repeats[c] + 1
          <6>1. DOMAIN repeats = DOMAIN channels
            BY <1>b DEF ChannelsTypeOK
          <6> QED
            BY <1>3, <4>2, <6>1
        <5> QED
          BY <3>1, <5>1, <5>2 DEF RealOf
      <4> QED
        BY <2>2, <4>1, <4>2
    <3>3. w \notin Pending(c)
      BY <1>3 DEF Pending, At
    <3>4. CASE job'[w].at = "count" /\ job'[w].row = c
      <4>1. Pending(c)' = Pending(c) \cup {w}
        BY <1>4, <3>4, PendingStep
      <4>2. Cardinality(Pending(c) \cup {w}) = Cardinality(Pending(c)) + 1
        BY <3>1, <3>3, FS_AddElement
      <4>3. CountOf(c)' = CountOf(c) + 1
        BY <1>3, <3>1, <4>1, <4>2 DEF CountOf
      <4> QED
        BY <1>3, <1>4, <3>1, <3>2, <4>3, AccountedMoves DEF CountInv, Base, Frame
    <3>5. CASE job'[w].at = "idle" /\ fails' > 0
      <4>1. Pending(c)' = Pending(c)
        BY <1>4, <3>3, <3>5, PendingStep
      <4>2. CountOf(c)' = CountOf(c)
        BY <1>3, <4>1 DEF CountOf
      <4> QED
        BY <1>3, <1>4, <3>1, <3>2, <3>5, <4>2, AccountedMoves DEF CountInv, Base, Frame
    <3> QED
      BY <2>2, <3>4, <3>5
  <2> QED
    BY <1>3, <2>1, <2>2
<1>8. job'[w].at = "count" => conn' \/ fails' > 0
  BY <1>3
<1>9. DOMAIN channels' = DOMAIN channels
  BY <1>3
<1> QED
  BY <1>6, <1>7, <1>8, <1>9 DEF CountSettled

LEMMA CounterCounts ==
  ASSUME Base, CountInv, NEW w \in Workers, count_subscriber(w)
  PROVE  CountSettled(w)
<1>b. Shaped /\ CountersOK /\ JobsSound /\ ChannelsTypeOK /\ IsFiniteSet(channel_subscribers)
  BY DEF Base, CountInv
<1>1. PICK c : c = job[w].row
  OBVIOUS
<1>2. /\ ChannelStart(w) /\ job[w].at = "count" /\ job'[w].at = "idle" /\ c \in DOMAIN channels
      /\ UNCHANGED <<channel_subscribers, channel_posts, repeats>>
      /\ \/ channels' = Counted(c)
         \/ channels' = channels /\ (conn => fails' > 0)
  BY <1>b, <1>1, CountEffect
<1>3. Frame(w)
  BY <1>2 DEF ChannelStart
<1>4. DOMAIN channels' = DOMAIN channels
      /\ \A d \in DOMAIN channels : d # c => channels'[d].subscriber_count = channels[d].subscriber_count
  BY <1>2 DEF Counted
<1>r. \A d \in DOMAIN channels : Rows(d)' = Rows(d) /\ repeats'[d] = repeats[d]
  BY <1>2 DEF Rows
<1>5. ASSUME NEW d \in DOMAIN channels, d # c PROVE Accounted(d)'
  BY <1>1, <1>2, <1>3, <1>4, <1>5, <1>r, CountUntouched
<1>6. Accounted(c)'
  <2>1. /\ IsFiniteSet(Pending(c)) /\ Cardinality(Pending(c)) \in Nat
        /\ IsFiniteSet(Rows(c)) /\ Cardinality(Rows(c)) \in Nat
        /\ channels[c].subscriber_count \in Nat /\ repeats[c] \in Nat
        /\ CountOf(c) \in Nat /\ RealOf(c) \in Nat
    BY <1>b, <1>2, CountTypes
  <2>2. Pending(c)' = Pending(c) \ {w} /\ w \in Pending(c)
    BY <1>1, <1>2, <1>3, PendingStep DEF Pending, At
  <2>3. Cardinality(Pending(c) \ {w}) = Cardinality(Pending(c)) - 1
    BY <2>1, <2>2, FS_RemoveElement
  <2>4. RealOf(c)' = RealOf(c)
    BY <1>2, <1>r DEF RealOf
  <2>5. Accounted(c) /\ CountersOK' /\ fails' >= fails /\ restarts' = restarts
    BY <1>2, <1>3 DEF CountInv, Frame
  <2>6. CASE channels' = Counted(c)
    <3>1. channels'[c].subscriber_count = channels[c].subscriber_count + 1
      <4>1. channels'[c] = [channels[c] EXCEPT !.subscriber_count = @ + 1]
        BY <1>2, <2>6 DEF Counted
      <4>2. channels[c] \in ChannelRow
        <5>1. channels \in Seq(ChannelRow)
          BY <1>b DEF ChannelsTypeOK, ChannelRow
        <5>2. c \in 1..Len(channels)
          BY <1>2, <5>1
        <5> QED
          BY <5>1, <5>2
      <4> QED
        BY <4>1, <4>2 DEF ChannelRow
    <3>2. CountOf(c)' = CountOf(c)
      BY <2>1, <2>2, <2>3, <3>1 DEF CountOf
    <3> QED
      BY <1>b, <2>1, <2>4, <2>5, <3>2, AccountedMoves
  <2>7. CASE channels' = channels /\ (conn => fails' > 0)
    <3>1. fails' > 0
      <4>1. conn \/ fails > 0
        BY <1>2 DEF CountInv, At
      <4>2. fails \in Nat /\ fails' \in Nat
        <5>1. plan.fails \in Nat /\ plan'.fails \in Nat
          BY <1>b, <2>5, PlansAssumption DEF CountersOK
        <5> QED
          BY <1>b, <2>5, <5>1 DEF CountersOK
      <4> QED
        BY <2>5, <2>7, <4>1, <4>2
    <3>2. CountOf(c)' = CountOf(c) - 1
      BY <2>1, <2>2, <2>3, <2>7 DEF CountOf
    <3> QED
      BY <1>b, <2>1, <2>4, <2>5, <3>1, <3>2, AccountedMoves
  <2> QED
    BY <1>2, <2>6, <2>7
<1> QED
  BY <1>2, <1>4, <1>5, <1>6 DEF CountSettled

(* A step that is about neither the counter nor the subscribers.           *)
LEMMA NothingCounted ==
  ASSUME Base, CountInv, NEW w \in Workers, Frame(w), job[w].at # "count", job'[w].at # "count",
         UNCHANGED <<channels, repeats>>, \A c : Rows(c)' = Rows(c)
  PROVE  CountSettled(w)
<1>1. ASSUME NEW c \in DOMAIN channels PROVE Accounted(c)'
  BY CountUntouched
<1> QED
  BY <1>1 DEF CountSettled

LEMMA ChannelCounts ==
  ASSUME Base, CountInv, NEW w \in Workers, insert_channel(w)
  PROVE  CountSettled(w)
<1>b. Shaped /\ CountersOK /\ JobsSound /\ ChannelsTypeOK /\ IsFiniteSet(channel_subscribers)
  BY DEF Base, CountInv
<1>n. PICK new : new = [username |-> job[w].arg, owner_id |-> job[w].user, subscriber_count |-> 0]
  OBVIOUS
<1>i. PICK id : id = Len(channels) + 1
  OBVIOUS
<1>1. /\ ChannelStart(w) /\ job[w].at = "channel" /\ job'[w].at \in {"channel owner", "idle"}
      /\ channel_subscribers' = channel_subscribers /\ new.subscriber_count = 0
      /\ \/ UNCHANGED <<channels, repeats>>
         \/ channels' = Append(channels, new) /\ repeats' = Append(repeats, 0)
  <2>1. ChannelInserted(w, new, id)
    BY <1>b, <1>n, <1>i, ChannelEffect
  <2> QED
    BY <2>1 DEF ChannelInserted
<1>2. Frame(w) /\ \A c : Rows(c)' = Rows(c)
  BY <1>1 DEF ChannelStart, Rows
<1>3. CASE UNCHANGED <<channels, repeats>>
  BY <1>1, <1>2, <1>3, NothingCounted
<1>4. CASE channels' = Append(channels, new) /\ repeats' = Append(repeats, 0)
  <2>1. /\ channels \in Seq(ChannelRow) /\ Len(channels) \in Nat /\ DOMAIN channels = 1..Len(channels)
    BY <1>b DEF ChannelsTypeOK, ChannelRow
  <2>2. /\ DOMAIN channels' = DOMAIN channels \cup {id} /\ id \notin DOMAIN channels
        /\ channels'[id] = new /\ \A c \in DOMAIN channels : channels'[c] = channels[c]
    BY <1>i, <1>4, <2>1
  <2>3. repeats \in Seq(Nat) /\ Len(repeats) = Len(channels)
    <3>1. repeats \in [1..Len(channels) -> Nat]
      BY <1>b, <2>1 DEF ChannelsTypeOK
    <3> QED
      BY <2>1, <3>1
  <2>4. repeats'[id] = 0 /\ \A c \in DOMAIN channels : repeats'[c] = repeats[c]
    BY <1>i, <1>4, <2>1, <2>3
  <2>5. ASSUME NEW c \in DOMAIN channels PROVE Accounted(c)'
    BY <1>1, <1>2, <2>2, <2>4, CountUntouched
  <2>6. Accounted(id)'
    <3>1. Rows(id)' = {}
      <4>1. \A r \in channel_subscribers : r.channel \in DOMAIN channels
        BY <1>b DEF ChannelsTypeOK
      <4> QED
        BY <1>1, <2>2, <4>1 DEF Rows
    <3>2. Pending(id)' = {}
      <4>1. ASSUME NEW v \in Workers, job'[v].at = "count", job'[v].row = id PROVE FALSE
        <5>1. v # w
          BY <1>1, <4>1
        <5>2. job[v].at = "count" /\ job[v].row = id
          BY <1>2, <4>1, <5>1 DEF Frame, Others
        <5>3. id \in DOMAIN channels
          BY <1>b, <5>2 DEF JobsSound, JobSound, ChannelJob
        <5> QED
          BY <2>2, <5>3
      <4>2. Pending(id)' = {v \in Workers : job'[v].at = "count" /\ job'[v].row = id}
        BY DEF Pending, At
      <4> QED
        BY <4>1, <4>2
    <3>3. CountOf(id)' = 0 /\ RealOf(id)' = 0
      <4>1. Cardinality(Pending(id)') = 0 /\ Cardinality(Rows(id)') = 0
        BY <3>1, <3>2, FS_EmptySet
      <4>2. CountOf(id)' = channels'[id].subscriber_count + Cardinality(Pending(id)')
            /\ RealOf(id)' = Cardinality(Rows(id)') + repeats'[id]
        BY DEF CountOf, RealOf
      <4>3. channels'[id].subscriber_count = 0 /\ repeats'[id] = 0
        BY <1>1, <2>2, <2>4
      <4>4. CountOf(id)' = 0 + 0 /\ RealOf(id)' = 0 + 0
        BY <4>1, <4>2, <4>3, Zenon
      <4> QED
        BY <4>4
    <3> QED
      BY <3>3 DEF Accounted
  <2> QED
    BY <1>1, <2>2, <2>5, <2>6 DEF CountSettled
<1> QED
  BY <1>1, <1>3, <1>4

LEMMA OwnerNotCounted ==
  ASSUME Base, CountInv, NEW w \in Workers, insert_channel_owner(w)
  PROVE  CountSettled(w)
<1>r. PICK r : r = Subscriber(job[w].row, job[w].user, "owner")
  OBVIOUS
<1>1. /\ ChannelStart(w) /\ job[w].at = "channel owner" /\ job'[w].at = "idle"
      /\ UNCHANGED <<channels, repeats>>
      /\ \/ channel_subscribers' = channel_subscribers
         \/ channel_subscribers' = channel_subscribers \cup {r}
  <2>1. OwnerInserted(w, r)
    BY <1>r, ChannelOwnerEffect DEF Base
  <2> QED
    BY <2>1 DEF OwnerInserted
<1>2. \A c : Rows(c)' = Rows(c)
  <2>1. r.role # "subscriber"
    BY <1>r DEF Subscriber
  <2> QED
    BY <1>1, <2>1 DEF Rows
<1> QED
  BY <1>1, <1>2, NothingCounted DEF ChannelStart

LEMMA ChannelsCount ==
  ASSUME Base, CountInv, NEW w \in Workers, ChannelsStep(w)
  PROVE  CountSettled(w)
<1>b. Shaped /\ CountersOK /\ JobsSound /\ ChannelsTypeOK
  BY DEF Base
<1>s. ASSUME ChannelStart(w), job[w].at # "count", job'[w].at # "count",
             UNCHANGED <<channels, channel_subscribers, repeats>>
      PROVE  CountSettled(w)
  <2>1. Frame(w) /\ \A c : Rows(c)' = Rows(c)
    BY <1>s DEF ChannelStart, Rows
  <2> QED
    BY <1>s, <2>1, NothingCounted
<1>1. CASE create_channel(w) \/ subscribe_channel(w) \/ create_post(w) \/ delete_post(w)
  <2>1. /\ ChannelStart(w) /\ UNCHANGED channelVars /\ job[w].at = "idle"
        /\ job'[w].at \in {"channel", "subscribe", "role", "delete"}
    BY <1>b, <1>1, ChannelRequests
  <2> QED
    BY <1>s, <2>1 DEF channelVars
<1>2. CASE insert_channel(w)
  BY <1>2, ChannelCounts
<1>3. CASE insert_channel_owner(w)
  BY <1>3, OwnerNotCounted
<1>4. CASE insert_subscriber(w)
  BY <1>4, SubscribeCounts
<1>5. CASE count_subscriber(w)
  BY <1>5, CounterCounts
<1>6. CASE check_role(w)
  <2>1. ChannelStart(w) /\ job[w].at = "role" /\ UNCHANGED channelVars /\ job'[w].at \in {"idle", "post"}
    BY <1>b, <1>6, RoleEffect
  <2> QED
    BY <1>s, <2>1 DEF channelVars
<1>7. CASE insert_post(w)
  <2>1. PICK post : post = [id |-> job[w].arg, channel |-> job[w].row, author |-> job[w].user]
    OBVIOUS
  <2>2. /\ ChannelStart(w) /\ job[w].at = "post" /\ job'[w].at = "idle"
        /\ UNCHANGED <<channels, channel_subscribers, repeats>>
    BY <1>b, <1>7, <2>1, PostEffect
  <2> QED
    BY <1>s, <2>2
<1>8. CASE delete_row(w)
  <2>1. /\ ChannelStart(w) /\ job[w].at = "delete" /\ job'[w].at = "idle"
        /\ UNCHANGED <<channels, channel_subscribers, repeats>>
    BY <1>b, <1>8, DeleteEffect
  <2> QED
    BY <1>s, <2>1
<1> QED
  BY <1>1, <1>2, <1>3, <1>4, <1>5, <1>6, <1>7, <1>8 DEF ChannelsStep

(* The connection stays with who is about to raise a counter, unless a     *)
(* statement fails.                                                        *)
LEMMA CountSettledKeep ==
  ASSUME Base, CountInv, NEW w \in Workers, Frame(w), CountSettled(w),
         IsFiniteSet(channel_subscribers)'
  PROVE  CountInv'
<1>1. fails \in Nat /\ fails' \in Nat
  <2>1. CountersOK /\ CountersOK' /\ plan.fails \in Nat /\ plan'.fails \in Nat
    BY PlansAssumption DEF Base, Frame, CountersOK
  <2> QED
    BY <2>1 DEF CountersOK
<1>2. ASSUME NEW v \in Workers, At(v, "count")' PROVE conn' \/ fails' > 0
  <2>1. CASE v = w
    BY <1>2, <2>1 DEF CountSettled, At
  <2>2. CASE v # w
    <3>1. conn \/ fails > 0
      BY <1>2, <2>2 DEF CountInv, At, Frame, Others
    <3>2. fails' >= fails /\ (conn /\ fails' = fails => conn')
      BY DEF Frame
    <3> QED
      BY <1>1, <3>1, <3>2
  <2> QED
    BY <2>1, <2>2
<1> QED
  BY <1>2 DEF CountInv, CountSettled

LEMMA CountInvByOthers ==
  ASSUME Base, CountInv, NEW w \in Workers, Frame(w), UNCHANGED <<channels, channel_subscribers, repeats>>,
         NEW L, NEW R, Within(w, L, R), "count" \notin L
  PROVE  CountInv'
<1>1. job[w].at # "count" /\ job'[w].at # "count"
  BY DEF Within
<1>2. \A c : Rows(c)' = Rows(c)
  BY DEF Rows
<1>3. IsFiniteSet(channel_subscribers)'
  BY DEF CountInv
<1> QED
  BY <1>1, <1>2, <1>3, NothingCounted, CountSettledKeep

LEMMA CountInvNext ==
  ASSUME Base, CountInv, [Next]_vars
  PROVE  CountInv'
<1>1. ASSUME NEW w \in Workers, AccountsStep(w), UNCHANGED <<chatVars, channelVars>> PROVE CountInv'
  <2>1. /\ Frame(w) /\ Within(w, AccountLabels, AccountRoutes)
        /\ UNCHANGED <<channels, channel_subscribers, repeats>>
    BY <1>1, AccountsBase
  <2>2. "count" \notin AccountLabels
    BY DEF AccountLabels
  <2> QED
    BY <2>1, <2>2, CountInvByOthers
<1>2. ASSUME NEW w \in Workers, ChatsStep(w), UNCHANGED <<users, channelVars>> PROVE CountInv'
  <2>1. /\ Frame(w) /\ Within(w, ChatLabels, ChatRoutes)
        /\ UNCHANGED <<channels, channel_subscribers, repeats>>
    BY <1>2, ChatsBase DEF ChatStart
  <2>2. "count" \notin ChatLabels
    BY DEF ChatLabels
  <2> QED
    BY <2>1, <2>2, CountInvByOthers
<1>3. ASSUME NEW w \in Workers, ChannelsStep(w), UNCHANGED <<users, chatVars>> PROVE CountInv'
  <2>1. Frame(w) /\ ChannelsKept
    BY <1>3, ChannelsBase DEF ChannelStart
  <2>2. IsFiniteSet(channel_subscribers)'
    BY <2>1 DEF ChannelsKept, CountInv
  <2>3. CountSettled(w)
    BY <1>3, ChannelsCount
  <2> QED
    BY <2>1, <2>2, <2>3, CountSettledKeep
<1>4. ASSUME Restart, UNCHANGED tables PROVE CountInv'
  <2>1. /\ \A w \in Workers : job'[w].at = "idle"
        /\ restarts' > 0
        /\ UNCHANGED <<fails, channels, channel_subscribers, repeats>>
    BY <1>4, RestartEffect
  <2>2. ASSUME NEW c \in DOMAIN channels PROVE Accounted(c)'
    <3>1. /\ Cardinality(Pending(c)) \in Nat /\ channels[c].subscriber_count \in Nat
          /\ CountOf(c) \in Nat /\ RealOf(c) \in Nat
      BY CountTypes DEF Base, CountInv
    <3>2. Pending(c)' = {} /\ RealOf(c)' = RealOf(c)
      BY <2>1 DEF Pending, At, RealOf, Rows
    <3>3. CountOf(c)' = channels[c].subscriber_count
      BY <2>1, <3>1, <3>2, FS_EmptySet DEF CountOf
    <3>4. CountOf(c) <= RealOf(c) /\ CountOf(c) = channels[c].subscriber_count + Cardinality(Pending(c))
      BY DEF CountInv, Accounted, CountOf
    <3>5. CountOf(c)' <= RealOf(c)'
      BY <3>1, <3>2, <3>3, <3>4
    <3> QED
      BY <2>1, <3>5 DEF Accounted
  <2>3. \A w \in Workers : ~At(w, "count")'
    BY <2>1 DEF At
  <2> QED
    BY <2>1, <2>2, <2>3 DEF CountInv
<1>5. ASSUME UNCHANGED vars PROVE CountInv'
  <2>1. UNCHANGED <<job, conn, fails, restarts, channels, channel_subscribers, repeats>>
    BY <1>5 DEF vars, pgVars, tables, channelVars
  <2>2. ASSUME NEW c PROVE Accounted(c)' <=> Accounted(c)
    <3>1. Pending(c)' = Pending(c) /\ Rows(c)' = Rows(c)
      BY <2>1 DEF Pending, Rows, At
    <3> QED
      BY <2>1, <3>1 DEF Accounted, CountOf, RealOf
  <2> QED
    BY <2>1, <2>2 DEF CountInv, At
<1> QED
  BY <1>1, <1>2, <1>3, <1>4, <1>5 DEF Next

LEMMA CountInvariant == Spec => []CountInv
<1>1. Init => CountInv
  <2> SUFFICES ASSUME Init PROVE CountInv
    OBVIOUS
  <2>1. /\ channels = <<>> /\ channel_subscribers = {} /\ \A w \in Workers : job[w].at = "idle"
    BY BaseInit DEF Init, ChannelsInit
  <2>2. DOMAIN channels = {} /\ IsFiniteSet(channel_subscribers)
    BY <2>1, FS_EmptySet
  <2> QED
    BY <2>1, <2>2 DEF CountInv, At
<1>2. Base /\ CountInv /\ [Next]_vars => CountInv'
  BY CountInvNext
<1> QED
  BY <1>1, <1>2, BaseInvariant, PTL DEF Spec

(* subscriber_count of every channel, with the increments that are still   *)
(* under way, never exceeds the subscribers and their repeated             *)
(* subscriptions, and is exactly that as long as nothing failed:           *)
(* route_subscribe_channel() loses or doubles no increment, whatever runs  *)
(* between its two statements.                                             *)
THEOREM CountersAddUp == Spec => []CountAccounted
<1>1. CountInv => CountAccounted
  BY DEF CountInv, Accounted, CountOf, RealOf, Pending, Rows, CountAccounted
<1> QED
  BY <1>1, CountInvariant, PTL
=============================================================================
