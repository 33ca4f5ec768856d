--------------------------- MODULE HttpApiLemmas ---------------------------
(***************************************************************************)
(* What the theorems about HttpApi rest on: the effects of a request, of a *)
(* statement that goes on and of one that answers; what a job carries at   *)
(* each statement of its handler; and that every handler keeps the tables  *)
(* within their columns and keys.  ChatsProofs and HttpApiProofs build on  *)
(* it.                                                                     *)
(***************************************************************************)
EXTENDS HttpApi, FiniteSetTheorems, TLAPS

(* A job has the eight fields of Job, two of them flags.                   *)
IsJob(j) ==
  /\ j = [at |-> j.at, route |-> j.route, user |-> j.user, arg |-> j.arg, row |-> j.row,
          rest |-> j.rest, faulty |-> j.faulty, disturbed |-> j.disturbed]
  /\ j.faulty \in BOOLEAN /\ j.disturbed \in BOOLEAN

Shaped == job = [w \in Workers |-> job[w]] /\ \A w \in Workers : IsJob(job[w])

LEMMA JobFields ==
  ASSUME NEW label, NEW route, NEW u, NEW arg, NEW r, NEW j, j = Job(label, route, u, arg, r)
  PROVE  /\ IsJob(j) /\ j.at = label /\ j.route = route /\ j.user = u /\ j.arg = arg /\ j.row = r
         /\ j.rest = {} /\ j.faulty = FALSE /\ j.disturbed = FALSE
BY DEF Job, IsJob

LEMMA IdleFields ==
  /\ IsJob(Idle) /\ Idle.at = "idle" /\ Idle.route = "none" /\ Idle.user = Nobody /\ Idle.arg = Nobody
  /\ Idle.row = 0 /\ Idle.rest = {} /\ Idle.faulty = FALSE /\ Idle.disturbed = FALSE
BY DEF Idle, Job, IsJob

LEMMA Disturb ==
  ASSUME NEW j, IsJob(j), NEW d \in BOOLEAN, NEW k, k = [j EXCEPT !.disturbed = @ \/ d]
  PROVE  /\ IsJob(k) /\ k.at = j.at /\ k.route = j.route /\ k.user = j.user /\ k.arg = j.arg
         /\ k.row = j.row /\ k.rest = j.rest /\ k.faulty = j.faulty /\ k.disturbed = (j.disturbed \/ d)
BY DEF IsJob

LEMMA Advance ==
  ASSUME NEW j, IsJob(j), NEW out, out.ok \in BOOLEAN, NEW next, NEW r, NEW rest, NEW k,
         k = Advanced(j, out, r, rest, next)
  PROVE  /\ IsJob(k) /\ k.at = next /\ k.route = j.route /\ k.user = j.user /\ k.arg = j.arg
         /\ k.row = r /\ k.rest = rest /\ k.faulty = (j.faulty \/ ~out.ok) /\ k.disturbed = j.disturbed
<1> DEFINE k1 == [j EXCEPT !.at = next]
           k2 == [k1 EXCEPT !.row = r]
           k3 == [k2 EXCEPT !.rest = rest]
           k4 == [k3 EXCEPT !.faulty = @ \/ ~out.ok]
<1>0. k = k4
  BY Zenon DEF Advanced
<1>1. IsJob(k1) /\ k1.at = next /\ k1.route = j.route /\ k1.user = j.user /\ k1.arg = j.arg
      /\ k1.row = j.row /\ k1.rest = j.rest /\ k1.faulty = j.faulty /\ k1.disturbed = j.disturbed
  BY DEF IsJob
<1> HIDE DEF k1
<1>2. IsJob(k2) /\ k2.at = next /\ k2.route = j.route /\ k2.user = j.user /\ k2.arg = j.arg
      /\ k2.row = r /\ k2.rest = j.rest /\ k2.faulty = j.faulty /\ k2.disturbed = j.disturbed
  BY <1>1 DEF IsJob
<1> HIDE DEF k2
<1>3. IsJob(k3) /\ k3.at = next /\ k3.route = j.route /\ k3.user = j.user /\ k3.arg = j.arg
      /\ k3.row = r /\ k3.rest = rest /\ k3.faulty = j.faulty /\ k3.disturbed = j.disturbed
  BY <1>2 DEF IsJob
<1> HIDE DEF k3
<1>4. IsJob(k4) /\ k4.at = next /\ k4.route = j.route /\ k4.user = j.user /\ k4.arg = j.arg
      /\ k4.row = r /\ k4.rest = rest /\ k4.faulty = (j.faulty \/ ~out.ok) /\ k4.disturbed = j.disturbed
  BY <1>3 DEF IsJob
<1> HIDE DEF k4
<1> QED
  BY <1>0, <1>4

----------------------------------------------------------------------------
(* Statements *)

(* What a step of w leaves of the jobs of the others.                      *)
Others(w) ==
  \A v \in Workers : v # w =>
    /\ job'[v].at = job[v].at /\ job'[v].route = job[v].route /\ job'[v].user = job[v].user
    /\ job'[v].arg = job[v].arg /\ job'[v].row = job[v].row /\ job'[v].rest = job[v].rest
    /\ job'[v].faulty = job[v].faulty
    /\ job[v].disturbed => job'[v].disturbed
    /\ job[v].at = "idle" => job'[v] = job[v]

(* A change that w made is noted in the jobs of the others.                *)
Noted(w) == \A v \in Workers : v # w /\ job[v].at # "idle" => job'[v].disturbed

(* The counters of PgDb.                                                   *)
CountersOK ==
  /\ conn \in BOOLEAN /\ plan \in Plans
  /\ requests \in 0..plan.requests /\ fails \in 0..plan.fails /\ restarts \in 0..plan.restarts

LEMMA OutcomeFacts ==
  ASSUME NEW out \in Outcomes
  PROVE  /\ out.done \in BOOLEAN /\ out.ok \in BOOLEAN /\ out.cut \in BOOLEAN
         /\ out.ok => out.done /\ ~out.cut
         /\ out.done /\ ~out.cut => out.ok
         /\ out.done \/ out.cut => conn
         /\ out.ok \/ ~conn \/ fails < plan.fails
BY DEF Outcomes

LEMMA ExecutedFacts ==
  ASSUME CountersOK, NEW out \in Outcomes, Executed(out)
  PROVE  /\ CountersOK' /\ fails' >= fails /\ UNCHANGED <<plan, requests, restarts>>
         /\ conn /\ fails' = fails => conn' /\ out.ok
<1>1. /\ out.done \in BOOLEAN /\ out.ok \in BOOLEAN /\ out.cut \in BOOLEAN
      /\ out.ok => out.done /\ ~out.cut
      /\ out.done \/ out.cut => conn
      /\ out.ok \/ ~conn \/ fails < plan.fails
  BY OutcomeFacts
<1>2. plan.fails \in Nat
  BY PlansAssumption DEF CountersOK
<1>3. fails' \in 0..plan.fails /\ fails' >= fails /\ (conn /\ fails' = fails => out.ok)
  BY <1>1, <1>2 DEF Executed, CountersOK
<1>4. conn' \in BOOLEAN /\ (conn /\ out.ok => conn')
  BY <1>1 DEF Executed
<1> QED
  BY <1>3, <1>4 DEF Executed, CountersOK

LEMMA EndedFacts ==
  ASSUME Shaped, NEW w \in Workers, NEW out \in Outcomes, NEW changes \in BOOLEAN, NEW j, IsJob(j),
         job' = Ended(w, out, changes, j)
  PROVE  /\ Shaped' /\ job'[w] = j /\ Others(w) /\ (out.done /\ changes => Noted(w))
         /\ \A v \in Workers : v # w /\ ~(out.done /\ changes) => job'[v].disturbed = job[v].disturbed
<1>1. ASSUME NEW v \in Workers, v # w
      PROVE  LET d == job[v].at # "idle" /\ out.done /\ changes
                 k == [job[v] EXCEPT !.disturbed = @ \/ d] IN
             job'[v] = k /\ d \in BOOLEAN /\ IsJob(job[v])
  BY <1>1, OutcomeFacts DEF Ended, At, Shaped
<1>2. job'[w] = j /\ job' = [v \in Workers |-> job'[v]]
  BY DEF Ended
<1>3. ASSUME NEW v \in Workers, v # w
      PROVE  LET d == job[v].at # "idle" /\ out.done /\ changes IN
             /\ IsJob(job'[v]) /\ job'[v].at = job[v].at /\ job'[v].route = job[v].route
             /\ job'[v].user = job[v].user /\ job'[v].arg = job[v].arg /\ job'[v].row = job[v].row
             /\ job'[v].rest = job[v].rest /\ job'[v].faulty = job[v].faulty
             /\ job'[v].disturbed = (job[v].disturbed \/ d) /\ job[v].disturbed \in BOOLEAN
  <2> DEFINE d == job[v].at # "idle" /\ out.done /\ changes
  <2>1. job[v].disturbed \in BOOLEAN
    BY <1>1, <1>3 DEF IsJob
  <2>2. job'[v] = [job[v] EXCEPT !.disturbed = @ \/ d] /\ d \in BOOLEAN /\ IsJob(job[v])
    BY <1>1, <1>3
  <2> HIDE DEF d
  <2>3. /\ IsJob(job'[v]) /\ job'[v].at = job[v].at /\ job'[v].route = job[v].route
        /\ job'[v].user = job[v].user /\ job'[v].arg = job[v].arg /\ job'[v].row = job[v].row
        /\ job'[v].rest = job[v].rest /\ job'[v].faulty = job[v].faulty
        /\ job'[v].disturbed = (job[v].disturbed \/ d)
    BY <2>2, Disturb
  <2> QED
    BY <2>1, <2>3 DEF d
<1>4. \A v \in Workers : IsJob(job'[v])
  BY <1>2, <1>3
<1>5. Others(w)
  <2>1. ASSUME NEW v \in Workers, v # w, job[v].at = "idle" PROVE job'[v] = job[v]
    <3>1. IsJob(job'[v]) /\ IsJob(job[v])
      BY <1>4 DEF Shaped
    <3>2. job'[v].disturbed = job[v].disturbed
      BY <1>3, <2>1
    <3> QED
      BY <1>3, <2>1, <3>1, <3>2 DEF IsJob
  <2> QED
    BY <1>3, <2>1 DEF Others
<1>6. out.done /\ changes => Noted(w)
  BY <1>3 DEF Noted
<1>7. \A v \in Workers : v # w /\ ~(out.done /\ changes) => job'[v].disturbed = job[v].disturbed
  BY <1>3
<1> QED
  BY <1>2, <1>4, <1>5, <1>6, <1>7 DEF Shaped

(* The effects of the three ways in which a worker moves.                  *)
LEMMA RequestEffect ==
  ASSUME Shaped, CountersOK, NEW w \in Workers, NEW route, NEW u, NEW arg, NEW r, NEW label,
         Request(w, route, u, arg, r, label)
  PROVE  /\ Shaped' /\ CountersOK' /\ Others(w) /\ job[w].at = "idle" /\ route \in plan.routes
         /\ job'[w].at = label /\ job'[w].route = route /\ job'[w].user = u /\ job'[w].arg = arg
         /\ job'[w].row = r /\ job'[w].rest = {} /\ ~job'[w].faulty /\ ~job'[w].disturbed
         /\ requests' = requests + 1
         /\ \A v \in Workers : v # w => job'[v].disturbed = job[v].disturbed
         /\ UNCHANGED <<conn, plan, fails, restarts, answers>>
<1>1. job' = [job EXCEPT ![w] = Job(label, route, u, arg, r)] /\ job[w].at = "idle"
      /\ route \in plan.routes /\ requests' = requests + 1 /\ requests < plan.requests
      /\ UNCHANGED <<conn, plan, fails, restarts, answers>>
  BY DEF Request, At
<1>2. job'[w] = Job(label, route, u, arg, r) /\ job' = [v \in Workers |-> job'[v]]
      /\ \A v \in Workers : v # w => job'[v] = job[v]
  BY <1>1 DEF Shaped
<1>3. CountersOK'
  <2>1. plan.requests \in Nat
    BY PlansAssumption DEF CountersOK
  <2> QED
    BY <1>1, <2>1 DEF CountersOK
<1>j. /\ IsJob(job'[w]) /\ job'[w].at = label /\ job'[w].route = route /\ job'[w].user = u
      /\ job'[w].arg = arg /\ job'[w].row = r /\ job'[w].rest = {}
      /\ job'[w].faulty = FALSE /\ job'[w].disturbed = FALSE
  BY <1>2 DEF Job, IsJob
<1>4. Shaped'
  BY <1>2, <1>j DEF Shaped
<1>5. Others(w) /\ \A v \in Workers : v # w => job'[v].disturbed = job[v].disturbed
  BY <1>2 DEF Others
<1> QED
  BY <1>1, <1>j, <1>3, <1>4, <1>5

LEMMA ContinueEffect ==
  ASSUME Shaped, CountersOK, NEW w \in Workers, NEW out \in Outcomes, NEW changes \in BOOLEAN,
         NEW r, NEW rest, NEW next, Continue(w, out, changes, r, rest, next)
  PROVE  /\ Shaped' /\ CountersOK' /\ Others(w) /\ (out.done /\ changes => Noted(w))
         /\ \A v \in Workers : v # w /\ ~(out.done /\ changes) => job'[v].disturbed = job[v].disturbed
         /\ job'[w].at = next /\ job'[w].route = job[w].route /\ job'[w].user = job[w].user
         /\ job'[w].arg = job[w].arg /\ job'[w].row = r /\ job'[w].rest = rest
         /\ job'[w].faulty = (job[w].faulty \/ ~out.ok) /\ job'[w].disturbed = job[w].disturbed
         /\ fails' >= fails /\ (conn /\ fails' = fails => conn' /\ out.ok)
         /\ UNCHANGED <<plan, requests, restarts, answers>>
<1> DEFINE k == Advanced(job[w], out, r, rest, next)
<1>1. IsJob(k) /\ k.at = next /\ k.route = job[w].route /\ k.user = job[w].user /\ k.arg = job[w].arg
      /\ k.row = r /\ k.rest = rest /\ k.faulty = (job[w].faulty \/ ~out.ok)
      /\ k.disturbed = job[w].disturbed
  <2>1. IsJob(job[w]) /\ out.ok \in BOOLEAN
    BY OutcomeFacts DEF Shaped
  <2> QED
    BY <2>1, Advance
<1>2. job' = Ended(w, out, changes, k) /\ Executed(out) /\ UNCHANGED answers
  BY DEF Continue
<1> HIDE DEF k
<1>3. /\ Shaped' /\ job'[w] = k /\ Others(w) /\ (out.done /\ changes => Noted(w))
      /\ \A v \in Workers : v # w /\ ~(out.done /\ changes) => job'[v].disturbed = job[v].disturbed
  BY <1>1, <1>2, EndedFacts
<1> QED
  BY <1>1, <1>2, <1>3, ExecutedFacts

(* The record of an answer.                                                *)
Report(w, r, code, ok) ==
  [code |-> code, row |-> r, route |-> job[w].route, user |-> job[w].user, arg |-> job[w].arg,
   faulty |-> job[w].faulty \/ ~ok, disturbed |-> job[w].disturbed]

LEMMA AnswerEffect ==
  ASSUME Shaped, CountersOK, NEW w \in Workers, NEW out \in Outcomes, NEW changes \in BOOLEAN,
         NEW r, NEW code, Answer(w, out, changes, r, code)
  PROVE  /\ Shaped' /\ CountersOK' /\ Others(w) /\ (out.done /\ changes => Noted(w))
         /\ \A v \in Workers : v # w /\ ~(out.done /\ changes) => job'[v].disturbed = job[v].disturbed
         /\ job'[w] = Idle /\ answers' = answers \cup {Report(w, r, code, out.ok)}
         /\ fails' >= fails /\ (conn /\ fails' = fails => conn' /\ out.ok)
         /\ UNCHANGED <<plan, requests, restarts>>
<1>2. job' = Ended(w, out, changes, Idle) /\ Executed(out)
      /\ answers' = answers \cup {Report(w, r, code, out.ok)}
  BY DEF Answer, Report
<1>3. /\ Shaped' /\ job'[w] = Idle /\ Others(w) /\ (out.done /\ changes => Noted(w))
      /\ \A v \in Workers : v # w /\ ~(out.done /\ changes) => job'[v].disturbed = job[v].disturbed
  BY <1>2, IdleFields, EndedFacts
<1> QED
  BY <1>2, <1>3, ExecutedFacts

LEMMA ReportFields ==
  ASSUME NEW w \in Workers, NEW r, NEW code, NEW ok \in BOOLEAN, NEW a, a = Report(w, r, code, ok)
  PROVE  /\ a.code = code /\ a.row = r /\ a.route = job[w].route /\ a.user = job[w].user
         /\ a.arg = job[w].arg /\ a.faulty = (job[w].faulty \/ ~ok) /\ a.disturbed = job[w].disturbed
BY DEF Report

(* What every step of a worker does to the rest of PgDb.                   *)
Frame(w) ==
  /\ Shaped' /\ CountersOK' /\ Others(w) /\ plan' = plan /\ restarts' = restarts
  /\ requests' >= requests /\ fails' >= fails /\ (conn /\ fails' = fails => conn')
  /\ answers \subseteq answers'

LEMMA RequestFrame ==
  ASSUME Shaped, CountersOK, NEW w \in Workers, NEW route, NEW u, NEW arg, NEW r, NEW label,
         Request(w, route, u, arg, r, label)
  PROVE  Frame(w) /\ answers' = answers /\ requests' > 0
<1>1. CountersOK' /\ requests \in Nat /\ fails \in Nat /\ requests' = requests + 1
  <2>1. plan.requests \in Nat /\ plan.fails \in Nat
    BY PlansAssumption DEF CountersOK
  <2> QED
    BY <2>1, RequestEffect DEF CountersOK
<1> QED
  BY <1>1, RequestEffect DEF Frame

LEMMA ContinueFrame ==
  ASSUME Shaped, CountersOK, NEW w \in Workers, NEW out \in Outcomes, NEW changes \in BOOLEAN,
         NEW r, NEW rest, NEW next, Continue(w, out, changes, r, rest, next)
  PROVE  Frame(w)
<1>1. requests \in Nat
  BY PlansAssumption DEF CountersOK
<1> QED
  BY <1>1, ContinueEffect DEF Frame

LEMMA AnswerFrame ==
  ASSUME Shaped, CountersOK, NEW w \in Workers, NEW out \in Outcomes, NEW changes \in BOOLEAN,
         NEW r, NEW code, Answer(w, out, changes, r, code)
  PROVE  Frame(w)
<1>1. requests \in Nat
  BY PlansAssumption DEF CountersOK
<1> QED
  BY <1>1, AnswerEffect DEF Frame

(* A statement that is the last of its handler answers.                    *)
LEMMA LastAnswers ==
  ASSUME NEW w \in Workers, NEW out \in Outcomes, NEW legal \in BOOLEAN, NEW code, NEW broken,
         Last(w, out, legal, code, broken)
  PROVE  \E c : /\ Answer(w, out, legal, job[w].row, c)
                /\ c \in {code, broken, 500}
                /\ out.ok /\ legal => c = code
                /\ ~out.ok => c = 500
                /\ out.ok /\ ~legal => c = broken
<1> DEFINE c == CASE ~out.ok -> 500 [] out.ok /\ legal -> code [] OTHER -> broken
<1>1. Answer(w, out, legal, job[w].row, c)
  BY DEF Last
<1>2. /\ c \in {code, broken, 500}
      /\ out.ok /\ legal => c = code
      /\ ~out.ok => c = 500
      /\ out.ok /\ ~legal => c = broken
  OBVIOUS
<1> HIDE DEF c
<1> QED
  BY <1>1, <1>2

(* A SELECT goes on or answers.                                            *)
LEMMA SelectMoves ==
  ASSUME NEW w \in Workers, NEW passes \in BOOLEAN, NEW next, NEW code, Select(w, passes, next, code)
  PROVE  \E out \in Outcomes :
           \/ out.ok /\ passes /\ Continue(w, out, FALSE, job[w].row, job[w].rest, next)
           \/ out.ok /\ ~passes /\ Answer(w, out, FALSE, job[w].row, code)
           \/ ~out.ok /\ Answer(w, out, FALSE, job[w].row, 500)
BY OutcomeFacts DEF Select

----------------------------------------------------------------------------
(* What a job carries at each statement of its handler *)

AccountLabels == {"username", "email", "phone", "insert", "update"}
ChatLabels    == {"existing", "direct", "both", "group", "owner", "member", "add", "remove",
                  "membership", "content"}
ChannelLabels == {"channel", "channel owner", "subscribe", "count", "role", "post", "delete"}

AccountRoutes == {"register", "update_me"}
ChatRoutes    == {"open_direct", "create_group", "add_member", "remove_member",
                  "get_chat_info", "get_messages"}
ChannelRoutes == {"create_channel", "subscribe_channel", "create_post", "delete_post"}

AnyJob(j) ==
  /\ j.at \in AccountLabels \cup ChatLabels \cup ChannelLabels \cup {"idle"}
  /\ j.at = "idle" => j = Idle
  /\ j.at # "idle" => j.route \in plan.routes /\ requests > 0
  /\ j.user \in Users \cup {Nobody} /\ j.row \in Nat /\ j.rest \subseteq Users \cup {Nobody}

AccountJob(j) ==
  /\ j.at \in {"username", "email", "phone", "insert"} => j.route = "register" /\ j.arg \in Forms
  /\ j.at = "update" => /\ j.route = "update_me" /\ j.row \in DOMAIN users
                        /\ j.arg.phone \in Phones \cup {EMPTY}

ChatJob(j) ==
  /\ j.at \in {"existing", "direct", "both"} =>
       j.route = "open_direct" /\ j.user \in Users /\ j.arg \in Users \cup {Nobody}
  /\ j.at \in {"group", "owner", "member"} =>
       j.route = "create_group" /\ j.user \in Users /\ j.arg \subseteq Users \cup {Nobody}
  /\ j.at = "add" => j.route = "add_member" /\ j.arg \in Users \cup {Nobody}
  /\ j.at = "remove" => j.route = "remove_member" /\ j.arg \in Users
  /\ j.at \in {"membership", "content"} =>
       j.route \in {"get_chat_info", "get_messages"} /\ j.user \in Users
  /\ j.at \in {"both", "owner", "member", "add", "remove", "membership", "content"} =>
       j.row \in DOMAIN chats

ChannelJob(j) ==
  /\ j.at \in {"channel", "channel owner"} =>
       j.route = "create_channel" /\ j.user \in Users /\ j.arg \in Titles
  /\ j.at \in {"subscribe", "count"} => j.route = "subscribe_channel" /\ j.user \in Users
  /\ j.at \in {"role", "post"} =>
       j.route = "create_post" /\ j.user \in Users /\ j.arg \in 1..plan.requests
  /\ j.at = "delete" => j.route = "delete_post"
  /\ j.at \in {"channel owner", "subscribe", "count", "role", "post", "delete"} =>
       j.row \in DOMAIN channels

JobSound(j) == AnyJob(j) /\ AccountJob(j) /\ ChatJob(j) /\ ChannelJob(j)
JobsSound == \A w \in Workers : JobSound(job[w])

AnswersTyped ==
  \A a \in answers : a.route \in plan.routes /\ a.code \in {200, 201, 403, 409, 500}

(* A step of w stays within the handlers with the labels L and routes R.   *)
Within(w, L, R) ==
  /\ job[w].at \in L \cup {"idle"} /\ job'[w].at \in L \cup {"idle"}
  /\ \A a \in answers' \ answers :
       a.route \in R /\ a.route \in plan.routes /\ a.code \in {200, 201, 403, 409, 500}

(* The jobs of the others stay sound while the tables only grow.           *)
LEMMA OthersSound ==
  ASSUME Shaped, CountersOK, JobsSound, NEW w \in Workers, Frame(w), JobSound(job[w])',
         DOMAIN users \subseteq DOMAIN users', DOMAIN chats \subseteq DOMAIN chats',
         DOMAIN channels \subseteq DOMAIN channels'
  PROVE  JobsSound'
<1> SUFFICES ASSUME NEW v \in Workers, v # w PROVE JobSound(job[v])'
  BY DEF JobsSound
<1>1. /\ job'[v].at = job[v].at /\ job'[v].route = job[v].route /\ job'[v].user = job[v].user
      /\ job'[v].arg = job[v].arg /\ job'[v].row = job[v].row /\ job'[v].rest = job[v].rest
      /\ job[v].at = "idle" => job'[v] = job[v]
      /\ plan' = plan /\ requests' >= requests
  BY DEF Frame, Others
<1>2. JobSound(job[v])
  BY DEF JobsSound
<1>3. AnyJob(job[v])'
  <2>1. requests \in Nat /\ requests' \in Nat
    <3>1. plan.requests \in Nat
      BY PlansAssumption DEF CountersOK
    <3> QED
      BY <1>1, <3>1 DEF CountersOK, Frame
  <2>2. AnyJob(job[v])
    BY <1>2 DEF JobSound
  <2>3. job'[v].at = "idle" => job'[v] = Idle
    BY <1>1, <2>2 DEF AnyJob
  <2>4. job'[v].at # "idle" => job'[v].route \in plan'.routes /\ requests' > 0
    BY <1>1, <2>1, <2>2 DEF AnyJob
  <2> QED
    BY <1>1, <2>2, <2>3, <2>4 DEF AnyJob
<1>4. AccountJob(job[v])'
  BY <1>1, <1>2 DEF JobSound, AccountJob
<1>5. ChatJob(job[v])'
  BY <1>1, <1>2 DEF JobSound, ChatJob
<1>6. ChannelJob(job[v])'
  BY <1>1, <1>2 DEF JobSound, ChannelJob
<1> QED
  BY <1>3, <1>4, <1>5, <1>6 DEF JobSound

(* A worker that has answered has a sound job.                             *)
LEMMA IdleSound ==
  ASSUME NEW w \in Workers, job'[w] = Idle
  PROVE  JobSound(job[w])' /\ job'[w].at = "idle"
<1>1. AnyJob(job[w])'
  BY IdleFields DEF AnyJob
<1> QED
  BY <1>1, IdleFields DEF JobSound, AccountJob, ChatJob, ChannelJob

(* The three moves of a worker, seen from the handler they belong to.      *)
Labels == AccountLabels \cup ChatLabels \cup ChannelLabels
Codes  == {200, 201, 403, 409, 500}

LEMMA LabelsNotIdle == "idle" \notin Labels
BY DEF Labels, AccountLabels, ChatLabels, ChannelLabels

LEMMA Starts ==
  ASSUME Shaped, CountersOK, NEW w \in Workers, NEW route, NEW u \in Users \cup {Nobody}, NEW arg,
         NEW r \in Nat, NEW label, Request(w, route, u, arg, r, label),
         NEW L, NEW R, label \in L, label \in Labels
  PROVE  Frame(w) /\ Within(w, L, R) /\ AnyJob(job[w])'
<1>1. Frame(w) /\ answers' = answers /\ requests' > 0 /\ plan' = plan
  BY RequestFrame DEF Frame
<1>2. /\ job[w].at = "idle" /\ job'[w].at = label /\ job'[w].route = route /\ job'[w].user = u
      /\ job'[w].row = r /\ job'[w].rest = {} /\ route \in plan.routes
  BY RequestEffect
<1>3. Within(w, L, R)
  BY <1>1, <1>2 DEF Within
<1>4. AnyJob(job[w])'
  BY <1>1, <1>2, LabelsNotIdle DEF AnyJob, Labels
<1> QED
  BY <1>1, <1>3, <1>4

LEMMA GoesOn ==
  ASSUME Shaped, CountersOK, JobsSound, NEW w \in Workers, NEW out \in Outcomes,
         NEW changes \in BOOLEAN, NEW r \in Nat, NEW rest, rest \subseteq Users \cup {Nobody},
         NEW next, Continue(w, out, changes, r, rest, next),
         NEW L, NEW R, next \in L, next \in Labels, job[w].at \in L, job[w].at # "idle"
  PROVE  Frame(w) /\ Within(w, L, R) /\ AnyJob(job[w])'
<1>1. Frame(w) /\ answers' = answers /\ UNCHANGED <<plan, requests>>
  BY ContinueFrame, ContinueEffect
<1>2. /\ job'[w].at = next /\ job'[w].route = job[w].route /\ job'[w].user = job[w].user
      /\ job'[w].row = r /\ job'[w].rest = rest
  BY ContinueEffect
<1>3. Within(w, L, R)
  BY <1>1, <1>2 DEF Within
<1>4. AnyJob(job[w])
  BY DEF JobsSound, JobSound
<1>5. AnyJob(job[w])'
  BY <1>1, <1>2, <1>4, LabelsNotIdle DEF AnyJob, Labels
<1> QED
  BY <1>1, <1>3, <1>5

LEMMA Settles ==
  ASSUME Shaped, CountersOK, JobsSound, NEW w \in Workers, NEW out \in Outcomes,
         NEW changes \in BOOLEAN, NEW r, NEW code \in Codes, Answer(w, out, changes, r, code),
         NEW L, NEW R, job[w].at \in L, job[w].at # "idle", job[w].route \in R
  PROVE  Frame(w) /\ Within(w, L, R) /\ JobSound(job[w])'
<1>1. Frame(w) /\ job'[w] = Idle /\ answers' = answers \cup {Report(w, r, code, out.ok)}
  BY AnswerFrame, AnswerEffect
<1>2. JobSound(job[w])' /\ job'[w].at = "idle"
  BY <1>1, IdleSound
<1>3. job[w].route \in plan.routes
  BY DEF JobsSound, JobSound, AnyJob
<1>4. \A a \in answers' \ answers : a.route = job[w].route /\ a.code = code
  BY <1>1, ReportFields, OutcomeFacts
<1>5. Within(w, L, R)
  BY <1>2, <1>3, <1>4 DEF Within, Codes
<1> QED
  BY <1>1, <1>2, <1>5

(* A SELECT of a handler keeps its worker sound if the next statement      *)
(* needs no more than this one.                                            *)
LEMMA SelectSettles ==
  ASSUME Shaped, CountersOK, JobsSound, NEW w \in Workers, NEW passes \in BOOLEAN,
         NEW next, NEW code \in Codes, Select(w, passes, next, code),
         NEW L, NEW R, next \in L, next \in Labels, job[w].at \in L, job[w].at # "idle", job[w].route \in R
  PROVE  /\ Frame(w) /\ Within(w, L, R) /\ AnyJob(job[w])'
         /\ \/ JobSound(job[w])'
            \/ /\ job'[w].at = next /\ job'[w].route = job[w].route /\ job'[w].user = job[w].user
               /\ job'[w].arg = job[w].arg /\ job'[w].row = job[w].row
<1>1. PICK out \in Outcomes :
           \/ out.ok /\ passes /\ Continue(w, out, FALSE, job[w].row, job[w].rest, next)
           \/ out.ok /\ ~passes /\ Answer(w, out, FALSE, job[w].row, code)
           \/ ~out.ok /\ Answer(w, out, FALSE, job[w].row, 500)
  BY SelectMoves, ZenonT(60)
<1>2. CASE Continue(w, out, FALSE, job[w].row, job[w].rest, next)
  <2>1. job[w].row \in Nat /\ job[w].rest \subseteq Users \cup {Nobody}
    BY DEF JobsSound, JobSound, AnyJob
  <2>2. Frame(w) /\ Within(w, L, R) /\ AnyJob(job[w])'
    BY <1>2, <2>1, GoesOn
  <2>3. /\ job'[w].at = next /\ job'[w].route = job[w].route /\ job'[w].user = job[w].user
        /\ job'[w].arg = job[w].arg /\ job'[w].row = job[w].row
    <3>1. PICK changes \in BOOLEAN : Continue(w, out, changes, job[w].row, job[w].rest, next)
      BY <1>2
    <3> QED
      BY <3>1, ContinueEffect
  <2> QED
    BY <2>2, <2>3
<1>3. CASE Answer(w, out, FALSE, job[w].row, code)
  <2>1. Frame(w) /\ Within(w, L, R) /\ JobSound(job[w])'
    BY <1>3, Settles
  <2> QED
    BY <2>1 DEF JobSound
<1>4. CASE Answer(w, out, FALSE, job[w].row, 500)
  <2>0. 500 \in Codes
    BY DEF Codes
  <2>1. Frame(w) /\ Within(w, L, R) /\ JobSound(job[w])'
    BY <1>4, <2>0, Settles, ZenonT(60)
  <2> QED
    BY <2>1 DEF JobSound
<1> QED
  BY <1>1, <1>2, <1>3, <1>4

(* And so does the last statement of a handler.                            *)
LEMMA LastSettles ==
  ASSUME Shaped, CountersOK, JobsSound, NEW w \in Workers, NEW out \in Outcomes,
         NEW legal \in BOOLEAN, NEW code \in Codes, NEW broken \in Codes,
         Last(w, out, legal, code, broken),
         NEW L, NEW R, job[w].at \in L, job[w].at # "idle", job[w].route \in R
  PROVE  Frame(w) /\ Within(w, L, R) /\ JobSound(job[w])'
<1>1. PICK c : Answer(w, out, legal, job[w].row, c) /\ c \in {code, broken, 500}
  BY LastAnswers
<1>2. c \in Codes
  BY <1>1 DEF Codes
<1> QED
  BY <1>1, <1>2, Settles

----------------------------------------------------------------------------
(* Accounts *)

UserRow == [username : Names, email : Names, phone : Phones \cup {EMPTY, NULL}]

LEMMA StoredRow ==
  ASSUME NEW form \in Forms
  PROVE  /\ Stored(form) \in UserRow
         /\ Stored(form).username = form.username /\ Stored(form).email = form.email
         /\ Stored(form).phone = IF form.phone = EMPTY THEN NULL ELSE form.phone
BY DEF Stored, Forms, UserRow, NULL, EMPTY

(* The table users only grows, and only numbers change in it.              *)
UsersKept ==
  /\ DOMAIN users \subseteq DOMAIN users'
  /\ \A i \in DOMAIN users : /\ users'[i].username = users[i].username
                             /\ users'[i].email = users[i].email

LEMMA AppendFacts ==
  ASSUME NEW S, NEW s \in Seq(S), NEW e \in S
  PROVE  /\ Append(s, e) \in Seq(S) /\ DOMAIN s = 1..Len(s) /\ Len(s) \in Nat
         /\ DOMAIN Append(s, e) = 1..(Len(s) + 1)
         /\ \A i \in DOMAIN s : Append(s, e)[i] = s[i]
         /\ Append(s, e)[Len(s) + 1] = e
OBVIOUS

LEMMA ReplaceFacts ==
  ASSUME NEW S, NEW s \in Seq(S), NEW i \in DOMAIN s, NEW e \in S, NEW t, t = [s EXCEPT ![i] = e]
  PROVE  /\ t \in Seq(S) /\ DOMAIN t = DOMAIN s /\ Len(t) = Len(s) /\ t[i] = e
         /\ \A k \in DOMAIN s : k # i => t[k] = s[k]
OBVIOUS

LEMMA AccountsMoves ==
  ASSUME Shaped, CountersOK, JobsSound, AccountsTypeOK, NEW w \in Workers, AccountsStep(w)
  PROVE  /\ Frame(w) /\ Within(w, AccountLabels, AccountRoutes)
         /\ AnyJob(job[w])' /\ AccountJob(job[w])'
         /\ AccountsTypeOK' /\ UsersKept
<1>u. users \in Seq(UserRow)
  BY DEF AccountsTypeOK, UserRow
<1>k. ASSUME UNCHANGED users PROVE AccountsTypeOK' /\ UsersKept
  BY <1>k DEF AccountsTypeOK, UsersKept
<1>c. 200 \in Codes /\ 201 \in Codes /\ 409 \in Codes /\ 500 \in Codes
  BY DEF Codes
<1>l. \A l \in AccountLabels : l \in Labels /\ l # "idle"
  BY DEF Labels, AccountLabels
<1>s. AnyJob(job[w]) /\ AccountJob(job[w])
  BY DEF JobsSound, JobSound
<1>1. CASE register(w)
  <2>1. PICK form \in Forms : Request(w, "register", Nobody, form, 0, "username")
    BY <1>1 DEF register
  <2>2. Frame(w) /\ Within(w, AccountLabels, AccountRoutes) /\ AnyJob(job[w])'
    BY <2>1, <1>l, Starts DEF AccountLabels
  <2>3. job'[w].at = "username" /\ job'[w].route = "register" /\ job'[w].arg = form
    BY <2>1, RequestEffect
  <2>4. AccountJob(job[w])'
    BY <2>3 DEF AccountJob
  <2> QED
    BY <1>1, <1>k, <2>2, <2>4 DEF register
<1>2. ASSUME job[w].at \in {"username", "email", "phone"}, NEW passes \in BOOLEAN,
             NEW next \in {"email", "phone", "insert"}, Select(w, passes, next, 409), UNCHANGED users
      PROVE  Frame(w) /\ Within(w, AccountLabels, AccountRoutes) /\ AnyJob(job[w])' /\ AccountJob(job[w])'
  <2>1. job[w].route = "register" /\ job[w].arg \in Forms
    BY <1>2, <1>s DEF AccountJob
  <2>2. next \in AccountLabels /\ job[w].at \in AccountLabels /\ job[w].route \in AccountRoutes
    BY <1>2, <2>1 DEF AccountLabels, AccountRoutes
  <2>3. /\ Frame(w) /\ Within(w, AccountLabels, AccountRoutes) /\ AnyJob(job[w])'
        /\ \/ JobSound(job[w])'
           \/ /\ job'[w].at = next /\ job'[w].route = job[w].route
              /\ job'[w].arg = job[w].arg
    BY <1>2, <1>c, <1>l, <2>2, SelectSettles
  <2>4. AccountJob(job[w])'
    BY <1>2, <2>1, <2>3 DEF JobSound, AccountJob
  <2> QED
    BY <2>3, <2>4
<1>3. CASE check_username(w)
  BY <1>2, <1>3, <1>k, ZenonT(60) DEF check_username, At, Has
<1>4. CASE check_email(w)
  BY <1>2, <1>4, <1>k, ZenonT(60) DEF check_email, At, Has
<1>5. CASE check_phone(w)
  BY <1>2, <1>5, <1>k, ZenonT(60) DEF check_phone, At, Has
<1>6. CASE insert_user(w)
  <2> DEFINE row == Stored(job[w].arg)
  <2>1. job[w].at = "insert" /\ job[w].route = "register" /\ job[w].arg \in Forms
    BY <1>6, <1>s DEF insert_user, At, AccountJob
  <2>2. row \in UserRow
    BY <2>1, StoredRow
  <2>3. PICK out \in Outcomes :
          /\ users' = IF out.done /\ Unique(row) THEN Append(users, row) ELSE users
          /\ Last(w, out, Unique(row), 201, 500)
    BY <1>6 DEF insert_user
  <2>4. Unique(row) \in BOOLEAN
    BY DEF Unique
  <2> HIDE DEF row
  <2>5. Frame(w) /\ Within(w, AccountLabels, AccountRoutes) /\ JobSound(job[w])'
    <3>1. job[w].at \in AccountLabels /\ job[w].route \in AccountRoutes
      BY <2>1 DEF AccountLabels, AccountRoutes
    <3>2. PICK legal \in BOOLEAN : Last(w, out, legal, 201, 500)
      BY <2>3, <2>4
    <3> QED
      BY <1>c, <1>l, <3>1, <3>2, LastSettles
  <2>6. AccountsTypeOK' /\ UsersKept
    <3>1. CASE users' = Append(users, row)
      BY <1>u, <2>2, <3>1, AppendFacts DEF AccountsTypeOK, UsersKept, UserRow
    <3>2. CASE users' = users
      BY <1>k, <3>2
    <3> QED
      BY <2>3, <3>1, <3>2
  <2> QED
    BY <2>5, <2>6 DEF JobSound
<1>7. CASE update_me(w)
  <2>1. PICK id \in DOMAIN users, phone \in Phones \cup {EMPTY} :
          Request(w, "update_me", Nobody, [phone |-> phone], id, "update")
    BY <1>7 DEF update_me
  <2>2. id \in Nat
    BY <1>u, <2>1
  <2>3. Frame(w) /\ Within(w, AccountLabels, AccountRoutes) /\ AnyJob(job[w])'
    BY <2>1, <2>2, <1>l, Starts DEF AccountLabels
  <2>4. job'[w].at = "update" /\ job'[w].route = "update_me" /\ job'[w].arg = [phone |-> phone]
        /\ job'[w].row = id
    BY <2>1, RequestEffect
  <2>5. UNCHANGED users
    BY <1>7 DEF update_me
  <2>6. AccountJob(job[w])'
    BY <2>4, <2>5 DEF AccountJob
  <2> QED
    BY <1>k, <2>3, <2>5, <2>6
<1>8. CASE update_user(w)
  <2> DEFINE id    == job[w].row
             legal == \A i \in DOMAIN users \ {id} : users[i].phone # job[w].arg.phone
             e     == [users[id] EXCEPT !.phone = job[w].arg.phone]
  <2>1. /\ job[w].at = "update" /\ job[w].route = "update_me" /\ id \in DOMAIN users
        /\ job[w].arg.phone \in Phones \cup {EMPTY}
    BY <1>8, <1>s DEF update_user, At, AccountJob
  <2>2. e \in UserRow /\ e.username = users[id].username /\ e.email = users[id].email
    <3>1. users[id] \in UserRow
      BY <1>u, <2>1
    <3> QED
      BY <2>1, <3>1 DEF UserRow
  <2>3. PICK out \in Outcomes :
          /\ users' = IF out.done /\ legal THEN [users EXCEPT ![id] = e] ELSE users
          /\ Last(w, out, legal, 200, 500)
    BY <1>8 DEF update_user
  <2>4. legal \in BOOLEAN
    OBVIOUS
  <2> HIDE DEF legal, e
  <2>5. Frame(w) /\ Within(w, AccountLabels, AccountRoutes) /\ JobSound(job[w])'
    <3>1. job[w].at \in AccountLabels /\ job[w].route \in AccountRoutes
      BY <2>1 DEF AccountLabels, AccountRoutes
    <3> QED
      BY <1>c, <1>l, <2>3, <2>4, <3>1, LastSettles
  <2>6. AccountsTypeOK' /\ UsersKept
    <3>1. CASE users' = [users EXCEPT ![id] = e]
      <4>1. users' \in Seq(UserRow) /\ DOMAIN users' = DOMAIN users /\ users'[id] = e
            /\ \A i \in DOMAIN users : i # id => users'[i] = users[i]
        BY <1>u, <2>1, <2>2, <3>1, ReplaceFacts
      <4> QED
        BY <2>2, <4>1 DEF AccountsTypeOK, UsersKept, UserRow
    <3>2. CASE users' = users
      BY <1>k, <3>2
    <3> QED
      BY <2>3, <3>1, <3>2
  <2> QED
    BY <2>5, <2>6 DEF JobSound
<1> QED
  BY <1>1, <1>2, <1>3, <1>4, <1>5, <1>6, <1>7, <1>8 DEF AccountsStep

----------------------------------------------------------------------------
(* Chats *)

ChatRow   == [kind : {"private", "group"}, by : Users, pair : Pairs \cup {{}}]
MemberRow == [chat : DOMAIN chats, user : Users, role : {"owner", "member"}, left : BOOLEAN]

(* A chat that is being made has no members, and no two workers make the   *)
(* same one; every other job is about a chat with members.                 *)
Making(w) == job[w].at \in {"both", "owner"}
ChatsFresh ==
  /\ \A w \in Workers : Making(w) => RowsOf(job[w].row) = {}
  /\ \A v, w \in Workers : Making(v) /\ Making(w) /\ job[v].row = job[w].row => v = w
  /\ \A w \in Workers :
       job[w].at \in {"member", "add", "remove", "membership", "content"} => RowsOf(job[w].row) # {}

(* The table chats only grows, and a member's row stays, with its role.    *)
ChatsKept ==
  /\ DOMAIN chats \subseteq DOMAIN chats' /\ \A c \in DOMAIN chats : chats'[c] = chats[c]
  /\ \A r \in chat_members : \E s \in chat_members' :
       s.chat = r.chat /\ s.user = r.user /\ s.role = r.role

(* A statement that inserts into, or marks, the members of chat c only.    *)
Touches(c) ==
  \A d : d # c => RowsOf(d)' = RowsOf(d)

(* The three things handlers do to the table of members.                   *)
LEMMA MembersInserted ==
  ASSUME ChatsTypeOK, NEW c \in DOMAIN chats, NEW U \in SUBSET Users, NEW role \in {"owner", "member"},
         U \cap MembersOf(c) = {}, UNCHANGED chats,
         chat_members' = chat_members \cup {Row(c, u, role) : u \in U}
  PROVE  /\ ChatsTypeOK' /\ ChatsKept /\ Touches(c)
         /\ MembersOf(c)' = MembersOf(c) \cup U
         /\ \A u \in U : Row(c, u, role) \in RowsOf(c)'
         /\ RowsOf(c) \subseteq RowsOf(c)'
<1>1. \A r \in chat_members' : r \in chat_members \/ (\E u \in U : r = Row(c, u, role))
  OBVIOUS
<1>2. \A u \in U : Row(c, u, role) \in MemberRow
  BY DEF Row, MemberRow
<1>3. chat_members' \subseteq MemberRow' /\ chats' \in Seq(ChatRow)
  BY <1>1, <1>2 DEF ChatsTypeOK, MemberRow, ChatRow
<1>4. \A r, s \in chat_members' : r.chat = s.chat /\ r.user = s.user => r = s
  <2> SUFFICES ASSUME NEW r \in chat_members', NEW s \in chat_members', r.chat = s.chat, r.user = s.user
               PROVE  r = s
    OBVIOUS
  <2>1. CASE r \in chat_members /\ s \in chat_members
    BY <2>1 DEF ChatsTypeOK
  <2>2. \A q \in chat_members, u \in U : ~(q.chat = c /\ q.user = u)
    BY DEF MembersOf, RowsOf
  <2>3. \A u \in U : Row(c, u, role).chat = c /\ Row(c, u, role).user = u
    BY DEF Row
  <2> QED
    BY <1>1, <2>1, <2>2, <2>3
<1>5. ChatsTypeOK'
  BY <1>3, <1>4 DEF ChatsTypeOK, MemberRow, ChatRow
<1>6. ChatsKept
  BY DEF ChatsKept
<1>7. \A u \in U : Row(c, u, role).chat = c /\ Row(c, u, role).user = u
  BY DEF Row
<1>8. Touches(c)
  BY <1>1, <1>7 DEF Touches, RowsOf
<1>9. (\A u \in U : Row(c, u, role) \in RowsOf(c)') /\ RowsOf(c) \subseteq RowsOf(c)'
  BY <1>7 DEF RowsOf
<1>10. MembersOf(c)' = MembersOf(c) \cup U
  <2>1. MembersOf(c)' \subseteq MembersOf(c) \cup U
    BY <1>1, <1>7 DEF MembersOf, RowsOf
  <2>2. MembersOf(c) \cup U \subseteq MembersOf(c)'
    BY <1>7, <1>9 DEF MembersOf
  <2> QED
    BY <2>1, <2>2
<1> QED
  BY <1>5, <1>6, <1>8, <1>9, <1>10

Marked(c, u, l) ==
  {IF r.chat = c /\ r.user = u THEN [r EXCEPT !.left = l] ELSE r : r \in chat_members}

LEMMA MemberMarked ==
  ASSUME ChatsTypeOK, NEW c, NEW u, NEW l \in BOOLEAN, UNCHANGED chats, chat_members' = Marked(c, u, l)
  PROVE  /\ ChatsTypeOK' /\ ChatsKept /\ Touches(c)
         /\ \A d : MembersOf(d)' = MembersOf(d)
<1> DEFINE f(r) == IF r.chat = c /\ r.user = u THEN [r EXCEPT !.left = l] ELSE r
<1>1. \A r \in chat_members :
        /\ f(r) \in MemberRow /\ f(r).chat = r.chat /\ f(r).user = r.user /\ f(r).role = r.role
        /\ r.chat # c => f(r) = r
  BY DEF ChatsTypeOK, MemberRow
<1>2. chat_members' = {f(r) : r \in chat_members}
  BY DEF Marked
<1> HIDE DEF f
<1>3. chat_members' \subseteq MemberRow'
  BY <1>1, <1>2 DEF MemberRow
<1>4. \A r, s \in chat_members' : r.chat = s.chat /\ r.user = s.user => r = s
  BY <1>1, <1>2 DEF ChatsTypeOK
<1>5. ChatsTypeOK'
  BY <1>3, <1>4 DEF ChatsTypeOK, MemberRow
<1>6. ChatsKept
  BY <1>1, <1>2 DEF ChatsKept
<1>7. Touches(c)
  <2> SUFFICES ASSUME NEW d, d # c PROVE RowsOf(d)' = RowsOf(d)
    BY DEF Touches
  <2>1. RowsOf(d)' \subseteq RowsOf(d)
    BY <1>1, <1>2 DEF RowsOf
  <2>2. RowsOf(d) \subseteq RowsOf(d)'
    BY <1>1, <1>2 DEF RowsOf
  <2> QED
    BY <2>1, <2>2
<1>8. ASSUME NEW d PROVE MembersOf(d)' = MembersOf(d)
  <2>1. MembersOf(d)' \subseteq MembersOf(d)
    BY <1>1, <1>2 DEF MembersOf, RowsOf
  <2>2. MembersOf(d) \subseteq MembersOf(d)'
    BY <1>1, <1>2 DEF MembersOf, RowsOf
  <2> QED
    BY <2>1, <2>2
<1> QED
  BY <1>5, <1>6, <1>7, <1>8

(* The rows of members that a step of w may have changed.                  *)
RowsChanged(w) ==
  \/ chat_members' = chat_members
  \/ /\ job[w].at \in {"both", "owner", "member", "add", "remove"}
     /\ Touches(job[w].row) /\ Noted(w)

LEMMA NothingChanged ==
  ASSUME ChatsTypeOK, UNCHANGED chatVars, NEW w \in Workers
  PROVE  ChatsTypeOK' /\ ChatsKept /\ RowsChanged(w)
BY DEF ChatsTypeOK, chatVars, ChatsKept, RowsChanged

LEMMA ChatAppended ==
  ASSUME ChatsTypeOK, NEW chat \in ChatRow, chats' = Append(chats, chat), UNCHANGED chat_members
  PROVE  /\ ChatsTypeOK' /\ ChatsKept /\ DOMAIN chats' = DOMAIN chats \cup {Len(chats) + 1}
         /\ Len(chats) + 1 \in Nat /\ Len(chats) + 1 \notin DOMAIN chats
         /\ (\A r \in chat_members' : r.chat # Len(chats) + 1) /\ chats'[Len(chats) + 1] = chat
<1>1. chats \in Seq(ChatRow)
  BY DEF ChatsTypeOK, ChatRow
<1>2. /\ chats' \in Seq(ChatRow) /\ DOMAIN chats = 1..Len(chats) /\ Len(chats) \in Nat
      /\ DOMAIN chats' = 1..(Len(chats) + 1)
      /\ \A i \in DOMAIN chats : chats'[i] = chats[i]
      /\ chats'[Len(chats) + 1] = chat
  BY <1>1, AppendFacts
<1>3. DOMAIN chats' = DOMAIN chats \cup {Len(chats) + 1} /\ Len(chats) + 1 \notin DOMAIN chats
  BY <1>2
<1>4. chat_members' \subseteq MemberRow'
  BY <1>3 DEF ChatsTypeOK, MemberRow
<1>5. ChatsTypeOK'
  BY <1>2, <1>4 DEF ChatsTypeOK, MemberRow, ChatRow
<1>6. \A r \in chat_members' : r.chat # Len(chats) + 1
  BY <1>3 DEF ChatsTypeOK
<1>7. ChatsKept
  BY <1>2, <1>3 DEF ChatsKept
<1> QED
  BY <1>2, <1>3, <1>5, <1>6, <1>7

LEMMA KeptMembers ==
  ASSUME ChatsKept, NEW c
  PROVE  /\ MembersOf(c) \subseteq MembersOf(c)'
         /\ RowsOf(c) # {} => RowsOf(c)' # {}
         /\ \A u : (\E r \in RowsOf(c) : r.user = u /\ r.role = "owner")
                 => (\E r \in RowsOf(c) : r.user = u /\ r.role = "owner")'
<1>1. \A r \in RowsOf(c) : \E s \in RowsOf(c)' : s.user = r.user /\ s.role = r.role
  BY DEF ChatsKept, RowsOf
<1>2. MembersOf(c) \subseteq MembersOf(c)'
  BY <1>1 DEF MembersOf
<1> QED
  BY <1>1, <1>2

LEMMA FreshKept ==
  ASSUME ChatsTypeOK, JobsSound, ChatsFresh, NEW w \in Workers, Frame(w), ChatsKept, RowsChanged(w),
         Making(w)' => job'[w].row \notin DOMAIN chats /\ RowsOf(job[w].row)' = {},
         job'[w].at \in {"member", "add", "remove", "membership", "content"} => RowsOf(job[w].row)' # {}
  PROVE  ChatsFresh'
<1>1. \A v \in Workers : v # w => job'[v].at = job[v].at /\ job'[v].row = job[v].row
  BY DEF Frame, Others
<1>2. ASSUME NEW v \in Workers, Making(v)' PROVE RowsOf(job[v].row)' = {}
  <2>1. CASE v = w
    BY <1>2, <2>1
  <2>2. CASE v # w /\ chat_members' = chat_members
    BY <1>1, <1>2, <2>2 DEF ChatsFresh, Making, RowsOf
  <2>3. CASE /\ v # w /\ job[w].at \in {"both", "owner", "member", "add", "remove"}
             /\ Touches(job[w].row)
    <3>1. Making(v) /\ job'[v].row = job[v].row
      BY <1>1, <1>2, <2>3 DEF Making
    <3>2. job[v].row # job[w].row
      <4>1. CASE Making(w)
        BY <2>3, <3>1, <4>1 DEF ChatsFresh
      <4>2. CASE ~Making(w)
        BY <2>3, <3>1, <4>2 DEF ChatsFresh, Making
      <4> QED
        BY <4>1, <4>2
    <3>3. RowsOf(job[v].row) = {}
      BY <3>1 DEF ChatsFresh
    <3>4. ASSUME NEW d, d = job[v].row PROVE RowsOf(d)' = RowsOf(d)
      BY <2>3, <3>2, <3>4 DEF Touches
    <3> QED
      BY <3>1, <3>3, <3>4 DEF RowsOf
  <2> QED
    BY <2>1, <2>2, <2>3 DEF RowsChanged
<1>3. ASSUME NEW v \in Workers, NEW u \in Workers, Making(v)', Making(u)', job'[v].row = job'[u].row
      PROVE  v = u
  <2>1. \A x \in Workers : Making(x) => job[x].row \in DOMAIN chats
    BY DEF JobsSound, JobSound, ChatJob, Making
  <2>2. CASE v # w /\ u # w
    BY <1>1, <1>3, <2>2 DEF ChatsFresh, Making
  <2>3. \A x \in Workers : x # w /\ Making(x)' => job'[x].row \in DOMAIN chats
    BY <1>1, <2>1 DEF Making
  <2> QED
    BY <1>3, <2>2, <2>3
<1>4. ASSUME NEW v \in Workers, job'[v].at \in {"member", "add", "remove", "membership", "content"}
      PROVE  RowsOf(job[v].row)' # {}
  <2>1. CASE v = w
    BY <1>4, <2>1
  <2>2. CASE v # w
    <3>1. RowsOf(job[v].row) # {} /\ job'[v].row = job[v].row
      BY <1>1, <1>4, <2>2 DEF ChatsFresh
    <3>2. ASSUME NEW d, d = job[v].row PROVE RowsOf(d)' # {}
      BY <3>1, <3>2, KeptMembers
    <3> QED
      BY <3>1, <3>2 DEF RowsOf
  <2> QED
    BY <2>1, <2>2
<1> QED
  BY <1>2, <1>3, <1>4 DEF ChatsFresh

(* A request about a known chat.                                           *)
LEMMA ChatRequest ==
  ASSUME Shaped, CountersOK, ChatsTypeOK, NEW w \in Workers, NEW c \in KnownChats, NEW route,
         NEW u \in Users \cup {Nobody}, NEW arg, NEW label \in ChatLabels,
         Request(w, route, u, arg, c, label), UNCHANGED chatVars
  PROVE  /\ Frame(w) /\ Within(w, ChatLabels, ChatRoutes) /\ AnyJob(job[w])'
         /\ job'[w].at = label /\ job'[w].route = route /\ job'[w].user = u /\ job'[w].arg = arg
         /\ job'[w].row \in DOMAIN chats' /\ RowsOf(job[w].row)' # {}
<1>1. c \in DOMAIN chats /\ c \in Nat /\ RowsOf(c) # {}
  BY DEF KnownChats, ChatsTypeOK
<1>2. label \in Labels
  BY DEF Labels
<1>3. Frame(w) /\ Within(w, ChatLabels, ChatRoutes) /\ AnyJob(job[w])'
  BY <1>1, <1>2, Starts
<1>4. job'[w].at = label /\ job'[w].route = route /\ job'[w].user = u /\ job'[w].arg = arg
      /\ job'[w].row = c
  BY RequestEffect
<1> QED
  BY <1>1, <1>3, <1>4 DEF chatVars, RowsOf

(* INSERT INTO chats, for either kind.                                     *)
LEMMA ChatInserted ==
  ASSUME Shaped, CountersOK, JobsSound, ChatsTypeOK, ChatsFresh, NEW w \in Workers, NEW chat \in ChatRow,
         NEW rest, rest \subseteq Users \cup {Nobody}, NEW next \in {"both", "owner"},
         InsertChat(w, chat, rest, next), job[w].at \in ChatLabels, job[w].route \in ChatRoutes
  PROVE  /\ Frame(w) /\ Within(w, ChatLabels, ChatRoutes) /\ AnyJob(job[w])'
         /\ ChatsTypeOK' /\ ChatsKept /\ chat_members' = chat_members
         /\ chats' = chats \/ chats' = Append(chats, chat)
         /\ \/ JobSound(job[w])' /\ job'[w].at = "idle" /\ \A a \in answers' \ answers : a.code = 500
            \/ /\ job'[w].at = next /\ job'[w].route = job[w].route /\ job'[w].user = job[w].user
               /\ job'[w].arg = job[w].arg /\ job'[w].rest = rest /\ job'[w].row = Len(chats) + 1
               /\ job'[w].row \in DOMAIN chats' /\ job'[w].row \notin DOMAIN chats
               /\ RowsOf(job[w].row)' = {} /\ chats' = Append(chats, chat) /\ answers' = answers
<1>n. next \in Labels /\ next \in ChatLabels /\ job[w].at # "idle" /\ 500 \in Codes
  BY DEF Labels, ChatLabels, Codes
<1>1. PICK out \in Outcomes :
        /\ chats' = IF out.done THEN Append(chats, chat) ELSE chats
        /\ IF out.ok THEN Continue(w, out, TRUE, Len(chats) + 1, rest, next)
           ELSE Answer(w, out, TRUE, 0, 500)
  BY DEF InsertChat
<1>2. chat_members' = chat_members
  BY DEF InsertChat
<1>3. out.done \in BOOLEAN /\ out.ok \in BOOLEAN /\ (out.ok => out.done)
  BY OutcomeFacts
<1>4. ChatsTypeOK' /\ ChatsKept
  <2>1. CASE out.done
    BY <1>1, <1>2, <2>1, ChatAppended
  <2>2. CASE ~out.done
    BY <1>1, <1>2, <2>2, NothingChanged DEF chatVars
  <2> QED
    BY <2>1, <2>2
<1>5. CASE out.ok
  <2>1. PICK changes \in BOOLEAN : Continue(w, out, changes, Len(chats) + 1, rest, next)
    BY <1>1, <1>5
  <2>2. chats' = Append(chats, chat)
    BY <1>1, <1>3, <1>5
  <2>3. /\ DOMAIN chats' = DOMAIN chats \cup {Len(chats) + 1}
        /\ Len(chats) + 1 \in Nat /\ Len(chats) + 1 \notin DOMAIN chats
    BY <1>2, <2>2, ChatAppended
  <2>4. Frame(w) /\ Within(w, ChatLabels, ChatRoutes) /\ AnyJob(job[w])'
    BY <1>n, <2>1, <2>3, GoesOn, ZenonT(60)
  <2>5. /\ job'[w].at = next /\ job'[w].route = job[w].route /\ job'[w].user = job[w].user
        /\ job'[w].arg = job[w].arg /\ job'[w].rest = rest /\ job'[w].row = Len(chats) + 1
        /\ answers' = answers
    BY <2>1, ContinueEffect
  <2>6. RowsOf(job[w].row)' = {}
    <3>1. \A r \in chat_members : r.chat # Len(chats) + 1
      BY <2>3 DEF ChatsTypeOK
    <3> QED
      BY <1>2, <2>5, <3>1 DEF RowsOf
  <2> QED
    BY <1>2, <1>4, <2>2, <2>3, <2>4, <2>5, <2>6
<1>6. CASE ~out.ok
  <2>1. PICK changes \in BOOLEAN : Answer(w, out, changes, 0, 500)
    BY <1>1, <1>6
  <2>2. Frame(w) /\ Within(w, ChatLabels, ChatRoutes) /\ JobSound(job[w])'
    BY <1>n, <2>1, Settles
  <2>3. job'[w].at = "idle" /\ answers' = answers \cup {Report(w, 0, 500, out.ok)}
    BY <2>1, AnswerEffect, IdleFields
  <2>4. \A a \in answers' \ answers : a.code = 500
    BY <1>3, <2>3, ReportFields
  <2> QED
    BY <1>1, <1>2, <1>4, <2>2, <2>3, <2>4 DEF JobSound
<1> QED
  BY <1>5, <1>6

(* What the step of a chat handler leaves true of itself.                  *)
ChatStart(w) ==
  /\ Frame(w) /\ Within(w, ChatLabels, ChatRoutes) /\ AnyJob(job[w])' /\ ChatJob(job[w])'
  /\ ChatsTypeOK' /\ ChatsKept /\ RowsChanged(w)
  /\ Making(w)' => job'[w].row \notin DOMAIN chats /\ RowsOf(job[w].row)' = {}
  /\ job'[w].at \in {"member", "add", "remove", "membership", "content"} => RowsOf(job[w].row)' # {}

LEMMA ChatRequests ==
  ASSUME Shaped, CountersOK, JobsSound, ChatsTypeOK, NEW w \in Workers,
         \/ open_direct(w) \/ create_group(w) \/ add_member(w) \/ remove_member(w)
         \/ get_chat_info(w) \/ get_messages(w)
  PROVE  ChatStart(w)
<1>l. "existing" \in ChatLabels /\ "group" \in ChatLabels /\ "add" \in ChatLabels
      /\ "remove" \in ChatLabels /\ "membership" \in ChatLabels
  BY DEF ChatLabels
<1>1. CASE open_direct(w)
  <2>1. PICK u \in Users, arg \in Users \cup {Nobody} : Request(w, "open_direct", u, arg, 0, "existing")
    BY <1>1 DEF open_direct
  <2>2. UNCHANGED chatVars
    BY <1>1 DEF open_direct
  <2>3. Frame(w) /\ Within(w, ChatLabels, ChatRoutes) /\ AnyJob(job[w])'
    BY <1>l, <2>1, Starts DEF Labels
  <2>4. job'[w].at = "existing" /\ job'[w].route = "open_direct" /\ job'[w].user = u /\ job'[w].arg = arg
    BY <2>1, RequestEffect
  <2> QED
    BY <2>1, <2>2, <2>3, <2>4, NothingChanged DEF ChatStart, ChatJob, Making
<1>2. CASE create_group(w)
  <2>1. PICK u \in Users, arg \in SUBSET (Users \cup {Nobody}) : Request(w, "create_group", u, arg, 0, "group")
    BY <1>2 DEF create_group
  <2>2. UNCHANGED chatVars
    BY <1>2 DEF create_group
  <2>3. Frame(w) /\ Within(w, ChatLabels, ChatRoutes) /\ AnyJob(job[w])'
    BY <1>l, <2>1, Starts DEF Labels
  <2>4. job'[w].at = "group" /\ job'[w].route = "create_group" /\ job'[w].user = u /\ job'[w].arg = arg
    BY <2>1, RequestEffect
  <2> QED
    BY <2>1, <2>2, <2>3, <2>4, NothingChanged DEF ChatStart, ChatJob, Making
<1>3. CASE add_member(w)
  <2>1. PICK c \in KnownChats, target \in Users \cup {Nobody} : Request(w, "add_member", Nobody, target, c, "add")
    BY <1>3 DEF add_member
  <2>2. UNCHANGED chatVars
    BY <1>3 DEF add_member
  <2>3. /\ Frame(w) /\ Within(w, ChatLabels, ChatRoutes) /\ AnyJob(job[w])'
        /\ job'[w].at = "add" /\ job'[w].route = "add_member" /\ job'[w].arg = target
        /\ job'[w].row \in DOMAIN chats' /\ RowsOf(job[w].row)' # {}
    BY <1>l, <2>1, <2>2, ChatRequest
  <2> QED
    BY <2>1, <2>2, <2>3, NothingChanged DEF ChatStart, ChatJob, Making
<1>4. CASE remove_member(w)
  <2>1. PICK c \in KnownChats, target \in Users : Request(w, "remove_member", Nobody, target, c, "remove")
    BY <1>4 DEF remove_member
  <2>2. UNCHANGED chatVars
    BY <1>4 DEF remove_member
  <2>3. /\ Frame(w) /\ Within(w, ChatLabels, ChatRoutes) /\ AnyJob(job[w])'
        /\ job'[w].at = "remove" /\ job'[w].route = "remove_member" /\ job'[w].arg = target
        /\ job'[w].row \in DOMAIN chats' /\ RowsOf(job[w].row)' # {}
    BY <1>l, <2>1, <2>2, ChatRequest
  <2> QED
    BY <2>1, <2>2, <2>3, NothingChanged DEF ChatStart, ChatJob, Making
<1>5. CASE get_chat_info(w)
  <2>1. PICK c \in KnownChats, u \in Users : Request(w, "get_chat_info", u, Nobody, c, "membership")
    BY <1>5 DEF get_chat_info
  <2>2. UNCHANGED chatVars
    BY <1>5 DEF get_chat_info
  <2>3. /\ Frame(w) /\ Within(w, ChatLabels, ChatRoutes) /\ AnyJob(job[w])'
        /\ job'[w].at = "membership" /\ job'[w].route = "get_chat_info" /\ job'[w].user = u
        /\ job'[w].row \in DOMAIN chats' /\ RowsOf(job[w].row)' # {}
    BY <1>l, <2>1, <2>2, ChatRequest
  <2> QED
    BY <2>2, <2>3, NothingChanged DEF ChatStart, ChatJob, Making
<1>6. CASE get_messages(w)
  <2>1. PICK c \in KnownChats, u \in Users : Request(w, "get_messages", u, Nobody, c, "membership")
    BY <1>6 DEF get_messages
  <2>2. UNCHANGED chatVars
    BY <1>6 DEF get_messages
  <2>3. /\ Frame(w) /\ Within(w, ChatLabels, ChatRoutes) /\ AnyJob(job[w])'
        /\ job'[w].at = "membership" /\ job'[w].route = "get_messages" /\ job'[w].user = u
        /\ job'[w].row \in DOMAIN chats' /\ RowsOf(job[w].row)' # {}
    BY <1>l, <2>1, <2>2, ChatRequest
  <2> QED
    BY <2>2, <2>3, NothingChanged DEF ChatStart, ChatJob, Making
<1> QED
  BY <1>1, <1>2, <1>3, <1>4, <1>5, <1>6

(* The last statement of a chat handler, whatever it does to the members.  *)
LEMMA ChatLast ==
  ASSUME Shaped, CountersOK, JobsSound, NEW w \in Workers, NEW out \in Outcomes, NEW changes \in BOOLEAN,
         NEW r, NEW code \in Codes, Answer(w, out, changes, r, code), job[w].at \in ChatLabels,
         ChatsTypeOK', ChatsKept,
         \/ chat_members' = chat_members
         \/ /\ job[w].at \in {"both", "owner", "member", "add", "remove"} /\ out.done /\ changes
            /\ Touches(job[w].row)
  PROVE  ChatStart(w)
<1>1. job[w].route \in ChatRoutes /\ job[w].at # "idle"
  BY DEF JobsSound, JobSound, ChatJob, ChatLabels, ChatRoutes
<1>2. Frame(w) /\ Within(w, ChatLabels, ChatRoutes) /\ JobSound(job[w])'
  BY <1>1, Settles
<1>3. job'[w].at = "idle" /\ (out.done /\ changes => Noted(w))
  BY AnswerEffect, IdleFields
<1> QED
  BY <1>2, <1>3 DEF ChatStart, JobSound, RowsChanged, Making

(* Statement by statement: what it leaves in the tables and in its job,    *)
(* and what its answer says.                                               *)
LEMMA ExistingEffect ==
  ASSUME Shaped, CountersOK, JobsSound, ChatsTypeOK, NEW w \in Workers, existing_chat(w)
  PROVE  /\ ChatStart(w) /\ UNCHANGED chatVars /\ job[w].at = "existing"
         /\ \A a \in answers' \ answers : a.code # 201 /\ a.route = "open_direct"
         /\ \/ job'[w].at = "idle"
            \/ /\ job'[w].at = "direct" /\ job'[w].user = job[w].user /\ job'[w].arg = job[w].arg
               /\ Existing(job[w].user, job[w].arg) = {}
<1>0. job[w].at = "existing" /\ UNCHANGED chatVars
  BY DEF existing_chat, At
<1>1. PICK out \in Outcomes :
       \/ out.ok /\ Existing(job[w].user, job[w].arg) = {} /\ Continue(w, out, FALSE, 0, {}, "direct")
       \/ out.ok /\ \E c \in Existing(job[w].user, job[w].arg) : Answer(w, out, FALSE, c, 200)
       \/ ~out.ok /\ Answer(w, out, FALSE, 0, 500)
  BY DEF existing_chat
<1>2. job[w].route = "open_direct" /\ job[w].user \in Users /\ job[w].arg \in Users \cup {Nobody}
  BY <1>0 DEF JobsSound, JobSound, ChatJob
<1>3. ChatsTypeOK' /\ ChatsKept /\ chat_members' = chat_members
  BY <1>0, NothingChanged DEF chatVars
<1>4. "existing" \in ChatLabels /\ "direct" \in ChatLabels /\ "direct" \in Labels
      /\ 200 \in Codes /\ 500 \in Codes
  BY DEF ChatLabels, Labels, Codes
<1>5. CASE Existing(job[w].user, job[w].arg) = {} /\ Continue(w, out, FALSE, 0, {}, "direct")
  <2>1. PICK changes \in BOOLEAN : Continue(w, out, changes, 0, {}, "direct")
    BY <1>5
  <2>2. Frame(w) /\ Within(w, ChatLabels, ChatRoutes) /\ AnyJob(job[w])'
    BY <1>0, <1>4, <2>1, GoesOn
  <2>3. /\ job'[w].at = "direct" /\ job'[w].route = job[w].route /\ job'[w].user = job[w].user
        /\ job'[w].arg = job[w].arg /\ answers' = answers
    BY <2>1, ContinueEffect
  <2>4. ChatStart(w)
    BY <1>2, <1>3, <2>2, <2>3 DEF ChatStart, ChatJob, Making, RowsChanged
  <2> QED
    BY <1>0, <1>5, <2>3, <2>4
<1>6. ASSUME NEW c, NEW code \in {200, 500}, NEW changes \in BOOLEAN, Answer(w, out, changes, c, code)
      PROVE  /\ ChatStart(w) /\ job'[w].at = "idle"
             /\ \A a \in answers' \ answers : a.code # 201 /\ a.route = "open_direct"
  <2>1. Answer(w, out, changes, c, code)
    BY <1>6
  <2>2. code \in Codes
    BY <1>4
  <2>3. ChatStart(w)
    BY <1>0, <1>3, <1>4, <2>1, <2>2, ChatLast
  <2>4. job'[w].at = "idle" /\ answers' = answers \cup {Report(w, c, code, out.ok)}
    BY <2>1, AnswerEffect, IdleFields
  <2>5. \A a \in answers' \ answers : a.code # 201 /\ a.route = "open_direct"
    BY <1>2, <2>4, ReportFields, OutcomeFacts
  <2> QED
    BY <2>3, <2>4, <2>5
<1>7. CASE \E c \in Existing(job[w].user, job[w].arg) : Answer(w, out, FALSE, c, 200)
  <2>1. PICK c, changes : changes \in BOOLEAN /\ Answer(w, out, changes, c, 200)
    BY <1>7
  <2> QED
    BY <1>0, <1>6, <2>1
<1>8. CASE Answer(w, out, FALSE, 0, 500)
  <2>1. PICK c, changes : changes \in BOOLEAN /\ Answer(w, out, changes, c, 500)
    BY <1>8
  <2> QED
    BY <1>0, <1>6, <2>1
<1> QED
  BY <1>1, <1>5, <1>7, <1>8

LEMMA DirectEffect ==
  ASSUME Shaped, CountersOK, JobsSound, ChatsTypeOK, ChatsFresh, NEW w \in Workers, insert_direct(w),
         NEW chat, chat = [kind |-> "private", by |-> job[w].user, pair |-> {job[w].user, job[w].arg}]
  PROVE  /\ ChatStart(w) /\ chat_members' = chat_members /\ job[w].at = "direct"
         /\ chats' = chats \/ chats' = Append(chats, chat)
         /\ chat.pair = {job[w].user, job[w].arg} /\ chat.kind = "private" /\ chat \in ChatRow
         /\ \A a \in answers' \ answers : a.code # 201 /\ a.route \in {"open_direct", "create_group"}
         /\ \/ job'[w].at = "idle"
            \/ /\ job'[w].at = "both" /\ job'[w].user = job[w].user /\ job'[w].arg = job[w].arg
               /\ job'[w].row = Len(chats) + 1 /\ chats' = Append(chats, chat)
<1>1. job[w].at = "direct" /\ InsertChat(w, chat, {}, "both")
  BY DEF insert_direct, At
<1>2. job[w].route = "open_direct" /\ job[w].user \in Users /\ job[w].arg \in Users \cup {Nobody}
      /\ job[w].at \in ChatLabels /\ job[w].route \in ChatRoutes
  BY <1>1 DEF JobsSound, JobSound, ChatJob, ChatLabels, ChatRoutes
<1>3. chat \in ChatRow /\ chat.pair = {job[w].user, job[w].arg} /\ chat.kind = "private"
  BY <1>2 DEF ChatRow, Pairs
<1>4. /\ Frame(w) /\ Within(w, ChatLabels, ChatRoutes) /\ AnyJob(job[w])'
      /\ ChatsTypeOK' /\ ChatsKept /\ chat_members' = chat_members
      /\ chats' = chats \/ chats' = Append(chats, chat)
      /\ \/ JobSound(job[w])' /\ job'[w].at = "idle" /\ \A a \in answers' \ answers : a.code = 500
         \/ /\ job'[w].at = "both" /\ job'[w].route = job[w].route /\ job'[w].user = job[w].user
            /\ job'[w].arg = job[w].arg /\ job'[w].rest = {} /\ job'[w].row = Len(chats) + 1
            /\ job'[w].row \in DOMAIN chats' /\ job'[w].row \notin DOMAIN chats
            /\ RowsOf(job[w].row)' = {} /\ chats' = Append(chats, chat) /\ answers' = answers
  <2>1. {} \subseteq Users \cup {Nobody} /\ "both" \in {"both", "owner"}
    OBVIOUS
  <2> QED
    BY <1>1, <1>2, <1>3, <2>1, ChatInserted, ZenonT(60)
<1>5. ChatStart(w)
  BY <1>2, <1>4 DEF ChatStart, JobSound, ChatJob, Making, RowsChanged
<1>6. \A a \in answers' \ answers : a.code # 201 /\ a.route \in {"open_direct", "create_group"}
  <2>1. PICK out \in Outcomes :
          IF out.ok THEN Continue(w, out, TRUE, Len(chats) + 1, {}, "both")
          ELSE Answer(w, out, TRUE, 0, 500)
    BY <1>1 DEF InsertChat
  <2>2. answers' = answers \/ answers' = answers \cup {Report(w, 0, 500, out.ok)}
    BY <2>1 DEF Continue, Answer, Report
  <2> QED
    BY <1>2, <2>2, ReportFields, OutcomeFacts
<1> QED
  BY <1>1, <1>3, <1>4, <1>5, <1>6

LEMMA GroupEffect ==
  ASSUME Shaped, CountersOK, JobsSound, ChatsTypeOK, ChatsFresh, NEW w \in Workers, insert_group(w),
         NEW chat, chat = [kind |-> "group", by |-> job[w].user, pair |-> {}]
  PROVE  /\ ChatStart(w) /\ chat_members' = chat_members /\ job[w].at = "group"
         /\ chats' = chats \/ chats' = Append(chats, chat)
         /\ chat.pair = {} /\ chat \in ChatRow
         /\ \A a \in answers' \ answers : a.code # 201 /\ a.route \in {"open_direct", "create_group"}
         /\ \/ job'[w].at = "idle"
            \/ /\ job'[w].at = "owner" /\ job'[w].user = job[w].user /\ job'[w].arg = job[w].arg
               /\ job'[w].rest = job'[w].arg \ {job'[w].user}
               /\ job'[w].row = Len(chats) + 1 /\ chats' = Append(chats, chat)
<1> DEFINE rest == job[w].arg \ {job[w].user}
<1>1. job[w].at = "group" /\ InsertChat(w, chat, rest, "owner")
  BY DEF insert_group, At
<1>2. job[w].route = "create_group" /\ job[w].user \in Users /\ job[w].arg \subseteq Users \cup {Nobody}
      /\ job[w].at \in ChatLabels /\ job[w].route \in ChatRoutes
  BY <1>1 DEF JobsSound, JobSound, ChatJob, ChatLabels, ChatRoutes
<1>3. chat \in ChatRow /\ chat.pair = {} /\ rest \subseteq Users \cup {Nobody}
  BY <1>2 DEF ChatRow
<1> HIDE DEF rest
<1>4. /\ Frame(w) /\ Within(w, ChatLabels, ChatRoutes) /\ AnyJob(job[w])'
      /\ ChatsTypeOK' /\ ChatsKept /\ chat_members' = chat_members
      /\ chats' = chats \/ chats' = Append(chats, chat)
      /\ \/ JobSound(job[w])' /\ job'[w].at = "idle" /\ \A a \in answers' \ answers : a.code = 500
         \/ /\ job'[w].at = "owner" /\ job'[w].route = job[w].route /\ job'[w].user = job[w].user
            /\ job'[w].arg = job[w].arg /\ job'[w].rest = rest /\ job'[w].row = Len(chats) + 1
            /\ job'[w].row \in DOMAIN chats' /\ job'[w].row \notin DOMAIN chats
            /\ RowsOf(job[w].row)' = {} /\ chats' = Append(chats, chat) /\ answers' = answers
  BY <1>1, <1>2, <1>3, ChatInserted
<1>5. ChatStart(w)
  BY <1>2, <1>4 DEF ChatStart, JobSound, ChatJob, Making, RowsChanged
<1>6. \A a \in answers' \ answers : a.code # 201 /\ a.route \in {"open_direct", "create_group"}
  <2>1. PICK out \in Outcomes :
          IF out.ok THEN Continue(w, out, TRUE, Len(chats) + 1, rest, "owner")
          ELSE Answer(w, out, TRUE, 0, 500)
    BY <1>1 DEF InsertChat
  <2>2. answers' = answers \/ answers' = answers \cup {Report(w, 0, 500, out.ok)}
    BY <2>1 DEF Continue, Answer, Report
  <2> QED
    BY <1>2, <2>2, ReportFields, OutcomeFacts
<1> QED
  BY <1>1, <1>3, <1>4, <1>5, <1>6 DEF rest

LEMMA BothEffect ==
  ASSUME Shaped, CountersOK, JobsSound, ChatsTypeOK, ChatsFresh, NEW w \in Workers, insert_both(w),
         NEW c, c = job[w].row
  PROVE  /\ ChatStart(w) /\ job[w].at = "both" /\ chats' = chats /\ job'[w].at = "idle"
         /\ \/ chat_members' = chat_members
            \/ MembersOf(c)' = MembersOf(c) \cup {job[w].user, job[w].arg}
         /\ \A a \in answers' \ answers :
              /\ a.route = "open_direct"
              /\ a.code = 201 => /\ a.row = c
                                 /\ {a.user, a.arg} \subseteq MembersOf(c)'
<1> DEFINE legal == job[w].arg \in Users \ {job[w].user}
           U     == {job[w].user, job[w].arg}
<1>1. job[w].at = "both" /\ chats' = chats
  BY DEF insert_both, At
<1>2. PICK out \in Outcomes :
        /\ chat_members' = IF out.done /\ legal
                           THEN chat_members \cup {Row(c, u, "member") : u \in U}
                           ELSE chat_members
        /\ Last(w, out, legal, 201, 500)
  BY DEF insert_both
<1>3. job[w].route = "open_direct" /\ job[w].user \in Users /\ c \in DOMAIN chats /\ RowsOf(c) = {}
      /\ job[w].at \in ChatLabels
  BY <1>1 DEF JobsSound, JobSound, ChatJob, ChatsFresh, Making, ChatLabels
<1>4. legal \in BOOLEAN /\ (legal => U \in SUBSET Users) /\ U = {job[w].user, job[w].arg}
  BY <1>3
<1> HIDE DEF legal, U
<1>5. PICK code : /\ Answer(w, out, legal, c, code) /\ code \in {201, 500}
                  /\ (code = 201 => out.ok /\ legal)
  BY <1>2, <1>4, LastAnswers, OutcomeFacts
<1>8. /\ ChatsTypeOK' /\ ChatsKept
      /\ \/ chat_members' = chat_members
         \/ out.done /\ legal /\ Touches(c) /\ MembersOf(c)' = MembersOf(c) \cup U
      /\ out.done /\ legal => MembersOf(c)' = MembersOf(c) \cup U
  <2>1. CASE out.done /\ legal
    <3>1. U \cap MembersOf(c) = {}
      BY <1>3 DEF MembersOf
    <3>2. /\ ChatsTypeOK' /\ ChatsKept /\ Touches(c)
          /\ MembersOf(c)' = MembersOf(c) \cup U
      BY <1>1, <1>2, <1>3, <1>4, <2>1, <3>1, MembersInserted
    <3> QED
      BY <2>1, <3>2
  <2>2. CASE ~(out.done /\ legal)
    <3>1. chat_members' = chat_members
      BY <1>2, <2>2
    <3>2. ChatsTypeOK' /\ ChatsKept
      BY <1>1, <3>1, NothingChanged DEF chatVars
    <3> QED
      BY <2>2, <3>1, <3>2
  <2> QED
    BY <2>1, <2>2
<1>9. code \in Codes
  BY <1>5 DEF Codes
<1>10. ChatStart(w)
  BY <1>1, <1>3, <1>4, <1>5, <1>8, <1>9, ChatLast
<1>11. job'[w].at = "idle" /\ answers' = answers \cup {Report(w, c, code, out.ok)}
  BY <1>4, <1>5, AnswerEffect, IdleFields
<1>12. \A a \in answers' \ answers :
         a.route = "open_direct" /\ a.code = code /\ a.row = c
         /\ a.user = job[w].user /\ a.arg = job[w].arg
  BY <1>3, <1>11, ReportFields, OutcomeFacts
<1>13. ASSUME NEW a \in answers' \ answers, a.code = 201
       PROVE  {a.user, a.arg} \subseteq MembersOf(c)'
  <2>1. out.done /\ legal
    BY <1>5, <1>12, <1>13, OutcomeFacts
  <2> QED
    BY <1>4, <1>8, <1>12, <1>13, <2>1
<1> QED
  BY <1>1, <1>4, <1>8, <1>10, <1>11, <1>12, <1>13

LEMMA OwnerEffect ==
  ASSUME Shaped, CountersOK, JobsSound, ChatsTypeOK, ChatsFresh, NEW w \in Workers, insert_owner(w),
         NEW c, c = job[w].row
  PROVE  /\ ChatStart(w) /\ job[w].at = "owner" /\ chats' = chats
         /\ \A a \in answers' \ answers :
              /\ a.route = "create_group"
              /\ a.code = 201 =>
                   /\ a.row = c /\ a.arg = job[w].arg /\ job[w].rest = {} /\ a.user = job[w].user
                   /\ Row(c, a.user, "owner") \in RowsOf(c)'
         /\ \/ job'[w].at = "idle"
            \/ /\ job'[w].at = "member" /\ job'[w].user = job[w].user /\ job'[w].arg = job[w].arg
               /\ job'[w].row = c /\ job'[w].rest = job[w].rest
               /\ Row(c, job[w].user, "owner") \in RowsOf(c)'
<1>1. job[w].at = "owner" /\ chats' = chats
  BY DEF insert_owner, At
<1>2. PICK out \in Outcomes :
        /\ chat_members' = IF out.done THEN chat_members \cup {Row(c, job[w].user, "owner")}
                           ELSE chat_members
        /\ IF out.ok /\ job[w].rest # {} THEN Continue(w, out, TRUE, c, job[w].rest, "member")
           ELSE Last(w, out, TRUE, 201, 500)
  BY ZenonT(60) DEF insert_owner
<1>3. /\ job[w].route = "create_group" /\ job[w].user \in Users /\ job[w].arg \subseteq Users \cup {Nobody}
      /\ c \in DOMAIN chats /\ RowsOf(c) = {}
      /\ job[w].at \in ChatLabels /\ job[w].at # "idle" /\ c \in Nat /\ job[w].rest \subseteq Users \cup {Nobody}
  BY <1>1 DEF JobsSound, JobSound, ChatJob, AnyJob, ChatsFresh, Making, ChatLabels
<1>o. out.done \in BOOLEAN /\ out.ok \in BOOLEAN /\ (out.ok => out.done)
  BY OutcomeFacts
<1>4. /\ ChatsTypeOK' /\ ChatsKept
      /\ \/ chat_members' = chat_members
         \/ out.done /\ Touches(c)
      /\ out.done => Row(c, job[w].user, "owner") \in RowsOf(c)'
  <2>1. CASE out.done
    <3> DEFINE U == {job[w].user}
    <3>1. U \cap MembersOf(c) = {} /\ U \in SUBSET Users
      BY <1>3 DEF MembersOf
    <3>2. chat_members' = chat_members \cup {Row(c, u, "owner") : u \in U}
      BY <1>2, <2>1
    <3>3. job[w].user \in U
      OBVIOUS
    <3> HIDE DEF U
    <3>4. /\ ChatsTypeOK' /\ ChatsKept /\ Touches(c)
          /\ \A u \in U : Row(c, u, "owner") \in RowsOf(c)'
      BY <1>1, <1>3, <3>1, <3>2, MembersInserted
    <3> QED
      BY <2>1, <3>3, <3>4
  <2>2. CASE ~out.done
    <3>1. chat_members' = chat_members
      BY <1>2, <2>2
    <3>2. ChatsTypeOK' /\ ChatsKept
      BY <1>1, <3>1, NothingChanged DEF chatVars
    <3> QED
      BY <2>2, <3>1, <3>2
  <2> QED
    BY <2>1, <2>2
<1> DEFINE yes == TRUE
<1>b. yes \in BOOLEAN
  OBVIOUS
<1>5. CASE out.ok /\ job[w].rest # {}
  <2>1. Continue(w, out, yes, c, job[w].rest, "member")
    BY <1>2, <1>5
  <2> HIDE DEF yes
  <2>2. "member" \in ChatLabels /\ "member" \in Labels
    BY DEF ChatLabels, Labels
  <2>3. Frame(w) /\ Within(w, ChatLabels, ChatRoutes) /\ AnyJob(job[w])'
    BY <1>b, <1>3, <2>1, <2>2, GoesOn
  <2>4. /\ job'[w].at = "member" /\ job'[w].route = job[w].route /\ job'[w].user = job[w].user
        /\ job'[w].arg = job[w].arg /\ job'[w].rest = job[w].rest /\ job'[w].row = c
        /\ answers' = answers /\ (out.done /\ yes => Noted(w))
    BY <1>b, <2>1, ContinueEffect
  <2>5. RowsOf(job[w].row)' # {}
    BY <1>o, <1>4, <1>5, <2>4 DEF RowsOf
  <2>6. ChatStart(w)
    BY <1>1, <1>3, <1>4, <2>3, <2>4, <2>5 DEF ChatStart, ChatJob, Making, RowsChanged, yes
  <2> QED
    BY <1>o, <1>1, <1>4, <1>5, <2>4, <2>6
<1>6. CASE ~(out.ok /\ job[w].rest # {})
  <2>0. Last(w, out, yes, 201, 500)
    BY <1>2, <1>6
  <2> HIDE DEF yes
  <2>1. PICK code : /\ Answer(w, out, yes, c, code) /\ code \in {201, 500}
                    /\ code = 201 => out.ok
    BY <1>b, <2>0, LastAnswers, OutcomeFacts
  <2>2. code \in Codes
    BY <2>1 DEF Codes
  <2>3. ChatStart(w)
    <3>1. yes
      BY DEF yes
    <3>2. \/ chat_members' = chat_members
          \/ /\ job[w].at \in {"both", "owner", "member", "add", "remove"} /\ out.done /\ yes
             /\ Touches(job[w].row)
      BY <1>1, <1>4, <3>1
    <3> QED
      BY <1>b, <1>3, <1>4, <2>1, <2>2, <3>2, ChatLast
  <2>4. job'[w].at = "idle" /\ answers' = answers \cup {Report(w, c, code, out.ok)}
    BY <1>b, <2>1, AnswerEffect, IdleFields
  <2>5. \A a \in answers' \ answers :
         a.route = "create_group" /\ a.code = code /\ a.row = c
         /\ a.user = job[w].user /\ a.arg = job[w].arg
    BY <1>3, <2>4, ReportFields, OutcomeFacts
  <2> QED
    BY <1>o, <1>1, <1>4, <1>6, <2>1, <2>3, <2>4, <2>5
<1> QED
  BY <1>5, <1>6

LEMMA MemberEffect ==
  ASSUME Shaped, CountersOK, JobsSound, ChatsTypeOK, ChatsFresh, NEW w \in Workers, insert_member(w),
         NEW c, c = job[w].row
  PROVE  /\ ChatStart(w) /\ job[w].at = "member" /\ chats' = chats
         /\ \E m \in job[w].rest, ok \in BOOLEAN :
              /\ ok /\ m \in Users => m \in MembersOf(c)'
              /\ \A a \in answers' \ answers :
                   /\ a.route = "create_group" /\ a.row = c /\ a.user = job[w].user /\ a.arg = job[w].arg
                   /\ a.faulty = (job[w].faulty \/ ~ok) /\ job[w].rest = {m}
              /\ \/ job'[w].at = "idle"
                 \/ /\ job'[w].at = "member" /\ job'[w].user = job[w].user /\ job'[w].arg = job[w].arg
                    /\ job'[w].row = c /\ job'[w].rest = job[w].rest \ {m}
                    /\ job'[w].faulty = (job[w].faulty \/ ~ok)
<1>1. job[w].at = "member" /\ chats' = chats
  BY DEF insert_member, At
<1>2. PICK m \in job[w].rest, out \in Outcomes :
        LET new == m \in Users \ MembersOf(c) IN
        /\ chat_members' = IF out.done /\ new THEN chat_members \cup {Row(c, m, "member")}
                           ELSE chat_members
        /\ IF job[w].rest = {m} THEN Answer(w, out, new, c, 201)
           ELSE Continue(w, out, new, c, job[w].rest \ {m}, "member")
  BY DEF insert_member
<1> DEFINE new == m \in Users \ MembersOf(c)
<1>3. /\ job[w].route = "create_group" /\ job[w].user \in Users /\ job[w].arg \subseteq Users \cup {Nobody}
      /\ c \in DOMAIN chats /\ RowsOf(c) # {}
      /\ job[w].at \in ChatLabels /\ job[w].at # "idle" /\ c \in Nat /\ job[w].rest \subseteq Users \cup {Nobody}
  BY <1>1 DEF JobsSound, JobSound, ChatJob, AnyJob, ChatsFresh, Making, ChatLabels
<1>o. out.done \in BOOLEAN /\ out.ok \in BOOLEAN /\ (out.ok => out.done) /\ new \in BOOLEAN
  BY OutcomeFacts
<1>4. /\ ChatsTypeOK' /\ ChatsKept
      /\ \/ chat_members' = chat_members
         \/ out.done /\ new /\ Touches(c)
      /\ out.done /\ m \in Users => m \in MembersOf(c)'
  <2>1. CASE out.done /\ new
    <3> DEFINE U == {m}
    <3>1. U \cap MembersOf(c) = {} /\ U \in SUBSET Users
      BY <2>1
    <3>2. chat_members' = chat_members \cup {Row(c, u, "member") : u \in U}
      BY <1>2, <2>1
    <3>3. m \in U
      OBVIOUS
    <3> HIDE DEF U
    <3>4. /\ ChatsTypeOK' /\ ChatsKept /\ Touches(c) /\ MembersOf(c)' = MembersOf(c) \cup U
      BY <1>1, <1>3, <3>1, <3>2, MembersInserted
    <3> QED
      BY <2>1, <3>3, <3>4
  <2>2. CASE ~(out.done /\ new)
    <3>1. chat_members' = chat_members
      BY <1>2, <2>2
    <3>2. ChatsTypeOK' /\ ChatsKept
      BY <1>1, <3>1, NothingChanged DEF chatVars
    <3>3. out.done /\ m \in Users => m \in MembersOf(c)'
      BY <2>2, <3>1 DEF MembersOf, RowsOf
    <3> QED
      BY <3>1, <3>2, <3>3
  <2> QED
    BY <2>1, <2>2
<1> HIDE DEF new
<1>5. CASE job[w].rest # {m}
  <2>1. Continue(w, out, new, c, job[w].rest \ {m}, "member")
    BY <1>2, <1>5 DEF new
  <2>2. "member" \in ChatLabels /\ "member" \in Labels /\ job[w].rest \ {m} \subseteq Users \cup {Nobody}
    BY <1>3 DEF ChatLabels, Labels
  <2>3. Frame(w) /\ Within(w, ChatLabels, ChatRoutes) /\ AnyJob(job[w])'
    BY <1>o, <1>3, <2>1, <2>2, GoesOn
  <2>4. /\ job'[w].at = "member" /\ job'[w].route = job[w].route /\ job'[w].user = job[w].user
        /\ job'[w].arg = job[w].arg /\ job'[w].rest = job[w].rest \ {m} /\ job'[w].row = c
        /\ answers' = answers /\ (out.done /\ new => Noted(w))
        /\ job'[w].faulty = (job[w].faulty \/ ~out.ok)
    BY <1>o, <2>1, ContinueEffect
  <2>5. RowsOf(job[w].row)' # {}
    <3>1. RowsOf(c)' # {}
      BY <1>3, <1>4, KeptMembers
    <3> QED
      BY <2>4, <3>1 DEF RowsOf
  <2>6. ChatStart(w)
    BY <1>1, <1>3, <1>4, <2>3, <2>4, <2>5 DEF ChatStart, ChatJob, Making, RowsChanged
  <2> QED
    BY <1>o, <1>1, <1>4, <2>4, <2>6
<1>6. CASE job[w].rest = {m}
  <2>1. PICK code : code = 201 /\ Answer(w, out, new, c, code)
    BY <1>2, <1>6 DEF new
  <2>2. code \in Codes
    BY <2>1 DEF Codes
  <2>3. ChatStart(w)
    BY <1>o, <1>1, <1>3, <1>4, <2>1, <2>2, ChatLast
  <2>4. job'[w].at = "idle" /\ answers' = answers \cup {Report(w, c, code, out.ok)}
    BY <1>o, <2>1, AnswerEffect, IdleFields
  <2>5. \A a \in answers' \ answers :
         a.route = "create_group" /\ a.row = c /\ a.user = job[w].user /\ a.arg = job[w].arg
         /\ a.faulty = (job[w].faulty \/ ~out.ok)
    BY <1>3, <1>o, <2>4, ReportFields
  <2> QED
    BY <1>o, <1>1, <1>4, <1>6, <2>3, <2>4, <2>5
<1> QED
  BY <1>5, <1>6

LEMMA UpsertEffect ==
  ASSUME Shaped, CountersOK, JobsSound, ChatsTypeOK, ChatsFresh, NEW w \in Workers, upsert_member(w)
  PROVE  /\ ChatStart(w) /\ job[w].at = "add" /\ chats' = chats /\ job'[w].at = "idle"
         /\ \A a \in answers' \ answers : a.route = "add_member"
<1> DEFINE c     == job[w].row
           legal == job[w].arg \in Users
<1>1. job[w].at = "add" /\ chats' = chats
  BY DEF upsert_member, At
<1>2. PICK out \in Outcomes :
        /\ chat_members' = IF out.done /\ legal THEN Upsert(c, job[w].arg) ELSE chat_members
        /\ Last(w, out, legal, 200, 500)
  BY DEF upsert_member
<1>3. job[w].route = "add_member" /\ c \in DOMAIN chats /\ job[w].at \in ChatLabels
  BY <1>1 DEF JobsSound, JobSound, ChatJob, ChatLabels
<1>4. /\ ChatsTypeOK' /\ ChatsKept
      /\ chat_members' = chat_members \/ (out.done /\ legal /\ Touches(c))
  <2>1. CASE out.done /\ legal /\ job[w].arg \in MembersOf(c)
    <3>1. PICK l \in BOOLEAN : chat_members' = Marked(c, job[w].arg, l)
      BY <1>2, <2>1 DEF Upsert, Marked
    <3>2. ChatsTypeOK' /\ ChatsKept /\ Touches(c)
      BY <1>1, <3>1, MemberMarked
    <3> QED
      BY <2>1, <3>2
  <2>2. CASE out.done /\ legal /\ job[w].arg \notin MembersOf(c)
    <3> DEFINE U == {job[w].arg}
    <3>1. chat_members' = chat_members \cup {Row(c, u, "member") : u \in U}
      BY <1>2, <2>2 DEF Upsert
    <3>2. U \in SUBSET Users /\ U \cap MembersOf(c) = {}
      BY <2>2
    <3> HIDE DEF U
    <3>3. ChatsTypeOK' /\ ChatsKept /\ Touches(c)
      BY <1>1, <1>3, <3>1, <3>2, MembersInserted
    <3> QED
      BY <2>2, <3>3
  <2>3. CASE ~(out.done /\ legal)
    <3>1. chat_members' = chat_members
      BY <1>2, <2>3
    <3> QED
      BY <1>1, <3>1, NothingChanged DEF chatVars
  <2> QED
    BY <2>1, <2>2, <2>3
<1>5. legal \in BOOLEAN /\ 200 \in Codes /\ 500 \in Codes
  BY DEF Codes
<1> HIDE DEF legal
<1>6. PICK code : Answer(w, out, legal, c, code) /\ code \in {200, 500}
  BY <1>2, <1>5, LastAnswers
<1>7. code \in Codes
  BY <1>5, <1>6
<1>8. ChatStart(w)
  BY <1>1, <1>3, <1>4, <1>5, <1>6, <1>7, ChatLast
<1>9. job'[w].at = "idle" /\ answers' = answers \cup {Report(w, c, code, out.ok)}
  BY <1>5, <1>6, AnswerEffect, IdleFields
<1>10. \A a \in answers' \ answers : a.route = "add_member"
  BY <1>3, <1>9, ReportFields, OutcomeFacts
<1> QED
  BY <1>1, <1>8, <1>9, <1>10

LEMMA LeaveEffect ==
  ASSUME Shaped, CountersOK, JobsSound, ChatsTypeOK, ChatsFresh, NEW w \in Workers, leave_chat(w)
  PROVE  /\ ChatStart(w) /\ job[w].at = "remove" /\ chats' = chats /\ job'[w].at = "idle"
         /\ \A d : MembersOf(d)' = MembersOf(d)
         /\ \A a \in answers' \ answers : a.route = "remove_member"
<1> DEFINE c   == job[w].row
           yes == TRUE
<1>1. job[w].at = "remove" /\ chats' = chats
  BY DEF leave_chat, At
<1>2. PICK out \in Outcomes :
        /\ chat_members' = IF out.done
                           THEN {IF r.chat = c /\ r.user = job[w].arg THEN [r EXCEPT !.left = TRUE] ELSE r :
                                   r \in chat_members}
                           ELSE chat_members
        /\ Last(w, out, yes, 200, 500)
  BY DEF leave_chat
<1>3. job[w].route = "remove_member" /\ c \in DOMAIN chats /\ job[w].at \in ChatLabels
  BY <1>1 DEF JobsSound, JobSound, ChatJob, ChatLabels
<1>4. /\ ChatsTypeOK' /\ ChatsKept /\ (\A d : MembersOf(d)' = MembersOf(d))
      /\ chat_members' = chat_members \/ (out.done /\ yes /\ Touches(c))
  <2>1. CASE out.done
    <3>1. PICK l \in BOOLEAN : chat_members' = Marked(c, job[w].arg, l)
      BY <1>2, <2>1 DEF Marked
    <3>2. ChatsTypeOK' /\ ChatsKept /\ Touches(c) /\ \A d : MembersOf(d)' = MembersOf(d)
      BY <1>1, <3>1, MemberMarked
    <3> QED
      BY <2>1, <3>2
  <2>2. CASE ~out.done
    <3>1. chat_members' = chat_members
      BY <1>2, <2>2
    <3>2. \A d : MembersOf(d)' = MembersOf(d)
      BY <3>1 DEF MembersOf, RowsOf
    <3> QED
      BY <1>1, <3>1, <3>2, NothingChanged DEF chatVars
  <2> QED
    BY <2>1, <2>2
<1>5. yes \in BOOLEAN /\ 200 \in Codes /\ 500 \in Codes
  BY DEF Codes
<1> HIDE DEF yes
<1>6. PICK code : Answer(w, out, yes, c, code) /\ code \in {200, 500}
  BY <1>2, <1>5, LastAnswers
<1>7. code \in Codes
  BY <1>5, <1>6
<1>8. ChatStart(w)
  BY <1>1, <1>3, <1>4, <1>5, <1>6, <1>7, ChatLast
<1>9. job'[w].at = "idle" /\ answers' = answers \cup {Report(w, c, code, out.ok)}
  BY <1>5, <1>6, AnswerEffect, IdleFields
<1>10. \A a \in answers' \ answers : a.route = "remove_member"
  BY <1>3, <1>9, ReportFields, OutcomeFacts
<1> QED
  BY <1>1, <1>4, <1>8, <1>9, <1>10

LEMMA VerifyEffect ==
  ASSUME Shaped, CountersOK, JobsSound, ChatsTypeOK, ChatsFresh, NEW w \in Workers, verify_membership(w)
  PROVE  /\ ChatStart(w) /\ UNCHANGED chatVars /\ job[w].at = "membership"
         /\ \A a \in answers' \ answers :
              /\ a.route \in {"get_chat_info", "get_messages"} /\ a.row = job[w].row /\ a.user = job[w].user
              /\ a.code \in {403, 500} /\ (a.code = 403 => ~Active(job[w].row, job[w].user))
         /\ \/ job'[w].at = "idle"
            \/ /\ job'[w].at = "content" /\ job'[w].user = job[w].user /\ job'[w].row = job[w].row
               /\ Active(job[w].row, job[w].user)
<1> DEFINE passes == Active(job[w].row, job[w].user)
<1>1. job[w].at = "membership" /\ UNCHANGED chatVars /\ Select(w, passes, "content", 403)
  BY DEF verify_membership, At
<1>2. /\ job[w].route \in {"get_chat_info", "get_messages"} /\ job[w].user \in Users
      /\ job[w].row \in DOMAIN chats /\ job[w].at \in ChatLabels /\ job[w].at # "idle"
      /\ job[w].row \in Nat /\ job[w].rest \subseteq Users \cup {Nobody} /\ RowsOf(job[w].row) # {}
  BY <1>1 DEF JobsSound, JobSound, ChatJob, AnyJob, ChatsFresh, ChatLabels
<1>3. passes \in BOOLEAN /\ 403 \in Codes /\ 500 \in Codes /\ "content" \in ChatLabels /\ "content" \in Labels
  BY DEF Active, Codes, ChatLabels, Labels
<1>4. ChatsTypeOK' /\ ChatsKept /\ chat_members' = chat_members
  BY <1>1, NothingChanged DEF chatVars
<1> HIDE DEF passes
<1>5. PICK out \in Outcomes :
        IF out.ok /\ passes
        THEN Continue(w, out, FALSE, job[w].row, job[w].rest, "content")
        ELSE Answer(w, out, FALSE, job[w].row, IF out.ok THEN 403 ELSE 500)
  BY <1>1 DEF Select
<1>6. CASE passes /\ Continue(w, out, FALSE, job[w].row, job[w].rest, "content")
  <2>1. PICK changes \in BOOLEAN : Continue(w, out, changes, job[w].row, job[w].rest, "content")
    BY <1>6
  <2>2. Frame(w) /\ Within(w, ChatLabels, ChatRoutes) /\ AnyJob(job[w])'
    BY <1>2, <1>3, <2>1, GoesOn, ZenonT(60)
  <2>3. /\ job'[w].at = "content" /\ job'[w].route = job[w].route /\ job'[w].user = job[w].user
        /\ job'[w].row = job[w].row /\ answers' = answers
    BY <2>1, ContinueEffect
  <2>4. RowsOf(job[w].row)' # {}
    BY <1>2, <1>4, <2>3 DEF RowsOf
  <2>5. ChatStart(w)
    BY <1>1, <1>2, <1>4, <2>2, <2>3, <2>4 DEF ChatStart, ChatJob, Making, RowsChanged, chatVars
  <2> QED
    BY <1>1, <1>6, <2>3, <2>5 DEF passes
<1>7. ASSUME NEW code \in {403, 500}, NEW changes \in BOOLEAN, Answer(w, out, changes, job[w].row, code),
             code = 403 => ~passes
      PROVE  /\ ChatStart(w) /\ job'[w].at = "idle"
             /\ \A a \in answers' \ answers :
              /\ a.route \in {"get_chat_info", "get_messages"} /\ a.row = job[w].row /\ a.user = job[w].user
              /\ a.code \in {403, 500} /\ (a.code = 403 => ~passes)
  <2>1. code \in Codes
    BY <1>3
  <2>2. ChatStart(w)
    BY <1>2, <1>4, <1>7, <2>1, ChatLast
  <2>3. job'[w].at = "idle" /\ answers' = answers \cup {Report(w, job[w].row, code, out.ok)}
    BY <1>7, AnswerEffect, IdleFields
  <2>4. \A a \in answers' \ answers :
          a.route = job[w].route /\ a.row = job[w].row /\ a.user = job[w].user /\ a.code = code
    BY <2>3, ReportFields, OutcomeFacts
  <2> QED
    BY <1>2, <1>7, <2>2, <2>3, <2>4
<1>8. CASE ~(out.ok /\ passes)
  <2> DEFINE code == IF out.ok THEN 403 ELSE 500
  <2>1. PICK changes \in BOOLEAN : Answer(w, out, changes, job[w].row, code)
    BY <1>5, <1>8
  <2>2. code \in {403, 500} /\ (code = 403 => ~passes)
    BY <1>8
  <2> HIDE DEF code
  <2> QED
    BY <1>1, <1>7, <2>1, <2>2 DEF passes
<1> QED
  BY <1>5, <1>6, <1>8

LEMMA ContentEffect ==
  ASSUME Shaped, CountersOK, JobsSound, ChatsTypeOK, ChatsFresh, NEW w \in Workers, read_content(w)
  PROVE  /\ ChatStart(w) /\ UNCHANGED chatVars /\ job[w].at = "content" /\ job'[w].at = "idle"
         /\ \A a \in answers' \ answers :
              /\ a.route \in {"get_chat_info", "get_messages"} /\ a.row = job[w].row /\ a.user = job[w].user
              /\ a.code \in {200, 500} /\ a.disturbed = job[w].disturbed
<1>1. job[w].at = "content" /\ UNCHANGED chatVars
  BY DEF read_content, At
<1>2. PICK out \in Outcomes : Answer(w, out, FALSE, job[w].row, IF out.ok THEN 200 ELSE 500)
  BY DEF read_content
<1>3. PICK changes, code : /\ changes \in BOOLEAN /\ code \in {200, 500}
                           /\ Answer(w, out, changes, job[w].row, code)
  BY <1>2, ZenonT(60)
<1>4. code \in Codes
  BY <1>3 DEF Codes
<1>5. job[w].route \in {"get_chat_info", "get_messages"} /\ job[w].at \in ChatLabels
  BY <1>1 DEF JobsSound, JobSound, ChatJob, ChatLabels
<1>6. ChatsTypeOK' /\ ChatsKept /\ chat_members' = chat_members
  BY <1>1, NothingChanged DEF chatVars
<1>7. ChatStart(w)
  BY <1>3, <1>4, <1>5, <1>6, ChatLast
<1>8. job'[w].at = "idle" /\ answers' = answers \cup {Report(w, job[w].row, code, out.ok)}
  BY <1>3, AnswerEffect, IdleFields
<1>9. \A a \in answers' \ answers :
        a.route = job[w].route /\ a.row = job[w].row /\ a.user = job[w].user /\ a.code = code
        /\ a.disturbed = job[w].disturbed
  BY <1>8, ReportFields, OutcomeFacts
<1> QED
  BY <1>1, <1>3, <1>5, <1>7, <1>8, <1>9

LEMMA ChatsMoves ==
  ASSUME Shaped, CountersOK, JobsSound, ChatsTypeOK, ChatsFresh, NEW w \in Workers, ChatsStep(w)
  PROVE  ChatStart(w) /\ ChatsFresh'
<1> SUFFICES ChatStart(w)
  BY FreshKept DEF ChatStart
<1>1. CASE \/ open_direct(w) \/ create_group(w) \/ add_member(w) \/ remove_member(w)
           \/ get_chat_info(w) \/ get_messages(w)
  BY <1>1, ChatRequests
<1>2. CASE existing_chat(w)
  BY <1>2, ExistingEffect
<1>3. CASE insert_direct(w)
  BY <1>3, DirectEffect
<1>4. CASE insert_both(w)
  BY <1>4, BothEffect
<1>5. CASE insert_group(w)
  BY <1>5, GroupEffect
<1>6. CASE insert_owner(w)
  BY <1>6, OwnerEffect
<1>7. CASE insert_member(w)
  BY <1>7, MemberEffect
<1>8. CASE upsert_member(w)
  BY <1>8, UpsertEffect
<1>9. CASE leave_chat(w)
  BY <1>9, LeaveEffect
<1>10. CASE verify_membership(w)
  BY <1>10, VerifyEffect
<1>11. CASE read_content(w)
  BY <1>11, ContentEffect
<1> QED
  BY <1>1, <1>2, <1>3, <1>4, <1>5, <1>6, <1>7, <1>8, <1>9, <1>10, <1>11 DEF ChatsStep

----------------------------------------------------------------------------
(* Channels *)

ChannelRow == [username : Titles, owner_id : Users, subscriber_count : Nat]
SubscriberRow == [channel : DOMAIN channels, user : Users, role : {"owner", "subscriber"}]

(* The table channels only grows, only counters change in it, and no row   *)
(* of a subscriber is ever changed or removed.                             *)
ChannelsKept ==
  /\ DOMAIN channels \subseteq DOMAIN channels'
  /\ \A c \in DOMAIN channels : /\ channels'[c].username = channels[c].username
                                /\ channels'[c].owner_id = channels[c].owner_id
  /\ channel_subscribers \subseteq channel_subscribers'
  /\ IsFiniteSet(channel_subscribers) => IsFiniteSet(channel_subscribers')

LEMMA ChannelsSame ==
  ASSUME ChannelsTypeOK, plan' = plan, UNCHANGED channelVars
  PROVE  ChannelsTypeOK' /\ ChannelsKept
BY DEF ChannelsTypeOK, channelVars, ChannelsKept

LEMMA SequenceIsFunction ==
  ASSUME NEW S, NEW s \in Seq(S)
  PROVE  s \in [1..Len(s) -> S]
OBVIOUS

LEMMA ChannelAppended ==
  ASSUME ChannelsTypeOK, plan' = plan, NEW new \in ChannelRow, channels' = Append(channels, new),
         repeats' = Append(repeats, 0), UNCHANGED <<channel_subscribers, channel_posts>>,
         NEW id, id = Len(channels) + 1
  PROVE  /\ ChannelsTypeOK' /\ ChannelsKept /\ DOMAIN channels' = DOMAIN channels \cup {id}
         /\ id \in Nat /\ id \notin DOMAIN channels /\ channels'[id] = new /\ repeats'[id] = 0
         /\ \A c \in DOMAIN channels : channels'[c] = channels[c] /\ repeats'[c] = repeats[c]
         /\ \A r \in channel_subscribers : r.channel # id
<1>1. channels \in Seq(ChannelRow)
  BY DEF ChannelsTypeOK, ChannelRow
<1>2. /\ channels' \in Seq(ChannelRow) /\ DOMAIN channels = 1..Len(channels) /\ Len(channels) \in Nat
      /\ DOMAIN channels' = 1..(Len(channels) + 1)
      /\ \A i \in DOMAIN channels : channels'[i] = channels[i]
      /\ channels'[Len(channels) + 1] = new
  BY <1>1, AppendFacts
<1>3. repeats \in [1..Len(channels) -> Nat]
  BY <1>2 DEF ChannelsTypeOK
<1>4. repeats \in Seq(Nat) /\ Len(repeats) = Len(channels)
  BY <1>2, <1>3
<1>5. /\ repeats' \in Seq(Nat) /\ DOMAIN repeats' = 1..(Len(repeats) + 1)
      /\ \A i \in DOMAIN repeats : repeats'[i] = repeats[i]
      /\ repeats'[Len(repeats) + 1] = 0
  BY <1>4, AppendFacts
<1>6. repeats' \in [DOMAIN channels' -> Nat] /\ repeats'[id] = 0
      /\ \A i \in DOMAIN channels : repeats'[i] = repeats[i]
  <2>1. Len(repeats') = Len(channels) + 1
    BY <1>4
  <2>2. repeats' \in [1..Len(repeats') -> Nat]
    BY <1>5, SequenceIsFunction
  <2>3. DOMAIN channels' = 1..Len(repeats') /\ DOMAIN repeats = DOMAIN channels
    BY <1>2, <1>3, <2>1
  <2> QED
    BY <1>4, <1>5, <2>2, <2>3
<1>7. DOMAIN channels' = DOMAIN channels \cup {id} /\ id \notin DOMAIN channels /\ id \in Nat
  BY <1>2
<1>8. channel_subscribers' \subseteq SubscriberRow'
  BY <1>7 DEF ChannelsTypeOK, SubscriberRow
<1>9. channel_posts' \subseteq [id : 1..plan'.requests, channel : DOMAIN channels', author : Users]
  BY <1>7 DEF ChannelsTypeOK
<1>10. ChannelsTypeOK'
  BY <1>2, <1>6, <1>8, <1>9 DEF ChannelsTypeOK, ChannelRow, SubscriberRow
<1>11. ChannelsKept
  BY <1>2, <1>7 DEF ChannelsKept
<1>12. \A r \in channel_subscribers : r.channel # id
  BY <1>7 DEF ChannelsTypeOK
<1> QED
  BY <1>2, <1>6, <1>7, <1>10, <1>11, <1>12

LEMMA SubscriberInserted ==
  ASSUME ChannelsTypeOK, plan' = plan, NEW c \in DOMAIN channels, NEW u \in Users,
         NEW role \in {"owner", "subscriber"}, ~Subscribed(c, u),
         channel_subscribers' = channel_subscribers \cup {Subscriber(c, u, role)},
         UNCHANGED <<channels, channel_posts, repeats>>
  PROVE  ChannelsTypeOK' /\ ChannelsKept
<1> DEFINE new == Subscriber(c, u, role)
<1>1. new \in SubscriberRow /\ new.channel = c /\ new.user = u
  BY DEF Subscriber, SubscriberRow
<1>2. channel_subscribers' \subseteq SubscriberRow'
  BY <1>1 DEF ChannelsTypeOK, SubscriberRow
<1>3. \A r \in channel_subscribers : ~(r.channel = c /\ r.user = u)
  BY DEF Subscribed
<1> HIDE DEF new
<1>4. \A r, s \in channel_subscribers' : r.channel = s.channel /\ r.user = s.user => r = s
  BY <1>1, <1>3 DEF ChannelsTypeOK, new
<1>5. ChannelsTypeOK'
  BY <1>2, <1>4 DEF ChannelsTypeOK, SubscriberRow
<1>6. IsFiniteSet(channel_subscribers) => IsFiniteSet(channel_subscribers')
  BY FS_AddElement
<1> QED
  BY <1>5, <1>6 DEF ChannelsKept

LEMMA RepeatCounted ==
  ASSUME ChannelsTypeOK, plan' = plan, NEW c \in DOMAIN channels,
         repeats' = [repeats EXCEPT ![c] = @ + 1],
         UNCHANGED <<channels, channel_subscribers, channel_posts>>
  PROVE  /\ ChannelsTypeOK' /\ ChannelsKept /\ repeats'[c] = repeats[c] + 1
         /\ \A d \in DOMAIN channels : d # c => repeats'[d] = repeats[d]
<1>1. repeats \in [DOMAIN channels -> Nat]
  BY DEF ChannelsTypeOK
<1>2. /\ repeats' \in [DOMAIN channels' -> Nat] /\ repeats'[c] = repeats[c] + 1
      /\ \A d \in DOMAIN channels : d # c => repeats'[d] = repeats[d]
  BY <1>1
<1> QED
  BY <1>2 DEF ChannelsTypeOK, ChannelsKept

LEMMA CounterRaised ==
  ASSUME ChannelsTypeOK, plan' = plan, NEW c \in DOMAIN channels, channels' = Counted(c),
         UNCHANGED <<channel_subscribers, channel_posts, repeats>>
  PROVE  /\ ChannelsTypeOK' /\ ChannelsKept /\ DOMAIN channels' = DOMAIN channels
         /\ channels'[c].subscriber_count = channels[c].subscriber_count + 1
         /\ \A d \in DOMAIN channels : d # c => channels'[d] = channels[d]
<1> DEFINE e == [channels[c] EXCEPT !.subscriber_count = @ + 1]
<1>0. channels \in Seq(ChannelRow)
  BY DEF ChannelsTypeOK, ChannelRow
<1>1. channels \in Seq(ChannelRow) /\ channels[c] \in ChannelRow
  BY <1>0
<1>2. /\ e \in ChannelRow /\ e.username = channels[c].username /\ e.owner_id = channels[c].owner_id
      /\ e.subscriber_count = channels[c].subscriber_count + 1
  BY <1>1 DEF ChannelRow
<1>3. channels' = [channels EXCEPT ![c] = e]
  BY DEF Counted
<1> HIDE DEF e
<1>4. /\ channels' \in Seq(ChannelRow) /\ DOMAIN channels' = DOMAIN channels /\ channels'[c] = e
      /\ \A d \in DOMAIN channels : d # c => channels'[d] = channels[d]
  BY <1>1, <1>2, <1>3, ReplaceFacts
<1>5. ChannelsTypeOK'
  BY <1>4 DEF ChannelsTypeOK, ChannelRow
<1>6. ChannelsKept
  BY <1>2, <1>4 DEF ChannelsKept
<1> QED
  BY <1>2, <1>4, <1>5, <1>6

(* What the step of a channel handler leaves true of itself.               *)
ChannelStart(w) ==
  /\ Frame(w) /\ Within(w, ChannelLabels, ChannelRoutes) /\ AnyJob(job[w])' /\ ChannelJob(job[w])'
  /\ ChannelsTypeOK' /\ ChannelsKept
  /\ channel_subscribers' = channel_subscribers \/ Noted(w)

LEMMA ChannelRequests ==
  ASSUME Shaped, CountersOK, JobsSound, ChannelsTypeOK, NEW w \in Workers,
         create_channel(w) \/ subscribe_channel(w) \/ create_post(w) \/ delete_post(w)
  PROVE  /\ ChannelStart(w) /\ UNCHANGED channelVars /\ answers' = answers /\ job[w].at = "idle"
         /\ job'[w].at \in {"channel", "subscribe", "role", "delete"}
<1>l. /\ "channel" \in ChannelLabels /\ "subscribe" \in ChannelLabels /\ "role" \in ChannelLabels
      /\ "delete" \in ChannelLabels /\ ChannelLabels \subseteq Labels
  BY DEF ChannelLabels, Labels
<1>u. UNCHANGED channelVars
  BY DEF create_channel, subscribe_channel, create_post, delete_post
<1>r. requests \in Nat /\ plan.requests \in Nat
  BY PlansAssumption DEF CountersOK
<1>1. ASSUME NEW route, NEW u \in Users \cup {Nobody}, NEW arg, NEW r \in Nat, NEW label \in ChannelLabels,
             Request(w, route, u, arg, r, label)
      PROVE  /\ Frame(w) /\ Within(w, ChannelLabels, ChannelRoutes) /\ AnyJob(job[w])'
             /\ ChannelsTypeOK' /\ ChannelsKept /\ answers' = answers /\ job[w].at = "idle" /\ plan' = plan
             /\ job'[w].at = label /\ job'[w].route = route /\ job'[w].user = u /\ job'[w].arg = arg
             /\ job'[w].row = r
  <2>1. label \in Labels
    BY <1>l
  <2>2. Frame(w) /\ Within(w, ChannelLabels, ChannelRoutes) /\ AnyJob(job[w])'
    BY <1>1, <2>1, Starts
  <2>3. /\ answers' = answers /\ job[w].at = "idle" /\ plan' = plan /\ job'[w].at = label
        /\ job'[w].route = route /\ job'[w].user = u /\ job'[w].arg = arg /\ job'[w].row = r
    BY <1>1, RequestEffect
  <2> QED
    BY <1>u, <2>2, <2>3, ChannelsSame
<1>2. CASE create_channel(w)
  <2>1. PICK u \in Users, name \in Titles, r \in Nat : Request(w, "create_channel", u, name, r, "channel")
    BY <1>2 DEF create_channel
  <2>2. /\ Frame(w) /\ Within(w, ChannelLabels, ChannelRoutes) /\ AnyJob(job[w])'
        /\ ChannelsTypeOK' /\ ChannelsKept /\ answers' = answers /\ job[w].at = "idle"
        /\ job'[w].at = "channel" /\ job'[w].route = "create_channel" /\ job'[w].user = u /\ job'[w].arg = name
    BY <1>1, <1>l, <2>1
  <2> QED
    BY <1>u, <2>2 DEF ChannelStart, ChannelJob, channelVars
<1>3. ASSUME NEW u \in Users, NEW c \in DOMAIN channels,
             Request(w, "subscribe_channel", u, Nobody, c, "subscribe")
      PROVE  /\ ChannelStart(w) /\ answers' = answers /\ job[w].at = "idle" /\ job'[w].at = "subscribe"
  <2>1. c \in Nat
    BY DEF ChannelsTypeOK
  <2>2. /\ Frame(w) /\ Within(w, ChannelLabels, ChannelRoutes) /\ AnyJob(job[w])'
        /\ ChannelsTypeOK' /\ ChannelsKept /\ answers' = answers /\ job[w].at = "idle"
        /\ job'[w].at = "subscribe" /\ job'[w].route = "subscribe_channel" /\ job'[w].user = u
        /\ job'[w].row = c
    BY <1>1, <1>3, <1>l, <2>1
  <2> QED
    BY <1>u, <2>2 DEF ChannelStart, ChannelJob, channelVars
<1>4. ASSUME NEW u \in Users, NEW c \in DOMAIN channels, NEW id, id = requests + 1,
             Request(w, "create_post", u, id, c, "role")
      PROVE  /\ ChannelStart(w) /\ answers' = answers /\ job[w].at = "idle" /\ job'[w].at = "role"
  <2>1. c \in Nat
    BY DEF ChannelsTypeOK
  <2>2. /\ Frame(w) /\ Within(w, ChannelLabels, ChannelRoutes) /\ AnyJob(job[w])'
        /\ ChannelsTypeOK' /\ ChannelsKept /\ answers' = answers /\ job[w].at = "idle" /\ plan' = plan
        /\ job'[w].at = "role" /\ job'[w].route = "create_post" /\ job'[w].user = u
        /\ job'[w].row = c /\ job'[w].arg = id
    BY <1>1, <1>4, <1>l, <2>1
  <2>3. id \in 1..plan.requests
    BY <1>4, <1>r DEF Request
  <2> QED
    BY <1>u, <2>2, <2>3 DEF ChannelStart, ChannelJob, channelVars
<1>5. ASSUME NEW c \in DOMAIN channels, NEW id, Request(w, "delete_post", Nobody, id, c, "delete")
      PROVE  /\ ChannelStart(w) /\ answers' = answers /\ job[w].at = "idle" /\ job'[w].at = "delete"
  <2>1. c \in Nat
    BY DEF ChannelsTypeOK
  <2>2. /\ Frame(w) /\ Within(w, ChannelLabels, ChannelRoutes) /\ AnyJob(job[w])'
        /\ ChannelsTypeOK' /\ ChannelsKept /\ answers' = answers /\ job[w].at = "idle"
        /\ job'[w].at = "delete" /\ job'[w].route = "delete_post" /\ job'[w].row = c
    BY <1>1, <1>5, <1>l, <2>1
  <2> QED
    BY <1>u, <2>2 DEF ChannelStart, ChannelJob, channelVars
<1>6. CASE subscribe_channel(w)
  BY <1>3, <1>6, <1>u DEF subscribe_channel
<1>7. CASE create_post(w)
  BY <1>4, <1>7, <1>u DEF create_post
<1>8. CASE delete_post(w)
  BY <1>5, <1>8, <1>u DEF delete_post
<1> QED
  BY <1>2, <1>6, <1>7, <1>8, <1>u

(* The last statement of a channel handler, whatever it does.              *)
LEMMA ChannelLast ==
  ASSUME Shaped, CountersOK, JobsSound, NEW w \in Workers, NEW out \in Outcomes, NEW legal \in BOOLEAN,
         NEW code \in Codes, NEW broken \in Codes, Last(w, out, legal, code, broken),
         job[w].at \in ChannelLabels, ChannelsTypeOK', ChannelsKept,
         channel_subscribers' = channel_subscribers \/ (out.done /\ legal)
  PROVE  /\ ChannelStart(w) /\ job'[w].at = "idle"
         /\ \E a \in answers' :
              /\ answers' = answers \cup {a} /\ a.route = job[w].route /\ a.row = job[w].row
              /\ a.user = job[w].user /\ a.arg = job[w].arg /\ a.faulty = (job[w].faulty \/ ~out.ok)
              /\ a.disturbed = job[w].disturbed
              /\ ~out.ok => a.code = 500
              /\ out.ok /\ legal => a.code = code
              /\ out.ok /\ ~legal => a.code = broken
         /\ fails' >= fails /\ (conn /\ fails' = fails => conn' /\ out.ok)
<1>1. job[w].route \in ChannelRoutes /\ job[w].at # "idle"
  BY DEF JobsSound, JobSound, ChannelJob, ChannelLabels, ChannelRoutes
<1>2. Frame(w) /\ Within(w, ChannelLabels, ChannelRoutes) /\ JobSound(job[w])'
  BY <1>1, LastSettles
<1>3. PICK k : /\ Answer(w, out, legal, job[w].row, k)
               /\ out.ok /\ legal => k = code
               /\ ~out.ok => k = 500
               /\ out.ok /\ ~legal => k = broken
  BY LastAnswers
<1>4. /\ job'[w].at = "idle" /\ answers' = answers \cup {Report(w, job[w].row, k, out.ok)}
      /\ (out.done /\ legal => Noted(w))
      /\ fails' >= fails /\ (conn /\ fails' = fails => conn' /\ out.ok)
  BY <1>3, AnswerEffect, IdleFields
<1>5. ChannelStart(w)
  BY <1>2, <1>4 DEF ChannelStart, JobSound
<1> DEFINE a == Report(w, job[w].row, k, out.ok)
<1>6. /\ a.code = k /\ a.row = job[w].row /\ a.route = job[w].route /\ a.user = job[w].user
      /\ a.arg = job[w].arg /\ a.faulty = (job[w].faulty \/ ~out.ok) /\ a.disturbed = job[w].disturbed
  BY OutcomeFacts, ReportFields
<1> HIDE DEF a
<1>7. a \in answers' /\ answers' = answers \cup {a}
  BY <1>4 DEF a
<1> QED
  BY <1>3, <1>4, <1>5, <1>6, <1>7

(* Statement by statement, as for the chats.  The first of create_channel, *)
(* new being the row of the channel and id its number.                     *)
ChannelInserted(w, new, id) ==
  /\ ChannelStart(w) /\ job[w].at = "channel"
  /\ UNCHANGED <<channel_subscribers, channel_posts>>
  /\ new \in ChannelRow /\ new.username = job[w].arg /\ new.owner_id = job[w].user
  /\ new.subscriber_count = 0
  /\ \A a \in answers' \ answers : a.code # 201
  /\ \/ UNCHANGED <<channels, repeats>>
     \/ channels' = Append(channels, new) /\ repeats' = Append(repeats, 0)
  /\ \/ /\ job'[w].at = "channel owner" /\ job'[w].user = job[w].user /\ job'[w].arg = job[w].arg
        /\ job'[w].row = id /\ channels' = Append(channels, new) /\ repeats' = Append(repeats, 0)
     \/ /\ job'[w].at = "idle"
        /\ \/ UNCHANGED channels
           \/ \E a \in answers' : a.route = "create_channel" /\ a.arg = job[w].arg /\ a.faulty

LEMMA ChannelEffect ==
  ASSUME Shaped, CountersOK, JobsSound, ChannelsTypeOK, NEW w \in Workers, insert_channel(w),
         NEW new, new = [username |-> job[w].arg, owner_id |-> job[w].user, subscriber_count |-> 0],
         NEW id, id = Len(channels) + 1
  PROVE  ChannelInserted(w, new, id)
<1> DEFINE legal == \A c \in DOMAIN channels : channels[c].username # job[w].arg
<1>1. job[w].at = "channel" /\ UNCHANGED <<channel_subscribers, channel_posts>>
  BY DEF insert_channel, At
<1>2. PICK out \in Outcomes :
        /\ channels' = IF out.done /\ legal THEN Append(channels, new) ELSE channels
        /\ repeats' = IF out.done /\ legal THEN Append(repeats, 0) ELSE repeats
        /\ IF out.ok /\ legal THEN Continue(w, out, TRUE, id, {}, "channel owner")
           ELSE Last(w, out, legal, 201, 409)
  BY DEF insert_channel
<1>3. /\ job[w].route = "create_channel" /\ job[w].user \in Users /\ job[w].arg \in Titles
      /\ job[w].at \in ChannelLabels /\ job[w].at # "idle"
  BY <1>1 DEF JobsSound, JobSound, ChannelJob, ChannelLabels
<1>4. new \in ChannelRow /\ new.username = job[w].arg /\ new.owner_id = job[w].user
      /\ new.subscriber_count = 0
  BY <1>3 DEF ChannelRow
<1>o. /\ out.done \in BOOLEAN /\ out.ok \in BOOLEAN /\ (out.ok => out.done) /\ legal \in BOOLEAN
      /\ 201 \in Codes /\ 409 \in Codes
  BY OutcomeFacts DEF Codes
<1> HIDE DEF legal
<1>5. CASE out.ok /\ legal
  <2>1. PICK changes \in BOOLEAN : Continue(w, out, changes, id, {}, "channel owner")
    BY <1>2, <1>5
  <2>2. /\ job'[w].at = "channel owner" /\ job'[w].route = job[w].route /\ job'[w].user = job[w].user
        /\ job'[w].arg = job[w].arg /\ job'[w].row = id /\ answers' = answers /\ plan' = plan
    <3>1. ASSUME NEW i, NEW rest, NEW next, Continue(w, out, changes, i, rest, next)
          PROVE  /\ job'[w].at = next /\ job'[w].route = job[w].route
                 /\ job'[w].user = job[w].user /\ job'[w].arg = job[w].arg /\ job'[w].row = i
                 /\ answers' = answers /\ plan' = plan
      BY <3>1, ContinueEffect
    <3> QED
      BY <2>1, <3>1, Zenon
  <2>3. channels' = Append(channels, new) /\ repeats' = Append(repeats, 0)
    BY <1>2, <1>5, <1>o
  <2>4. /\ ChannelsTypeOK' /\ ChannelsKept /\ DOMAIN channels' = DOMAIN channels \cup {id} /\ id \in Nat
    BY <1>1, <1>4, <2>2, <2>3, ChannelAppended
  <2>5. "channel owner" \in ChannelLabels /\ "channel owner" \in Labels
    BY DEF ChannelLabels, Labels
  <2>6. Frame(w) /\ Within(w, ChannelLabels, ChannelRoutes) /\ AnyJob(job[w])'
    BY <1>3, <2>1, <2>4, <2>5, GoesOn, ZenonT(60)
  <2>7. ChannelStart(w)
    BY <1>1, <1>3, <2>2, <2>4, <2>6 DEF ChannelStart, ChannelJob
  <2> QED
    BY <1>1, <1>4, <2>2, <2>3, <2>7 DEF ChannelInserted
<1>6. CASE ~(out.ok /\ legal)
  <2>1. Last(w, out, legal, 201, 409)
    BY <1>2, <1>6
  <2>p. plan' = plan
    BY <2>1 DEF Last, Answer, Executed
  <2>2. ChannelsTypeOK' /\ ChannelsKept
    <3>1. CASE out.done /\ legal
      BY <1>1, <1>2, <1>4, <2>p, <3>1, ChannelAppended
    <3>2. CASE ~(out.done /\ legal)
      BY <1>1, <1>2, <2>p, <3>2, ChannelsSame DEF channelVars
    <3> QED
      BY <3>1, <3>2
  <2>3. /\ ChannelStart(w) /\ job'[w].at = "idle"
        /\ \E a \in answers' :
              /\ answers' = answers \cup {a} /\ a.route = job[w].route
              /\ a.arg = job[w].arg /\ a.faulty = (job[w].faulty \/ ~out.ok)
              /\ ~out.ok => a.code = 500
              /\ out.ok /\ ~legal => a.code = 409
    BY <1>1, <1>3, <1>o, <2>1, <2>2, ChannelLast
  <2>4. PICK a \in answers' :
              /\ answers' = answers \cup {a} /\ a.route = job[w].route
              /\ a.arg = job[w].arg /\ a.faulty = (job[w].faulty \/ ~out.ok)
              /\ ~out.ok => a.code = 500
              /\ out.ok /\ ~legal => a.code = 409
    BY <2>3
  <2>5. \A b \in answers' \ answers : b.code # 201
    BY <1>6, <1>o, <2>4
  <2>6. channels' = channels \/ a.faulty
    BY <1>2, <1>6, <1>o, <2>4
  <2>7. \/ UNCHANGED <<channels, repeats>>
        \/ channels' = Append(channels, new) /\ repeats' = Append(repeats, 0)
    BY <1>2
  <2> QED
    BY <1>1, <1>3, <1>4, <2>3, <2>4, <2>5, <2>6, <2>7 DEF ChannelInserted
<1> QED
  BY <1>5, <1>6

(* The second statement of create_channel, r being the row of the owner.   *)
OwnerInserted(w, r) ==
  /\ ChannelStart(w) /\ job[w].at = "channel owner" /\ job'[w].at = "idle"
  /\ UNCHANGED <<channels, channel_posts, repeats>>
  /\ \/ channel_subscribers' = channel_subscribers
     \/ channel_subscribers' = channel_subscribers \cup {r}
  /\ \E a \in answers' :
       /\ answers' = answers \cup {a} /\ a.route = "create_channel" /\ a.arg = job[w].arg
       /\ a.row = job[w].row /\ a.user = job[w].user /\ a.disturbed = job[w].disturbed
       /\ a.code = 201 => r \in channel_subscribers'
       /\ a.faulty \/ r \in channel_subscribers' \/ (a.code = 409 /\ Subscribed(job[w].row, job[w].user))

LEMMA ChannelOwnerEffect ==
  ASSUME Shaped, CountersOK, JobsSound, ChannelsTypeOK, NEW w \in Workers, insert_channel_owner(w),
         NEW r, r = Subscriber(job[w].row, job[w].user, "owner")
  PROVE  OwnerInserted(w, r)
<1> DEFINE c == job[w].row
           u == job[w].user
           legal == ~Subscribed(c, u)
<1>1. job[w].at = "channel owner" /\ UNCHANGED <<channels, channel_posts, repeats>>
  BY DEF insert_channel_owner, At
<1>2. PICK out \in Outcomes :
        /\ channel_subscribers' = IF out.done /\ legal
                                  THEN channel_subscribers \cup {r}
                                  ELSE channel_subscribers
        /\ Last(w, out, legal, 201, 409)
  BY DEF insert_channel_owner
<1>3. /\ job[w].route = "create_channel" /\ u \in Users /\ job[w].arg \in Titles /\ c \in DOMAIN channels
      /\ job[w].at \in ChannelLabels /\ job[w].at # "idle"
  BY <1>1 DEF JobsSound, JobSound, ChannelJob, ChannelLabels
<1>o. /\ out.done \in BOOLEAN /\ out.ok \in BOOLEAN /\ (out.ok => out.done) /\ legal \in BOOLEAN
      /\ 201 \in Codes /\ 409 \in Codes
  BY OutcomeFacts DEF Codes
<1>p. plan' = plan
  BY <1>2 DEF Last, Answer, Executed
<1>4. /\ ChannelsTypeOK' /\ ChannelsKept
      /\ channel_subscribers' = channel_subscribers \/ (out.done /\ legal)
      /\ out.done /\ legal => r \in channel_subscribers'
  <2>1. CASE out.done /\ legal
    <3>1. channel_subscribers' = channel_subscribers \cup {r}
      BY <1>2, <2>1
    <3>2. r \in channel_subscribers'
      BY <3>1
    <3>3. ChannelsTypeOK' /\ ChannelsKept
      BY <1>1, <1>3, <1>p, <2>1, <3>1, SubscriberInserted
    <3> QED
      BY <2>1, <3>2, <3>3
  <2>2. CASE ~(out.done /\ legal)
    BY <1>1, <1>2, <1>p, <2>2, ChannelsSame DEF channelVars
  <2> QED
    BY <2>1, <2>2
<1> HIDE DEF legal
<1>5. /\ ChannelStart(w) /\ job'[w].at = "idle"
      /\ \E a \in answers' :
              /\ answers' = answers \cup {a} /\ a.route = job[w].route /\ a.row = job[w].row
              /\ a.user = job[w].user /\ a.arg = job[w].arg /\ a.faulty = (job[w].faulty \/ ~out.ok)
              /\ a.disturbed = job[w].disturbed
              /\ ~out.ok => a.code = 500
              /\ out.ok /\ legal => a.code = 201
              /\ out.ok /\ ~legal => a.code = 409
  BY <1>2, <1>3, <1>4, <1>o, ChannelLast
<1>6. PICK a \in answers' :
              /\ answers' = answers \cup {a} /\ a.route = job[w].route /\ a.row = job[w].row
              /\ a.user = job[w].user /\ a.arg = job[w].arg /\ a.faulty = (job[w].faulty \/ ~out.ok)
              /\ a.disturbed = job[w].disturbed
              /\ ~out.ok => a.code = 500
              /\ out.ok /\ legal => a.code = 201
              /\ out.ok /\ ~legal => a.code = 409
  BY <1>5
<1>7. a.code = 201 => out.done /\ legal
  BY <1>6, <1>o
<1>8. a.faulty \/ (out.done /\ legal) \/ (a.code = 409 /\ ~legal)
  BY <1>6, <1>o
<1>9. \/ channel_subscribers' = channel_subscribers
      \/ channel_subscribers' = channel_subscribers \cup {r}
  BY <1>2
<1>10. a.code = 201 => r \in channel_subscribers'
  BY <1>4, <1>7
<1>11. a.faulty \/ r \in channel_subscribers' \/ (a.code = 409 /\ Subscribed(c, u))
  BY <1>4, <1>8 DEF legal
<1>12. \E b \in answers' :
         /\ answers' = answers \cup {b} /\ b.route = "create_channel" /\ b.arg = job[w].arg
         /\ b.row = c /\ b.user = u /\ b.disturbed = job[w].disturbed
         /\ b.code = 201 => r \in channel_subscribers'
         /\ b.faulty \/ r \in channel_subscribers' \/ (b.code = 409 /\ Subscribed(c, u))
  BY <1>3, <1>6, <1>10, <1>11
<1> QED
  BY <1>1, <1>5, <1>9, <1>12 DEF OwnerInserted

(* The first statement of subscribe_channel, by user u to channel c.       *)
SubscriptionDone(w, c, u) ==
  /\ ChannelStart(w) /\ job[w].at = "subscribe" /\ UNCHANGED <<channels, channel_posts>>
  /\ c \in DOMAIN channels
  /\ \A a \in answers' \ answers : a.route = "subscribe_channel"
  /\ \/ UNCHANGED <<channel_subscribers, repeats>> /\ job'[w].at = "idle"
     \/ /\ \/ /\ channel_subscribers' = channel_subscribers \cup {Subscriber(c, u, "subscriber")}
              /\ Subscriber(c, u, "subscriber") \notin channel_subscribers /\ repeats' = repeats
           \/ /\ channel_subscribers' = channel_subscribers
              /\ repeats' = [repeats EXCEPT ![c] = @ + 1]
        /\ \/ job'[w].at = "count" /\ job'[w].row = c /\ conn'
           \/ job'[w].at = "idle" /\ fails' > 0

LEMMA SubscribeEffect ==
  ASSUME Shaped, CountersOK, JobsSound, ChannelsTypeOK, NEW w \in Workers, insert_subscriber(w),
         NEW c, c = job[w].row, NEW u, u = job[w].user
  PROVE  SubscriptionDone(w, c, u)
<1> DEFINE old == Subscribed(c, u)
           chg == ~old
<1>1. job[w].at = "subscribe" /\ UNCHANGED <<channels, channel_posts>>
  BY DEF insert_subscriber, At
<1>2. PICK out \in Outcomes :
        /\ channel_subscribers' = IF out.done THEN Subscribe(c, u) ELSE channel_subscribers
        /\ repeats' = IF out.done /\ old THEN [repeats EXCEPT ![c] = @ + 1] ELSE repeats
        /\ IF out.ok THEN Continue(w, out, chg, c, {}, "count") ELSE Last(w, out, chg, 200, 500)
  BY DEF insert_subscriber
<1>3. /\ job[w].route = "subscribe_channel" /\ u \in Users /\ c \in DOMAIN channels
      /\ job[w].at \in ChannelLabels /\ job[w].at # "idle" /\ c \in Nat
  BY <1>1 DEF JobsSound, JobSound, ChannelJob, AnyJob, ChannelLabels
<1>o. /\ out.done \in BOOLEAN /\ out.ok \in BOOLEAN /\ (out.ok => out.done) /\ (out.done => conn)
      /\ old \in BOOLEAN /\ chg \in BOOLEAN
      /\ 200 \in Codes /\ 500 \in Codes
  BY OutcomeFacts DEF Codes, Subscribed
<1>p. plan' = plan /\ Executed(out)
  BY <1>2 DEF Last, Answer, Continue, Executed
<1>t. /\ ChannelsTypeOK' /\ ChannelsKept
      /\ channel_subscribers' = channel_subscribers \/ (out.done /\ chg)
      /\ ~out.done => UNCHANGED <<channel_subscribers, repeats>>
      /\ out.done =>
           \/ /\ channel_subscribers' = channel_subscribers \cup {Subscriber(c, u, "subscriber")}
              /\ Subscriber(c, u, "subscriber") \notin channel_subscribers /\ repeats' = repeats
           \/ /\ channel_subscribers' = channel_subscribers
              /\ repeats' = [repeats EXCEPT ![c] = @ + 1]
  <2>1. CASE out.done /\ old
    <3>1. channel_subscribers' = channel_subscribers /\ repeats' = [repeats EXCEPT ![c] = @ + 1]
      BY <1>2, <2>1 DEF Subscribe
    <3>2. ChannelsTypeOK' /\ ChannelsKept
      BY <1>1, <1>3, <1>p, <3>1, RepeatCounted
    <3> QED
      BY <2>1, <3>1, <3>2
  <2>2. CASE out.done /\ ~old
    <3>1. channel_subscribers' = channel_subscribers \cup {Subscriber(c, u, "subscriber")} /\ repeats' = repeats
      BY <1>2, <2>2 DEF Subscribe
    <3>2. ChannelsTypeOK' /\ ChannelsKept
      BY <1>1, <1>3, <1>p, <2>2, <3>1, SubscriberInserted
    <3>3. Subscriber(c, u, "subscriber") \notin channel_subscribers
      BY <2>2 DEF Subscribed, Subscriber
    <3> QED
      BY <2>2, <3>1, <3>2, <3>3
  <2>3. CASE ~out.done
    <3>1. UNCHANGED <<channel_subscribers, repeats>>
      BY <1>2, <2>3
    <3>2. ChannelsTypeOK' /\ ChannelsKept
      BY <1>1, <1>p, <3>1, ChannelsSame DEF channelVars
    <3> QED
      BY <2>3, <3>1, <3>2
  <2> QED
    BY <2>1, <2>2, <2>3
<1> HIDE DEF chg, old
<1>5. CASE out.ok
  <2>1. Continue(w, out, chg, c, {}, "count")
    BY <1>2, <1>5
  <2>2. /\ job'[w].at = "count" /\ job'[w].route = job[w].route /\ job'[w].user = job[w].user
        /\ job'[w].row = c /\ answers' = answers /\ (out.done /\ chg => Noted(w))
    <3>1. ASSUME NEW rest, NEW next, Continue(w, out, chg, c, rest, next)
          PROVE  /\ job'[w].at = next /\ job'[w].route = job[w].route /\ job'[w].user = job[w].user
                 /\ job'[w].row = c /\ answers' = answers /\ (out.done /\ chg => Noted(w))
      BY <1>o, <3>1, ContinueEffect
    <3> QED
      BY <2>1, <3>1, Zenon
  <2>3. "count" \in ChannelLabels /\ "count" \in Labels
    BY DEF ChannelLabels, Labels
  <2>4. Frame(w) /\ Within(w, ChannelLabels, ChannelRoutes) /\ AnyJob(job[w])'
    BY <1>o, <1>3, <2>1, <2>3, GoesOn
  <2>5. conn'
    BY <1>5, <1>p, OutcomeFacts DEF Executed
  <2>6. ChannelStart(w)
    BY <1>1, <1>3, <1>t, <2>2, <2>4 DEF ChannelStart, ChannelJob
  <2> QED
    BY <1>o, <1>1, <1>3, <1>5, <1>t, <2>2, <2>5, <2>6 DEF SubscriptionDone
<1>6. CASE ~out.ok
  <2>1. Last(w, out, chg, 200, 500)
    BY <1>2, <1>6
  <2>2. /\ ChannelStart(w) /\ job'[w].at = "idle"
        /\ \E a \in answers' : answers' = answers \cup {a} /\ a.route = job[w].route
    BY <1>3, <1>o, <1>t, <2>1, ChannelLast
  <2>3. out.done => fails' > 0
    <3>1. fails \in Nat
      BY PlansAssumption DEF CountersOK
    <3> QED
      BY <1>6, <1>o, <1>p, <3>1 DEF Executed
  <2>4. \A a \in answers' \ answers : a.route = "subscribe_channel"
    BY <1>3, <2>2
  <2> QED
    BY <1>1, <1>3, <1>o, <1>t, <2>2, <2>3, <2>4 DEF SubscriptionDone
<1> QED
  BY <1>o, <1>5, <1>6

LEMMA CountEffect ==
  ASSUME Shaped, CountersOK, JobsSound, ChannelsTypeOK, NEW w \in Workers, count_subscriber(w),
         NEW c, c = job[w].row
  PROVE  /\ ChannelStart(w) /\ job[w].at = "count" /\ job'[w].at = "idle" /\ c \in DOMAIN channels
         /\ UNCHANGED <<channel_subscribers, channel_posts, repeats>>
         /\ \A a \in answers' \ answers : a.route = "subscribe_channel"
         /\ \/ channels' = Counted(c)
            \/ channels' = channels /\ (conn => fails' > 0)
<1> DEFINE yes == TRUE
<1>1. job[w].at = "count" /\ UNCHANGED <<channel_subscribers, channel_posts, repeats>>
  BY DEF count_subscriber, At
<1>2. PICK out \in Outcomes :
        channels' = (IF out.done THEN Counted(c) ELSE channels) /\ Last(w, out, yes, 200, 500)
  BY DEF count_subscriber
<1>3. /\ job[w].route = "subscribe_channel" /\ c \in DOMAIN channels /\ job[w].at \in ChannelLabels
  BY <1>1 DEF JobsSound, JobSound, ChannelJob, ChannelLabels
<1>o. /\ out.done \in BOOLEAN /\ out.ok \in BOOLEAN /\ (out.ok => out.done) /\ yes \in BOOLEAN
      /\ 200 \in Codes /\ 500 \in Codes
  BY OutcomeFacts DEF Codes
<1> HIDE DEF yes
<1>p. plan' = plan /\ Executed(out)
  BY <1>2 DEF Last, Answer, Executed
<1>4. ChannelsTypeOK' /\ ChannelsKept
  <2>1. CASE out.done
    BY <1>1, <1>2, <1>3, <1>p, <2>1, CounterRaised
  <2>2. CASE ~out.done
    BY <1>1, <1>2, <1>p, <2>2, ChannelsSame DEF channelVars
  <2> QED
    BY <2>1, <2>2
<1>5. /\ ChannelStart(w) /\ job'[w].at = "idle"
      /\ \E a \in answers' : answers' = answers \cup {a} /\ a.route = job[w].route
  BY <1>1, <1>2, <1>3, <1>4, <1>o, ChannelLast
<1>6. ~out.done => (conn => fails' > 0)
  <2>1. fails \in Nat
    BY PlansAssumption DEF CountersOK
  <2> QED
    BY <1>o, <1>p, <2>1 DEF Executed
<1>7. \A a \in answers' \ answers : a.route = "subscribe_channel"
  BY <1>3, <1>5
<1> QED
  BY <1>1, <1>2, <1>3, <1>5, <1>6, <1>7

LEMMA RoleEffect ==
  ASSUME Shaped, CountersOK, JobsSound, ChannelsTypeOK, NEW w \in Workers, check_role(w)
  PROVE  /\ ChannelStart(w) /\ job[w].at = "role" /\ UNCHANGED channelVars
         /\ \A a \in answers' \ answers : a.route = "create_post"
         /\ \/ job'[w].at = "idle"
            \/ /\ job'[w].at = "post" /\ job'[w].user = job[w].user /\ job'[w].row = job[w].row
               /\ IsOwner(job[w].row, job[w].user)
<1> DEFINE passes == IsOwner(job[w].row, job[w].user)
<1>1. job[w].at = "role" /\ UNCHANGED channelVars /\ Select(w, passes, "post", 403)
  BY DEF check_role, At
<1>2. /\ job[w].route = "create_post" /\ job[w].user \in Users /\ job[w].row \in DOMAIN channels
      /\ job[w].at \in ChannelLabels /\ job[w].at # "idle" /\ job[w].arg \in 1..plan.requests
      /\ job[w].row \in Nat /\ job[w].rest \subseteq Users \cup {Nobody} /\ job[w].route \in ChannelRoutes
  BY <1>1 DEF JobsSound, JobSound, ChannelJob, AnyJob, ChannelLabels, ChannelRoutes
<1>3. /\ passes \in BOOLEAN /\ 403 \in Codes /\ 500 \in Codes
      /\ "post" \in ChannelLabels /\ "post" \in Labels
  BY DEF IsOwner, Codes, ChannelLabels, Labels
<1> HIDE DEF passes
<1>5. PICK out \in Outcomes :
        IF out.ok /\ passes
        THEN Continue(w, out, FALSE, job[w].row, job[w].rest, "post")
        ELSE Answer(w, out, FALSE, job[w].row, IF out.ok THEN 403 ELSE 500)
  BY <1>1 DEF Select
<1>p. plan' = plan
  BY <1>5 DEF Continue, Answer, Executed
<1>4. ChannelsTypeOK' /\ ChannelsKept /\ channel_subscribers' = channel_subscribers
  BY <1>1, <1>p, ChannelsSame DEF channelVars
<1>6. CASE out.ok /\ passes
  <2>1. PICK changes \in BOOLEAN : Continue(w, out, changes, job[w].row, job[w].rest, "post")
    BY <1>5, <1>6
  <2>2. Frame(w) /\ Within(w, ChannelLabels, ChannelRoutes) /\ AnyJob(job[w])'
    BY <1>2, <1>3, <2>1, GoesOn, ZenonT(60)
  <2>3. /\ job'[w].at = "post" /\ job'[w].route = job[w].route /\ job'[w].user = job[w].user
        /\ job'[w].row = job[w].row /\ job'[w].arg = job[w].arg /\ answers' = answers
    BY <2>1, ContinueEffect
  <2>4. ChannelStart(w)
    BY <1>1, <1>2, <1>4, <1>p, <2>2, <2>3 DEF ChannelStart, ChannelJob, channelVars
  <2> QED
    BY <1>1, <1>6, <2>3, <2>4 DEF passes
<1>7. CASE ~(out.ok /\ passes)
  <2> DEFINE code == IF out.ok THEN 403 ELSE 500
  <2>1. PICK changes \in BOOLEAN : Answer(w, out, changes, job[w].row, code)
    BY <1>5, <1>7
  <2>2. code \in Codes
    BY <1>3
  <2> HIDE DEF code
  <2>3. Frame(w) /\ Within(w, ChannelLabels, ChannelRoutes) /\ JobSound(job[w])'
    BY <1>2, <2>1, <2>2, Settles
  <2>4. job'[w].at = "idle" /\ answers' = answers \cup {Report(w, job[w].row, code, out.ok)}
    BY <2>1, AnswerEffect, IdleFields
  <2>5. \A a \in answers' \ answers : a.route = "create_post"
    BY <1>2, <2>4, ReportFields, OutcomeFacts
  <2>6. ChannelStart(w)
    BY <1>4, <2>3 DEF ChannelStart, JobSound
  <2> QED
    BY <1>1, <2>4, <2>5, <2>6
<1> QED
  BY <1>6, <1>7

LEMMA PostEffect ==
  ASSUME Shaped, CountersOK, JobsSound, ChannelsTypeOK, NEW w \in Workers, insert_post(w),
         NEW post, post = [id |-> job[w].arg, channel |-> job[w].row, author |-> job[w].user]
  PROVE  /\ ChannelStart(w) /\ job[w].at = "post" /\ job'[w].at = "idle"
         /\ UNCHANGED <<channels, channel_subscribers, repeats>>
         /\ \A a \in answers' \ answers : a.route = "create_post"
         /\ post.channel = job[w].row /\ post.author = job[w].user
         /\ channel_posts' \subseteq channel_posts \cup {post}
<1> DEFINE yes == TRUE
<1>1. job[w].at = "post" /\ UNCHANGED <<channels, channel_subscribers, repeats>>
  BY DEF insert_post, At
<1>2. PICK out \in Outcomes :
        /\ channel_posts' = IF out.done THEN channel_posts \cup {post} ELSE channel_posts
        /\ Last(w, out, yes, 201, 500)
  BY DEF insert_post
<1>3. /\ job[w].route = "create_post" /\ job[w].user \in Users /\ job[w].row \in DOMAIN channels
      /\ job[w].arg \in 1..plan.requests /\ job[w].at \in ChannelLabels
  BY <1>1 DEF JobsSound, JobSound, ChannelJob, ChannelLabels
<1>o. yes \in BOOLEAN /\ 201 \in Codes /\ 500 \in Codes
  BY DEF Codes
<1> HIDE DEF yes
<1>p. plan' = plan
  BY <1>2 DEF Last, Answer, Executed
<1>4. post \in [id : 1..plan.requests, channel : DOMAIN channels, author : Users]
      /\ post.channel = job[w].row /\ post.author = job[w].user
  BY <1>3
<1>5. channel_posts' \subseteq channel_posts \cup {post}
  BY <1>2
<1>6. ChannelsTypeOK' /\ ChannelsKept
  <2>1. channel_posts' \subseteq [id : 1..plan.requests, channel : DOMAIN channels, author : Users]
    BY <1>4, <1>5 DEF ChannelsTypeOK
  <2> QED
    BY <1>1, <1>p, <2>1 DEF ChannelsTypeOK, ChannelsKept
<1>7. /\ ChannelStart(w) /\ job'[w].at = "idle"
      /\ \E a \in answers' : answers' = answers \cup {a} /\ a.route = job[w].route
  BY <1>1, <1>2, <1>3, <1>6, <1>o, ChannelLast
<1>8. \A a \in answers' \ answers : a.route = "create_post"
  BY <1>3, <1>7
<1> QED
  BY <1>1, <1>4, <1>5, <1>7, <1>8

LEMMA DeleteEffect ==
  ASSUME Shaped, CountersOK, JobsSound, ChannelsTypeOK, NEW w \in Workers, delete_row(w)
  PROVE  /\ ChannelStart(w) /\ job[w].at = "delete" /\ job'[w].at = "idle"
         /\ UNCHANGED <<channels, channel_subscribers, repeats>>
         /\ \A a \in answers' \ answers : a.route = "delete_post"
         /\ channel_posts' \subseteq channel_posts
<1> DEFINE yes == TRUE
<1>1. job[w].at = "delete" /\ UNCHANGED <<channels, channel_subscribers, repeats>>
  BY DEF delete_row, At
<1>2. PICK out \in Outcomes : channel_posts' \subseteq channel_posts /\ Last(w, out, yes, 200, 500)
  BY DEF delete_row
<1>3. job[w].route = "delete_post" /\ job[w].at \in ChannelLabels
  BY <1>1 DEF JobsSound, JobSound, ChannelJob, ChannelLabels
<1>o. yes \in BOOLEAN /\ 200 \in Codes /\ 500 \in Codes
  BY DEF Codes
<1> HIDE DEF yes
<1>p. plan' = plan
  BY <1>2 DEF Last, Answer, Executed
<1>6. ChannelsTypeOK' /\ ChannelsKept
  BY <1>1, <1>2, <1>p DEF ChannelsTypeOK, ChannelsKept
<1>7. /\ ChannelStart(w) /\ job'[w].at = "idle"
      /\ \E a \in answers' : answers' = answers \cup {a} /\ a.route = job[w].route
  BY <1>1, <1>2, <1>3, <1>6, <1>o, ChannelLast
<1>8. \A a \in answers' \ answers : a.route = "delete_post"
  BY <1>3, <1>7
<1> QED
  BY <1>1, <1>2, <1>7, <1>8

LEMMA ChannelsMoves ==
  ASSUME Shaped, CountersOK, JobsSound, ChannelsTypeOK, NEW w \in Workers, ChannelsStep(w)
  PROVE  ChannelStart(w)
<1>1. CASE create_channel(w) \/ subscribe_channel(w) \/ create_post(w) \/ delete_post(w)
  BY <1>1, ChannelRequests
<1>2. CASE insert_channel(w)
  BY <1>2, ChannelEffect DEF ChannelInserted
<1>3. CASE insert_channel_owner(w)
  BY <1>3, ChannelOwnerEffect DEF OwnerInserted
<1>4. CASE insert_subscriber(w)
  BY <1>4, SubscribeEffect DEF SubscriptionDone
<1>5. CASE count_subscriber(w)
  BY <1>5, CountEffect
<1>6. CASE check_role(w)
  BY <1>6, RoleEffect
<1>7. CASE insert_post(w)
  BY <1>7, PostEffect
<1>8. CASE delete_row(w)
  BY <1>8, DeleteEffect
<1> QED
  BY <1>1, <1>2, <1>3, <1>4, <1>5, <1>6, <1>7, <1>8 DEF ChannelsStep

----------------------------------------------------------------------------
(* The invariant that all of the theorems share *)

Base ==
  /\ Shaped /\ CountersOK /\ JobsSound /\ AnswersTyped
  /\ AccountsTypeOK /\ ChatsTypeOK /\ ChannelsTypeOK /\ ChatsFresh

LEMMA RestartEffect ==
  ASSUME Base, Restart, UNCHANGED tables
  PROVE  /\ Base' /\ (\A w \in Workers : job'[w].at = "idle") /\ restarts' > 0
         /\ UNCHANGED <<plan, requests, fails, answers, users, chats, chat_members, channels,
                        channel_subscribers, channel_posts, repeats>>
<1>1. /\ job' = [w \in Workers |-> Idle] /\ conn' \in BOOLEAN /\ restarts' = restarts + 1
      /\ restarts < plan.restarts /\ UNCHANGED <<plan, requests, fails, answers>>
  BY DEF Restart, Connect
<1>2. UNCHANGED <<users, chats, chat_members, channels, channel_subscribers, channel_posts, repeats>>
  BY DEF tables, chatVars, channelVars
<1>3. \A w \in Workers : job'[w] = Idle /\ job'[w].at = "idle"
  BY <1>1, IdleFields
<1>4. plan.restarts \in Nat /\ restarts \in Nat
  BY PlansAssumption DEF Base, CountersOK
<1>5. CountersOK' /\ restarts' > 0
  BY <1>1, <1>4 DEF Base, CountersOK
<1>6. Shaped'
  BY <1>1, IdleFields DEF Shaped
<1>7. JobsSound'
  BY <1>3, IdleSound DEF JobsSound
<1>8. AnswersTyped'
  BY <1>1 DEF Base, AnswersTyped
<1>9. AccountsTypeOK' /\ ChatsTypeOK' /\ ChannelsTypeOK'
  BY <1>1, <1>2 DEF Base, AccountsTypeOK, ChatsTypeOK, ChannelsTypeOK
<1>10. ChatsFresh'
  BY <1>3 DEF ChatsFresh, Making
<1> QED
  BY <1>1, <1>2, <1>3, <1>5, <1>6, <1>7, <1>8, <1>9, <1>10 DEF Base

(* A step of one part, seen from the others.                               *)
LEMMA AnswersKept ==
  ASSUME AnswersTyped, NEW w \in Workers, Frame(w), NEW L, NEW R, Within(w, L, R)
  PROVE  AnswersTyped'
BY DEF AnswersTyped, Frame, Within

LEMMA FreshUntouched ==
  ASSUME ChatsFresh, NEW w \in Workers, Frame(w), UNCHANGED chatVars,
         job'[w].at \notin {"both", "owner", "member", "add", "remove", "membership", "content"}
  PROVE  ChatsFresh'
<1>1. \A v \in Workers : v # w => job'[v].at = job[v].at /\ job'[v].row = job[v].row
  BY DEF Frame, Others
<1>2. chat_members' = chat_members
  BY DEF chatVars
<1>3. \A v \in Workers : v # w => /\ Making(v)' = Making(v)
                                 /\ RowsOf(job[v].row)' = RowsOf(job[v].row)
  BY <1>1, <1>2 DEF Making, RowsOf
<1>4. ~Making(w)'
  BY DEF Making
<1>5. \A v \in Workers : Making(v)' => v # w /\ Making(v)
  BY <1>3, <1>4
<1> QED
  BY <1>1, <1>3, <1>5 DEF ChatsFresh

LEMMA AccountsBase ==
  ASSUME Base, NEW w \in Workers, AccountsStep(w), UNCHANGED <<chatVars, channelVars>>
  PROVE  /\ Base' /\ Frame(w) /\ Within(w, AccountLabels, AccountRoutes) /\ UsersKept
         /\ UNCHANGED <<chats, chat_members, channels, channel_subscribers, channel_posts, repeats>>
<1>u. UNCHANGED <<chats, chat_members, channels, channel_subscribers, channel_posts, repeats>>
  BY DEF chatVars, channelVars
<1>1. /\ Frame(w) /\ Within(w, AccountLabels, AccountRoutes)
      /\ AnyJob(job[w])' /\ AccountJob(job[w])' /\ AccountsTypeOK' /\ UsersKept
  BY AccountsMoves DEF Base
<1>2. job'[w].at \in AccountLabels \cup {"idle"} /\ plan' = plan
  BY <1>1 DEF Within, Frame
<1>3. ChatJob(job[w])' /\ ChannelJob(job[w])'
  BY <1>2 DEF ChatJob, ChannelJob, AccountLabels
<1>4. JobsSound'
  <2>1. /\ DOMAIN users \subseteq DOMAIN users' /\ DOMAIN chats \subseteq DOMAIN chats'
        /\ DOMAIN channels \subseteq DOMAIN channels' /\ JobSound(job[w])'
    BY <1>u, <1>1, <1>3 DEF UsersKept, JobSound
  <2> QED
    BY <1>1, <2>1, OthersSound DEF Base
<1>5. ChatsTypeOK' /\ ChannelsTypeOK'
  BY <1>u, <1>2 DEF Base, ChatsTypeOK, ChannelsTypeOK
<1>6. ChatsFresh'
  <2>1. job'[w].at \notin {"both", "owner", "member", "add", "remove", "membership", "content"}
    BY <1>2 DEF AccountLabels
  <2> QED
    BY <1>1, <2>1, FreshUntouched DEF Base
<1>7. AnswersTyped'
  BY <1>1, AnswersKept DEF Base
<1>8. Shaped' /\ CountersOK'
  BY <1>1 DEF Frame
<1> QED
  BY <1>u, <1>1, <1>4, <1>5, <1>6, <1>7, <1>8 DEF Base

LEMMA ChatsBase ==
  ASSUME Base, NEW w \in Workers, ChatsStep(w), UNCHANGED <<users, channelVars>>
  PROVE  /\ Base' /\ ChatStart(w)
         /\ UNCHANGED <<users, channels, channel_subscribers, channel_posts, repeats>>
<1>u. UNCHANGED <<users, channels, channel_subscribers, channel_posts, repeats>>
  BY DEF channelVars
<1>0. ChatStart(w) /\ ChatsFresh'
  BY ChatsMoves DEF Base
<1>1. /\ Frame(w) /\ Within(w, ChatLabels, ChatRoutes)
      /\ AnyJob(job[w])' /\ ChatJob(job[w])' /\ ChatsTypeOK' /\ ChatsKept
  BY <1>0 DEF ChatStart
<1>2. job'[w].at \in ChatLabels \cup {"idle"} /\ plan' = plan
  BY <1>1 DEF Within, Frame
<1>3. AccountJob(job[w])' /\ ChannelJob(job[w])'
  BY <1>2 DEF AccountJob, ChannelJob, ChatLabels
<1>4. JobsSound'
  <2>1. /\ DOMAIN users \subseteq DOMAIN users' /\ DOMAIN chats \subseteq DOMAIN chats'
        /\ DOMAIN channels \subseteq DOMAIN channels' /\ JobSound(job[w])'
    BY <1>u, <1>1, <1>3 DEF ChatsKept, JobSound
  <2> QED
    BY <1>1, <2>1, OthersSound DEF Base
<1>5. AccountsTypeOK' /\ ChannelsTypeOK'
  BY <1>u, <1>2 DEF Base, AccountsTypeOK, ChannelsTypeOK
<1>7. AnswersTyped'
  BY <1>1, AnswersKept DEF Base
<1>8. Shaped' /\ CountersOK'
  BY <1>1 DEF Frame
<1> QED
  BY <1>u, <1>0, <1>1, <1>4, <1>5, <1>7, <1>8 DEF Base

LEMMA ChannelsBase ==
  ASSUME Base, NEW w \in Workers, ChannelsStep(w), UNCHANGED <<users, chatVars>>
  PROVE  Base' /\ ChannelStart(w) /\ UNCHANGED <<users, chats, chat_members>>
<1>u. UNCHANGED <<users, chats, chat_members>>
  BY DEF chatVars
<1>0. ChannelStart(w)
  BY ChannelsMoves DEF Base
<1>1. /\ Frame(w) /\ Within(w, ChannelLabels, ChannelRoutes)
      /\ AnyJob(job[w])' /\ ChannelJob(job[w])' /\ ChannelsTypeOK' /\ ChannelsKept
  BY <1>0 DEF ChannelStart
<1>2. job'[w].at \in ChannelLabels \cup {"idle"} /\ plan' = plan
  BY <1>1 DEF Within, Frame
<1>3. AccountJob(job[w])' /\ ChatJob(job[w])'
  BY <1>2 DEF AccountJob, ChatJob, ChannelLabels
<1>4. JobsSound'
  <2>1. /\ DOMAIN users \subseteq DOMAIN users' /\ DOMAIN chats \subseteq DOMAIN chats'
        /\ DOMAIN channels \subseteq DOMAIN channels' /\ JobSound(job[w])'
    BY <1>u, <1>1, <1>3 DEF ChannelsKept, JobSound
  <2> QED
    BY <1>1, <2>1, OthersSound DEF Base
<1>5. AccountsTypeOK' /\ ChatsTypeOK'
  BY <1>u DEF Base, AccountsTypeOK, ChatsTypeOK
<1>6. ChatsFresh'
  <2>1. job'[w].at \notin {"both", "owner", "member", "add", "remove", "membership", "content"}
    BY <1>2 DEF ChannelLabels
  <2> QED
    BY <1>1, <2>1, FreshUntouched DEF Base
<1>7. AnswersTyped'
  BY <1>1, AnswersKept DEF Base
<1>8. Shaped' /\ CountersOK'
  BY <1>1 DEF Frame
<1> QED
  BY <1>u, <1>0, <1>1, <1>4, <1>5, <1>6, <1>7, <1>8 DEF Base

LEMMA BaseInit ==
  ASSUME Init
  PROVE  Base /\ \A w \in Workers : job[w] = Idle /\ job[w].at = "idle"
<1>1. /\ job = [w \in Workers |-> Idle] /\ conn \in BOOLEAN /\ plan \in Plans
      /\ requests = 0 /\ fails = 0 /\ restarts = 0 /\ answers = {}
      /\ users = <<>> /\ chats = <<>> /\ chat_members = {} /\ channels = <<>>
      /\ channel_subscribers = {} /\ channel_posts = {} /\ repeats = <<>>
  BY DEF Init, PgInit, AccountsInit, ChatsInit, ChannelsInit
<1>2. \A w \in Workers : job[w] = Idle /\ job[w].at = "idle"
  BY <1>1, IdleFields
<1>3. Shaped
  BY <1>1, IdleFields DEF Shaped
<1>4. CountersOK
  <2>1. plan.requests \in Nat /\ plan.fails \in Nat /\ plan.restarts \in Nat
    BY <1>1, PlansAssumption
  <2> QED
    BY <1>1, <2>1 DEF CountersOK
<1>5. JobsSound
  <2> SUFFICES ASSUME NEW w \in Workers PROVE JobSound(job[w])
    BY DEF JobsSound
  <2>1. AnyJob(job[w])
    BY <1>2, IdleFields DEF AnyJob
  <2> QED
    BY <1>2, <2>1 DEF JobSound, AccountJob, ChatJob, ChannelJob
<1>6. AnswersTyped /\ AccountsTypeOK /\ ChatsTypeOK /\ ChannelsTypeOK
  BY <1>1 DEF AnswersTyped, AccountsTypeOK, ChatsTypeOK, ChannelsTypeOK
<1>7. ChatsFresh
  BY <1>2 DEF ChatsFresh, Making
<1> QED
  BY <1>2, <1>3, <1>4, <1>5, <1>6, <1>7 DEF Base

LEMMA BaseStutter ==
  ASSUME Base, UNCHANGED vars
  PROVE  Base'
<1>1. UNCHANGED <<job, conn, plan, requests, fails, restarts, answers, users, chats, chat_members,
                  channels, channel_subscribers, channel_posts, repeats>>
  BY DEF vars, pgVars, tables, chatVars, channelVars
<1>j. JobsSound'
  <2> SUFFICES ASSUME NEW w \in Workers PROVE JobSound(job[w])'
    BY DEF JobsSound
  <2>1. JobSound(job[w])
    BY DEF Base, JobsSound
  <2>2. AnyJob(job[w])'
    BY <1>1, <2>1 DEF JobSound, AnyJob
  <2>3. AccountJob(job[w])' /\ ChatJob(job[w])' /\ ChannelJob(job[w])'
    BY <1>1, <2>1 DEF JobSound, AccountJob, ChatJob, ChannelJob
  <2> QED
    BY <2>2, <2>3 DEF JobSound
<1>s. Shaped'
  BY <1>1 DEF Base, Shaped, IsJob
<1>c. CountersOK' /\ AnswersTyped'
  BY <1>1 DEF Base, CountersOK, AnswersTyped
<1>3. (AccountsTypeOK /\ ChatsTypeOK /\ ChannelsTypeOK)'
  BY <1>1 DEF Base, AccountsTypeOK, ChatsTypeOK, ChannelsTypeOK
<1>4. ChatsFresh'
  BY <1>1 DEF Base, ChatsFresh, Making, RowsOf
<1> QED
  BY <1>j, <1>s, <1>c, <1>3, <1>4 DEF Base

LEMMA BaseNext ==
  ASSUME Base, [Next]_vars
  PROVE  Base'
BY AccountsBase, ChatsBase, ChannelsBase, RestartEffect, BaseStutter DEF Next

LEMMA BaseInvariant == Spec => []Base
<1>1. Init => Base
  BY BaseInit
<1>2. Base /\ [Next]_vars => Base'
  BY BaseNext
<1> QED
  BY <1>1, <1>2, PTL DEF Spec

(* Workers, connection and tables have the shape of the code's at any      *)
(* time: no job is about a row that does not exist, and no two rows of     *)
(* chat_members or of channel_subscribers have the same key, although the  *)
(* handlers check in one statement and insert in another.                  *)
THEOREM TypeCorrect == Spec => []TypeOK
<1>1. Base => TypeOK
  <2> SUFFICES ASSUME Base PROVE TypeOK
    OBVIOUS
  <2>1. ASSUME NEW w \in Workers
        PROVE  /\ DOMAIN job[w] = DOMAIN Idle
               /\ job[w] = Idle \/ job[w].route \in plan.routes
               /\ job[w].user \in Users \cup {Nobody} /\ job[w].row \in Nat
               /\ job[w].rest \subseteq Users \cup {Nobody}
               /\ job[w].faulty \in BOOLEAN /\ job[w].disturbed \in BOOLEAN
    <3>1. IsJob(job[w]) /\ AnyJob(job[w])
      BY DEF Base, Shaped, JobsSound, JobSound
    <3>2. DOMAIN job[w] = DOMAIN Idle
      BY <3>1, IdleFields DEF IsJob
    <3> QED
      BY <3>1, <3>2 DEF IsJob, AnyJob
  <2>2. PgTypeOK
    BY <2>1 DEF PgTypeOK, Base, CountersOK, AnswersTyped
  <2> QED
    BY <2>2 DEF TypeOK, Base
<1> QED
  BY <1>1, BaseInvariant, PTL
=============================================================================
