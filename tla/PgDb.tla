-------------------------------- MODULE PgDb --------------------------------
(***************************************************************************)
(* PgDb of http_api.hpp and the workers that use it: one PostgreSQL        *)
(* connection behind a mutex, shared by all workers of the REST API.       *)
(* query() and exec() run one statement in autocommit mode, so a handler   *)
(* is a sequence of statements, other handlers run between any two of      *)
(* them, and there is nothing to roll back.  A statement is carried out,   *)
(* fails without effect, or loses the connection, after which nobody knows *)
(* whether it was carried out and nothing reconnects until the process     *)
(* restarts.  A restart forgets the handlers and keeps the tables.         *)
(***************************************************************************)
EXTENDS Integers, Sequences, FiniteSets

CONSTANTS Workers,
          Users,    \* ids of registered users
          Nobody,   \* "no argument", and an id no user has
          Plans     \* bounds on what clients and faults do, see plan

ASSUME WorkersAssumption == IsFiniteSet(Workers)
ASSUME NobodyAssumption == Nobody \notin Users
ASSUME PlansAssumption ==
  \A p \in Plans : p.requests \in Nat /\ p.fails \in Nat /\ p.restarts \in Nat

VARIABLES
  job,       \* per worker: the request it is answering
  conn,      \* conn_ is usable
  plan,      \* bounds of this behaviour: the routes that are called, and the
             \* numbers of requests, of failing statements and of restarts
  requests,  \* requests so far
  fails,     \* failed statements so far
  restarts,  \* restarts so far
  answers    \* history: the requests answered, and the code of each

pgVars == <<job, conn, plan, requests, fails, restarts, answers>>

(* row: the row the request is about, 0 for none.  rest: what a loop of    *)
(* the handler has left to do.  faulty: a fault hit one of its statements. *)
(* disturbed: another request changed a table while it was served.         *)
Job(label, route, u, arg, r) ==
  [at |-> label, route |-> route, user |-> u, arg |-> arg, row |-> r,
   rest |-> {}, faulty |-> FALSE, disturbed |-> FALSE]

Idle == Job("idle", "none", Nobody, Nobody, 0)

PgTypeOK ==
  /\ \A w \in Workers :
       /\ DOMAIN job[w] = DOMAIN Idle
       /\ job[w] = Idle \/ job[w].route \in plan.routes
       /\ job[w].user \in Users \cup {Nobody} /\ job[w].row \in Nat
       /\ job[w].rest \subseteq Users \cup {Nobody}
       /\ job[w].faulty \in BOOLEAN /\ job[w].disturbed \in BOOLEAN
  /\ conn \in BOOLEAN
  /\ plan \in Plans
  /\ requests \in 0..plan.requests /\ fails \in 0..plan.fails /\ restarts \in 0..plan.restarts
  /\ \A a \in answers : a.route \in plan.routes /\ a.code \in {200, 201, 403, 409, 500}

(* The constructor keeps a failed connection attempt as a null conn_.      *)
Connect == conn' \in BOOLEAN

PgInit ==
  /\ job = [w \in Workers |-> Idle]
  /\ conn \in BOOLEAN
  /\ plan \in Plans
  /\ requests = 0 /\ fails = 0 /\ restarts = 0
  /\ answers = {}

At(w, label) == job[w].at = label

(* A worker takes a request whose token and body were accepted.            *)
Request(w, route, u, arg, r, label) ==
  /\ At(w, "idle") /\ route \in plan.routes /\ requests < plan.requests
  /\ requests' = requests + 1
  /\ job' = [job EXCEPT ![w] = Job(label, route, u, arg, r)]
  /\ UNCHANGED <<conn, plan, fails, restarts, answers>>

(* What query() or exec() can do with one statement: done, PostgreSQL      *)
(* carried it out; ok, the caller got its result; cut, the connection is   *)
(* lost, before or after the statement was carried out.                    *)
Outcomes ==
  {out \in [done : BOOLEAN, ok : BOOLEAN, cut : BOOLEAN] :
     /\ out.ok = (out.done /\ ~out.cut)
     /\ out.done \/ out.cut => conn
     /\ out.ok \/ ~conn \/ fails < plan.fails}

(* The jobs once a statement of w ended with out and left w with job j;    *)
(* changes says whether it changes a table.                                *)
Ended(w, out, changes, j) ==
  [v \in Workers |->
     IF v = w THEN j
     ELSE [job[v] EXCEPT !.disturbed = @ \/ (~At(v, "idle") /\ out.done /\ changes)]]

Executed(out) ==
  /\ conn' = (conn /\ ~out.cut)
  /\ fails' = IF out.ok \/ ~conn THEN fails ELSE fails + 1
  /\ UNCHANGED <<plan, requests, restarts>>

(* Job j after a statement that does not end it.                           *)
Advanced(j, out, r, rest, next) ==
  [j EXCEPT !.at = next, !.row = r, !.rest = rest, !.faulty = @ \/ ~out.ok]

(* The handler goes on at label next, about row r, with rest left to do.   *)
Continue(w, out, changes, r, rest, next) ==
  /\ Executed(out)
  /\ job' = Ended(w, out, changes, Advanced(job[w], out, r, rest, next))
  /\ UNCHANGED answers

(* The handler returns code, and the worker is free.                       *)
Answer(w, out, changes, r, code) ==
  /\ Executed(out)
  /\ job' = Ended(w, out, changes, Idle)
  /\ answers' = answers \cup
       {[code |-> code, row |-> r, route |-> job[w].route, user |-> job[w].user, arg |-> job[w].arg,
         faulty |-> job[w].faulty \/ ~out.ok, disturbed |-> job[w].disturbed]}

(* A SELECT: the handler goes on at next when its result passes the test,  *)
(* and answers code otherwise, 500 after an exception.                     *)
Select(w, passes, next, code) ==
  \E out \in Outcomes :
    IF out.ok /\ passes
    THEN Continue(w, out, FALSE, job[w].row, job[w].rest, next)
    ELSE Answer(w, out, FALSE, job[w].row, IF out.ok THEN code ELSE 500)

(* A writing statement that is the last of its handler: code when it was   *)
(* done and no constraint rejects it, and broken when one does.            *)
Last(w, out, legal, code, broken) ==
  Answer(w, out, legal, job[w].row, CASE ~out.ok -> 500 [] out.ok /\ legal -> code [] OTHER -> broken)

(* The process dies, and restartPolicyType = "on_failure" (railway.toml)   *)
(* runs it again: the handlers are gone and the tables stay.               *)
Restart ==
  /\ restarts < plan.restarts
  /\ restarts' = restarts + 1
  /\ job' = [w \in Workers |-> Idle]
  /\ Connect
  /\ UNCHANGED <<plan, requests, fails, answers>>
=============================================================================
