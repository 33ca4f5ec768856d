------------------------------ MODULE Sessions ------------------------------
(***************************************************************************)
(* Bearer tokens of http_api.cpp.  verify-otp and register end by creating *)
(* a JWT that is valid for TokenLife and storing session:<token> in Redis  *)
(* with the time to live SessionTTL; store_redis_session() does nothing    *)
(* while the client is not connected.  Every other route starts with       *)
(* authenticate_request(), which wants both: the signature and expiry of   *)
(* the JWT, and the session in Redis.                                      *)
(*                                                                         *)
(* is_connected() is asked more than once; the client's running_ changes   *)
(* under the handler when another worker reconnects (see RedisClient).     *)
(* The clock counts days.                                                  *)
(***************************************************************************)
EXTENDS Integers, FiniteSets

CONSTANTS Workers,
          Users,
          SessionTTL,    \* 86400 s, in days
          TokenLife,     \* 30 days
          MaxTime,       \* bound: the last day
          MaxDrops,      \* bound: how often the Redis client is disconnected
          MaxLost        \* bound: Redis commands that come back empty

ASSUME TimesAssumption == SessionTTL \in Nat /\ TokenLife \in Nat /\ MaxTime \in Nat
ASSUME LifeAssumption == SessionTTL <= TokenLife
ASSUME FaultsAssumption == MaxDrops \in Nat /\ MaxLost \in Nat
(* "nobody" is not the id of a user, see NoToken.                          *)
ASSUME NobodyAssumption == "nobody" \notin Users

Days == 0..MaxTime
(* A token is its payload.  NoToken stands for any string that does not    *)
(* carry this server's signature.                                          *)
Token   == [sub : Users, iat : Days]
NoToken == [sub |-> "nobody", iat |-> 0]
NoDay   == -1

VARIABLES
  now,        \* the current day
  issued,     \* tokens signed by JwtHelper::create()
  session,    \* per token: when its session in Redis ends, or NoDay
  connected,  \* RedisClient::running_
  drops, lost,
  pc,         \* per worker: the next step of its handler
  token,      \* per worker: the token at hand
  returned,   \* history: tokens that reached their client
  verdict     \* history, per worker: its last answer, and what was true then

handlerVars == <<pc, token>>
historyVars == <<returned, verdict>>
vars == <<now, issued, session, connected, drops, lost, handlerVars, historyVars>>

(* An answer of authenticate_request(): the status, and of its token       *)
(* whether it was signed here, issued less than SessionTTL ago, and stored *)
(* in Redis.                                                               *)
Verdict == [status : {200, 401}, signed : BOOLEAN, fresh : BOOLEAN, stored : BOOLEAN]
NoVerdict == [status |-> 0, signed |-> FALSE, fresh |-> FALSE, stored |-> FALSE]
BareRefusal == [status |-> 401, signed |-> FALSE, fresh |-> FALSE, stored |-> FALSE]

TypeOK ==
  /\ now \in Days
  /\ issued \subseteq Token
  /\ session \in [Token -> Int]
  /\ connected \in BOOLEAN
  /\ drops \in 0..MaxDrops
  /\ lost \in 0..MaxLost
  /\ pc \in [Workers -> {"idle", "store", "connect", "verify", "lookup"}]
  /\ token \in [Workers -> Token \cup {NoToken}]
  /\ returned \subseteq Token
  /\ verdict \in [Workers -> Verdict \cup {NoVerdict}]

(* The client starts disconnected, which counts as a drop, and is          *)
(* connected in the background; without drops we start after that.         *)
Init ==
  /\ now = 0
  /\ issued = {}
  /\ session = [t \in Token |-> NoDay]
  /\ drops \in {0, 1} \cap 0..MaxDrops
  /\ connected = (drops = 0)
  /\ lost = 0
  /\ pc = [w \in Workers |-> "idle"]
  /\ token = [w \in Workers |-> NoToken]
  /\ returned = {}
  /\ verdict = [w \in Workers |-> NoVerdict]

----------------------------------------------------------------------------
At(w, label) == pc[w] = label
Goto(w, label) == pc' = [pc EXCEPT ![w] = label]
Reply(w) == Goto(w, "idle") /\ token' = [token EXCEPT ![w] = NoToken]

Stored(t) == t \in issued /\ session[t] > now

(* A Redis command that gets no connection or no reply returns "".         *)
CommandOK   == UNCHANGED lost
CommandLost == lost < MaxLost /\ lost' = lost + 1

----------------------------------------------------------------------------
(* Mutant: the time of expiry is written where the time of issue belongs.  *)
IssueAtExpiry(w) ==
  /\ At(w, "idle")
  /\ \E u \in Users :
       LET t == [sub |-> u, iat |-> now + TokenLife] IN
       issued' = issued \cup {t} /\ token' = [token EXCEPT ![w] = t]
  /\ Goto(w, "store")
  /\ verdict' = [verdict EXCEPT ![w] = NoVerdict]
  /\ UNCHANGED <<now, session, connected, drops, lost, returned>>

(* The end of verify-otp and register: JwtHelper::create(user_id).         *)
Issue(w) ==
  /\ At(w, "idle")
  /\ \E u \in Users :
       LET t == [sub |-> u, iat |-> now] IN
       issued' = issued \cup {t} /\ token' = [token EXCEPT ![w] = t]
  /\ Goto(w, "store")
  /\ verdict' = [verdict EXCEPT ![w] = NoVerdict]
  /\ UNCHANGED <<now, session, connected, drops, lost, returned>>

(* Mutant: the session ends one unit of time too early.                    *)
StoreShort(w) ==
  /\ At(w, "store")
  /\ \/ connected /\ CommandOK /\ session' = [session EXCEPT ![token[w]] = now + SessionTTL - 1]
     \/ connected /\ CommandLost /\ UNCHANGED session
     \/ ~connected /\ UNCHANGED <<session, lost>>
  /\ returned' = returned \cup {token[w]}
  /\ Reply(w)
  /\ UNCHANGED <<now, issued, connected, drops, verdict>>

(* store_redis_session(), then the reply with the token in any case.       *)
Store(w) ==
  /\ At(w, "store")
  /\ \/ connected /\ CommandOK /\ session' = [session EXCEPT ![token[w]] = now + SessionTTL]
     \/ connected /\ CommandLost /\ UNCHANGED session
     \/ ~connected /\ UNCHANGED <<session, lost>>
  /\ returned' = returned \cup {token[w]}
  /\ Reply(w)
  /\ UNCHANGED <<now, issued, connected, drops, verdict>>

----------------------------------------------------------------------------
(* authenticate_request(), with a token some client was given or another.  *)
Authenticate(w) ==
  /\ At(w, "idle")
  /\ \E t \in returned \cup {NoToken} : token' = [token EXCEPT ![w] = t]
  /\ Goto(w, IF connected THEN "verify" ELSE "connect")
  /\ verdict' = [verdict EXCEPT ![w] = NoVerdict]
  /\ UNCHANGED <<now, issued, session, connected, drops, lost, returned>>

(* No bearer token: refused before Redis is asked.                         *)
AuthenticateNothing(w) ==
  /\ At(w, "idle")
  /\ verdict' = [verdict EXCEPT ![w] = BareRefusal]
  /\ UNCHANGED <<now, issued, session, connected, drops, lost, handlerVars, returned>>

(* connect() succeeds; a failing one does not return (see RedisClient).    *)
Connect(w) ==
  /\ At(w, "connect")
  /\ connected' = TRUE
  /\ Goto(w, "verify")
  /\ UNCHANGED <<now, issued, session, drops, lost, token, historyVars>>

(* JwtHelper::verify(): signature, and exp >= now.                         *)
InLife(t)  == t.iat + TokenLife >= now
(* Mutant: the signature is not compared.                                  *)
GenuineUnsigned(t) == InLife(t)

Genuine(t) == t \in issued /\ InLife(t)

Answer(w, code) ==
  LET t == token[w] IN
  /\ verdict' = [verdict EXCEPT ![w] =
       [status |-> code, signed |-> t \in issued,
        fresh |-> t.iat + SessionTTL > now, stored |-> Stored(t)]]
  /\ Reply(w)
  /\ UNCHANGED returned

Accept(w) == Answer(w, 200)
Refuse(w) == Answer(w, 401)

Verify(w) ==
  /\ At(w, "verify")
  /\ \/ Genuine(token[w]) /\ Goto(w, "lookup") /\ UNCHANGED <<token, historyVars>>
     \/ ~Genuine(token[w]) /\ Refuse(w)
  /\ UNCHANGED <<now, issued, session, connected, drops, lost>>

(* Mutant: a valid JWT is enough.                                          *)
LookupUnchecked(w) ==
  /\ At(w, "lookup") /\ CommandOK
  /\ Accept(w)
  /\ UNCHANGED <<now, issued, session, connected, drops>>

(* GET session:<token>, unless the client is not connected any more.       *)
Lookup(w) ==
  /\ At(w, "lookup")
  /\ \/ connected /\ CommandOK /\ Stored(token[w]) /\ Accept(w)
     \/ connected /\ CommandOK /\ ~Stored(token[w]) /\ Refuse(w)
     \/ connected /\ CommandLost /\ Refuse(w)
     \/ ~connected /\ UNCHANGED lost /\ Accept(w)
  /\ UNCHANGED <<now, issued, session, connected, drops>>

----------------------------------------------------------------------------
(* Another worker's reconnect() or stop() clears running_.                 *)
Drop ==
  /\ connected /\ drops < MaxDrops
  /\ connected' = FALSE
  /\ drops' = drops + 1
  /\ UNCHANGED <<now, issued, session, lost, handlerVars, historyVars>>

(* The rest of that reconnect(), or the constructor's background thread.   *)
Restore ==
  /\ ~connected
  /\ connected' = TRUE
  /\ UNCHANGED <<now, issued, session, drops, lost, handlerVars, historyVars>>

Tick ==
  /\ now < MaxTime
  /\ now' = now + 1
  /\ UNCHANGED <<issued, session, connected, drops, lost, handlerVars, historyVars>>

Next ==
  \/ \E w \in Workers : Issue(w) \/ Store(w) \/ Authenticate(w) \/ AuthenticateNothing(w)
                       \/ Connect(w) \/ Verify(w) \/ Lookup(w)
  \/ Drop
  \/ Restore
  \/ Tick

Spec == Init /\ [][Next]_vars

----------------------------------------------------------------------------
(* Properties *)

Answered(code) == {w \in Workers : verdict[w].status = code}

(* Only tokens this server signed are accepted, whatever happens to the    *)
(* Redis connection between the steps of the check.                        *)
AcceptedWereSigned == \A w \in Answered(200) : verdict[w].signed

(* A request is accepted only with its session in Redis, never on the      *)
(* strength of the JWT alone.                                              *)
AcceptedHadSession == \A w \in Answered(200) : verdict[w].stored

(* While the client has stayed connected the session is never skipped,     *)
(* whatever commands are lost.                                             *)
SessionRequiredWhileConnected ==
  drops = 0 => \A w \in Answered(200) : verdict[w].stored

(* While the client has stayed connected and its commands were answered, a *)
(* token is honoured from the moment it reaches its client until           *)
(* SessionTTL after its creation: the session is stored before the reply,  *)
(* and a login that creates the same token again does not shorten it.      *)
FreshTokenHonoured ==
  drops = 0 /\ lost = 0 =>
    \A w \in Answered(401) : ~(verdict[w].signed /\ verdict[w].fresh)
=============================================================================
