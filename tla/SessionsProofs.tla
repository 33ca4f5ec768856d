--------------------------- MODULE SessionsProofs ---------------------------
(***************************************************************************)
(* Theorems about Sessions for any workers, users, lifetimes and bounds.   *)
(***************************************************************************)
EXTENDS Sessions, TLAPS

(* A string without this server's signature is no token of the server.     *)
LEMMA NoTokenForeign == NoToken \notin Token
  BY NobodyAssumption DEF NoToken, Token

(* An answer of authenticate_request() is a well-formed verdict.           *)
LEMMA AnswerTyped ==
  ASSUME TypeOK, NEW w \in Workers, NEW code \in {200, 401}, Answer(w, code)
  PROVE  /\ verdict' \in [Workers -> Verdict \cup {NoVerdict}]
         /\ pc' \in [Workers -> {"idle", "store", "connect", "verify", "lookup"}]
         /\ token' \in [Workers -> Token \cup {NoToken}]
<1> DEFINE t == token[w]
           new == [status |-> code, signed |-> t \in issued,
                   fresh |-> t.iat + SessionTTL > now, stored |-> Stored(t)]
<1>1. new \in Verdict
  BY DEF Verdict, Stored
<1>2. verdict' = [verdict EXCEPT ![w] = new]
  BY DEF Answer
<1>3. verdict' \in [Workers -> Verdict \cup {NoVerdict}]
  BY <1>1, <1>2 DEF TypeOK
<1> QED
  BY <1>3 DEF TypeOK, Answer, Reply, Goto

(* So is the refusal of a request without a bearer token.                  *)
LEMMA BareRefusalTyped == BareRefusal \in Verdict
  BY DEF Verdict, BareRefusal

(* What keeps the types inductive: the token a handler is about to store   *)
(* and to return is one that JwtHelper::create() signed.                   *)
StoresIssued == \A w \in Workers : pc[w] = "store" => token[w] \in issued

LEMMA Typing == Spec => [](TypeOK /\ StoresIssued)
<1> DEFINE TInv == TypeOK /\ StoresIssued
<1>1. Init => TInv
  BY TimesAssumption, FaultsAssumption DEF Init, TypeOK, StoresIssued, Days, NoDay
<1>2. TInv /\ [Next]_vars => TInv'
  <2> SUFFICES ASSUME TInv, [Next]_vars PROVE TInv'
    OBVIOUS
  <2> USE TimesAssumption, FaultsAssumption DEF handlerVars, historyVars, Days, StoresIssued
  <2>1. ASSUME NEW w \in Workers, Issue(w) PROVE TInv'
    <3>1. PICK u \in Users :
            /\ issued' = issued \cup {[sub |-> u, iat |-> now]}
            /\ token' = [token EXCEPT ![w] = [sub |-> u, iat |-> now]]
      BY <2>1 DEF Issue
    <3>2. [sub |-> u, iat |-> now] \in Token
      BY DEF Token, TypeOK
    <3>3. TypeOK'
      BY <2>1, <3>1, <3>2 DEF Issue, Goto, TypeOK
    <3>4. StoresIssued'
      BY <2>1, <3>1, <3>2 DEF Issue, Goto, TypeOK
    <3> QED
      BY <3>3, <3>4
  <2>2. ASSUME NEW w \in Workers, Store(w) PROVE TInv'
    <3>1. token[w] \in issued /\ token[w] \in Token
      BY <2>2 DEF Store, At, TypeOK
    <3>2. session' \in [Token -> Int] /\ lost' \in 0..MaxLost
      BY <2>2, <3>1 DEF Store, TypeOK, CommandOK, CommandLost
    <3>3. /\ pc' \in [Workers -> {"idle", "store", "connect", "verify", "lookup"}]
          /\ token' \in [Workers -> Token \cup {NoToken}]
      BY <2>2 DEF Store, Reply, Goto, TypeOK
    <3>4. StoresIssued'
      BY <2>2 DEF Store, Reply, Goto, TypeOK
    <3> QED
      BY <2>2, <3>1, <3>2, <3>3, <3>4 DEF Store, TypeOK
  <2>3. ASSUME NEW w \in Workers, Authenticate(w) PROVE TInv'
    BY <2>3 DEF Authenticate, Goto, TypeOK
  <2>4. ASSUME NEW w \in Workers, AuthenticateNothing(w) PROVE TInv'
    <3>2. verdict' \in [Workers -> Verdict \cup {NoVerdict}]
      BY <2>4, BareRefusalTyped DEF AuthenticateNothing, TypeOK
    <3> QED
      BY <2>4, <3>2 DEF AuthenticateNothing, TypeOK
  <2>5. ASSUME NEW w \in Workers, Connect(w) PROVE TInv'
    BY <2>5 DEF Connect, Goto, TypeOK
  <2>6. ASSUME NEW w \in Workers, Verify(w) PROVE TInv'
    <3>1. CASE Refuse(w)
      <4>1. StoresIssued'
        BY <2>6, <3>1 DEF Verify, Refuse, Answer, Reply, Goto, TypeOK
      <4>2. UNCHANGED <<now, issued, session, connected, drops, lost, returned>>
        BY <2>6, <3>1 DEF Verify, Refuse, Answer
      <4>3. /\ verdict' \in [Workers -> Verdict \cup {NoVerdict}]
            /\ pc' \in [Workers -> {"idle", "store", "connect", "verify", "lookup"}]
            /\ token' \in [Workers -> Token \cup {NoToken}]
        BY <3>1, AnswerTyped DEF Refuse
      <4> QED
        BY <4>1, <4>2, <4>3 DEF TypeOK
    <3>2. CASE ~Refuse(w)
      BY <2>6, <3>2 DEF Verify, Goto, TypeOK
    <3> QED
      BY <3>1, <3>2
  <2>7. ASSUME NEW w \in Workers, Lookup(w) PROVE TInv'
    <3>1. PICK code \in {200, 401} : Answer(w, code)
      BY <2>7 DEF Lookup, Accept, Refuse
    <3>2. lost' \in 0..MaxLost
      BY <2>7 DEF Lookup, CommandOK, CommandLost, TypeOK
    <3>3. StoresIssued'
      BY <2>7, <3>1 DEF Lookup, Answer, Reply, Goto, TypeOK
    <3>4. /\ verdict' \in [Workers -> Verdict \cup {NoVerdict}]
          /\ pc' \in [Workers -> {"idle", "store", "connect", "verify", "lookup"}]
          /\ token' \in [Workers -> Token \cup {NoToken}]
      BY <3>1, AnswerTyped
    <3> QED
      BY <2>7, <3>1, <3>2, <3>3, <3>4 DEF Lookup, Answer, TypeOK
  <2>8. CASE Drop
    <3>1. drops' \in 0..MaxDrops
      BY <2>8 DEF Drop, TypeOK
    <3> QED
      BY <2>8, <3>1 DEF Drop, TypeOK
  <2>9. CASE Restore
    BY <2>9 DEF Restore, TypeOK
  <2>10. CASE Tick
    BY <2>10 DEF Tick, TypeOK
  <2>11. CASE UNCHANGED vars
    BY <2>11 DEF vars, TypeOK
  <2> QED
    BY <2>1, <2>2, <2>3, <2>4, <2>5, <2>6, <2>7, <2>8, <2>9, <2>10, <2>11 DEF Next
<1> QED
  BY <1>1, <1>2, PTL DEF Spec

(* Every handler, the loss of commands and of the connection, and the      *)
(* passing of days keep the types of Sessions.                             *)
THEOREM TypeCorrect == Spec => []TypeOK
  BY Typing, PTL

----------------------------------------------------------------------------
(* The inductive invariant *)

(* Tokens are not dated ahead, only signed ones are returned, and a token  *)
(* that is being checked is one a client was given or a foreign string;    *)
(* past JwtHelper::verify() it is a signed one.                            *)
TokensSound ==
  /\ \A t \in issued : t.iat <= now
  /\ returned \subseteq issued
  /\ \A w \in Workers :
       /\ pc[w] \in {"connect", "verify", "lookup"} => token[w] \in returned \cup {NoToken}
       /\ pc[w] = "lookup" => token[w] \in issued

(* Without a drop the client is connected; if moreover no command was      *)
(* lost, the session of every token a client has lasts SessionTTL from its *)
(* creation.                                                               *)
SessionsKept ==
  /\ drops = 0 => connected
  /\ drops = 0 /\ lost = 0 => \A t \in returned : session[t] >= t.iat + SessionTTL

Inv == TypeOK /\ StoresIssued /\ TokensSound /\ SessionsKept

(* What an answer records about its token.                                 *)
LEMMA AnswerSays ==
  ASSUME TypeOK, NEW w \in Workers, NEW code \in {200, 401}, Answer(w, code)
  PROVE  /\ verdict'[w].status = code
         /\ verdict'[w].signed <=> token[w] \in issued
         /\ verdict'[w].fresh <=> token[w].iat + SessionTTL > now
         /\ verdict'[w].stored <=> Stored(token[w])
         /\ \A v \in Workers \ {w} : verdict'[v] = verdict[v]
<1> DEFINE t == token[w]
           new == [status |-> code, signed |-> t \in issued,
                   fresh |-> t.iat + SessionTTL > now, stored |-> Stored(t)]
<1>1. verdict' = [verdict EXCEPT ![w] = new]
  BY DEF Answer
<1>2. verdict'[w] = new /\ \A v \in Workers \ {w} : verdict'[v] = verdict[v]
  BY <1>1 DEF TypeOK
<1> HIDE DEF t
<1>3. /\ new.status = code
      /\ new.signed <=> t \in issued
      /\ new.fresh <=> t.iat + SessionTTL > now
      /\ new.stored <=> Stored(t)
  BY Zenon
<1> HIDE DEF new
<1> QED
  BY <1>2, <1>3, Zenon DEF t

(* Equal answers say the same.                                             *)
LEMMA EqualSay ==
  ASSUME NEW a, NEW b, a = b
  PROVE  /\ a.status = b.status
         /\ (a.signed <=> b.signed) /\ (a.fresh <=> b.fresh) /\ (a.stored <=> b.stored)
  BY Zenon

(* An answer that stays the same was given before.                         *)
LEMMA AnswerStays ==
  ASSUME NEW w \in Workers, NEW code, verdict'[w].status = code, verdict'[w] = verdict[w]
  PROVE  w \in Answered(code)
  BY Zenon DEF Answered

(* A refusal says 401.                                                     *)
LEMMA RefusalSays ==
  ASSUME TypeOK, NEW w \in Workers, Answer(w, 401)
  PROVE  verdict'[w].status = 401
  BY AnswerSays, Zenon

(* Handlers only move on their own worker, and an answer frees it.         *)
LEMMA AnswerFrees ==
  ASSUME TypeOK, NEW w \in Workers, NEW code, Answer(w, code)
  PROVE  /\ pc'[w] = "idle" /\ returned' = returned
         /\ \A v \in Workers \ {w} : pc'[v] = pc[v] /\ token'[v] = token[v]
  BY DEF TypeOK, Answer, Reply, Goto

LEMMA Invariance == Spec => []Inv
<1>1. Init => Inv
  <2>1. Init => TypeOK /\ StoresIssued
    BY TimesAssumption, FaultsAssumption DEF Init, TypeOK, StoresIssued, Days, NoDay
  <2> QED
    BY <2>1 DEF Init, Inv, TokensSound, SessionsKept
<1>2. Inv /\ TypeOK' /\ StoresIssued' /\ [Next]_vars => Inv'
  <2> SUFFICES ASSUME Inv, TypeOK', StoresIssued', [Next]_vars
               PROVE  TokensSound' /\ SessionsKept'
    BY DEF Inv
  <2>0. TypeOK /\ StoresIssued /\ TokensSound /\ SessionsKept
    BY DEF Inv
  <2> USE TimesAssumption, FaultsAssumption DEF handlerVars, historyVars, Days
  <2>1. ASSUME NEW w \in Workers, Issue(w) PROVE TokensSound' /\ SessionsKept'
    <3>1. PICK u \in Users :
            /\ issued' = issued \cup {[sub |-> u, iat |-> now]}
            /\ token' = [token EXCEPT ![w] = [sub |-> u, iat |-> now]]
      BY <2>1 DEF Issue
    <3>2. \A t \in issued' : t.iat <= now'
      BY <2>0, <2>1, <3>1 DEF Issue, TokensSound, TypeOK
    <3>3. TokensSound'
      BY <2>0, <2>1, <3>1, <3>2 DEF Issue, Goto, TokensSound, TypeOK
    <3> QED
      BY <2>0, <2>1, <3>3 DEF Issue, SessionsKept
  <2>2. ASSUME NEW w \in Workers, Store(w) PROVE TokensSound' /\ SessionsKept'
    <3>1. token[w] \in issued /\ token[w] \in Token /\ token[w].iat <= now
      BY <2>0, <2>2 DEF Store, At, StoresIssued, TokensSound, TypeOK
    <3>2. TokensSound'
      BY <2>0, <2>2, <3>1 DEF Store, Reply, Goto, TokensSound, TypeOK
    <3>3. ASSUME drops' = 0, lost' = 0, NEW t \in returned'
          PROVE  session'[t] >= t.iat + SessionTTL
      <4>1. drops = 0 /\ lost = 0 /\ connected
        BY <2>0, <2>2, <3>3 DEF Store, CommandOK, CommandLost, SessionsKept, TypeOK
      <4>2. session' = [session EXCEPT ![token[w]] = now + SessionTTL]
        BY <2>0, <2>2, <3>3, <4>1 DEF Store, CommandOK, CommandLost, TypeOK
      <4>3. token[w].iat \in Int /\ now \in Int
        BY <2>0, <3>1 DEF Token, TypeOK
      <4>4. CASE t = token[w]
        BY <2>0, <3>1, <4>2, <4>3, <4>4 DEF TypeOK
      <4>5. CASE t # token[w]
        <5>1. t \in returned /\ t \in Token
          BY <2>0, <2>2, <3>3, <4>5 DEF Store, TypeOK
        <5> QED
          BY <2>0, <4>1, <4>2, <4>5, <5>1 DEF SessionsKept, TypeOK
      <4> QED
        BY <4>4, <4>5
    <3>4. drops' = 0 => connected'
      BY <2>0, <2>2 DEF Store, SessionsKept
    <3> QED
      BY <3>2, <3>3, <3>4 DEF SessionsKept
  <2>3. ASSUME NEW w \in Workers, Authenticate(w) PROVE TokensSound' /\ SessionsKept'
    <3>1. TokensSound'
      BY <2>0, <2>3 DEF Authenticate, Goto, TokensSound, TypeOK
    <3> QED
      BY <2>0, <2>3, <3>1 DEF Authenticate, SessionsKept
  <2>4. ASSUME NEW w \in Workers, AuthenticateNothing(w) PROVE TokensSound' /\ SessionsKept'
    BY <2>0, <2>4 DEF AuthenticateNothing, TokensSound, SessionsKept
  <2>5. ASSUME NEW w \in Workers, Connect(w) PROVE TokensSound' /\ SessionsKept'
    <3>1. TokensSound'
      BY <2>0, <2>5 DEF Connect, At, Goto, TokensSound, TypeOK
    <3> QED
      BY <2>0, <2>5, <3>1 DEF Connect, SessionsKept
  <2>6. ASSUME NEW w \in Workers, Verify(w) PROVE TokensSound' /\ SessionsKept'
    <3>1. CASE Refuse(w)
      BY <2>0, <2>6, <3>1, AnswerFrees DEF Verify, Refuse, TokensSound, SessionsKept
    <3>2. CASE ~Refuse(w)
      BY <2>0, <2>6, <3>2 DEF Verify, At, Goto, Genuine, TokensSound, SessionsKept, TypeOK
    <3> QED
      BY <3>1, <3>2
  <2>7. ASSUME NEW w \in Workers, Lookup(w) PROVE TokensSound' /\ SessionsKept'
    <3>1. PICK code \in {200, 401} : Answer(w, code)
      BY <2>7 DEF Lookup, Accept, Refuse
    <3>2. TokensSound'
      BY <2>0, <2>7, <3>1, AnswerFrees DEF Lookup, TokensSound
    <3>3. lost' = 0 => lost = 0
      BY <2>0, <2>7 DEF Lookup, CommandOK, CommandLost, TypeOK
    <3>4. returned' = returned
      BY <2>0, <3>1, AnswerFrees
    <3> QED
      BY <2>0, <2>7, <3>2, <3>3, <3>4 DEF Lookup, SessionsKept
  <2>8. CASE Drop
    BY <2>0, <2>8 DEF Drop, TokensSound, SessionsKept, TypeOK
  <2>9. CASE Restore
    BY <2>0, <2>9 DEF Restore, TokensSound, SessionsKept
  <2>10. CASE Tick
    <3>1. \A t \in issued : t.iat \in Int
      BY <2>0 DEF TypeOK, Token
    <3>2. TokensSound'
      BY <2>0, <2>10, <3>1 DEF Tick, TokensSound, TypeOK
    <3> QED
      BY <2>0, <2>10, <3>2 DEF Tick, SessionsKept
  <2>11. CASE UNCHANGED vars
    BY <2>0, <2>11 DEF vars, TokensSound, SessionsKept
  <2> QED
    BY <2>1, <2>2, <2>3, <2>4, <2>5, <2>6, <2>7, <2>8, <2>9, <2>10, <2>11 DEF Next
<1> QED
  BY <1>1, <1>2, Typing, PTL DEF Spec

----------------------------------------------------------------------------
(* The verdicts *)

(* A worker's verdict is forgotten when it takes the next request and      *)
(* otherwise given in three places only.                                   *)
LEMMA VerdictGiven ==
  ASSUME Inv, [Next]_vars, NEW w \in Workers
  PROVE  \/ verdict'[w] = verdict[w]
         \/ verdict'[w] \in {NoVerdict, BareRefusal}
         \/ Verify(w) /\ ~Genuine(token[w]) /\ Answer(w, 401)
         \/ Lookup(w) /\ \E code \in {200, 401} : Answer(w, code)
<1>0. TypeOK
  BY DEF Inv
<1> USE DEF handlerVars, historyVars, TypeOK
<1>1. ASSUME NEW v \in Workers, Issue(v) PROVE verdict'[w] \in {verdict[w], NoVerdict}
  BY <1>0, <1>1 DEF Issue
<1>2. ASSUME NEW v \in Workers, Store(v) PROVE verdict'[w] = verdict[w]
  BY <1>0, <1>2 DEF Store
<1>3. ASSUME NEW v \in Workers, Authenticate(v) PROVE verdict'[w] \in {verdict[w], NoVerdict}
  BY <1>0, <1>3 DEF Authenticate
<1>4. ASSUME NEW v \in Workers, AuthenticateNothing(v)
      PROVE  verdict'[w] \in {verdict[w], BareRefusal}
  BY <1>0, <1>4 DEF AuthenticateNothing
<1>5. ASSUME NEW v \in Workers, Connect(v) PROVE verdict'[w] = verdict[w]
  BY <1>0, <1>5 DEF Connect
<1>6. ASSUME NEW v \in Workers, Verify(v)
      PROVE  \/ verdict'[w] = verdict[w]
             \/ v = w /\ ~Genuine(token[w]) /\ Answer(w, 401)
  <2>1. CASE v = w
    BY <1>6, <2>1 DEF Verify, Refuse
  <2>2. CASE v # w /\ Answer(v, 401)
    BY <1>0, <2>2, AnswerSays
  <2>3. CASE ~Answer(v, 401)
    BY <1>6, <2>3 DEF Verify, Refuse
  <2> QED
    BY <2>1, <2>2, <2>3
<1>7. ASSUME NEW v \in Workers, Lookup(v)
      PROVE  \/ verdict'[w] = verdict[w]
             \/ v = w /\ \E code \in {200, 401} : Answer(w, code)
  <2>1. PICK code \in {200, 401} : Answer(v, code)
    BY <1>7 DEF Lookup, Accept, Refuse
  <2>2. CASE v = w
    BY <2>1, <2>2
  <2>3. CASE v # w
    BY <1>0, <2>1, <2>3, AnswerSays
  <2> QED
    BY <2>2, <2>3
<1>8. CASE Drop \/ Restore \/ Tick \/ UNCHANGED vars
  BY <1>8 DEF Drop, Restore, Tick, vars
<1> QED
  BY <1>1, <1>2, <1>3, <1>4, <1>5, <1>6, <1>7, <1>8 DEF Next

(* Drops of the connection and lost commands are never forgotten.          *)
LEMMA FaultsGrow ==
  ASSUME Inv, [Next]_vars
  PROVE  (drops' = 0 => drops = 0) /\ (lost' = 0 => lost = 0)
<1> USE FaultsAssumption DEF Inv, TypeOK
<1>1. ASSUME NEW v \in Workers, Issue(v) \/ Authenticate(v) \/ AuthenticateNothing(v)
                                \/ Connect(v) \/ Verify(v)
      PROVE  drops' = drops /\ lost' = lost
  BY <1>1 DEF Issue, Authenticate, AuthenticateNothing, Connect, Verify
<1>2. ASSUME NEW v \in Workers, Store(v) PROVE drops' = drops /\ (lost' = 0 => lost = 0)
  BY <1>2 DEF Store, CommandOK, CommandLost
<1>3. ASSUME NEW v \in Workers, Lookup(v) PROVE drops' = drops /\ (lost' = 0 => lost = 0)
  BY <1>3 DEF Lookup, CommandOK, CommandLost
<1>4. CASE Drop
  BY <1>4 DEF Drop
<1>5. CASE Restore \/ Tick \/ UNCHANGED vars
  BY <1>5 DEF Restore, Tick, vars
<1> QED
  BY <1>1, <1>2, <1>3, <1>4, <1>5 DEF Next

(* authenticate_request() accepts only tokens this server signed, whatever *)
(* happens to the Redis connection between its steps: JwtHelper::verify()  *)
(* comes first, and what it has passed stays signed.                       *)
THEOREM OnlySignedAccepted == Spec => []AcceptedWereSigned
<1> USE DEF AcceptedWereSigned, Answered
<1>1. Init => AcceptedWereSigned
  BY DEF Init, NoVerdict
<1>2. AcceptedWereSigned /\ Inv /\ [Next]_vars => AcceptedWereSigned'
  <2> SUFFICES ASSUME AcceptedWereSigned, Inv, [Next]_vars,
                      NEW w \in Workers, verdict'[w].status = 200
               PROVE  verdict'[w].signed
    BY Zenon
  <2>0. TypeOK /\ TokensSound
    BY DEF Inv
  <2>1. CASE verdict'[w] = verdict[w]
    <3>1. w \in Answered(200) /\ (verdict'[w].signed <=> verdict[w].signed)
      BY <2>1, EqualSay, Zenon
    <3> QED
      BY <3>1, Zenon
  <2>2. CASE verdict'[w] \in {NoVerdict, BareRefusal}
    BY <2>2 DEF NoVerdict, BareRefusal
  <2>3. CASE Answer(w, 401)
    <3>1. verdict'[w].status = 401
      BY <2>0, <2>3, RefusalSays
    <3> QED
      BY <3>1
  <2>4. ASSUME Lookup(w), NEW code \in {200, 401}, Answer(w, code)
        PROVE  verdict'[w].signed
    <3>1. token[w] \in issued
      BY <2>0, <2>4 DEF Lookup, At, TokensSound
    <3>2. verdict'[w].signed <=> token[w] \in issued
      BY <2>0, <2>4, AnswerSays
    <3> QED
      BY <3>1, <3>2, Zenon
  <2> QED
    BY <2>1, <2>2, <2>3, <2>4, VerdictGiven
<1> QED
  BY <1>1, <1>2, Invariance, PTL DEF Spec

(* While the client has stayed connected, authenticate_request() accepts   *)
(* only with the session in Redis: the branch that skips the look-up needs *)
(* a disconnected client.                                                  *)
THEOREM SessionRequired == Spec => []SessionRequiredWhileConnected
<1> USE DEF SessionRequiredWhileConnected, Answered
<1>1. Init => SessionRequiredWhileConnected
  BY DEF Init, NoVerdict
<1>2. SessionRequiredWhileConnected /\ Inv /\ [Next]_vars => SessionRequiredWhileConnected'
  <2> SUFFICES ASSUME SessionRequiredWhileConnected, Inv, [Next]_vars, drops' = 0,
                      NEW w \in Workers, verdict'[w].status = 200
               PROVE  verdict'[w].stored
    BY Zenon
  <2>0. TypeOK /\ SessionsKept /\ drops = 0
    BY FaultsGrow DEF Inv
  <2>1. CASE verdict'[w] = verdict[w]
    <3>1. w \in Answered(200) /\ (verdict'[w].stored <=> verdict[w].stored)
      BY <2>1, EqualSay, Zenon
    <3>2. drops = 0
      BY <2>0
    <3> QED
      BY <3>1, <3>2, Zenon
  <2>2. CASE verdict'[w] \in {NoVerdict, BareRefusal}
    BY <2>2 DEF NoVerdict, BareRefusal
  <2>3. CASE Answer(w, 401)
    <3>1. verdict'[w].status = 401
      BY <2>0, <2>3, RefusalSays
    <3> QED
      BY <3>1
  <2>4. ASSUME Lookup(w), NEW code \in {200, 401}, Answer(w, code)
        PROVE  verdict'[w].stored
    <3>1. connected /\ verdict'[w].status = code /\ code = 200
      BY <2>0, <2>4, AnswerSays DEF SessionsKept
    <3>2. ~Answer(w, 401)
      BY <2>0, <3>1, AnswerSays
    <3>3. Stored(token[w])
      BY <2>4, <3>1, <3>2 DEF Lookup, Refuse
    <3>4. verdict'[w].stored <=> Stored(token[w])
      BY <2>0, <2>4, AnswerSays
    <3> QED
      BY <3>3, <3>4, Zenon
  <2> QED
    BY <2>1, <2>2, <2>3, <2>4, VerdictGiven
<1> QED
  BY <1>1, <1>2, Invariance, PTL DEF Spec

(* While the client has stayed connected and its commands were answered, a *)
(* token is honoured from the moment it reaches its client until           *)
(* SessionTTL after its creation: store_redis_session() runs before the    *)
(* reply, a second login with the same token does not shorten the session, *)
(* and the JWT outlives it.                                                *)
THEOREM FreshAccepted == Spec => []FreshTokenHonoured
<1> USE DEF FreshTokenHonoured, Answered
<1>1. Init => FreshTokenHonoured
  BY DEF Init, NoVerdict
<1>2. FreshTokenHonoured /\ Inv /\ [Next]_vars => FreshTokenHonoured'
  <2> SUFFICES ASSUME FreshTokenHonoured, Inv, [Next]_vars, drops' = 0, lost' = 0,
                      NEW w \in Workers, verdict'[w].status = 401,
                      verdict'[w].signed, verdict'[w].fresh
               PROVE  FALSE
    BY Zenon
  <2>0. TypeOK /\ TokensSound /\ SessionsKept /\ drops = 0 /\ lost = 0
    BY FaultsGrow DEF Inv
  <2>1. CASE verdict'[w] = verdict[w]
    <3> HIDE DEF FreshTokenHonoured, Answered
    <3>1. w \in Answered(401)
      BY <2>1, AnswerStays
    <3>2. verdict[w].signed /\ verdict[w].fresh
      BY <2>1, EqualSay, Zenon
    <3> USE DEF FreshTokenHonoured
    <3>3. drops = 0 /\ lost = 0
      BY <2>0
    <3> QED
      BY <3>1, <3>2, <3>3, Zenon
  <2>2. CASE verdict'[w] \in {NoVerdict, BareRefusal}
    BY <2>2 DEF NoVerdict, BareRefusal
  <2>3. CASE Answer(w, 401) /\ ~Genuine(token[w])
    <3>1. token[w] \in issued /\ token[w].iat + SessionTTL > now
      BY <2>0, <2>3, AnswerSays
    <3>2. token[w].iat \in Int /\ now \in Int
      BY <2>0, <3>1, TimesAssumption DEF TypeOK, Token, Days
    <3> QED
      BY <2>3, <3>1, <3>2, TimesAssumption, LifeAssumption DEF Genuine, InLife
  <2>4. ASSUME Lookup(w), NEW code \in {200, 401}, Answer(w, code)
        PROVE  FALSE
    <3>1. code = 401 /\ token[w] \in issued /\ token[w].iat + SessionTTL > now
      BY <2>0, <2>4, AnswerSays
    <3>2. ~Answer(w, 200)
      BY <2>0, AnswerSays
    <3>3. ~Stored(token[w])
      BY <2>0, <2>4, <3>2, FaultsAssumption
      DEF Lookup, Accept, CommandLost, SessionsKept, TypeOK
    <3>4. token[w] \in Token /\ token[w] \in returned
      BY <2>0, <2>4, <3>1, NoTokenForeign DEF Lookup, At, TokensSound, TypeOK
    <3>5. token[w].iat \in Int /\ now \in Int
      BY <2>0, <3>4, TimesAssumption DEF TypeOK, Token, Days
    <3>6. session[token[w]] \in Int
      BY <2>0, <3>4 DEF TypeOK
    <3> QED
      BY <2>0, <3>1, <3>3, <3>4, <3>5, <3>6, TimesAssumption DEF SessionsKept, Stored
  <2> QED
    BY <2>1, <2>2, <2>3, <2>4, VerdictGiven
<1> QED
  BY <1>1, <1>2, Invariance, PTL DEF Spec
=============================================================================
