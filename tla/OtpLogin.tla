------------------------------ MODULE OtpLogin ------------------------------
(***************************************************************************)
(* The login with a mailed code of http_api.cpp: POST /api/auth/send-otp   *)
(* and POST /api/auth/verify-otp on the table otp_codes, one row per       *)
(* email.  Crow runs the handlers on several worker threads; PgDb runs one *)
(* statement at a time, each committed by itself, so statements are the    *)
(* atomic steps and handlers interleave between them.  A statement may     *)
(* fail; some handlers answer 500 then, some ignore it.                    *)
(*                                                                         *)
(* Each mailed code is an issue, numbered in the order in which the codes  *)
(* were generated; expires_at is generation time plus ten minutes, so      *)
(* issues expire in that order.  A code is what the user types: two issues *)
(* may carry the same code.  The hash is injective for our purposes.       *)
(***************************************************************************)
EXTENDS Integers, FiniteSets

CONSTANTS Workers,     \* Crow's worker threads
          Emails,
          Codes,       \* what OtpHelper::generate() draws from
          MaxIssues,   \* bound: codes generated
          MaxErrors    \* bound: statements that fail

ASSUME WorkersAssumption == IsFiniteSet(Workers) /\ Workers # {}
ASSUME EmailsAssumption == Emails # {}
ASSUME IssuesAssumption == MaxIssues \in Nat /\ MaxErrors \in Nat

Issues == 1..MaxIssues
MaxAttempts == 5

Row    == [code : Codes, issue : Issues, attempts : Nat]
NoCode == "none"
NoEmail == "nobody"
NoRow  == [code |-> NoCode, issue |-> 0, attempts |-> 0]

VARIABLES
  otp_codes,   \* per email: its row, or NoRow
  issued,      \* codes generated so far
  expired,     \* the issues 1..expired are past their expires_at
  pc,          \* per worker: the statement its handler runs next
  email,       \* per worker: the email of its request
  code,        \* per worker: the code of its request, or the one it mails
  row,         \* per worker: the row (verify) or the new row (send) it works on
  errors,      \* statements that failed so far
  admitted,    \* history, per issue: requests let past the attempt limit
  accepted,    \* history, per issue: requests that logged in with it
  overdue,     \* history: issues accepted after they had expired
  mailed       \* history, per issue: the email it was generated for

handlerVars == <<pc, email, code, row>>
historyVars == <<admitted, accepted, overdue, mailed>>
vars == <<otp_codes, issued, expired, handlerVars, errors, historyVars>>

TypeOK ==
  /\ otp_codes \in [Emails -> Row \cup {NoRow}]
  /\ issued \in 0..MaxIssues
  /\ expired \in 0..MaxIssues
  /\ pc \in [Workers -> {"idle", "upsert", "select", "count", "expiry", "delete", "lookup"}]
  /\ email \in [Workers -> Emails]
  /\ code \in [Workers -> Codes \cup {NoCode}]
  /\ row \in [Workers -> Row \cup {NoRow}]
  /\ \A w \in Workers : pc[w] \notin {"idle", "select"} => row[w] \in Row
  /\ errors \in 0..MaxErrors
  /\ admitted \in [Issues -> Nat]
  /\ accepted \in [Issues -> Nat]
  /\ overdue \subseteq Issues
  /\ mailed \in [Issues -> Emails \cup {NoEmail}]

Init ==
  /\ otp_codes = [e \in Emails |-> NoRow]
  /\ issued = 0
  /\ expired = 0
  /\ pc = [w \in Workers |-> "idle"]
  /\ email = [w \in Workers |-> CHOOSE e \in Emails : TRUE]
  /\ code = [w \in Workers |-> NoCode]
  /\ row = [w \in Workers |-> NoRow]
  /\ errors = 0
  /\ admitted = [i \in Issues |-> 0]
  /\ accepted = [i \in Issues |-> 0]
  /\ overdue = {}
  /\ mailed = [i \in Issues |-> NoEmail]

----------------------------------------------------------------------------
At(w, label) == pc[w] = label
Goto(w, label) == pc' = [pc EXCEPT ![w] = label]

(* The handler answers; nothing of the request is left. *)
Reply(w) ==
  /\ Goto(w, "idle")
  /\ row' = [row EXCEPT ![w] = NoRow]
  /\ code' = [code EXCEPT ![w] = NoCode]

StatementOK    == UNCHANGED errors
StatementFails == errors < MaxErrors /\ errors' = errors + 1

----------------------------------------------------------------------------
(* POST /api/auth/send-otp *)

(* The code and its expiry are fixed before the statement runs. *)
SendOtp(w) ==
  /\ At(w, "idle") /\ issued < MaxIssues
  /\ issued' = issued + 1
  /\ \E e \in Emails, c \in Codes :
       /\ email' = [email EXCEPT ![w] = e]
       /\ code' = [code EXCEPT ![w] = c]
       /\ row' = [row EXCEPT ![w] = [code |-> c, issue |-> issued', attempts |-> 0]]
       /\ mailed' = [mailed EXCEPT ![issued'] = e]
  /\ Goto(w, "upsert")
  /\ UNCHANGED <<otp_codes, expired, errors, admitted, accepted, overdue>>

(* INSERT ... ON CONFLICT (email) DO UPDATE, attempts = 0; 200 or 500. *)
SendOtpUpsert(w) ==
  /\ At(w, "upsert")
  /\ \/ StatementOK /\ otp_codes' = [otp_codes EXCEPT ![email[w]] = row[w]]
     \/ StatementFails /\ UNCHANGED otp_codes
  /\ Reply(w)
  /\ UNCHANGED <<issued, expired, email, historyVars>>

----------------------------------------------------------------------------
(* POST /api/auth/verify-otp *)

VerifyOtp(w) ==
  /\ At(w, "idle")
  /\ \E e \in Emails, c \in Codes :
       email' = [email EXCEPT ![w] = e] /\ code' = [code EXCEPT ![w] = c]
  /\ Goto(w, "select")
  /\ UNCHANGED <<otp_codes, issued, expired, row, errors, historyVars>>

(* Mutant: the row that was read is not kept.                              *)
VerifyAdmitUnread(w) ==
  LET r == otp_codes[email[w]] IN
  /\ At(w, "select") /\ StatementOK
  /\ r # NoRow /\ r.attempts < MaxAttempts
  /\ admitted' = [admitted EXCEPT ![r.issue] = @ + 1]
  /\ Goto(w, "count")
  /\ UNCHANGED <<otp_codes, issued, expired, email, code, row, accepted, overdue, mailed>>

(* SELECT code_hash, expires_at, attempts: the handler goes on with a copy *)
(* of the row if the row is there and has attempts left.                   *)
VerifyAdmit(w) ==
  LET r == otp_codes[email[w]] IN
  /\ At(w, "select") /\ StatementOK
  /\ r # NoRow /\ r.attempts < MaxAttempts
  /\ row' = [row EXCEPT ![w] = r]
  /\ admitted' = [admitted EXCEPT ![r.issue] = @ + 1]
  /\ Goto(w, "count")
  /\ UNCHANGED <<otp_codes, issued, expired, email, code, accepted, overdue, mailed>>

(* No row: 400; too many attempts: 429; the statement fails: 500.          *)
VerifyRefuse(w) ==
  LET r == otp_codes[email[w]] IN
  /\ At(w, "select")
  /\ \/ StatementOK /\ (r = NoRow \/ r.attempts >= MaxAttempts)
     \/ StatementFails
  /\ Reply(w)
  /\ UNCHANGED <<otp_codes, issued, expired, email, historyVars>>

(* Mutant: the count that was read, plus one, is written back.             *)
VerifyCountStale(w) ==
  /\ At(w, "count")
  /\ \/ /\ StatementOK
        /\ otp_codes' = IF otp_codes[email[w]] = NoRow THEN otp_codes
                        ELSE [otp_codes EXCEPT ![email[w]].attempts = row[w].attempts + 1]
     \/ StatementFails /\ UNCHANGED otp_codes
  /\ Goto(w, "expiry")
  /\ UNCHANGED <<issued, expired, email, code, row, historyVars>>

(* UPDATE attempts = attempts + 1 on whatever row the email has by now;    *)
(* a failure is ignored.                                                   *)
VerifyCount(w) ==
  /\ At(w, "count")
  /\ \/ /\ StatementOK
        /\ otp_codes' = IF otp_codes[email[w]] = NoRow THEN otp_codes
                        ELSE [otp_codes EXCEPT ![email[w]].attempts = @ + 1]
     \/ StatementFails /\ UNCHANGED otp_codes
  /\ Goto(w, "expiry")
  /\ UNCHANGED <<issued, expired, email, code, row, historyVars>>

(* Mutant: the row need only be there.                                     *)
ValidForever(e) == otp_codes[e] # NoRow

Valid(e) == otp_codes[e] # NoRow /\ otp_codes[e].issue > expired

(* SELECT expires_at > NOW() reads the row again; the hash, compared right *)
(* after it without a statement in between, is that of the first SELECT.   *)
VerifyAccept(w) ==
  LET i == row[w].issue IN
  /\ At(w, "expiry") /\ StatementOK
  /\ Valid(email[w])
  /\ row[w].code = code[w]
  /\ accepted' = [accepted EXCEPT ![i] = @ + 1]
  /\ overdue' = IF i <= expired THEN overdue \cup {i} ELSE overdue
  /\ Goto(w, "delete")
  /\ UNCHANGED <<otp_codes, issued, expired, email, code, row, admitted, mailed>>

(* Expired or wrong code: 400; the statement fails: 500.                   *)
VerifyReject(w) ==
  /\ At(w, "expiry")
  /\ \/ StatementOK /\ (~Valid(email[w]) \/ row[w].code # code[w])
     \/ StatementFails
  /\ Reply(w)
  /\ UNCHANGED <<otp_codes, issued, expired, email, historyVars>>

(* Mutant: the row stays.                                                  *)
VerifyKeep(w) ==
  /\ At(w, "delete") /\ StatementOK
  /\ Goto(w, "lookup")
  /\ UNCHANGED <<otp_codes, issued, expired, email, code, row, historyVars>>

(* DELETE the email's row, whichever it is by now; a failure is ignored.   *)
VerifyDelete(w) ==
  /\ At(w, "delete")
  /\ \/ StatementOK /\ otp_codes' = [otp_codes EXCEPT ![email[w]] = NoRow]
     \/ StatementFails /\ UNCHANGED otp_codes
  /\ Goto(w, "lookup")
  /\ UNCHANGED <<issued, expired, email, code, row, historyVars>>

(* SELECT the user: a token or needsRegistration (see Sessions), or 500.   *)
VerifyLookup(w) ==
  /\ At(w, "lookup")
  /\ StatementOK \/ StatementFails
  /\ Reply(w)
  /\ UNCHANGED <<otp_codes, issued, expired, email, historyVars>>

(* Time passes: the oldest code that is still valid expires. *)
Expire ==
  /\ expired < issued
  /\ expired' = expired + 1
  /\ UNCHANGED <<otp_codes, issued, handlerVars, errors, historyVars>>

Handler(w) ==
  \/ SendOtp(w) \/ SendOtpUpsert(w)
  \/ VerifyOtp(w) \/ VerifyAdmit(w) \/ VerifyRefuse(w) \/ VerifyCount(w)
  \/ VerifyAccept(w) \/ VerifyReject(w) \/ VerifyDelete(w) \/ VerifyLookup(w)

Next == Expire \/ \E w \in Workers : Handler(w)

Spec == Init /\ [][Next]_vars

----------------------------------------------------------------------------
(* Properties *)

(* The attempt limit of 5 is read in one statement and counted in another, *)
(* so requests that arrive together overshoot it; but never by more than   *)
(* one request per other worker and one per failed statement.  This bounds *)
(* the guesses against one mailed code, whatever resends, deletes and      *)
(* counts that land on a newer row happen in between.                      *)
GuessesBounded ==
  \A i \in Issues : admitted[i] <= MaxAttempts - 1 + Cardinality(Workers) + errors

(* The row is deleted statements after it was read, so requests that run   *)
(* together log in with the same code; but never more than one per worker  *)
(* and one per failed statement, because the DELETE that follows takes the *)
(* row from everybody, however resends and deletes of newer rows interfere.*)
LoginsBounded ==
  \A i \in Issues : accepted[i] <= Cardinality(Workers) + errors

(* The expiry is that of the row the email has by now, not of the row the  *)
(* hash comes from; an expired code is accepted all the same only when a   *)
(* newer one was mailed to that address.                                   *)
OverdueOnlyAfterResend ==
  \A i \in overdue : \E j \in Issues : j > i /\ mailed[j] = mailed[i]

(* One mailed code logs in at most once.                                   *)
AcceptedOnce == \A i \in Issues : accepted[i] <= 1

----------------------------------------------------------------------------
(* Parts of the inductive invariant of OtpLoginProofs *)

(* The requests that were let past the limit by the row of issue i of      *)
(* email e and have not run their UPDATE yet.                              *)
Uncounted(e, i) == {w \in Workers : pc[w] = "count" /\ email[w] = e /\ row[w].issue = i}

(* Every request let past the limit by the row that an email has now is    *)
(* counted in it, is about to be, or had its UPDATE fail.                  *)
AdmittedAccounted ==
  \A e \in Emails :
    otp_codes[e] # NoRow =>
      admitted[otp_codes[e].issue] <=
        otp_codes[e].attempts + Cardinality(Uncounted(e, otp_codes[e].issue)) + errors

(* An issue is in one place: not generated yet, on its way to its row, or  *)
(* in the row of one email; only a row lets requests past the limit.       *)
IssuesUnique ==
  /\ \A i \in Issues : i > issued => admitted[i] = 0
  /\ \A e \in Emails : otp_codes[e] # NoRow => otp_codes[e].issue <= issued
  /\ \A e, f \in Emails :
       otp_codes[e] # NoRow /\ otp_codes[f] # NoRow /\ otp_codes[e].issue = otp_codes[f].issue
       => e = f
  /\ \A w \in Workers : pc[w] = "upsert" =>
       /\ row[w].issue <= issued /\ row[w].attempts = 0
       /\ admitted[row[w].issue] = 0
       /\ \A e \in Emails : otp_codes[e].issue # row[w].issue
       /\ \A u \in Workers : pc[u] = "upsert" /\ row[u].issue = row[w].issue => u = w
=============================================================================
