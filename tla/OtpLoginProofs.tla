-------------------------- MODULE OtpLoginProofs --------------------------
(***************************************************************************)
(* Theorems about OtpLogin for any number of workers, emails, codes,       *)
(* issues and failing statements.  The bound on guesses rests on an        *)
(* accounting invariant: each request let past the limit is counted in the *)
(* row, about to be counted, or lost to a failed UPDATE.                   *)
(***************************************************************************)
EXTENDS OtpLogin, FiniteSetTheorems, TLAPS

(* Counting an attempt in a row leaves a row. *)
LEMMA CountedRow ==
  ASSUME NEW r \in Row
  PROVE  [r EXCEPT !.attempts = @ + 1] \in Row
BY DEF Row

(* The variables keep their types: every handler and the clock leave rows, *)
(* copies of rows and counters within the ranges of the table.             *)
THEOREM TypeCorrect == Spec => []TypeOK
<1> USE IssuesAssumption, EmailsAssumption DEF Issues, Row, NoRow, NoCode
<1>1. Init => TypeOK
  <2> SUFFICES ASSUME Init PROVE TypeOK
    OBVIOUS
  <2>1. otp_codes \in [Emails -> Row \cup {NoRow}] /\ row \in [Workers -> Row \cup {NoRow}]
    BY DEF Init
  <2>2. email \in [Workers -> Emails]
    BY DEF Init
  <2>3. issued \in 0..MaxIssues /\ expired \in 0..MaxIssues /\ errors \in 0..MaxErrors
    BY DEF Init
  <2> QED
    BY <2>1, <2>2, <2>3 DEF Init, TypeOK
<1>2. TypeOK /\ [Next]_vars => TypeOK'
  <2> SUFFICES ASSUME TypeOK, [Next]_vars PROVE TypeOK'
    OBVIOUS
  <2> USE DEF TypeOK, At, Goto, handlerVars, historyVars
  <2>0. ASSUME StatementOK \/ StatementFails PROVE errors' \in 0..MaxErrors
    BY <2>0 DEF StatementOK, StatementFails
  <2>1. CASE Expire
    BY <2>1 DEF Expire
  <2>2. ASSUME NEW w \in Workers, Handler(w) PROVE TypeOK'
    <3>1. CASE SendOtp(w)
      <4>1. issued' \in Issues
        BY <3>1 DEF SendOtp
      <4>2. PICK e \in Emails, c \in Codes :
               /\ email' = [email EXCEPT ![w] = e]
               /\ code' = [code EXCEPT ![w] = c]
               /\ row' = [row EXCEPT ![w] = [code |-> c, issue |-> issued', attempts |-> 0]]
               /\ mailed' = [mailed EXCEPT ![issued'] = e]
        BY <3>1 DEF SendOtp
      <4>3. [code |-> c, issue |-> issued', attempts |-> 0] \in Row
        BY <4>1, <4>2
      <4>4. row' \in [Workers -> Row \cup {NoRow}] /\ row'[w] \in Row
        BY <4>2, <4>3
      <4>5. mailed' \in [Issues -> Emails \cup {NoEmail}]
        BY <4>1, <4>2
      <4>6. \A u \in Workers : pc'[u] \notin {"idle", "select"} => row'[u] \in Row
        BY <3>1, <4>2, <4>3 DEF SendOtp
      <4> QED
        BY <3>1, <4>1, <4>2, <4>4, <4>5, <4>6 DEF SendOtp
    <3>2. CASE SendOtpUpsert(w)
      BY <2>0, <3>2 DEF SendOtpUpsert, Reply
    <3>3. CASE VerifyOtp(w)
      BY SMTT(20), <3>3 DEF VerifyOtp
    <3>4. CASE VerifyAdmit(w)
      <4> DEFINE r == otp_codes[email[w]]
      <4>1. r \in Row
        BY <3>4 DEF VerifyAdmit
      <4>2. row' = [row EXCEPT ![w] = r] /\ row' \in [Workers -> Row \cup {NoRow}]
        BY <3>4, <4>1 DEF VerifyAdmit
      <4>3. admitted' \in [Issues -> Nat]
        BY <3>4, <4>1 DEF VerifyAdmit
      <4> HIDE DEF r
      <4>4. \A u \in Workers : pc'[u] \notin {"idle", "select"} => row'[u] \in Row
        BY <3>4, <4>1, <4>2 DEF VerifyAdmit
      <4> QED
        BY <2>0, <3>4, <4>2, <4>3, <4>4 DEF VerifyAdmit
    <3>5. CASE VerifyRefuse(w)
      BY <2>0, <3>5 DEF VerifyRefuse, Reply
    <3>6. CASE VerifyCount(w)
      <4> DEFINE r == otp_codes[email[w]]
      <4>0. r # NoRow => [r EXCEPT !.attempts = @ + 1] \in Row
        BY CountedRow
      <4>1. otp_codes' \in [Emails -> Row \cup {NoRow}]
        BY <3>6, <4>0 DEF VerifyCount
      <4> QED
        BY <2>0, <3>6, <4>1 DEF VerifyCount
    <3>7. CASE VerifyAccept(w)
      <4>1. row[w].issue \in Issues
        BY <3>7 DEF VerifyAccept
      <4>2. accepted' \in [Issues -> Nat]
        BY <3>7, <4>1 DEF VerifyAccept
      <4>3. overdue' \subseteq Issues
        BY <3>7, <4>1 DEF VerifyAccept
      <4> QED
        BY <2>0, <3>7, <4>2, <4>3 DEF VerifyAccept
    <3>8. CASE VerifyReject(w)
      BY <2>0, <3>8 DEF VerifyReject, Reply
    <3>9. CASE VerifyDelete(w)
      BY <2>0, <3>9 DEF VerifyDelete
    <3>10. CASE VerifyLookup(w)
      BY <2>0, <3>10 DEF VerifyLookup, Reply
    <3> QED
      BY <2>2, <3>1, <3>2, <3>3, <3>4, <3>5, <3>6, <3>7, <3>8, <3>9, <3>10 DEF Handler
  <2>3. CASE UNCHANGED vars
    BY <2>3 DEF vars
  <2> QED
    BY <2>1, <2>2, <2>3 DEF Next
<1> QED
  BY <1>1, <1>2, PTL DEF Spec

(* A row of the table differs from the absence of one, also in its issue. *)
LEMMA RowFacts ==
  /\ NoRow.issue = 0
  /\ \A r \in Row : r # NoRow /\ r.issue \in Issues /\ r.attempts \in Nat
BY IssuesAssumption DEF Row, NoRow, Issues

(* An issue is in one place, so the row that lets a request past the limit *)
(* is the only one that ever did so for its issue.                         *)
THEOREM IssueInOnePlace == Spec => []IssuesUnique
<1>1. Init => IssuesUnique
  BY RowFacts DEF Init, IssuesUnique
<1>2. TypeOK /\ IssuesUnique /\ [Next]_vars => IssuesUnique'
  <2> SUFFICES ASSUME TypeOK, IssuesUnique, [Next]_vars PROVE IssuesUnique'
    OBVIOUS
  <2> USE DEF handlerVars, historyVars
  <2>t. /\ otp_codes \in [Emails -> Row \cup {NoRow}] /\ email \in [Workers -> Emails]
        /\ pc = [u \in Workers |-> pc[u]] /\ row \in [Workers -> Row \cup {NoRow}]
        /\ admitted \in [Issues -> Nat] /\ issued \in 0..MaxIssues
        /\ \A w \in Workers : pc[w] \notin {"idle", "select"} => row[w] \in Row
    BY DEF TypeOK
  <2>1. CASE Expire
    BY <2>1 DEF Expire, IssuesUnique
  <2>2. ASSUME NEW w \in Workers, Handler(w) PROVE IssuesUnique'
    (* A handler step that leaves issued and admitted alone, moves w away  *)
    (* from or not to its upsert, and changes rows at most by counting in  *)
    (* or deleting them.                                                   *)
    <3>0. ASSUME UNCHANGED <<issued, admitted>>, pc'[w] # "upsert",
                 \A u \in Workers : u # w => pc'[u] = pc[u] /\ row'[u] = row[u],
                 \A e \in Emails : \/ otp_codes'[e] = NoRow
                                   \/ /\ otp_codes'[e].issue = otp_codes[e].issue
                                      /\ otp_codes[e] # NoRow
          PROVE  IssuesUnique'
      <4>1. \A u \in Workers : pc'[u] = "upsert" => u # w /\ row[u].issue # 0
        BY <2>t, <3>0, RowFacts DEF Issues
      <4>2. \A u \in Workers : pc'[u] = "upsert" =>
              \A e \in Emails : otp_codes'[e].issue # row'[u].issue
        BY <3>0, <4>1, RowFacts DEF IssuesUnique
      <4> QED
        BY <3>0, <4>1, <4>2 DEF IssuesUnique
    <3>1. CASE SendOtp(w)
      <4>1. issued' = issued + 1 /\ row'[w].issue = issued + 1 /\ row'[w].attempts = 0
        BY <3>1, <2>t DEF SendOtp
      <4>2. \A u \in Workers : u # w => row'[u] = row[u] /\ pc'[u] = pc[u]
        BY <3>1, <2>t DEF SendOtp, Goto
      <4>3. issued + 1 \in Issues /\ admitted[issued + 1] = 0
        BY <3>1, <2>t, IssuesAssumption DEF SendOtp, IssuesUnique, Issues
      <4>4. UNCHANGED <<otp_codes, admitted>>
        BY <3>1 DEF SendOtp
      <4>5. \A e \in Emails : otp_codes[e].issue <= issued /\ otp_codes[e].issue \in Int
        BY <2>t, RowFacts, IssuesAssumption DEF IssuesUnique, Issues
      <4>6. \A u \in Workers : pc[u] = "upsert" => row[u].issue <= issued /\ row[u].issue \in Int
        BY <2>t, RowFacts, IssuesAssumption DEF IssuesUnique, Issues
      <4>7. \A u \in Workers : pc'[u] = "upsert" =>
              /\ row'[u].issue <= issued' /\ row'[u].attempts = 0
              /\ admitted'[row'[u].issue] = 0
              /\ \A e \in Emails : otp_codes'[e].issue # row'[u].issue
        BY <2>t, <4>1, <4>2, <4>3, <4>4, <4>5, <4>6 DEF IssuesUnique
      <4>8. \A u, v \in Workers :
              pc'[u] = "upsert" /\ pc'[v] = "upsert" /\ row'[v].issue = row'[u].issue => v = u
        BY <2>t, <4>1, <4>2, <4>6 DEF IssuesUnique
      <4>9. /\ \A i \in Issues : i > issued' => admitted'[i] = 0
            /\ \A e \in Emails : otp_codes'[e] # NoRow => otp_codes'[e].issue <= issued'
        BY <2>t, <4>1, <4>4, <4>5 DEF IssuesUnique, Issues
      <4> QED
        BY <4>4, <4>7, <4>8, <4>9 DEF IssuesUnique
    <3>2. CASE SendOtpUpsert(w) /\ otp_codes' = [otp_codes EXCEPT ![email[w]] = row[w]]
      <4>1. \A e \in Emails : otp_codes'[e] = IF e = email[w] THEN row[w] ELSE otp_codes[e]
        BY <3>2, <2>t
      <4>2. pc[w] = "upsert" /\ pc'[w] = "idle" /\ UNCHANGED <<issued, admitted>>
        BY <3>2, <2>t DEF SendOtpUpsert, At, Reply, Goto
      <4>3. \A u \in Workers : u # w => row'[u] = row[u] /\ pc'[u] = pc[u]
        BY <3>2, <2>t DEF SendOtpUpsert, Reply, Goto
      <4>4. \A u \in Workers : pc'[u] = "upsert" => u # w /\ row[u].issue # row[w].issue
        BY <4>2, <4>3 DEF IssuesUnique
      <4>5. \A e, f \in Emails :
              otp_codes'[e] # NoRow /\ otp_codes'[f] # NoRow /\ otp_codes'[e].issue = otp_codes'[f].issue
              => e = f
        BY <4>1, <4>2 DEF IssuesUnique
      <4>6. \A u \in Workers : pc'[u] = "upsert" =>
              \A e \in Emails : otp_codes'[e].issue # row'[u].issue
        BY <4>1, <4>3, <4>4 DEF IssuesUnique
      <4> QED
        BY <4>1, <4>2, <4>3, <4>4, <4>5, <4>6 DEF IssuesUnique
    <3>3. CASE SendOtpUpsert(w) /\ UNCHANGED otp_codes
      BY <3>0, <3>3, <2>t DEF SendOtpUpsert, Reply, Goto
    <3>4. CASE VerifyOtp(w)
      BY <3>0, <3>4, <2>t DEF VerifyOtp, Goto
    <3>5. CASE VerifyAdmit(w)
      <4> DEFINE r == otp_codes[email[w]]
      <4>1. r # NoRow /\ r \in Row /\ admitted' = [admitted EXCEPT ![r.issue] = @ + 1]
        BY <3>5, <2>t DEF VerifyAdmit
      <4>2. \A i \in Issues : i # r.issue => admitted'[i] = admitted[i]
        BY <4>1, <2>t
      <4>3. UNCHANGED <<otp_codes, issued>> /\ pc'[w] = "count"
        BY <3>5, <2>t DEF VerifyAdmit, Goto
      <4>4. \A u \in Workers : u # w => row'[u] = row[u] /\ pc'[u] = pc[u]
        BY <3>5, <2>t DEF VerifyAdmit, Goto
      <4>5. r.issue <= issued /\ r.issue \in Issues /\ \A u \in Workers : pc[u] = "upsert" => row[u].issue # r.issue
        BY <4>1, <2>t, RowFacts DEF IssuesUnique
      <4>6. \A u \in Workers : pc'[u] = "upsert" => u # w /\ row[u].issue \in Issues /\ admitted'[row'[u].issue] = 0
        BY <4>2, <4>3, <4>4, <4>5, <2>t, RowFacts DEF IssuesUnique
      <4>7. \A i \in Issues : i > issued => admitted'[i] = 0
        BY <4>2, <4>5, <2>t, IssuesAssumption DEF IssuesUnique, Issues
      <4> HIDE DEF r
      <4> QED
        BY <4>3, <4>4, <4>6, <4>7 DEF IssuesUnique
    <3>6. CASE VerifyRefuse(w)
      BY <3>0, <3>6, <2>t DEF VerifyRefuse, Reply, Goto
    <3>7. CASE VerifyCount(w)
      <4>1. \A e \in Emails : \/ otp_codes'[e] = NoRow
                              \/ /\ otp_codes'[e].issue = otp_codes[e].issue
                                 /\ otp_codes[e] # NoRow
        <5>1. CASE UNCHANGED otp_codes
          BY <5>1
        <5>2. CASE /\ otp_codes[email[w]] # NoRow
                   /\ otp_codes' = [otp_codes EXCEPT ![email[w]].attempts = @ + 1]
          BY <5>2, <2>t DEF Row
        <5> QED
          BY <3>7, <5>1, <5>2 DEF VerifyCount
      <4> QED
        BY <3>0, <3>7, <4>1, <2>t DEF VerifyCount, Goto
    <3>8. CASE VerifyAccept(w)
      BY <3>0, <3>8, <2>t DEF VerifyAccept, Goto
    <3>9. CASE VerifyReject(w)
      BY <3>0, <3>9, <2>t DEF VerifyReject, Reply, Goto
    <3>10. CASE VerifyDelete(w)
      BY <3>0, <3>10, <2>t DEF VerifyDelete, Goto
    <3>11. CASE VerifyLookup(w)
      BY <3>0, <3>11, <2>t DEF VerifyLookup, Reply, Goto
    <3> QED
      BY <2>2, <3>1, <3>2, <3>3, <3>4, <3>5, <3>6, <3>7, <3>8, <3>9, <3>10, <3>11
         DEF Handler, SendOtpUpsert
  <2>3. CASE UNCHANGED vars
    BY <2>3 DEF vars, IssuesUnique
  <2> QED
    BY <2>1, <2>2, <2>3 DEF Next
<1> QED
  BY <1>1, <1>2, TypeCorrect, PTL DEF Spec

(* The workers with an outstanding UPDATE are a finite set, no larger than *)
(* the set of all workers.                                                 *)
LEMMA WorkersCounted ==
  ASSUME NEW S, S \subseteq Workers
  PROVE  /\ IsFiniteSet(S)
         /\ Cardinality(S) \in Nat /\ Cardinality(Workers) \in Nat
         /\ Cardinality(S) <= Cardinality(Workers)
BY WorkersAssumption, FS_Subset, FS_CardinalityType

(* One worker more or less changes the number of workers by at most one.   *)
LEMMA OneWorkerMore ==
  ASSUME NEW S, S \subseteq Workers, NEW w \in Workers
  PROVE  /\ w \notin S => Cardinality(S \cup {w}) = Cardinality(S) + 1
         /\ Cardinality(S) <= Cardinality(S \ {w}) + 1
<1>1. IsFiniteSet(S) /\ IsFiniteSet(S \ {w})
  BY WorkersCounted
<1>2. w \notin S => Cardinality(S \cup {w}) = Cardinality(S) + 1
  BY <1>1, FS_AddElement
<1>3. CASE w \in S
  <2>1. (S \ {w}) \cup {w} = S
    BY <1>3
  <2>2. Cardinality((S \ {w}) \cup {w}) = Cardinality(S \ {w}) + 1
    BY <1>1, FS_AddElement
  <2>3. Cardinality(S \ {w}) \in Nat
    BY <1>1, FS_CardinalityType
  <2> QED
    BY <1>2, <2>1, <2>2, <2>3
<1>4. CASE w \notin S
  <2>1. S \ {w} = S /\ Cardinality(S) \in Nat
    BY <1>1, <1>4, FS_CardinalityType
  <2> QED
    BY <1>2, <2>1
<1> QED
  BY <1>3, <1>4

(* Each mailed code meets at most 5 guesses, plus one for every other      *)
(* worker that read the counter before it was incremented, plus one for    *)
(* every statement that failed.                                            *)
THEOREM GuessLimit == Spec => []GuessesBounded
<1> DEFINE N == Cardinality(Workers)
<1>0. N \in Nat
  BY WorkersCounted
<1>1. Init => AdmittedAccounted /\ GuessesBounded
  BY <1>0 DEF Init, AdmittedAccounted, GuessesBounded, MaxAttempts
<1>2. TypeOK /\ IssuesUnique /\ AdmittedAccounted /\ GuessesBounded /\ [Next]_vars
        => AdmittedAccounted' /\ GuessesBounded'
  <2> SUFFICES ASSUME TypeOK, IssuesUnique, AdmittedAccounted, GuessesBounded, [Next]_vars
               PROVE  AdmittedAccounted' /\ GuessesBounded'
    OBVIOUS
  <2> USE DEF handlerVars, historyVars
  <2>t. /\ otp_codes \in [Emails -> Row \cup {NoRow}] /\ email \in [Workers -> Emails]
        /\ pc = [u \in Workers |-> pc[u]] /\ row \in [Workers -> Row \cup {NoRow}]
        /\ admitted \in [Issues -> Nat] /\ errors \in Nat
        /\ \A w \in Workers : pc[w] \notin {"idle", "select"} => row[w] \in Row
    BY IssuesAssumption DEF TypeOK
  <2>c. \A e, i : Uncounted(e, i) \subseteq Workers /\ Uncounted(e, i)' \subseteq Workers
    BY DEF Uncounted
  <2>n. \A e, i : Cardinality(Uncounted(e, i)) \in Nat /\ Cardinality(Uncounted(e, i)') \in Nat
    BY <2>c, WorkersCounted
  (* Steps that let nobody past the limit and leave the outstanding        *)
  (* UPDATEs alone; rows may go, or keep their issue and count.            *)
  <2>0. ASSUME UNCHANGED admitted, errors' \in Nat, errors' >= errors,
               \A e, i : Uncounted(e, i)' = Uncounted(e, i),
               \A e \in Emails : otp_codes'[e] = NoRow \/ otp_codes'[e] = otp_codes[e]
        PROVE  AdmittedAccounted' /\ GuessesBounded'
    <3>1. GuessesBounded'
      BY <1>0, <2>0, <2>t DEF GuessesBounded, MaxAttempts
    <3>2. ASSUME NEW e \in Emails, otp_codes'[e] # NoRow
          PROVE  admitted'[otp_codes'[e].issue] <=
                   otp_codes'[e].attempts + Cardinality(Uncounted(e, otp_codes[e].issue)') + errors'
      <4>1. otp_codes'[e] = otp_codes[e] /\ otp_codes[e] \in Row
        BY <2>0, <2>t, <3>2
      <4>2. admitted[otp_codes[e].issue] <=
              otp_codes[e].attempts + Cardinality(Uncounted(e, otp_codes[e].issue)) + errors
        BY <3>2, <4>1 DEF AdmittedAccounted
      <4> QED
        BY <2>0, <2>t, <2>n, <4>1, <4>2, RowFacts
    <3>3. \A e \in Emails : otp_codes'[e] # NoRow => otp_codes'[e] = otp_codes[e]
      BY <2>0
    <3> QED
      BY <3>1, <3>2, <3>3 DEF AdmittedAccounted, Uncounted
  <2>1. CASE Expire
    BY <2>0, <2>1, <2>t DEF Expire, Uncounted
  <2>2. ASSUME NEW w \in Workers, Handler(w) PROVE AdmittedAccounted' /\ GuessesBounded'
    <3>0. ASSUME pc[w] # "count", pc'[w] # "count",
                 \A u \in Workers : u # w => pc'[u] = pc[u] /\ row'[u] = row[u] /\ email'[u] = email[u]
          PROVE  \A e, i : Uncounted(e, i)' = Uncounted(e, i)
      BY <3>0 DEF Uncounted
    <3>e. ASSUME StatementOK \/ StatementFails PROVE errors' \in Nat /\ errors' >= errors
      BY <3>e, <2>t DEF StatementOK, StatementFails
    <3>1. CASE SendOtp(w)
      BY <2>0, <2>t, <3>0, <3>1 DEF SendOtp, At, Goto
    <3>2. CASE VerifyOtp(w)
      BY <2>0, <2>t, <3>0, <3>2 DEF VerifyOtp, At, Goto
    <3>3. CASE VerifyRefuse(w)
      <4>1. \A e, i : Uncounted(e, i)' = Uncounted(e, i)
        BY <2>t, <3>0, <3>3 DEF VerifyRefuse, At, Goto, Reply
      <4> QED
        BY <2>0, <3>e, <3>3, <4>1 DEF VerifyRefuse
    <3>4. CASE VerifyAccept(w)
      <4>1. \A e, i : Uncounted(e, i)' = Uncounted(e, i)
        BY <2>t, <3>0, <3>4 DEF VerifyAccept, At, Goto
      <4> QED
        BY <2>0, <3>e, <3>4, <4>1 DEF VerifyAccept
    <3>5. CASE VerifyReject(w)
      <4>1. \A e, i : Uncounted(e, i)' = Uncounted(e, i)
        BY <2>t, <3>0, <3>5 DEF VerifyReject, At, Goto, Reply
      <4> QED
        BY <2>0, <3>e, <3>5, <4>1 DEF VerifyReject
    <3>6. CASE VerifyDelete(w)
      <4>1. \A e, i : Uncounted(e, i)' = Uncounted(e, i)
        BY <2>t, <3>0, <3>6 DEF VerifyDelete, At, Goto
      <4>2. \A e \in Emails : otp_codes'[e] = NoRow \/ otp_codes'[e] = otp_codes[e]
        BY <2>t, <3>6 DEF VerifyDelete
      <4> QED
        BY <2>0, <3>e, <3>6, <4>1, <4>2 DEF VerifyDelete
    <3>7. CASE VerifyLookup(w)
      <4>1. \A e, i : Uncounted(e, i)' = Uncounted(e, i)
        BY <2>t, <3>0, <3>7 DEF VerifyLookup, At, Goto, Reply
      <4> QED
        BY <2>0, <3>e, <3>7, <4>1 DEF VerifyLookup
    <3>8. CASE SendOtpUpsert(w)
      <4>1. \A e, i : Uncounted(e, i)' = Uncounted(e, i)
        BY <2>t, <3>0, <3>8 DEF SendOtpUpsert, At, Goto, Reply
      <4>2. \A e \in Emails : otp_codes'[e] = otp_codes[e] \/ otp_codes'[e] = row[w]
        BY <2>t, <3>8 DEF SendOtpUpsert
      <4>3. UNCHANGED admitted /\ errors' \in Nat /\ errors' >= errors
        BY <3>8, <3>e DEF SendOtpUpsert
      <4>4. row[w] \in Row /\ row[w].attempts = 0 /\ admitted[row[w].issue] = 0
        BY <3>8, <2>t DEF SendOtpUpsert, At, IssuesUnique
      <4>5. ASSUME NEW e \in Emails, otp_codes'[e] # NoRow, NEW i, i = otp_codes'[e].issue
            PROVE  admitted'[i] <= otp_codes'[e].attempts + Cardinality(Uncounted(e, i)) + errors'
        <5>1. CASE otp_codes'[e] = row[w]
          BY <2>n, <4>3, <4>4, <4>5, <5>1
        <5>2. CASE otp_codes'[e] = otp_codes[e]
          <6>1. otp_codes[e] \in Row
            BY <2>t, <4>5, <5>2
          <6>2. admitted[i] <= otp_codes[e].attempts + Cardinality(Uncounted(e, i)) + errors
            BY <4>5, <5>2 DEF AdmittedAccounted
          <6> QED
            BY <2>n, <2>t, <4>3, <4>5, <5>2, <6>1, <6>2, RowFacts
        <5> QED
          BY <4>2, <5>1, <5>2
      <4>6. AdmittedAccounted'
        BY <4>1, <4>5 DEF AdmittedAccounted, Uncounted
      <4>7. GuessesBounded'
        BY <1>0, <2>t, <4>3 DEF GuessesBounded, MaxAttempts
      <4> QED
        BY <4>6, <4>7
    <3>9. CASE VerifyAdmit(w)
      <4> DEFINE e0 == email[w]
                 r  == otp_codes[email[w]]
                 i0 == otp_codes[email[w]].issue
      <4>1. /\ pc[w] = "select" /\ r # NoRow /\ r.attempts < MaxAttempts
            /\ admitted' = [admitted EXCEPT ![i0] = @ + 1]
            /\ row' = [row EXCEPT ![w] = r] /\ pc' = [pc EXCEPT ![w] = "count"]
            /\ UNCHANGED <<otp_codes, email, errors>>
        BY <3>9 DEF VerifyAdmit, At, Goto, StatementOK
      <4>2. e0 \in Emails /\ r \in Row /\ i0 \in Issues /\ r.attempts \in Nat
        BY <2>t, <4>1, RowFacts
      <4>3. admitted'[i0] = admitted[i0] + 1 /\ admitted[i0] \in Nat
            /\ \A i \in Issues : i # i0 => admitted'[i] = admitted[i]
        BY <2>t, <4>1, <4>2
      <4>4. row'[w].issue = i0 /\ pc'[w] = "count"
            /\ \A u \in Workers : u # w => row'[u] = row[u] /\ pc'[u] = pc[u]
        BY <2>t, <4>1
      <4> HIDE DEF r, i0
      <4>5. w \notin Uncounted(e0, i0) /\ Uncounted(e0, i0)' = Uncounted(e0, i0) \cup {w}
        <5>1. email'[w] = e0 /\ \A u \in Workers : email'[u] = email[u]
          BY <4>1
        <5>2. w \notin Uncounted(e0, i0)
          BY <4>1 DEF Uncounted
        <5>3. \A u \in Workers :
                pc'[u] = "count" /\ email'[u] = e0 /\ row'[u].issue = i0
                <=> u = w \/ u \in Uncounted(e0, i0)
          BY <4>4, <5>1 DEF Uncounted
        <5> HIDE DEF e0
        <5>4. Uncounted(e0, i0)' = {u \in Workers : pc'[u] = "count" /\ email'[u] = e0 /\ row'[u].issue = i0}
          BY <4>1 DEF Uncounted, e0, i0
        <5> QED
          BY <2>c, <5>2, <5>3, <5>4
      <4>6. Cardinality(Uncounted(e0, i0)') = Cardinality(Uncounted(e0, i0)) + 1
        BY <2>c, <4>5, OneWorkerMore
      <4>7. admitted[i0] <= r.attempts + Cardinality(Uncounted(e0, i0)) + errors
        BY <4>1, <4>2 DEF AdmittedAccounted, r, i0
      <4>8. GuessesBounded'
        <5>1. Cardinality(Uncounted(e0, i0)') <= N
          BY <2>c, WorkersCounted
        <5>2. admitted'[i0] <= MaxAttempts - 1 + N + errors
          BY <1>0, <2>n, <2>t, <4>1, <4>2, <4>3, <4>6, <4>7, <5>1 DEF MaxAttempts
        <5>3. \A i \in Issues : admitted'[i] <= MaxAttempts - 1 + N + errors
          BY <4>3, <5>2 DEF GuessesBounded
        <5> QED
          BY <4>1, <5>3 DEF GuessesBounded
      <4>9. ASSUME NEW e \in Emails, otp_codes[e] # NoRow, NEW i, i = otp_codes[e].issue
            PROVE  admitted'[i] <= otp_codes[e].attempts + Cardinality(Uncounted(e, i)') + errors
        <5>1. CASE i = i0
          <6>1. e = e0
            BY <4>1, <4>2, <4>9, <5>1 DEF IssuesUnique, r, i0
          <6>2. Uncounted(e, i)' = Uncounted(e0, i0)' /\ Uncounted(e, i) = Uncounted(e0, i0)
            BY <4>1, <5>1, <6>1 DEF Uncounted, i0
          <6>3. Cardinality(Uncounted(e, i)') = Cardinality(Uncounted(e, i)) + 1
            BY <4>6, <6>2
          <6>4. admitted[i] <= otp_codes[e].attempts + Cardinality(Uncounted(e, i)) + errors
            BY <4>9 DEF AdmittedAccounted
          <6>5. otp_codes[e].attempts \in Nat /\ admitted'[i] = admitted[i] + 1 /\ admitted[i] \in Nat
            BY <4>2, <4>3, <5>1, <6>1 DEF r
          <6> QED
            BY <2>n, <2>t, <6>3, <6>4, <6>5
        <5>2. CASE i # i0
          <6>1. otp_codes[e] \in Row /\ i \in Issues
            BY <2>t, <4>9, RowFacts
          <6>2. Uncounted(e, i)' = Uncounted(e, i)
            BY <4>1, <4>4, <5>2 DEF Uncounted
          <6> QED
            BY <4>3, <4>9, <5>2, <6>1, <6>2 DEF AdmittedAccounted
        <5> QED
          BY <5>1, <5>2
      <4>10. AdmittedAccounted'
        BY <4>1, <4>9 DEF AdmittedAccounted, Uncounted
      <4> QED
        BY <4>8, <4>10
    <3>10. CASE VerifyCount(w)
      <4> DEFINE e0 == email[w]
      <4>1. /\ pc[w] = "count" /\ pc' = [pc EXCEPT ![w] = "expiry"] /\ e0 \in Emails
            /\ UNCHANGED <<admitted, row, email>>
        BY <2>t, <3>10 DEF VerifyCount, At, Goto
      <4>2. \A e, i : Uncounted(e, i)' = Uncounted(e, i) \ {w}
        BY <2>t, <4>1 DEF Uncounted
      <4>3. \A e, i : Cardinality(Uncounted(e, i)) <= Cardinality(Uncounted(e, i)') + 1
        BY <2>c, <4>2, OneWorkerMore
      <4>4. \A e, i : e # e0 => Uncounted(e, i)' = Uncounted(e, i)
        BY <4>2 DEF Uncounted
      <4>5. errors' \in Nat /\ errors' >= errors
        BY <3>e, <3>10 DEF VerifyCount
      <4>6. GuessesBounded'
        BY <1>0, <2>t, <4>1, <4>5 DEF GuessesBounded, MaxAttempts
      (* Either the row counts the request, or the failure does.           *)
      <4>7. ASSUME NEW e \in Emails, otp_codes'[e] # NoRow
            PROVE  /\ otp_codes[e] \in Row /\ otp_codes'[e].issue = otp_codes[e].issue
                   /\ otp_codes'[e].attempts \in Nat
                   /\ otp_codes'[e].attempts + errors' >= otp_codes[e].attempts + errors
                   /\ e = e0 => otp_codes'[e].attempts + errors' = otp_codes[e].attempts + errors + 1
        <5>1. CASE StatementFails /\ UNCHANGED otp_codes
          BY <2>t, <4>7, <5>1, RowFacts DEF StatementFails
        <5>2. CASE StatementOK /\ otp_codes[e0] = NoRow /\ UNCHANGED otp_codes
          BY <2>t, <4>7, <5>2, RowFacts DEF StatementOK
        <5>3. CASE /\ StatementOK /\ otp_codes[e0] # NoRow
                   /\ otp_codes' = [otp_codes EXCEPT ![e0].attempts = @ + 1]
          <6>1. otp_codes[e0] \in Row
            BY <2>t, <4>1, <5>3
          <6>2. otp_codes'[e0].issue = otp_codes[e0].issue
                /\ otp_codes'[e0].attempts = otp_codes[e0].attempts + 1
            BY <2>t, <4>1, <5>3, <6>1 DEF Row
          <6>3. e # e0 => otp_codes'[e] = otp_codes[e]
            BY <2>t, <5>3
          <6> QED
            BY <2>t, <4>7, <5>3, <6>1, <6>2, <6>3, RowFacts DEF StatementOK
        <5> QED
          BY <3>10, <5>1, <5>2, <5>3 DEF VerifyCount
      <4>8. ASSUME NEW e \in Emails, otp_codes'[e] # NoRow, NEW i, i = otp_codes'[e].issue
            PROVE  admitted'[i] <= otp_codes'[e].attempts + Cardinality(Uncounted(e, i)') + errors'
        <5>0. otp_codes[e] \in Row /\ otp_codes[e] # NoRow /\ i = otp_codes[e].issue
              /\ otp_codes[e].attempts \in Nat /\ otp_codes'[e].attempts \in Nat /\ i \in Issues
          BY <4>7, <4>8, RowFacts
        <5>1. admitted[i] <= otp_codes[e].attempts + Cardinality(Uncounted(e, i)) + errors
          BY <5>0 DEF AdmittedAccounted
        <5>2. CASE e = e0
          <6>1. otp_codes'[e].attempts + errors' = otp_codes[e].attempts + errors + 1
            BY <4>7, <4>8, <5>2
          <6>2. Cardinality(Uncounted(e, i)) <= Cardinality(Uncounted(e, i)') + 1
            BY <4>3
          <6> QED
            BY <2>n, <2>t, <4>1, <4>5, <5>0, <5>1, <6>1, <6>2
        <5>3. CASE e # e0
          <6>1. Uncounted(e, i)' = Uncounted(e, i)
            BY <4>4, <5>3
          <6> QED
            BY <2>n, <2>t, <4>1, <4>5, <4>7, <4>8, <5>0, <5>1, <6>1
        <5> QED
          BY <5>2, <5>3
      <4>9. AdmittedAccounted'
        BY <4>8 DEF AdmittedAccounted, Uncounted
      <4> QED
        BY <4>6, <4>9
    <3> QED
      BY <2>2, <3>1, <3>2, <3>3, <3>4, <3>5, <3>6, <3>7, <3>8, <3>9, <3>10 DEF Handler
  <2>3. CASE UNCHANGED vars
    BY <2>0, <2>3, <2>t DEF vars, Uncounted
  <2> QED
    BY <2>1, <2>2, <2>3 DEF Next
<1>3. QED
  BY <1>1, <1>2, TypeCorrect, IssueInOnePlace, PTL DEF Spec

----------------------------------------------------------------------------
(* Logins *)

(* A row, a code on its way to its row and a request past the limit belong *)
(* to the address their issue was mailed to.                               *)
Addressed ==
  /\ \A e \in Emails : otp_codes[e] # NoRow => mailed[otp_codes[e].issue] = e
  /\ \A w \in Workers : pc[w] \in {"upsert", "count", "expiry", "delete"} =>
       mailed[row[w].issue] = email[w]

(* Only a request let past the limit works with an issue or logs in.       *)
AdmittedFirst ==
  /\ \A w \in Workers : pc[w] \in {"count", "expiry", "delete"} => admitted[row[w].issue] > 0
  /\ \A i \in Issues : accepted[i] > 0 => admitted[i] > 0

(* What a handler step leaves alone.                                       *)
LEMMA HandlerFrame ==
  ASSUME TypeOK, NEW w \in Workers, Handler(w)
  PROVE  /\ \A u \in Workers : u # w => pc'[u] = pc[u] /\ row'[u] = row[u] /\ email'[u] = email[u]
         /\ issued' = issued \/ (issued' = issued + 1 /\ SendOtp(w))
         /\ ~SendOtp(w) => UNCHANGED <<issued, mailed>>
         /\ UNCHANGED expired
<1> USE DEF TypeOK, Goto, historyVars
<1>1. CASE SendOtp(w)
  BY <1>1 DEF SendOtp
<1>2. CASE SendOtpUpsert(w)
  BY <1>2 DEF SendOtpUpsert, Reply
<1>3. CASE VerifyOtp(w)
  BY <1>3 DEF VerifyOtp
<1>4. CASE VerifyAdmit(w)
  BY <1>4 DEF VerifyAdmit
<1>5. CASE VerifyRefuse(w)
  BY <1>5 DEF VerifyRefuse, Reply
<1>6. CASE VerifyCount(w)
  BY <1>6 DEF VerifyCount
<1>7. CASE VerifyAccept(w)
  BY <1>7 DEF VerifyAccept
<1>8. CASE VerifyReject(w)
  BY <1>8 DEF VerifyReject, Reply
<1>9. CASE VerifyDelete(w)
  BY <1>9 DEF VerifyDelete
<1>10. CASE VerifyLookup(w)
  BY <1>10 DEF VerifyLookup, Reply
<1> QED
  BY <1>1, <1>2, <1>3, <1>4, <1>5, <1>6, <1>7, <1>8, <1>9, <1>10 DEF Handler

(* Where a handler step takes its worker and what it does to the rows and  *)
(* the histories, by the statement that ran.                               *)
LEMMA HandlerMoves ==
  ASSUME TypeOK, NEW w \in Workers, Handler(w), ~SendOtp(w)
  PROVE  /\ email'[w] = email[w] \/ pc'[w] = "select"
         /\ pc'[w] \in {"count", "expiry", "delete", "lookup", "idle", "select"}
         /\ pc'[w] \in {"count", "expiry", "delete"} /\ ~VerifyAdmit(w) =>
              /\ row'[w] = row[w] /\ UNCHANGED email
              /\ pc[w] \in {"count", "expiry"}
              /\ pc'[w] = "delete" <=> VerifyAccept(w)
              /\ pc'[w] = "count" => pc[w] = "count"
         /\ ~VerifyAdmit(w) => UNCHANGED admitted
         /\ ~VerifyAccept(w) => UNCHANGED <<accepted, overdue>>
         /\ ~SendOtpUpsert(w) =>
              \A e \in Emails : \/ otp_codes'[e] = NoRow
                                \/ /\ otp_codes'[e].issue = otp_codes[e].issue
                                   /\ otp_codes[e] # NoRow
         /\ errors' >= errors /\ errors' \in Nat
<1> USE DEF TypeOK, At, Goto, historyVars
<1>e. ASSUME StatementOK \/ StatementFails PROVE errors' >= errors /\ errors' \in Nat
  BY <1>e, IssuesAssumption DEF StatementOK, StatementFails
<1>2. CASE SendOtpUpsert(w)
  BY <1>2, <1>e DEF SendOtpUpsert, Reply, VerifyAdmit, VerifyAccept
<1>3. CASE VerifyOtp(w)
  BY <1>3, IssuesAssumption DEF VerifyOtp, VerifyAdmit, VerifyAccept
<1>4. CASE VerifyAdmit(w)
  <2>1. pc'[w] = "count" /\ UNCHANGED <<otp_codes, email, accepted, overdue>>
    BY <1>4 DEF VerifyAdmit
  <2> QED
    BY <1>4, <1>e, <2>1 DEF VerifyAdmit
<1>5. CASE VerifyRefuse(w)
  <2>1. pc'[w] = "idle" /\ UNCHANGED <<otp_codes, email, accepted, overdue, admitted>>
    BY <1>5 DEF VerifyRefuse, Reply
  <2> QED
    BY <1>5, <1>e, <2>1 DEF VerifyRefuse
<1>6. CASE VerifyCount(w)
  <2>1. \A e \in Emails : \/ otp_codes'[e] = NoRow
                          \/ /\ otp_codes'[e].issue = otp_codes[e].issue
                             /\ otp_codes[e] # NoRow
    <3>1. CASE UNCHANGED otp_codes
      BY <3>1
    <3>2. CASE /\ otp_codes[email[w]] # NoRow
               /\ otp_codes' = [otp_codes EXCEPT ![email[w]].attempts = @ + 1]
      BY <3>2 DEF Row
    <3> QED
      BY <1>6, <3>1, <3>2 DEF VerifyCount
  <2>2. pc'[w] = "expiry" /\ pc[w] = "count" /\ row'[w] = row[w]
        /\ UNCHANGED <<email, accepted, overdue, admitted>>
    BY <1>6 DEF VerifyCount
  <2>3. ~VerifyAccept(w)
    BY <2>2 DEF VerifyAccept
  <2> QED
    BY <1>6, <1>e, <2>1, <2>2, <2>3 DEF VerifyCount
<1>7. CASE VerifyAccept(w)
  <2>1. pc[w] = "expiry" /\ pc'[w] = "delete" /\ UNCHANGED <<otp_codes, email, row, admitted>>
    BY <1>7 DEF VerifyAccept
  <2> QED
    BY <1>7, <1>e, <2>1 DEF VerifyAccept
<1>8. CASE VerifyReject(w)
  <2>1. pc'[w] = "idle" /\ UNCHANGED <<otp_codes, email, accepted, overdue, admitted>>
    BY <1>8 DEF VerifyReject, Reply
  <2> QED
    BY <1>8, <1>e, <2>1 DEF VerifyReject
<1>9. CASE VerifyDelete(w)
  <2>1. pc'[w] = "lookup" /\ UNCHANGED <<email, accepted, overdue, admitted>>
    BY <1>9 DEF VerifyDelete
  <2>2. \A e \in Emails : otp_codes'[e] = NoRow \/ otp_codes'[e] = otp_codes[e]
    BY <1>9 DEF VerifyDelete
  <2> QED
    BY <1>9, <1>e, <2>1, <2>2 DEF VerifyDelete
<1>10. CASE VerifyLookup(w)
  <2>1. pc'[w] = "idle" /\ UNCHANGED <<otp_codes, email, accepted, overdue, admitted>>
    BY <1>10 DEF VerifyLookup, Reply
  <2> QED
    BY <1>10, <1>e, <2>1 DEF VerifyLookup
<1> QED
  BY <1>2, <1>3, <1>4, <1>5, <1>6, <1>7, <1>8, <1>9, <1>10 DEF Handler

(* What SendOtp, SendOtpUpsert, VerifyAdmit and VerifyAccept change.       *)
LEMMA SendOtpEffect ==
  ASSUME TypeOK, NEW w \in Workers, SendOtp(w)
  PROVE  /\ issued' = issued + 1 /\ issued' \in Issues
         /\ UNCHANGED <<otp_codes, errors, admitted, accepted, overdue>>
         /\ pc[w] = "idle" /\ pc'[w] = "upsert"
         /\ row'[w].issue = issued' /\ mailed'[issued'] = email'[w]
         /\ \A i \in Issues : i # issued' => mailed'[i] = mailed[i]
BY IssuesAssumption DEF SendOtp, TypeOK, At, Goto, Issues

LEMMA UpsertEffect ==
  ASSUME TypeOK, NEW w \in Workers, SendOtpUpsert(w)
  PROVE  /\ pc[w] = "upsert" /\ pc'[w] = "idle" /\ row[w] \in Row /\ UNCHANGED <<admitted, accepted, overdue>>
         /\ \A e \in Emails : otp_codes'[e] = otp_codes[e] \/ (otp_codes'[e] = row[w] /\ e = email[w])
BY DEF SendOtpUpsert, TypeOK, At, Goto, Reply, historyVars

LEMMA AdmitEffect ==
  ASSUME TypeOK, NEW w \in Workers, VerifyAdmit(w)
  PROVE  /\ pc[w] = "select" /\ pc'[w] = "count" /\ otp_codes[email[w]] \in Row
         /\ row'[w] = otp_codes[email[w]] /\ UNCHANGED <<otp_codes, email, errors, accepted, overdue>>
         /\ row'[w].issue \in Issues
         /\ admitted'[row'[w].issue] > 0
         /\ \A i \in Issues : admitted'[i] \in Nat /\ admitted'[i] >= admitted[i]
<1>1. /\ pc[w] = "select" /\ pc'[w] = "count" /\ otp_codes[email[w]] \in Row
      /\ row'[w] = otp_codes[email[w]] /\ UNCHANGED <<otp_codes, email, errors, accepted, overdue>>
  BY DEF VerifyAdmit, TypeOK, At, Goto, StatementOK
<1>2. admitted' = [admitted EXCEPT ![row'[w].issue] = @ + 1] /\ row'[w].issue \in Issues
  BY <1>1, RowFacts DEF VerifyAdmit
<1> QED
  BY <1>1, <1>2 DEF TypeOK

LEMMA AcceptEffect ==
  ASSUME TypeOK, NEW w \in Workers, VerifyAccept(w)
  PROVE  /\ pc[w] = "expiry" /\ pc'[w] = "delete" /\ row[w].issue \in Issues
         /\ UNCHANGED <<otp_codes, email, row, errors, admitted>>
         /\ Valid(email[w])
         /\ accepted'[row[w].issue] = accepted[row[w].issue] + 1
         /\ \A i \in Issues : i # row[w].issue => accepted'[i] = accepted[i]
         /\ overdue' \subseteq overdue \cup {row[w].issue}
         /\ row[w].issue \in overdue' \ overdue => row[w].issue <= expired
<1>1. /\ pc[w] = "expiry" /\ pc'[w] = "delete" /\ row[w] \in Row
      /\ UNCHANGED <<otp_codes, email, row, errors, admitted>> /\ Valid(email[w])
  BY DEF VerifyAccept, TypeOK, At, Goto, StatementOK
<1>2. row[w].issue \in Issues /\ accepted' = [accepted EXCEPT ![row[w].issue] = @ + 1]
  BY <1>1, RowFacts DEF VerifyAccept
<1>3. /\ overdue' \subseteq overdue \cup {row[w].issue}
      /\ row[w].issue \in overdue' \ overdue => row[w].issue <= expired
  BY DEF VerifyAccept
<1> QED
  BY <1>1, <1>2, <1>3 DEF TypeOK

(* Issues keep their addresses and their requests come through the limit.  *)
LEMMA IssuesTraced == Spec => [](Addressed /\ AdmittedFirst)
<1>1. Init => Addressed /\ AdmittedFirst
  BY DEF Init, Addressed, AdmittedFirst
<1>2. TypeOK /\ IssuesUnique /\ Addressed /\ AdmittedFirst /\ [Next]_vars
        => Addressed' /\ AdmittedFirst'
  <2> SUFFICES ASSUME TypeOK, IssuesUnique, Addressed, AdmittedFirst, [Next]_vars
               PROVE  Addressed' /\ AdmittedFirst'
    OBVIOUS
  <2>t. /\ email \in [Workers -> Emails] /\ issued \in 0..MaxIssues
        /\ admitted \in [Issues -> Nat] /\ accepted \in [Issues -> Nat]
        /\ \A e \in Emails : otp_codes[e] # NoRow => otp_codes[e] \in Row
        /\ \A w \in Workers : pc[w] \notin {"idle", "select"} => row[w] \in Row
    BY DEF TypeOK
  <2>i. /\ \A e \in Emails : otp_codes[e] # NoRow => otp_codes[e].issue \in Issues /\ otp_codes[e].issue <= issued
        /\ \A w \in Workers : pc[w] \in {"upsert", "count", "expiry", "delete"} =>
             row[w].issue \in Issues /\ row[w].issue <= issued
    <3>1. \A e \in Emails : otp_codes[e] # NoRow => otp_codes[e].issue \in Issues /\ otp_codes[e].issue <= issued
      BY <2>t, RowFacts DEF IssuesUnique
    <3>2. ASSUME NEW w \in Workers, pc[w] \in {"upsert", "count", "expiry", "delete"}
          PROVE  row[w].issue \in Issues /\ row[w].issue <= issued
      <4>1. row[w].issue \in Issues
        BY <2>t, <3>2, RowFacts
      <4>2. CASE pc[w] = "upsert"
        BY <4>1, <4>2 DEF IssuesUnique
      <4>3. CASE pc[w] # "upsert"
        <5>1. admitted[row[w].issue] > 0
          BY <3>2, <4>3 DEF AdmittedFirst
        <5> QED
          BY <2>t, <4>1, <5>1, IssuesAssumption DEF IssuesUnique, Issues
      <4> QED
        BY <4>2, <4>3
    <3> QED
      BY <3>1, <3>2
  <2>1. CASE Expire \/ UNCHANGED vars
    BY <2>1 DEF Expire, vars, handlerVars, historyVars, Addressed, AdmittedFirst
  <2>2. ASSUME NEW w \in Workers, Handler(w) PROVE Addressed' /\ AdmittedFirst'
    <3>f. \A u \in Workers : u # w => pc'[u] = pc[u] /\ row'[u] = row[u] /\ email'[u] = email[u]
      BY <2>2, HandlerFrame
    <3>1. CASE SendOtp(w)
      <4>1. \A i \in Issues : i <= issued => mailed'[i] = mailed[i]
        BY <2>t, <3>1, SendOtpEffect DEF Issues
      <4>2. Addressed'
        BY <2>i, <3>1, <3>f, <4>1, SendOtpEffect DEF Addressed
      <4>3. AdmittedFirst'
        BY <3>1, <3>f, SendOtpEffect DEF AdmittedFirst
      <4> QED
        BY <4>2, <4>3
    <3>2. CASE SendOtpUpsert(w)
      <4>0. ~SendOtp(w) /\ UNCHANGED mailed
        BY <2>2, <3>2, HandlerFrame, SendOtpEffect, UpsertEffect
      <4>1. Addressed'
        BY <3>2, <3>f, <4>0, UpsertEffect DEF Addressed
      <4>2. AdmittedFirst'
        BY <3>2, <3>f, UpsertEffect DEF AdmittedFirst
      <4> QED
        BY <4>1, <4>2
    <3>3. CASE VerifyAdmit(w)
      <4>0. ~SendOtp(w) /\ UNCHANGED mailed
        BY <2>2, <3>3, HandlerFrame, SendOtpEffect, AdmitEffect
      <4>1. Addressed'
        <5>1. mailed[row'[w].issue] = email[w]
          BY <2>t, <3>3, AdmitEffect, RowFacts DEF Addressed
        <5> QED
          BY <3>3, <3>f, <4>0, <5>1, AdmitEffect DEF Addressed
      <4>2. AdmittedFirst'
        <5>1. \A i \in Issues : admitted'[i] \in Int /\ (admitted[i] > 0 => admitted'[i] > 0)
          BY <2>t, <3>3, AdmitEffect
        <5> QED
          BY <2>i, <3>3, <3>f, <5>1, AdmitEffect DEF AdmittedFirst
      <4> QED
        BY <4>1, <4>2
    <3>4. CASE ~SendOtp(w) /\ ~SendOtpUpsert(w) /\ ~VerifyAdmit(w)
      <4>0. UNCHANGED <<mailed, admitted>>
        BY <2>2, <3>4, HandlerFrame, HandlerMoves
      <4>1. Addressed'
        <5>1. \A e \in Emails : otp_codes'[e] # NoRow =>
                otp_codes[e] # NoRow /\ otp_codes'[e].issue = otp_codes[e].issue
          BY <2>2, <3>4, HandlerMoves
        <5>2. pc'[w] \in {"upsert", "count", "expiry", "delete"} =>
                row'[w] = row[w] /\ email'[w] = email[w] /\ pc[w] \in {"count", "expiry"}
          BY <2>2, <3>4, HandlerMoves
        <5> QED
          BY <3>f, <4>0, <5>1, <5>2 DEF Addressed
      <4>2. AdmittedFirst'
        <5>1. pc'[w] \in {"count", "expiry", "delete"} =>
                row'[w] = row[w] /\ pc[w] \in {"count", "expiry"}
          BY <2>2, <3>4, HandlerMoves
        <5>2. \A u \in Workers : pc'[u] \in {"count", "expiry", "delete"} => admitted[row'[u].issue] > 0
          BY <3>f, <5>1 DEF AdmittedFirst
        <5>3. CASE VerifyAccept(w)
          <6>1. admitted[row[w].issue] > 0
            BY <5>3, AcceptEffect DEF AdmittedFirst
          <6> QED
            BY <4>0, <5>2, <5>3, <6>1, AcceptEffect DEF AdmittedFirst
        <5>4. CASE ~VerifyAccept(w)
          BY <2>2, <3>4, <4>0, <5>2, <5>4, HandlerMoves DEF AdmittedFirst
        <5> QED
          BY <5>3, <5>4
      <4> QED
        BY <4>1, <4>2
    <3> QED
      BY <3>1, <3>2, <3>3, <3>4
  <2> QED
    BY <2>1, <2>2 DEF Next
<1> QED
  BY <1>1, <1>2, TypeCorrect, IssueInOnePlace, PTL DEF Spec

(* An issue accepted past its expiry has a later one, already generated,   *)
(* for the same address.                                                   *)
Replaced(i) == \E j \in Issues : j > i /\ j <= issued /\ mailed[j] = mailed[i]

(* An expired code logs in only when a newer one was mailed to its address *)
(* meanwhile: the request found its own row and the expiry check read the  *)
(* newer one, which belongs to the same address and expires later.         *)
THEOREM OverdueAfterResend == Spec => []OverdueOnlyAfterResend
<1> DEFINE OInv == \A i \in overdue : i \in Issues /\ Replaced(i)
<1>1. Init => OInv
  BY DEF Init
<1>2. TypeOK /\ IssuesUnique /\ Addressed /\ OInv /\ [Next]_vars => OInv'
  <2> SUFFICES ASSUME TypeOK, IssuesUnique, Addressed, OInv, [Next]_vars,
                      NEW i \in overdue'
               PROVE  i \in Issues /\ Replaced(i)'
    OBVIOUS
  <2>t. /\ issued \in 0..MaxIssues /\ expired \in 0..MaxIssues /\ email \in [Workers -> Emails]
        /\ \A e \in Emails : otp_codes[e] # NoRow => otp_codes[e] \in Row
    BY DEF TypeOK
  <2>1. CASE Expire \/ UNCHANGED vars
    BY <2>1 DEF Expire, vars, handlerVars, historyVars, Replaced
  <2>2. ASSUME NEW w \in Workers, Handler(w) PROVE i \in Issues /\ Replaced(i)'
    <3>1. CASE SendOtp(w)
      <4>1. i \in Issues /\ Replaced(i)
        BY <3>1, SendOtpEffect
      <4>2. PICK j \in Issues : j > i /\ j <= issued /\ mailed[j] = mailed[i]
        BY <4>1 DEF Replaced
      <4>3. j # issued' /\ i # issued' /\ j <= issued'
        BY <2>t, <3>1, <4>1, <4>2, SendOtpEffect, IssuesAssumption DEF Issues
      <4>4. mailed'[j] = mailed'[i]
        BY <3>1, <4>1, <4>2, <4>3, SendOtpEffect
      <4> QED
        BY <4>1, <4>2, <4>3, <4>4 DEF Replaced
    <3>2. CASE VerifyAccept(w) /\ i \notin overdue
      <4>0. UNCHANGED <<issued, mailed>>
        BY <2>2, <3>2, HandlerFrame, SendOtpEffect, AcceptEffect
      <4>1. i = row[w].issue /\ i \in Issues /\ i <= expired /\ pc[w] = "expiry" /\ Valid(email[w])
        BY <3>2, AcceptEffect
      <4> DEFINE j == otp_codes[email[w]].issue
      <4>2. j > expired /\ otp_codes[email[w]] \in Row /\ otp_codes[email[w]] # NoRow
        BY <2>t, <4>1 DEF Valid
      <4>3. j \in Issues /\ j <= issued /\ mailed[j] = email[w]
        BY <2>t, <4>2, RowFacts DEF IssuesUnique, Addressed
      <4>4. mailed[i] = email[w]
        BY <4>1 DEF Addressed
      <4>5. j > i
        BY <2>t, <4>1, <4>2, <4>3, IssuesAssumption DEF Issues
      <4> QED
        BY <4>0, <4>1, <4>3, <4>4, <4>5 DEF Replaced
    <3>3. CASE ~SendOtp(w) /\ ~(VerifyAccept(w) /\ i \notin overdue)
      <4>1. i \in overdue
        BY <2>2, <3>3, HandlerMoves
      <4>2. UNCHANGED <<issued, mailed>>
        BY <2>2, <3>3, HandlerFrame
      <4> QED
        BY <4>1, <4>2 DEF Replaced
    <3> QED
      BY <3>1, <3>2, <3>3
  <2> QED
    BY <2>1, <2>2 DEF Next
<1>3. OInv => OverdueOnlyAfterResend
  BY DEF Replaced, OverdueOnlyAfterResend
<1> QED
  BY <1>1, <1>2, <1>3, TypeCorrect, IssueInOnePlace, IssuesTraced, PTL DEF Spec

(* The requests that may still log in with issue i, those that did and     *)
(* have not run their DELETE yet, and whether a row carries the issue.     *)
Trying(i)   == {w \in Workers : pc[w] \in {"count", "expiry"} /\ row[w].issue = i}
Deleting(i) == {w \in Workers : pc[w] = "delete" /\ row[w].issue = i}
Alive(i)    == \E e \in Emails : otp_codes[e].issue = i

(* While its row is there, each login with an issue still has its DELETE   *)
(* to run or had it fail; once it is gone nobody new is let in, and those  *)
(* who are can log in once each.                                           *)
LoginsAccounted ==
  \A i \in Issues :
    /\ Alive(i) => accepted[i] <= Cardinality(Deleting(i)) + errors
    /\ accepted[i] + Cardinality(Trying(i)) <= Cardinality(Workers) + errors

(* Two disjoint sets of workers are together no more than the workers.     *)
LEMMA DisjointWorkers ==
  ASSUME NEW S, NEW T, S \subseteq Workers, T \subseteq Workers, S \cap T = {}
  PROVE  Cardinality(S) + Cardinality(T) <= Cardinality(Workers)
<1>1. IsFiniteSet(S) /\ IsFiniteSet(T)
  BY WorkersCounted
<1>2. Cardinality(S \cup T) = Cardinality(S) + Cardinality(T) - Cardinality(S \cap T)
  BY <1>1, FS_Union
<1>3. Cardinality(S \cap T) = 0
  BY FS_EmptySet
<1>4. Cardinality(S \cup T) <= Cardinality(Workers)
  BY WorkersCounted
<1> QED
  BY <1>1, <1>2, <1>3, <1>4, FS_CardinalityType

(* One worker less in a set that had it is one less.                       *)
LEMMA OneWorkerLess ==
  ASSUME NEW S, S \subseteq Workers, NEW w \in S
  PROVE  Cardinality(S) = Cardinality(S \ {w}) + 1
<1>1. (S \ {w}) \cup {w} = S
  OBVIOUS
<1> QED
  BY <1>1, OneWorkerMore

(* One mailed code logs in at most once per worker, plus once per failed   *)
(* statement: the check and the DELETE are statements apart, but the       *)
(* DELETE of the first login takes the row from all later requests.        *)
THEOREM LoginLimit == Spec => []LoginsBounded
<1> DEFINE N == Cardinality(Workers)
<1>0. N \in Nat
  BY WorkersCounted
<1>1. Init => LoginsAccounted
  <2> SUFFICES ASSUME Init, NEW i \in Issues
               PROVE  accepted[i] = 0 /\ Cardinality(Trying(i)) = 0 /\ ~Alive(i) /\ errors = 0
    BY <1>0 DEF LoginsAccounted
  <2>1. Trying(i) = {} /\ ~Alive(i)
    BY RowFacts, IssuesAssumption DEF Init, Trying, Alive, Issues
  <2> QED
    BY <2>1, FS_EmptySet DEF Init
<1>2. TypeOK /\ IssuesUnique /\ Addressed /\ AdmittedFirst /\ LoginsAccounted /\ [Next]_vars
        => LoginsAccounted'
  <2> SUFFICES ASSUME TypeOK, IssuesUnique, Addressed, AdmittedFirst, LoginsAccounted, [Next]_vars,
                      NEW i \in Issues
               PROVE  /\ Alive(i)' => accepted'[i] <= Cardinality(Deleting(i)') + errors'
                      /\ accepted'[i] + Cardinality(Trying(i)') <= N + errors'
    BY DEF LoginsAccounted
  <2>s. /\ Trying(i) \subseteq Workers /\ Trying(i)' \subseteq Workers
        /\ Deleting(i) \subseteq Workers /\ Deleting(i)' \subseteq Workers
        /\ Trying(i)' \cap Deleting(i)' = {}
    BY DEF Trying, Deleting
  <2>n. /\ Cardinality(Trying(i)) \in Nat /\ Cardinality(Trying(i)') \in Nat
        /\ Cardinality(Deleting(i)) \in Nat /\ Cardinality(Deleting(i)') \in Nat
        /\ accepted[i] \in Nat /\ errors \in Nat
    BY <2>s, WorkersCounted, IssuesAssumption DEF TypeOK
  <2>h. /\ Alive(i) => accepted[i] <= Cardinality(Deleting(i)) + errors
        /\ accepted[i] + Cardinality(Trying(i)) <= N + errors
    BY DEF LoginsAccounted
  (* Steps that neither admit nor accept a request of issue i.             *)
  <2>0. ASSUME accepted'[i] = accepted[i], errors' \in Nat, errors' >= errors,
               Deleting(i)' = Deleting(i), Trying(i)' \subseteq Trying(i),
               Alive(i)' => Alive(i) \/ accepted[i] = 0
        PROVE  /\ Alive(i)' => accepted'[i] <= Cardinality(Deleting(i)') + errors'
               /\ accepted'[i] + Cardinality(Trying(i)') <= N + errors'
    <3>1. Cardinality(Trying(i)') <= Cardinality(Trying(i))
      BY <2>0, <2>s, WorkersCounted, FS_Subset
    <3> QED
      BY <1>0, <2>0, <2>n, <2>h, <3>1
  <2>1. CASE Expire \/ UNCHANGED vars
    <3>1. UNCHANGED <<otp_codes, pc, row, accepted, errors>>
      BY <2>1 DEF Expire, vars, handlerVars, historyVars
    <3> QED
      BY <2>0, <2>n, <3>1 DEF Trying, Deleting, Alive
  <2>2. ASSUME NEW w \in Workers, Handler(w)
        PROVE  /\ Alive(i)' => accepted'[i] <= Cardinality(Deleting(i)') + errors'
               /\ accepted'[i] + Cardinality(Trying(i)') <= N + errors'
    <3>f. \A u \in Workers : u # w => pc'[u] = pc[u] /\ row'[u] = row[u]
      BY <2>2, HandlerFrame
    <3>1. CASE SendOtp(w)
      <4>1. Deleting(i)' = Deleting(i) /\ Trying(i)' = Trying(i) /\ Alive(i)' = Alive(i)
        BY <3>1, <3>f, SendOtpEffect DEF Trying, Deleting, Alive
      <4> QED
        BY <2>0, <2>n, <3>1, <4>1, SendOtpEffect
    <3>2. CASE SendOtpUpsert(w)
      <4>1. Deleting(i)' = Deleting(i) /\ Trying(i)' = Trying(i)
        BY <3>2, <3>f, UpsertEffect DEF Trying, Deleting
      <4>2. Alive(i)' => Alive(i) \/ accepted[i] = 0
        <5>1. Alive(i)' => Alive(i) \/ row[w].issue = i
          BY <3>2, UpsertEffect DEF Alive
        <5>2. row[w].issue = i => accepted[i] = 0
          BY <2>n, <3>2, UpsertEffect DEF IssuesUnique, AdmittedFirst
        <5> QED
          BY <5>1, <5>2
      <4>3. errors' \in Nat /\ errors' >= errors
        BY <2>2, <3>2, HandlerMoves, SendOtpEffect, UpsertEffect
      <4> QED
        BY <2>0, <3>2, <4>1, <4>2, <4>3, UpsertEffect
    <3>3. CASE VerifyAdmit(w)
      <4>1. Deleting(i)' = Deleting(i)
        BY <3>3, <3>f, AdmitEffect DEF Deleting
      <4>2. CASE row'[w].issue = i
        <5>1. Alive(i)
          BY <3>3, <4>2, AdmitEffect DEF TypeOK, Alive
        <5>2. Cardinality(Trying(i)') + Cardinality(Deleting(i)') <= N
          BY <2>s, DisjointWorkers
        <5> QED
          BY <1>0, <2>h, <2>n, <3>3, <4>1, <5>1, <5>2, AdmitEffect
      <4>3. CASE row'[w].issue # i
        <5>1. Trying(i)' \subseteq Trying(i) /\ Alive(i)' = Alive(i)
          BY <3>3, <3>f, <4>3, AdmitEffect DEF Trying, Alive
        <5> QED
          BY <2>0, <2>n, <3>3, <4>1, <5>1, AdmitEffect
      <4> QED
        BY <4>2, <4>3
    <3>4. CASE VerifyAccept(w)
      <4>1. CASE row[w].issue = i
        <5>1. w \in Trying(i) /\ Trying(i)' = Trying(i) \ {w}
          BY <3>4, <3>f, <4>1, AcceptEffect DEF Trying
        <5>2. w \notin Deleting(i) /\ Deleting(i)' = Deleting(i) \cup {w}
          BY <3>4, <3>f, <4>1, AcceptEffect DEF Deleting
        <5>3. Cardinality(Trying(i)) = Cardinality(Trying(i)') + 1
          BY <2>s, <5>1, OneWorkerLess
        <5>4. Cardinality(Deleting(i)') = Cardinality(Deleting(i)) + 1
          BY <2>s, <5>2, OneWorkerMore
        <5>5. Alive(i)' = Alive(i)
          BY <3>4, AcceptEffect DEF Alive
        <5> QED
          BY <1>0, <2>h, <2>n, <3>4, <4>1, <5>3, <5>4, <5>5, AcceptEffect
      <4>2. CASE row[w].issue # i
        <5>1. Trying(i)' = Trying(i) /\ Deleting(i)' = Deleting(i) /\ Alive(i)' = Alive(i)
          BY <3>4, <3>f, <4>2, AcceptEffect DEF Trying, Deleting, Alive
        <5> QED
          BY <2>0, <2>n, <3>4, <4>2, <5>1, AcceptEffect
      <4> QED
        BY <4>1, <4>2
    <3>5. CASE VerifyDelete(w) /\ row[w].issue = i
      <4>0. /\ pc[w] = "delete" /\ pc'[w] = "lookup" /\ accepted' = accepted
            /\ email[w] \in Emails
        BY <3>5 DEF VerifyDelete, At, Goto, historyVars, TypeOK
      <4>1. Trying(i)' = Trying(i) /\ Deleting(i)' = Deleting(i) \ {w} /\ w \in Deleting(i)
        BY <3>5, <3>f, <4>0 DEF Trying, Deleting
      <4>2. Cardinality(Deleting(i)) = Cardinality(Deleting(i)') + 1
        BY <2>s, <4>1, OneWorkerLess
      <4>3. CASE StatementOK /\ otp_codes' = [otp_codes EXCEPT ![email[w]] = NoRow]
        <5>1. ~Alive(i)'
          <6>1. \A e \in Emails : otp_codes[e].issue = i => e = email[w]
            BY <3>5, <4>0, RowFacts, IssuesAssumption DEF Addressed, Issues
          <6>2. otp_codes'[email[w]] = NoRow /\ \A e \in Emails : e # email[w] => otp_codes'[e] = otp_codes[e]
            BY <4>0, <4>3 DEF TypeOK
          <6> QED
            BY <6>1, <6>2, RowFacts, IssuesAssumption DEF Alive, Issues
        <5> QED
          BY <2>h, <4>0, <4>1, <4>3, <5>1 DEF StatementOK
      <4>4. CASE StatementFails /\ UNCHANGED otp_codes
        BY <1>0, <2>h, <2>n, <4>0, <4>1, <4>2, <4>4 DEF StatementFails, Alive
      <4> QED
        BY <3>5, <4>3, <4>4 DEF VerifyDelete
    <3>6. CASE /\ ~SendOtp(w) /\ ~SendOtpUpsert(w) /\ ~VerifyAdmit(w) /\ ~VerifyAccept(w)
               /\ ~(VerifyDelete(w) /\ row[w].issue = i)
      <4>1. /\ pc'[w] # "delete" /\ UNCHANGED accepted /\ errors' \in Nat /\ errors' >= errors
            /\ pc'[w] \in {"count", "expiry"} => pc[w] \in {"count", "expiry"} /\ row'[w] = row[w]
        BY <2>2, <3>6, HandlerMoves
      <4>2. ~(pc[w] = "delete" /\ row[w].issue = i)
        BY <2>2, <3>6 DEF Handler, SendOtp, SendOtpUpsert, VerifyOtp, VerifyAdmit, VerifyRefuse,
                          VerifyCount, VerifyAccept, VerifyReject, VerifyLookup, At
      <4>3. Deleting(i)' = Deleting(i) /\ Trying(i)' \subseteq Trying(i)
        BY <3>f, <4>1, <4>2 DEF Deleting, Trying
      <4>4. Alive(i)' => Alive(i)
        <5>1. \A e \in Emails : otp_codes'[e] = NoRow \/ otp_codes'[e].issue = otp_codes[e].issue
          BY <2>2, <3>6, HandlerMoves
        <5> QED
          BY <5>1, RowFacts, IssuesAssumption DEF Alive, Issues
      <4> QED
        BY <2>0, <4>1, <4>3, <4>4
    <3> QED
      BY <3>1, <3>2, <3>3, <3>4, <3>5, <3>6
  <2> QED
    BY <2>1, <2>2 DEF Next
<1>3. TypeOK /\ LoginsAccounted => LoginsBounded
  <2> SUFFICES ASSUME TypeOK, LoginsAccounted, NEW i \in Issues PROVE accepted[i] <= N + errors
    BY DEF LoginsBounded
  <2>1. Trying(i) \subseteq Workers
    BY DEF Trying
  <2>2. Cardinality(Trying(i)) \in Nat
    BY <2>1, WorkersCounted
  <2> QED
    BY <1>0, <2>2, IssuesAssumption DEF LoginsAccounted, TypeOK
<1> QED
  BY <1>1, <1>2, <1>3, TypeCorrect, IssueInOnePlace, IssuesTraced, PTL DEF Spec
=============================================================================
