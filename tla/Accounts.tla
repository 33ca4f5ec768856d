------------------------------ MODULE Accounts ------------------------------
(***************************************************************************)
(* Registration and profile of http_api.cpp: POST /api/auth/register and   *)
(* PATCH /api/auth/me, on the table users with its three unique columns.   *)
(* Registration asks for duplicates in one statement per column and        *)
(* inserts in a fourth.  A form that is refused before the first statement *)
(* (400) changes nothing and is left out, and so are the profile columns   *)
(* without a constraint.                                                   *)
(***************************************************************************)
EXTENDS PgDb

CONSTANTS Names,    \* user names and e-mail addresses
          Phones    \* telephone numbers that are not empty

VARIABLE users      \* the table; an id is an index

NULL == "NULL"      \* no value, which UNIQUE does not compare
EMPTY == ""         \* the empty string, which it does

Forms == [username : Names, email : Names, phone : Phones \cup {EMPTY}]

AccountsTypeOK ==
  users \in Seq([username : Names, email : Names, phone : Phones \cup {EMPTY, NULL}])

AccountsInit == users = <<>>

Has(column, value) == \E i \in DOMAIN users : users[i][column] = value

register(w) ==
  /\ \E form \in Forms : Request(w, "register", Nobody, form, 0, "username")
  /\ UNCHANGED users

check_username(w) ==
  /\ At(w, "username")
  /\ Select(w, ~Has("username", job[w].arg.username), "email", 409)
  /\ UNCHANGED users

(* The number is only looked up when the form has one.                     *)
check_email(w) ==
  /\ At(w, "email")
  /\ Select(w, ~Has("email", job[w].arg.email),
            IF job[w].arg.phone = EMPTY THEN "insert" ELSE "phone", 409)
  /\ UNCHANGED users

check_phone(w) ==
  /\ At(w, "phone")
  /\ Select(w, ~Has("phone", job[w].arg.phone), "insert", 409)
  /\ UNCHANGED users

(* Mutant: the number is inserted as it is, '' for a form without one.     *)
Verbatim(form) == form

(* NULLIF($3, '') of the INSERT.                                           *)
Stored(form) == [form EXCEPT !.phone = IF @ = EMPTY THEN NULL ELSE @]

(* The unique columns of users.                                            *)
Unique(row) == /\ ~Has("username", row.username)
               /\ ~Has("email", row.email)
               /\ row.phone = NULL \/ ~Has("phone", row.phone)

insert_user(w) ==
  /\ At(w, "insert")
  /\ LET row == Stored(job[w].arg) IN
     \E out \in Outcomes :
       /\ users' = IF out.done /\ Unique(row) THEN Append(users, row) ELSE users
       /\ Last(w, out, Unique(row), 201, 500)

(* A registered user changes the telephone number; '' is stored as ''.     *)
update_me(w) ==
  /\ \E id \in DOMAIN users, phone \in Phones \cup {EMPTY} :
       Request(w, "update_me", Nobody, [phone |-> phone], id, "update")
  /\ UNCHANGED users

update_user(w) ==
  /\ At(w, "update")
  /\ LET id    == job[w].row
         legal == \A i \in DOMAIN users \ {id} : users[i].phone # job[w].arg.phone IN
     \E out \in Outcomes :
       /\ users' = IF out.done /\ legal THEN [users EXCEPT ![id].phone = job[w].arg.phone] ELSE users
       /\ Last(w, out, legal, 200, 500)

AccountsStep(w) ==
  \/ register(w) \/ check_username(w) \/ check_email(w) \/ check_phone(w) \/ insert_user(w)
  \/ update_me(w) \/ update_user(w)

(* A registration that is served with nobody changing the table meanwhile, *)
(* and whose statements all reach PostgreSQL, is never answered "Server    *)
(* error": the three look-ups of route_register() find every conflict the  *)
(* unique columns of users would raise, and only a race gets past them.    *)
ConflictsAnswered ==
  \A a \in answers : a.route = "register" /\ a.code = 500 => a.faulty \/ a.disturbed

(* Whoever was answered 201 by route_register() is in the table for good.  *)
RegisteredKept ==
  \A a \in answers : a.route = "register" /\ a.code = 201 =>
    \E i \in DOMAIN users : /\ users[i].username = a.arg.username
                            /\ users[i].email = a.arg.email
=============================================================================
