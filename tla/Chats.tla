------------------------------- MODULE Chats -------------------------------
(***************************************************************************)
(* Chats of http_api.cpp: direct chats, groups and their members, on the   *)
(* tables chats and chat_members.  A chat and its members are inserted by  *)
(* separate statements.  The two reads that ask for membership first,      *)
(* GET /api/chats/:id and its /messages, are here too; the listings of one *)
(* SELECT are not, and no route inserts a message.                         *)
(***************************************************************************)
EXTENDS PgDb

VARIABLES chats,         \* the table; an id is an index.  pair is history: the
                         \* two a direct chat was made for
          chat_members   \* the table: rows [chat, user, role, left]

chatVars == <<chats, chat_members>>

Pairs == {{u, v} : u \in Users, v \in Users \cup {Nobody}}

ChatsTypeOK ==
  /\ chats \in Seq([kind : {"private", "group"}, by : Users, pair : Pairs \cup {{}}])
  /\ chat_members \subseteq
       [chat : DOMAIN chats, user : Users, role : {"owner", "member"}, left : BOOLEAN]
  /\ \A r, s \in chat_members : r.chat = s.chat /\ r.user = s.user => r = s

ChatsInit == chats = <<>> /\ chat_members = {}

Row(c, u, role) == [chat |-> c, user |-> u, role |-> role, left |-> FALSE]
RowsOf(c)       == {r \in chat_members : r.chat = c}
MembersOf(c)    == {r.user : r \in RowsOf(c)}
Active(c, u)    == \E r \in RowsOf(c) : r.user = u /\ ~r.left

(* The id of a chat reaches a client once the chat has members.            *)
KnownChats == {c \in DOMAIN chats : RowsOf(c) # {}}

(* ------------------------------ direct chats --------------------------- *)

open_direct(w) ==
  /\ \E u \in Users, target \in Users \cup {Nobody} :
       Request(w, "open_direct", u, target, 0, "existing")
  /\ UNCHANGED chatVars

(* Mutant: only a chat that the caller made is found.                      *)
ExistingOwn(u, target) ==
  {c \in DOMAIN chats : chats[c].kind = "private" /\ chats[c].by = u /\ target \in MembersOf(c)}

(* Both joins; rows of members who left count.                             *)
Existing(u, target) ==
  {c \in DOMAIN chats : chats[c].kind = "private" /\ {u, target} \subseteq MembersOf(c)}

existing_chat(w) ==
  /\ At(w, "existing")
  /\ LET found == Existing(job[w].user, job[w].arg) IN
     \E out \in Outcomes :
       \/ out.ok /\ found = {} /\ Continue(w, out, FALSE, 0, {}, "direct")
       \/ out.ok /\ \E c \in found : Answer(w, out, FALSE, c, 200)
       \/ ~out.ok /\ Answer(w, out, FALSE, 0, 500)
  /\ UNCHANGED chatVars

(* INSERT INTO chats ... RETURNING id, of either kind.                     *)
InsertChat(w, chat, rest, next) ==
  /\ \E out \in Outcomes :
       LET id == Len(chats) + 1 IN
       /\ chats' = IF out.done THEN Append(chats, chat) ELSE chats
       /\ IF out.ok THEN Continue(w, out, TRUE, id, rest, next) ELSE Answer(w, out, TRUE, 0, 500)
  /\ UNCHANGED chat_members

insert_direct(w) ==
  /\ At(w, "direct")
  /\ InsertChat(w, [kind |-> "private", by |-> job[w].user, pair |-> {job[w].user, job[w].arg}], {}, "both")

(* One INSERT of two rows: the same user twice breaks the unique key, an   *)
(* unknown one the foreign key, and the chat stays without members.        *)
insert_both(w) ==
  /\ At(w, "both")
  /\ LET j     == job[w]
         legal == j.arg \in Users \ {j.user} IN
     \E out \in Outcomes :
       /\ chat_members' = IF out.done /\ legal
                          THEN chat_members \cup {Row(j.row, u, "member") : u \in {j.user, j.arg}}
                          ELSE chat_members
       /\ Last(w, out, legal, 201, 500)
  /\ UNCHANGED chats

(* -------------------------------- groups ------------------------------- *)

create_group(w) ==
  /\ \E u \in Users, memberIds \in SUBSET (Users \cup {Nobody}) :
       Request(w, "create_group", u, memberIds, 0, "group")
  /\ UNCHANGED chatVars

(* The creator is skipped in the list of members.                          *)
insert_group(w) ==
  /\ At(w, "group")
  /\ InsertChat(w, [kind |-> "group", by |-> job[w].user, pair |-> {}], job[w].arg \ {job[w].user}, "owner")

(* A group without further members is answered after the owner's row.      *)
insert_owner(w) ==
  /\ At(w, "owner")
  /\ LET j == job[w] IN
     \E out \in Outcomes :
       /\ chat_members' = IF out.done THEN chat_members \cup {Row(j.row, j.user, "owner")}
                          ELSE chat_members
       /\ IF out.ok /\ j.rest # {} THEN Continue(w, out, TRUE, j.row, j.rest, "member")
          ELSE Last(w, out, TRUE, 201, 500)
  /\ UNCHANGED chats

(* One member of the list: ON CONFLICT DO NOTHING, and whatever goes wrong *)
(* is swallowed.                                                           *)
insert_member(w) ==
  /\ At(w, "member")
  /\ LET j == job[w] IN
     \E m \in j.rest, out \in Outcomes :
       LET new == m \in Users \ MembersOf(j.row) IN
       /\ chat_members' = IF out.done /\ new THEN chat_members \cup {Row(j.row, m, "member")}
                          ELSE chat_members
       /\ IF j.rest = {m} THEN Answer(w, out, new, j.row, 201)
          ELSE Continue(w, out, new, j.row, j.rest \ {m}, "member")
  /\ UNCHANGED chats

(* ------------------------------- members ------------------------------- *)

add_member(w) ==
  /\ \E c \in KnownChats, target \in Users \cup {Nobody} :
       Request(w, "add_member", Nobody, target, c, "add")
  /\ UNCHANGED chatVars

remove_member(w) ==
  /\ \E c \in KnownChats, target \in Users :
       Request(w, "remove_member", Nobody, target, c, "remove")
  /\ UNCHANGED chatVars

(* Mutant: the conflict branch writes the role of the new row as well.     *)
UpsertRole(c, u) == {r \in chat_members : ~(r.chat = c /\ r.user = u)} \cup {Row(c, u, "member")}

(* Mutant: whoever left gets a second row.                                 *)
UpsertSecond(c, u) == IF Active(c, u) THEN chat_members ELSE chat_members \cup {Row(c, u, "member")}

(* ON CONFLICT (chat_id, user_id) DO UPDATE SET left_at = NULL.            *)
Upsert(c, u) ==
  IF u \in MembersOf(c)
  THEN {IF r.chat = c /\ r.user = u THEN [r EXCEPT !.left = FALSE] ELSE r : r \in chat_members}
  ELSE chat_members \cup {Row(c, u, "member")}

upsert_member(w) ==
  /\ At(w, "add")
  /\ LET j == job[w] IN
     \E out \in Outcomes :
       /\ chat_members' = IF out.done /\ j.arg \in Users THEN Upsert(j.row, j.arg) ELSE chat_members
       /\ Last(w, out, j.arg \in Users, 200, 500)
  /\ UNCHANGED chats

leave_chat(w) ==
  /\ At(w, "remove")
  /\ LET j == job[w] IN
     \E out \in Outcomes :
       /\ chat_members' = IF out.done
                          THEN {IF r.chat = j.row /\ r.user = j.arg THEN [r EXCEPT !.left = TRUE] ELSE r :
                                  r \in chat_members}
                          ELSE chat_members
       /\ Last(w, out, TRUE, 200, 500)
  /\ UNCHANGED chats

(* -------------------------------- reads -------------------------------- *)

get_chat_info(w) ==
  /\ \E c \in KnownChats, u \in Users : Request(w, "get_chat_info", u, Nobody, c, "membership")
  /\ UNCHANGED chatVars

get_messages(w) ==
  /\ \E c \in KnownChats, u \in Users : Request(w, "get_messages", u, Nobody, c, "membership")
  /\ UNCHANGED chatVars

(* Mutant: the test for left_at IS NULL is missing.                        *)
verify_any_row(w) ==
  /\ At(w, "membership")
  /\ Select(w, job[w].user \in MembersOf(job[w].row), "content", 403)
  /\ UNCHANGED chatVars

verify_membership(w) ==
  /\ At(w, "membership")
  /\ Select(w, Active(job[w].row, job[w].user), "content", 403)
  /\ UNCHANGED chatVars

(* The chat or its messages; neither is ever deleted.                      *)
read_content(w) ==
  /\ At(w, "content")
  /\ \E out \in Outcomes : Answer(w, out, FALSE, job[w].row, IF out.ok THEN 200 ELSE 500)
  /\ UNCHANGED chatVars

ChatsStep(w) ==
  \/ open_direct(w) \/ existing_chat(w) \/ insert_direct(w) \/ insert_both(w)
  \/ create_group(w) \/ insert_group(w) \/ insert_owner(w) \/ insert_member(w)
  \/ add_member(w) \/ upsert_member(w) \/ remove_member(w) \/ leave_chat(w)
  \/ get_chat_info(w) \/ get_messages(w) \/ verify_membership(w) \/ read_content(w)

(* route_open_direct() looks for a chat in one statement and makes one in  *)
(* two more, without a lock, so two requests may both make one.  Yet the   *)
(* damage is bounded: two users never have more chats of their own than    *)
(* the server has workers, however often they ask, whoever asks first,     *)
(* and whatever fails or restarts in between.                              *)
DirectChatsBounded ==
  \A pair \in Pairs :
    Cardinality({c \in DOMAIN chats : chats[c].pair = pair /\ pair \subseteq MembersOf(c)})
      <= Cardinality(Workers)

(* A chat that was answered 201 has everything the request asked for, and  *)
(* keeps it: both sides of a direct chat; the owner of a group, as owner,  *)
(* however often the owner is removed and added again; and every listed    *)
(* user unless a fault hit the request, the faults route_create_group()    *)
(* swallows.                                                               *)
ChatsComplete ==
  \A a \in answers : a.code = 201 =>
    /\ a.route = "open_direct" => {a.user, a.arg} \subseteq MembersOf(a.row)
    /\ a.route = "create_group" =>
         /\ \E r \in RowsOf(a.row) : r.user = a.user /\ r.role = "owner"
         /\ a.faulty \/ a.arg \cap Users \subseteq MembersOf(a.row)

(* An answer about a chat fits the membership at the moment of the answer: *)
(* 200 goes to an active member and 403 to somebody who is not one, except *)
(* when another request changed a table while this one was served.  A      *)
(* member who was removed, and told so, reads nothing afterwards.          *)
MembershipAnswers ==
  [][\A a \in answers' \ answers :
       a.route \in {"get_chat_info", "get_messages"} /\ a.code \in {200, 403} =>
         a.disturbed \/ (a.code = 200) = Active(a.row, a.user)]_<<answers, chat_members>>
=============================================================================
