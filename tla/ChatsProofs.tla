---------------------------- MODULE ChatsProofs ----------------------------
(***************************************************************************)
(* Theorems about the chats of the REST API, on any number of workers and  *)
(* with accounts and channels being served beside them.                    *)
(***************************************************************************)
EXTENDS HttpApiLemmas

(* What a chat handler knows when it stands at a statement.                *)
PairKnown(w) ==
  /\ job[w].at = "both" => chats[job[w].row].pair = {job[w].user, job[w].arg}
  /\ job[w].at \in {"owner", "member"} => chats[job[w].row].pair = {}

HasOwner(c, u) == \E r \in RowsOf(c) : r.user = u /\ r.role = "owner"

GroupKnown(w) ==
  /\ job[w].at = "owner" => job[w].rest = job[w].arg \ {job[w].user}
  /\ job[w].at = "member" =>
       /\ HasOwner(job[w].row, job[w].user)
       /\ job[w].faulty \/ job[w].arg \cap Users \subseteq MembersOf(job[w].row) \cup job[w].rest

ReaderKnown(w) == job[w].at = "content" => job[w].disturbed \/ Active(job[w].row, job[w].user)

Known(w) == PairKnown(w) /\ GroupKnown(w) /\ ReaderKnown(w)

(* A chat that was made for two is private, and has both as soon as it has *)
(* anybody.                                                                *)
PairsSound ==
  \A c \in DOMAIN chats :
    /\ chats[c].pair # {} => chats[c].kind = "private"
    /\ RowsOf(c) # {} => chats[c].pair \subseteq MembersOf(c)

(* ChatsComplete, for one answer.                                          *)
Complete(a) ==
  a.code = 201 =>
    /\ a.route = "open_direct" => {a.user, a.arg} \subseteq MembersOf(a.row)
    /\ a.route = "create_group" =>
         /\ HasOwner(a.row, a.user)
         /\ a.faulty \/ a.arg \cap Users \subseteq MembersOf(a.row)

AnswersComplete == \A a \in answers : Complete(a)

ChatInv == Base /\ (\A w \in Workers : Known(w)) /\ PairsSound /\ AnswersComplete

(* The chats two users have, and the workers that may make one more.       *)
ChatsOf(p) == {c \in DOMAIN chats : chats[c].pair = p /\ p \subseteq MembersOf(c)}
Makers(p)  == {w \in Workers : job[w].at \in {"direct", "both"} /\ {job[w].user, job[w].arg} = p}

Tight(p) ==
  ChatsOf(p) # {} => Cardinality(ChatsOf(p)) + Cardinality(Makers(p)) <= Cardinality(Workers)

Bounded == \A p \in Pairs : Tight(p)

----------------------------------------------------------------------------
(* The others *)

(* What one worker does leaves what the others know true.                  *)
LEMMA OthersKnown ==
  ASSUME Base, NEW w \in Workers, Frame(w), ChatsKept, RowsChanged(w),
         NEW v \in Workers, v # w, Known(v)
  PROVE  Known(v)'
<1>1. /\ job'[v].at = job[v].at /\ job'[v].user = job[v].user
      /\ job'[v].arg = job[v].arg /\ job'[v].row = job[v].row /\ job'[v].rest = job[v].rest
      /\ job'[v].faulty = job[v].faulty /\ (job[v].disturbed => job'[v].disturbed)
  BY DEF Frame, Others
<1>2. job[v].at \in {"both", "owner", "member", "content"} => job[v].row \in DOMAIN chats
  BY DEF Base, JobsSound, JobSound, ChatJob
<1>3. \A c \in DOMAIN chats : chats'[c] = chats[c]
  BY DEF ChatsKept
<1>4. PairKnown(v)'
  BY <1>1, <1>2, <1>3 DEF Known, PairKnown
<1>5. GroupKnown(v)'
  <2> DEFINE c == job[v].row
  <2>1. MembersOf(c) \subseteq MembersOf(c)' /\ (HasOwner(c, job[v].user) => HasOwner(c, job[v].user)')
    <3>1. ASSUME NEW d, NEW u, d = c, u = job[v].user
          PROVE  MembersOf(d) \subseteq MembersOf(d)' /\ (HasOwner(d, u) => HasOwner(d, u)')
      BY KeptMembers DEF HasOwner
    <3> QED
      BY <1>1, <3>1 DEF MembersOf, RowsOf, HasOwner
  <2> QED
    BY <1>1, <2>1 DEF Known, GroupKnown
<1>6. ReaderKnown(v)'
  <2>1. CASE chat_members' = chat_members
    BY <1>1, <2>1 DEF Known, ReaderKnown, Active, RowsOf
  <2>2. CASE Noted(w)
    BY <1>1, <2>2 DEF Noted, ReaderKnown
  <2> QED
    BY <2>1, <2>2 DEF RowsChanged
<1> QED
  BY <1>4, <1>5, <1>6 DEF Known

(* An answer that was complete stays so.                                   *)
LEMMA CompleteKept ==
  ASSUME ChatsKept, NEW a, Complete(a)
  PROVE  Complete(a)'
<1>1. \A c : MembersOf(c) \subseteq MembersOf(c)' /\ (\A u : HasOwner(c, u) => HasOwner(c, u)')
  BY KeptMembers DEF HasOwner
<1> QED
  BY <1>1 DEF Complete

----------------------------------------------------------------------------
(* The worker that moves *)

(* A statement that adds no member to a chat keeps the pairs sound, and so *)
(* does one that adds members to a chat that has some.                     *)
LEMMA PairsKept ==
  ASSUME Base, PairsSound, NEW w \in Workers, ChatsKept, RowsChanged(w), chats' = chats,
         NEW c, c = job[w].row,
         Making(w) => chat_members' = chat_members \/ chats[c].pair \subseteq MembersOf(c)'
  PROVE  PairsSound'
<1> SUFFICES ASSUME NEW d \in DOMAIN chats, RowsOf(d)' # {} PROVE chats[d].pair \subseteq MembersOf(d)'
  BY DEF PairsSound
<1>1. MembersOf(d) \subseteq MembersOf(d)'
  BY KeptMembers
<1>2. CASE RowsOf(d) # {}
  BY <1>1, <1>2 DEF PairsSound
<1>3. CASE RowsOf(d) = {}
  <2>1. chat_members' # chat_members
    BY <1>3 DEF RowsOf
  <2>2. job[w].at \in {"both", "owner", "member", "add", "remove"} /\ Touches(c)
    BY <2>1 DEF RowsChanged
  <2>3. d = c
    BY <1>3, <2>2 DEF Touches
  <2>4. Making(w)
    BY <1>3, <2>2, <2>3 DEF Base, ChatsFresh, Making
  <2> QED
    BY <2>1, <2>3, <2>4
<1> QED
  BY <1>2, <1>3

LEMMA PairsAppended ==
  ASSUME Base, PairsSound, NEW chat \in ChatRow, chat_members' = chat_members,
         chats' = chats \/ chats' = Append(chats, chat), chat.pair # {} => chat.kind = "private"
  PROVE  PairsSound'
<1>0. \A d : RowsOf(d)' = RowsOf(d) /\ MembersOf(d)' = MembersOf(d)
  BY DEF RowsOf, MembersOf
<1>1. CASE chats' = chats
  BY <1>0, <1>1 DEF PairsSound
<1>2. CASE chats' = Append(chats, chat)
  <2>1. /\ ChatsKept /\ DOMAIN chats' = DOMAIN chats \cup {Len(chats) + 1}
        /\ (\A r \in chat_members' : r.chat # Len(chats) + 1) /\ chats'[Len(chats) + 1] = chat
    BY <1>2, ChatAppended DEF Base
  <2>2. \A d \in DOMAIN chats : chats'[d] = chats[d]
    BY <2>1 DEF ChatsKept
  <2> SUFFICES ASSUME NEW d \in DOMAIN chats'
               PROVE  /\ chats'[d].pair # {} => chats'[d].kind = "private"
                      /\ RowsOf(d)' # {} => chats'[d].pair \subseteq MembersOf(d)'
    BY DEF PairsSound
  <2>3. CASE d \in DOMAIN chats
    BY <1>0, <2>2, <2>3 DEF PairsSound
  <2>4. CASE d = Len(chats) + 1
    <3>1. RowsOf(d)' = {}
      BY <2>1, <2>4 DEF RowsOf
    <3> QED
      BY <2>1, <2>4, <3>1
  <2> QED
    BY <2>1, <2>3, <2>4
<1> QED
  BY <1>1, <1>2

(* What a step of a chat handler leaves known.                             *)
Settled(w) ==
  Known(w)' /\ PairsSound' /\ \A a \in answers' \ answers : Complete(a)'

LEMMA IdleKnown ==
  ASSUME NEW w \in Workers,
         job'[w].at \notin {"both", "owner", "member", "content"}
  PROVE  Known(w)'
BY DEF Known, PairKnown, GroupKnown, ReaderKnown

LEMMA RequestsSettle ==
  ASSUME ChatInv, NEW w \in Workers,
         \/ open_direct(w) \/ create_group(w) \/ add_member(w) \/ remove_member(w)
         \/ get_chat_info(w) \/ get_messages(w)
  PROVE  /\ Settled(w) /\ UNCHANGED chatVars /\ answers' = answers
         /\ job'[w].at \in {"existing", "group", "add", "remove", "membership"}
<1>1. UNCHANGED chatVars
  BY DEF open_direct, create_group, add_member, remove_member, get_chat_info, get_messages
<1>2. PICK route, u, arg, r, label : /\ Request(w, route, u, arg, r, label)
                                     /\ label \in {"existing", "group", "add", "remove", "membership"}
  BY DEF open_direct, create_group, add_member, remove_member, get_chat_info, get_messages
<1>3. job'[w].at = label /\ answers' = answers
  BY <1>2, RequestEffect DEF ChatInv, Base
<1>4. Known(w)'
  BY <1>2, <1>3, IdleKnown
<1>5. PairsSound'
  BY <1>1 DEF ChatInv, PairsSound, chatVars, RowsOf, MembersOf
<1> QED
  BY <1>1, <1>2, <1>3, <1>4, <1>5 DEF Settled

LEMMA ExistingSettles ==
  ASSUME ChatInv, NEW w \in Workers, existing_chat(w)
  PROVE  Settled(w)
<1>1. /\ UNCHANGED chatVars /\ (\A a \in answers' \ answers : a.code # 201)
      /\ job'[w].at \in {"idle", "direct"}
  BY ExistingEffect DEF ChatInv, Base
<1>2. Known(w)'
  BY <1>1, IdleKnown
<1>3. PairsSound'
  BY <1>1 DEF ChatInv, PairsSound, chatVars, RowsOf, MembersOf
<1>4. \A a \in answers' \ answers : Complete(a)'
  BY <1>1 DEF Complete
<1> QED
  BY <1>2, <1>3, <1>4 DEF Settled

LEMMA DirectSettles ==
  ASSUME ChatInv, NEW w \in Workers, insert_direct(w)
  PROVE  Settled(w)
<1> DEFINE chat == [kind |-> "private", by |-> job[w].user, pair |-> {job[w].user, job[w].arg}]
<1>1. /\ chat_members' = chat_members /\ (chats' = chats \/ chats' = Append(chats, chat))
      /\ chat.pair = {job[w].user, job[w].arg} /\ chat.kind = "private" /\ chat \in ChatRow
      /\ \A a \in answers' \ answers : a.code # 201
      /\ \/ job'[w].at = "idle"
         \/ /\ job'[w].at = "both" /\ job'[w].user = job[w].user /\ job'[w].arg = job[w].arg
            /\ job'[w].row = Len(chats) + 1 /\ chats' = Append(chats, chat)
  BY DirectEffect DEF ChatInv, Base
<1> HIDE DEF chat
<1>2. PairsSound'
  BY <1>1, PairsAppended DEF ChatInv
<1>3. Known(w)'
  <2>1. CASE job'[w].at = "idle"
    BY <2>1, IdleKnown
  <2>2. CASE job'[w].at = "both" /\ chats' = Append(chats, chat) /\ job'[w].row = Len(chats) + 1
    <3>1. chats'[Len(chats) + 1] = chat
      BY <1>1, <2>2, ChatAppended DEF ChatInv, Base
    <3> QED
      BY <1>1, <2>2, <3>1 DEF Known, PairKnown, GroupKnown, ReaderKnown
  <2> QED
    BY <1>1, <2>1, <2>2
<1>4. \A a \in answers' \ answers : Complete(a)'
  BY <1>1 DEF Complete
<1> QED
  BY <1>2, <1>3, <1>4 DEF Settled

LEMMA GroupSettles ==
  ASSUME ChatInv, NEW w \in Workers, insert_group(w)
  PROVE  Settled(w)
<1> DEFINE chat == [kind |-> "group", by |-> job[w].user, pair |-> {}]
<1>1. /\ chat_members' = chat_members /\ (chats' = chats \/ chats' = Append(chats, chat))
      /\ chat.pair = {} /\ chat \in ChatRow
      /\ \A a \in answers' \ answers : a.code # 201
      /\ \/ job'[w].at = "idle"
         \/ /\ job'[w].at = "owner" /\ job'[w].rest = job'[w].arg \ {job'[w].user}
            /\ job'[w].row = Len(chats) + 1 /\ chats' = Append(chats, chat)
  BY GroupEffect DEF ChatInv, Base
<1> HIDE DEF chat
<1>2. PairsSound'
  BY <1>1, PairsAppended DEF ChatInv
<1>3. Known(w)'
  <2>1. CASE job'[w].at = "idle"
    BY <2>1, IdleKnown
  <2>2. CASE job'[w].at = "owner" /\ chats' = Append(chats, chat) /\ job'[w].row = Len(chats) + 1
    <3>1. chats'[Len(chats) + 1] = chat
      BY <1>1, <2>2, ChatAppended DEF ChatInv, Base
    <3> QED
      BY <1>1, <2>2, <3>1 DEF Known, PairKnown, GroupKnown, ReaderKnown
  <2> QED
    BY <1>1, <2>1, <2>2
<1>4. \A a \in answers' \ answers : Complete(a)'
  BY <1>1 DEF Complete
<1> QED
  BY <1>2, <1>3, <1>4 DEF Settled

LEMMA BothSettles ==
  ASSUME ChatInv, NEW w \in Workers, insert_both(w)
  PROVE  Settled(w)
<1>1. PICK c : c = job[w].row
  OBVIOUS
<1>2. /\ ChatStart(w) /\ job[w].at = "both" /\ chats' = chats /\ job'[w].at = "idle"
      /\ \/ chat_members' = chat_members
         \/ MembersOf(c)' = MembersOf(c) \cup {job[w].user, job[w].arg}
      /\ \A a \in answers' \ answers :
           /\ a.route = "open_direct"
           /\ a.code = 201 => a.row = c /\ {a.user, a.arg} \subseteq MembersOf(c)'
  BY <1>1, BothEffect DEF ChatInv, Base
<1>3. Known(w)'
  BY <1>2, IdleKnown
<1>4. PairsSound'
  <2>1. chats[c].pair = {job[w].user, job[w].arg}
    BY <1>1, <1>2 DEF ChatInv, Known, PairKnown
  <2>2. ChatsKept /\ RowsChanged(w)
    BY <1>2 DEF ChatStart
  <2>3. Making(w) => chat_members' = chat_members \/ chats[c].pair \subseteq MembersOf(c)'
    BY <1>2, <2>1
  <2> QED
    BY <1>1, <1>2, <2>2, <2>3, PairsKept DEF ChatInv
<1>5. \A a \in answers' \ answers : Complete(a)'
  BY <1>2 DEF Complete
<1> QED
  BY <1>3, <1>4, <1>5 DEF Settled

LEMMA OwnerSettles ==
  ASSUME ChatInv, NEW w \in Workers, insert_owner(w)
  PROVE  Settled(w)
<1>1. PICK c : c = job[w].row
  OBVIOUS
<1>2. /\ ChatStart(w) /\ job[w].at = "owner" /\ chats' = chats
      /\ \A a \in answers' \ answers :
           /\ a.route = "create_group"
           /\ a.code = 201 =>
                /\ a.row = c /\ a.arg = job[w].arg /\ job[w].rest = {} /\ a.user = job[w].user
                /\ Row(c, a.user, "owner") \in RowsOf(c)'
      /\ \/ job'[w].at = "idle"
         \/ /\ job'[w].at = "member" /\ job'[w].user = job[w].user /\ job'[w].arg = job[w].arg
            /\ job'[w].row = c /\ job'[w].rest = job[w].rest
            /\ Row(c, job[w].user, "owner") \in RowsOf(c)'
  BY <1>1, OwnerEffect DEF ChatInv, Base
<1>3. chats[c].pair = {} /\ job[w].rest = job[w].arg \ {job[w].user}
  BY <1>1, <1>2 DEF ChatInv, Known, PairKnown, GroupKnown
<1>5. PairsSound'
  <2>1. ChatsKept /\ RowsChanged(w)
    BY <1>2 DEF ChatStart
  <2>2. Making(w) => chat_members' = chat_members \/ chats[c].pair \subseteq MembersOf(c)'
    BY <1>3
  <2> QED
    BY <1>1, <1>2, <2>1, <2>2, PairsKept DEF ChatInv
<1>6. ASSUME NEW u, Row(c, u, "owner") \in RowsOf(c)'
      PROVE  HasOwner(c, u)' /\ u \in MembersOf(c)'
  <2>1. Row(c, u, "owner").user = u /\ Row(c, u, "owner").role = "owner"
    BY DEF Row
  <2> QED
    BY <1>6, <2>1 DEF HasOwner, MembersOf
<1>7. Known(w)'
  <2>1. CASE job'[w].at = "idle"
    BY <2>1, IdleKnown
  <2>2. CASE job'[w].at = "member"
    <3>1. PICK u : u = job[w].user
      OBVIOUS
    <3>2. HasOwner(c, u)' /\ u \in MembersOf(c)'
      BY <1>2, <1>6, <2>2, <3>1
    <3>3. job[w].arg \cap Users \subseteq MembersOf(c)' \cup job[w].rest
      BY <1>3, <3>1, <3>2
    <3>4. /\ job'[w].user = u /\ job'[w].arg = job[w].arg
          /\ job'[w].row = c /\ job'[w].rest = job[w].rest
      BY <1>2, <2>2, <3>1
    <3>5. HasOwner(job[w].row, job[w].user)' /\ MembersOf(job[w].row)' = MembersOf(c)'
      BY <3>2, <3>4 DEF HasOwner, MembersOf, RowsOf
    <3>6. GroupKnown(w)'
      BY <2>2, <3>3, <3>4, <3>5 DEF GroupKnown
    <3>7. PairKnown(w)' /\ ReaderKnown(w)'
      BY <1>2, <1>3, <2>2, <3>4 DEF PairKnown, ReaderKnown
    <3> QED
      BY <3>6, <3>7 DEF Known
  <2> QED
    BY <1>2, <2>1, <2>2
<1>8. ASSUME NEW a \in answers' \ answers PROVE Complete(a)'
  <2> SUFFICES ASSUME a.code = 201 PROVE HasOwner(a.row, a.user)' /\ a.arg \cap Users \subseteq MembersOf(a.row)'
    BY <1>2 DEF Complete
  <2>1. HasOwner(c, a.user)' /\ a.user \in MembersOf(c)' /\ a.row = c
    BY <1>2, <1>6
  <2>2. a.arg \cap Users \subseteq {a.user}
    BY <1>2, <1>3
  <2> QED
    BY <2>1, <2>2
<1> QED
  BY <1>5, <1>7, <1>8 DEF Settled

LEMMA MemberSettles ==
  ASSUME ChatInv, NEW w \in Workers, insert_member(w)
  PROVE  Settled(w)
<1>1. PICK c : c = job[w].row
  OBVIOUS
<1>2. /\ ChatStart(w) /\ job[w].at = "member" /\ chats' = chats
      /\ \E m \in job[w].rest, ok \in BOOLEAN :
           /\ ok /\ m \in Users => m \in MembersOf(c)'
           /\ \A a \in answers' \ answers :
                /\ a.route = "create_group" /\ a.row = c /\ a.user = job[w].user /\ a.arg = job[w].arg
                /\ a.faulty = (job[w].faulty \/ ~ok) /\ job[w].rest = {m}
           /\ \/ job'[w].at = "idle"
              \/ /\ job'[w].at = "member" /\ job'[w].user = job[w].user /\ job'[w].arg = job[w].arg
                 /\ job'[w].row = c /\ job'[w].rest = job[w].rest \ {m}
                 /\ job'[w].faulty = (job[w].faulty \/ ~ok)
  BY <1>1, MemberEffect DEF ChatInv, Base
<1>3. PICK m \in job[w].rest, ok \in BOOLEAN :
           /\ ok /\ m \in Users => m \in MembersOf(c)'
           /\ \A a \in answers' \ answers :
                /\ a.route = "create_group" /\ a.row = c /\ a.user = job[w].user /\ a.arg = job[w].arg
                /\ a.faulty = (job[w].faulty \/ ~ok) /\ job[w].rest = {m}
           /\ \/ job'[w].at = "idle"
              \/ /\ job'[w].at = "member" /\ job'[w].user = job[w].user /\ job'[w].arg = job[w].arg
                 /\ job'[w].row = c /\ job'[w].rest = job[w].rest \ {m}
                 /\ job'[w].faulty = (job[w].faulty \/ ~ok)
  BY <1>2
<1>4. /\ chats[c].pair = {} /\ HasOwner(c, job[w].user)
      /\ job[w].faulty \/ job[w].arg \cap Users \subseteq MembersOf(c) \cup job[w].rest
  BY <1>1, <1>2 DEF ChatInv, Known, PairKnown, GroupKnown
<1>5. ChatsKept /\ RowsChanged(w)
  BY <1>2 DEF ChatStart
<1>6. PairsSound'
  <2>1. Making(w) => chat_members' = chat_members \/ chats[c].pair \subseteq MembersOf(c)'
    BY <1>4
  <2> QED
    BY <1>1, <1>2, <1>5, <2>1, PairsKept DEF ChatInv
<1>7. MembersOf(c) \subseteq MembersOf(c)' /\ \A u : HasOwner(c, u) => HasOwner(c, u)'
  BY <1>5, KeptMembers DEF HasOwner
<1>8. PICK u : u = job[w].user
  OBVIOUS
<1>9. HasOwner(c, u)'
  BY <1>4, <1>7, <1>8
<1>10. (job[w].faulty \/ ~ok) \/ job[w].arg \cap Users \subseteq MembersOf(c)' \cup (job[w].rest \ {m})
  BY <1>3, <1>4, <1>7
<1>11. Known(w)'
  <2>1. CASE job'[w].at = "idle"
    BY <2>1, IdleKnown
  <2>2. CASE job'[w].at = "member"
    <3>1. /\ job'[w].user = u /\ job'[w].arg = job[w].arg
          /\ job'[w].row = c /\ job'[w].rest = job[w].rest \ {m}
          /\ job'[w].faulty = (job[w].faulty \/ ~ok)
      BY <1>3, <1>8, <2>2
    <3>2. HasOwner(job[w].row, job[w].user)' /\ MembersOf(job[w].row)' = MembersOf(c)'
      BY <1>9, <3>1 DEF HasOwner, MembersOf, RowsOf
    <3>3. GroupKnown(w)'
      BY <1>10, <2>2, <3>1, <3>2 DEF GroupKnown
    <3>4. PairKnown(w)' /\ ReaderKnown(w)'
      BY <1>2, <1>4, <2>2, <3>1 DEF PairKnown, ReaderKnown
    <3> QED
      BY <3>3, <3>4 DEF Known
  <2> QED
    BY <1>3, <2>1, <2>2
<1>12. ASSUME NEW a \in answers' \ answers PROVE Complete(a)'
  <2>1. a.route = "create_group" /\ a.row = c /\ a.user = u /\ a.arg = job[w].arg
        /\ a.faulty = (job[w].faulty \/ ~ok) /\ job[w].rest \ {m} = {}
    BY <1>3, <1>8, <1>12
  <2>2. a.faulty \/ a.arg \cap Users \subseteq MembersOf(c)'
    BY <1>10, <2>1
  <2> QED
    BY <1>9, <2>1, <2>2 DEF Complete
<1> QED
  BY <1>6, <1>11, <1>12 DEF Settled

(* The statements that change one row or only read.                        *)
LEMMA OneRowSettles ==
  ASSUME ChatInv, NEW w \in Workers, upsert_member(w) \/ leave_chat(w)
  PROVE  Settled(w)
<1>1. /\ ChatStart(w) /\ chats' = chats /\ job'[w].at = "idle" /\ ~Making(w)
      /\ \A a \in answers' \ answers : a.route \in {"add_member", "remove_member"}
  BY UpsertEffect, LeaveEffect DEF ChatInv, Base, Making
<1>2. PairsSound'
  BY <1>1, PairsKept DEF ChatInv, ChatStart
<1>3. Known(w)'
  BY <1>1, IdleKnown
<1>4. \A a \in answers' \ answers : Complete(a)'
  BY <1>1 DEF Complete
<1> QED
  BY <1>2, <1>3, <1>4 DEF Settled

LEMMA ReadsSettle ==
  ASSUME ChatInv, NEW w \in Workers, verify_membership(w) \/ read_content(w)
  PROVE  Settled(w)
<1>1. /\ UNCHANGED chatVars
      /\ \A a \in answers' \ answers : a.route \in {"get_chat_info", "get_messages"}
      /\ \/ job'[w].at = "idle"
         \/ /\ job'[w].at = "content" /\ job'[w].user = job[w].user /\ job'[w].row = job[w].row
            /\ Active(job[w].row, job[w].user)
  BY VerifyEffect, ContentEffect DEF ChatInv, Base
<1>2. PairsSound'
  BY <1>1 DEF ChatInv, PairsSound, chatVars, RowsOf, MembersOf
<1>3. Known(w)'
  <2>1. CASE job'[w].at = "idle"
    BY <2>1, IdleKnown
  <2>2. CASE job'[w].at = "content"
    BY <1>1, <2>2 DEF Known, PairKnown, GroupKnown, ReaderKnown, Active, RowsOf, chatVars
  <2> QED
    BY <1>1, <2>1, <2>2
<1>4. \A a \in answers' \ answers : Complete(a)'
  BY <1>1 DEF Complete
<1> QED
  BY <1>2, <1>3, <1>4 DEF Settled

LEMMA ChatsSettle ==
  ASSUME ChatInv, NEW w \in Workers, ChatsStep(w)
  PROVE  Settled(w)
BY RequestsSettle, ExistingSettles, DirectSettles, GroupSettles, BothSettles, OwnerSettles,
   MemberSettles, OneRowSettles, ReadsSettle DEF ChatsStep

----------------------------------------------------------------------------
(* The invariant *)

LEMMA ChatInvByOthers ==
  ASSUME ChatInv, NEW w \in Workers, Base', Frame(w), UNCHANGED <<chats, chat_members>>,
         NEW L, NEW R, Within(w, L, R), L \cap ChatLabels = {}, R \cap ChatRoutes = {}
  PROVE  ChatInv'
<1>1. ChatsKept /\ RowsChanged(w)
  BY DEF ChatsKept, RowsChanged
<1>2. Known(w)'
  <2>1. job'[w].at \notin {"both", "owner", "member", "content"}
    BY DEF Within, ChatLabels
  <2> QED
    BY <2>1, IdleKnown
<1>3. \A v \in Workers : Known(v)'
  BY <1>1, <1>2, OthersKnown DEF ChatInv
<1>4. PairsSound'
  BY DEF ChatInv, PairsSound, RowsOf, MembersOf
<1>5. \A a \in answers' \ answers : Complete(a)'
  BY DEF Within, ChatRoutes, Complete
<1>6. \A a \in answers : Complete(a)'
  BY <1>1, CompleteKept DEF ChatInv, AnswersComplete
<1> QED
  BY <1>3, <1>4, <1>5, <1>6 DEF ChatInv, AnswersComplete

LEMMA ChatInvNext ==
  ASSUME ChatInv, [Next]_vars
  PROVE  ChatInv'
<1>b. Base /\ Base'
  BY BaseNext DEF ChatInv
<1>1. ASSUME NEW w \in Workers, AccountsStep(w), UNCHANGED <<chatVars, channelVars>> PROVE ChatInv'
  <2>1. Frame(w) /\ Within(w, AccountLabels, AccountRoutes) /\ UNCHANGED <<chats, chat_members>>
    BY <1>b, <1>1, AccountsBase
  <2>2. AccountLabels \cap ChatLabels = {} /\ AccountRoutes \cap ChatRoutes = {}
    BY DEF AccountLabels, ChatLabels, AccountRoutes, ChatRoutes
  <2> QED
    BY <1>b, <2>1, <2>2, ChatInvByOthers
<1>2. ASSUME NEW w \in Workers, ChannelsStep(w), UNCHANGED <<users, chatVars>> PROVE ChatInv'
  <2>1. Frame(w) /\ Within(w, ChannelLabels, ChannelRoutes) /\ UNCHANGED <<chats, chat_members>>
    BY <1>b, <1>2, ChannelsBase DEF ChannelStart
  <2>2. ChannelLabels \cap ChatLabels = {} /\ ChannelRoutes \cap ChatRoutes = {}
    BY DEF ChannelLabels, ChatLabels, ChannelRoutes, ChatRoutes
  <2> QED
    BY <1>b, <2>1, <2>2, ChatInvByOthers
<1>3. ASSUME NEW w \in Workers, ChatsStep(w), UNCHANGED <<users, channelVars>> PROVE ChatInv'
  <2>1. Frame(w) /\ ChatsKept /\ RowsChanged(w)
    BY <1>b, <1>3, ChatsBase DEF ChatStart
  <2>2. Settled(w)
    BY <1>3, ChatsSettle
  <2>3. \A v \in Workers : Known(v)'
    BY <1>b, <2>1, <2>2, OthersKnown DEF ChatInv, Settled
  <2>4. \A a \in answers : Complete(a)'
    BY <2>1, CompleteKept DEF ChatInv, AnswersComplete
  <2> QED
    BY <1>b, <2>2, <2>3, <2>4 DEF ChatInv, AnswersComplete, Settled
<1>4. ASSUME Restart, UNCHANGED tables PROVE ChatInv'
  <2>1. /\ (\A w \in Workers : job'[w].at = "idle") /\ UNCHANGED <<answers, chats, chat_members>>
    BY <1>b, <1>4, RestartEffect
  <2>2. \A w \in Workers : Known(w)'
    BY <2>1, IdleKnown
  <2>3. ChatsKept
    BY <2>1 DEF ChatsKept
  <2>4. PairsSound'
    BY <2>1 DEF ChatInv, PairsSound, RowsOf, MembersOf
  <2>5. AnswersComplete'
    BY <2>1, <2>3, CompleteKept DEF ChatInv, AnswersComplete
  <2> QED
    BY <1>b, <2>2, <2>4, <2>5 DEF ChatInv
<1>5. ASSUME UNCHANGED vars PROVE ChatInv'
  <2>1. UNCHANGED <<job, answers, chats, chat_members>>
    BY <1>5 DEF vars, pgVars, tables, chatVars
  <2>2. \A w \in Workers : Known(w)'
    BY <2>1 DEF ChatInv, Known, PairKnown, GroupKnown, ReaderKnown, HasOwner, Active, MembersOf, RowsOf
  <2>3. ChatsKept
    BY <2>1 DEF ChatsKept
  <2>4. PairsSound'
    BY <2>1 DEF ChatInv, PairsSound, RowsOf, MembersOf
  <2>5. AnswersComplete'
    BY <2>1, <2>3, CompleteKept DEF ChatInv, AnswersComplete
  <2> QED
    BY <1>b, <2>2, <2>4, <2>5 DEF ChatInv
<1> QED
  BY <1>1, <1>2, <1>3, <1>4, <1>5 DEF Next

LEMMA ChatInvInit == Init => ChatInv
<1> SUFFICES ASSUME Init PROVE ChatInv
  OBVIOUS
<1>1. Base /\ \A w \in Workers : job[w].at = "idle"
  BY BaseInit
<1>2. chats = <<>> /\ answers = {}
  BY DEF Init, ChatsInit, PgInit
<1>3. \A w \in Workers : Known(w)
  BY <1>1 DEF Known, PairKnown, GroupKnown, ReaderKnown
<1> QED
  BY <1>1, <1>2, <1>3 DEF ChatInv, PairsSound, AnswersComplete

LEMMA ChatInvariant == Spec => []ChatInv
<1>1. ChatInv /\ [Next]_vars => ChatInv'
  BY ChatInvNext
<1> QED
  BY <1>1, ChatInvInit, PTL DEF Spec

(* Whatever route_open_direct() or route_create_group() answered 201 is    *)
(* complete and stays so: both sides of the chat; the owner of the group,  *)
(* as owner, and every listed user unless a fault hit the request.  Other  *)
(* requests, lost connections and restarts never take it back.             *)
THEOREM ChatsStayComplete == Spec => []ChatsComplete
<1>1. ChatInv => ChatsComplete
  BY DEF ChatInv, AnswersComplete, Complete, HasOwner, ChatsComplete
<1> QED
  BY <1>1, ChatInvariant, PTL

----------------------------------------------------------------------------
(* How many direct chats two users can have *)

(* A chat of two is one that was made for them and has members.            *)
LEMMA ChatsWithRows ==
  ASSUME PairsSound, NEW p \in Pairs
  PROVE  ChatsOf(p) = {c \in DOMAIN chats : chats[c].pair = p /\ RowsOf(c) # {}}
<1>1. p # {}
  BY DEF Pairs
<1>2. \A c \in DOMAIN chats : p \subseteq MembersOf(c) => RowsOf(c) # {}
  BY <1>1 DEF MembersOf
<1>3. \A c \in DOMAIN chats : chats[c].pair = p /\ RowsOf(c) # {} => p \subseteq MembersOf(c)
  BY DEF PairsSound
<1> QED
  BY <1>2, <1>3 DEF ChatsOf

(* One more chat, one worker fewer that may make one.                      *)
LEMMA PlaceTaken ==
  ASSUME NEW W, IsFiniteSet(W), NEW M, M \subseteq W, NEW w \in M, NEW N, N \subseteq M \ {w},
         NEW C, IsFiniteSet(C), NEW c, C # {} => Cardinality(C) + Cardinality(M) <= Cardinality(W)
  PROVE  Cardinality(C \cup {c}) + Cardinality(N) <= Cardinality(W)
<1>1. IsFiniteSet(M) /\ Cardinality(M) <= Cardinality(W)
  BY FS_Subset
<1>2. IsFiniteSet(M \ {w}) /\ Cardinality(M \ {w}) = Cardinality(M) - 1
  BY <1>1, FS_RemoveElement
<1>3. IsFiniteSet(N) /\ Cardinality(N) <= Cardinality(M \ {w})
  BY <1>2, FS_Subset
<1>4. /\ Cardinality(W) \in Nat /\ Cardinality(M) \in Nat /\ Cardinality(M \ {w}) \in Nat
      /\ Cardinality(N) \in Nat /\ Cardinality(C) \in Nat
  BY <1>1, <1>2, <1>3, FS_CardinalityType
<1>5. Cardinality(C \cup {c}) <= Cardinality(C) + 1 /\ Cardinality(C \cup {c}) \in Nat
  <2>1. Cardinality(C \cup {c}) = IF c \in C THEN Cardinality(C) ELSE Cardinality(C) + 1
    BY FS_AddElement
  <2> QED
    BY <1>4, <2>1
<1>6. CASE C = {}
  <2>1. Cardinality(C) = 0
    BY <1>6, FS_EmptySet
  <2> QED
    BY <1>1, <1>2, <1>3, <1>4, <1>5, <2>1
<1>7. CASE C # {}
  BY <1>2, <1>3, <1>4, <1>5, <1>7
<1> QED
  BY <1>6, <1>7

LEMMA ChatsFinite ==
  ASSUME ChatsTypeOK, NEW p
  PROVE  IsFiniteSet(ChatsOf(p))
<1>1. DOMAIN chats = 1..Len(chats) /\ Len(chats) \in Nat
  BY DEF ChatsTypeOK
<1>2. IsFiniteSet(DOMAIN chats)
  BY <1>1, FS_Interval
<1> QED
  BY <1>2, FS_Subset DEF ChatsOf

LEMMA TightByKept ==
  ASSUME ChatsTypeOK, NEW p \in Pairs, Tight(p), ChatsOf(p)' = ChatsOf(p),
         ChatsOf(p) # {} => Makers(p)' \subseteq Makers(p)
  PROVE  Tight(p)'
<1> SUFFICES ASSUME ChatsOf(p) # {}
             PROVE  Cardinality(ChatsOf(p)) + Cardinality(Makers(p)') <= Cardinality(Workers)
  BY DEF Tight
<1>1. IsFiniteSet(Makers(p))
  BY WorkersAssumption, FS_Subset DEF Makers
<1>2. IsFiniteSet(Makers(p)') /\ Cardinality(Makers(p)') <= Cardinality(Makers(p))
  BY <1>1, FS_Subset
<1>3. /\ Cardinality(ChatsOf(p)) \in Nat /\ Cardinality(Makers(p)) \in Nat
      /\ Cardinality(Makers(p)') \in Nat /\ Cardinality(Workers) \in Nat
  BY <1>1, <1>2, ChatsFinite, WorkersAssumption, FS_CardinalityType
<1>4. Cardinality(ChatsOf(p)) + Cardinality(Makers(p)) <= Cardinality(Workers)
  BY DEF Tight
<1> QED
  BY <1>2, <1>3, <1>4

(* A step that leaves the rows of all chats alone gives nobody a chat.     *)
LEMMA ChatsOfSame ==
  ASSUME ChatInv, PairsSound', chat_members' = chat_members, ChatsKept, NEW p \in Pairs,
         \A c \in DOMAIN chats' \ DOMAIN chats : RowsOf(c) = {}
  PROVE  ChatsOf(p)' = ChatsOf(p)
<1>1. ChatsOf(p) = {c \in DOMAIN chats : chats[c].pair = p /\ RowsOf(c) # {}}
  BY ChatsWithRows DEF ChatInv
<1>2. p # {}
  BY DEF Pairs
<1>3. \A c : MembersOf(c)' = MembersOf(c)
  BY DEF MembersOf, RowsOf
<1>4. \A c \in DOMAIN chats' : p \subseteq MembersOf(c) => RowsOf(c) # {}
  BY <1>2 DEF MembersOf
<1>5. DOMAIN chats \subseteq DOMAIN chats' /\ \A c \in DOMAIN chats : chats'[c] = chats[c]
  BY DEF ChatsKept
<1>6. ChatsOf(p)' = {c \in DOMAIN chats' : chats'[c].pair = p /\ p \subseteq MembersOf(c)}
  BY <1>3 DEF ChatsOf
<1>7. \A c : c \in ChatsOf(p)' <=> c \in ChatsOf(p)
  BY <1>4, <1>5, <1>6 DEF ChatsOf
<1> QED
  BY <1>7

(* A chat gets its first rows from the worker that makes it, and for two   *)
(* users that is insert_both().                                            *)
LEMMA ChatsOfGrow ==
  ASSUME ChatInv, PairsSound', NEW w \in Workers, ChatsKept, RowsChanged(w), chats' = chats,
         NEW p \in Pairs, NEW k, k = job[w].row
  PROVE  \/ ChatsOf(p)' = ChatsOf(p)
         \/ /\ job[w].at = "both" /\ {job[w].user, job[w].arg} = p
            /\ ChatsOf(p)' = ChatsOf(p) \cup {k}
<1>1. /\ ChatsOf(p) = {c \in DOMAIN chats : chats[c].pair = p /\ RowsOf(c) # {}}
      /\ ChatsOf(p) \subseteq DOMAIN chats
  BY ChatsWithRows DEF ChatInv, ChatsOf
<1>2. p # {}
  BY DEF Pairs
<1>3. ChatsOf(p)' = {c \in DOMAIN chats : chats[c].pair = p /\ p \subseteq MembersOf(c)'}
  BY DEF ChatsOf
<1>4. \A c : MembersOf(c) \subseteq MembersOf(c)'
  BY KeptMembers
<1>5. ChatsOf(p) \subseteq ChatsOf(p)'
  BY <1>3, <1>4 DEF ChatsOf
<1> SUFFICES ASSUME NEW c \in ChatsOf(p)', c \notin ChatsOf(p)
             PROVE  /\ job[w].at = "both" /\ {job[w].user, job[w].arg} = p
                    /\ ChatsOf(p)' = ChatsOf(p) \cup {k}
  BY <1>5
<1>6. ASSUME NEW d \in ChatsOf(p)', d \notin ChatsOf(p)
      PROVE  d = k /\ Making(w) /\ chats[d].pair = p
  <2>1. d \in DOMAIN chats /\ chats[d].pair = p /\ p \subseteq MembersOf(d)'
    BY <1>3, <1>6
  <2>2. RowsOf(d) = {}
    BY <1>1, <1>6, <2>1
  <2>3. RowsOf(d)' # {}
    BY <1>2, <2>1 DEF MembersOf
  <2>4. chat_members' # chat_members
    BY <2>2, <2>3 DEF RowsOf
  <2>5. job[w].at \in {"both", "owner", "member", "add", "remove"} /\ Touches(k)
    BY <2>4 DEF RowsChanged
  <2>6. d = k
    BY <2>2, <2>3, <2>5 DEF Touches
  <2>7. Making(w)
    BY <2>2, <2>5, <2>6 DEF ChatInv, Base, ChatsFresh, Making
  <2> QED
    BY <2>1, <2>6, <2>7
<1>7. c = k /\ Making(w) /\ chats[k].pair = p
  BY <1>6
<1>8. ChatsOf(p)' = ChatsOf(p) \cup {k}
  BY <1>5, <1>6, <1>7
<1>9. job[w].at = "both" /\ {job[w].user, job[w].arg} = p
  BY <1>2, <1>7 DEF ChatInv, Known, PairKnown, Making
<1> QED
  BY <1>8, <1>9

(* Who begins to make a direct chat found none.                            *)
LEMMA MakersStep ==
  ASSUME ChatInv, NEW w \in Workers, Frame(w), NEW p \in Pairs,
         \/ job'[w].at \notin {"direct", "both"}
         \/ /\ job'[w].at = "both" /\ job[w].at = "direct"
            /\ job'[w].user = job[w].user /\ job'[w].arg = job[w].arg
         \/ /\ job'[w].at = "direct" /\ job'[w].user = job[w].user /\ job'[w].arg = job[w].arg
            /\ Existing(job[w].user, job[w].arg) = {}
  PROVE  ChatsOf(p) # {} => Makers(p)' \subseteq Makers(p)
<1>1. Makers(p)' = {v \in Workers : job'[v].at \in {"direct", "both"} /\ {job'[v].user, job'[v].arg} = p}
  BY DEF Makers
<1>2. \A v \in Workers : v # w =>
        job'[v].at = job[v].at /\ job'[v].user = job[v].user /\ job'[v].arg = job[v].arg
  BY DEF Frame, Others
<1> SUFFICES ASSUME NEW c \in ChatsOf(p), w \in Makers(p)' PROVE w \in Makers(p)
  BY <1>1, <1>2 DEF Makers
<1>3. CASE job'[w].at = "both" /\ job[w].at = "direct"
           /\ job'[w].user = job[w].user /\ job'[w].arg = job[w].arg
  BY <1>1, <1>3 DEF Makers
<1>4. CASE job'[w].user = job[w].user /\ job'[w].arg = job[w].arg /\ Existing(job[w].user, job[w].arg) = {}
  <2>1. {job[w].user, job[w].arg} = p
    BY <1>1, <1>4
  <2>2. c \in DOMAIN chats /\ chats[c].pair = p /\ p \subseteq MembersOf(c) /\ p # {}
    BY DEF ChatsOf, Pairs
  <2>3. chats[c].kind = "private"
    BY <2>2 DEF ChatInv, PairsSound
  <2>4. c \in Existing(job[w].user, job[w].arg)
    BY <2>1, <2>2, <2>3 DEF Existing
  <2> QED
    BY <1>4, <2>4
<1> QED
  BY <1>1, <1>3, <1>4

LEMMA BoundedKept ==
  ASSUME ChatInv, ChatInv', Bounded, NEW w \in Workers, Frame(w), ChatsKept, RowsChanged(w),
         \/ chats' = chats
         \/ chat_members' = chat_members /\ \A c \in DOMAIN chats' \ DOMAIN chats : RowsOf(c) = {},
         \/ job'[w].at \notin {"direct", "both"}
         \/ /\ job'[w].at = "both" /\ job[w].at = "direct"
            /\ job'[w].user = job[w].user /\ job'[w].arg = job[w].arg
         \/ /\ job'[w].at = "direct" /\ job'[w].user = job[w].user /\ job'[w].arg = job[w].arg
            /\ Existing(job[w].user, job[w].arg) = {},
         job[w].at = "both" => job'[w].at = "idle"
  PROVE  Bounded'
<1> SUFFICES ASSUME NEW p \in Pairs PROVE Tight(p)'
  BY DEF Bounded
<1>t. ChatsTypeOK /\ Tight(p) /\ PairsSound'
  BY DEF ChatInv, Base, Bounded
<1>1. ChatsOf(p) # {} => Makers(p)' \subseteq Makers(p)
  BY MakersStep
<1>2. CASE ChatsOf(p)' = ChatsOf(p)
  BY <1>t, <1>1, <1>2, TightByKept
<1>3. ASSUME NEW k, job[w].at = "both", {job[w].user, job[w].arg} = p, ChatsOf(p)' = ChatsOf(p) \cup {k}
      PROVE  Tight(p)'
  <2>1. w \in Makers(p) /\ Makers(p) \subseteq Workers
    BY <1>3 DEF Makers
  <2>2. Makers(p)' \subseteq Makers(p) \ {w}
    <3>1. Makers(p)' = {v \in Workers : job'[v].at \in {"direct", "both"} /\ {job'[v].user, job'[v].arg} = p}
      BY DEF Makers
    <3>2. \A v \in Workers : v # w =>
            job'[v].at = job[v].at /\ job'[v].user = job[v].user /\ job'[v].arg = job[v].arg
      BY DEF Frame, Others
    <3>3. job'[w].at = "idle"
      BY <1>3
    <3> QED
      BY <3>1, <3>2, <3>3 DEF Makers
  <2>3. Cardinality(ChatsOf(p) \cup {k}) + Cardinality(Makers(p)') <= Cardinality(Workers)
    <3>1. IsFiniteSet(ChatsOf(p))
      BY <1>t, ChatsFinite
    <3> QED
      BY <1>t, <2>1, <2>2, <3>1, PlaceTaken, WorkersAssumption DEF Tight
  <2> QED
    BY <1>3, <2>3 DEF Tight
<1>4. CASE chats' = chats
  <2>1. PICK k : k = job[w].row
    OBVIOUS
  <2> QED
    BY <1>t, <1>2, <1>3, <1>4, <2>1, ChatsOfGrow
<1>5. CASE chat_members' = chat_members /\ \A c \in DOMAIN chats' \ DOMAIN chats : RowsOf(c) = {}
  BY <1>t, <1>2, <1>5, ChatsOfSame
<1> QED
  BY <1>4, <1>5

(* The chat that an InsertChat() appended has no rows.                     *)
LEMMA AppendedEmpty ==
  ASSUME ChatsTypeOK, NEW chat \in ChatRow, chat_members' = chat_members,
         chats' = chats \/ chats' = Append(chats, chat)
  PROVE  \A c \in DOMAIN chats' \ DOMAIN chats : RowsOf(c) = {}
<1>1. CASE chats' = chats
  BY <1>1
<1>2. CASE chats' = Append(chats, chat)
  <2>1. DOMAIN chats' = DOMAIN chats \cup {Len(chats) + 1} /\ \A r \in chat_members' : r.chat # Len(chats) + 1
    BY <1>2, ChatAppended
  <2> QED
    BY <2>1 DEF RowsOf
<1> QED
  BY <1>1, <1>2

LEMMA BoundedByChats ==
  ASSUME ChatInv, ChatInv', Bounded, NEW w \in Workers, ChatsStep(w), UNCHANGED <<users, channelVars>>
  PROVE  Bounded'
<1>s. Frame(w) /\ ChatsKept /\ RowsChanged(w)
  BY ChatsBase DEF ChatInv, ChatStart
<1>b. Shaped /\ CountersOK /\ JobsSound /\ ChatsTypeOK /\ ChatsFresh
  BY DEF ChatInv, Base
<1>1. CASE \/ open_direct(w) \/ create_group(w) \/ add_member(w) \/ remove_member(w)
           \/ get_chat_info(w) \/ get_messages(w)
  <2>1. /\ chats' = chats
        /\ job'[w].at \in {"existing", "group", "add", "remove", "membership"}
    BY <1>1, RequestsSettle DEF chatVars
  <2>2. job[w].at = "idle"
    BY <1>1 DEF open_direct, create_group, add_member, remove_member, get_chat_info, get_messages, Request, At
  <2> QED
    BY <1>s, <2>1, <2>2, BoundedKept
<1>2. CASE existing_chat(w)
  <2>1. /\ UNCHANGED chatVars /\ job[w].at = "existing"
        /\ \/ job'[w].at = "idle"
           \/ /\ job'[w].at = "direct" /\ job'[w].user = job[w].user /\ job'[w].arg = job[w].arg
              /\ Existing(job[w].user, job[w].arg) = {}
    BY <1>b, <1>2, ExistingEffect
  <2> QED
    BY <1>s, <2>1, BoundedKept DEF chatVars
<1>3. CASE insert_direct(w)
  <2>1. PICK chat : chat = [kind |-> "private", by |-> job[w].user, pair |-> {job[w].user, job[w].arg}]
    OBVIOUS
  <2>2. /\ chat_members' = chat_members /\ job[w].at = "direct" /\ chat \in ChatRow
        /\ chats' = chats \/ chats' = Append(chats, chat)
        /\ \/ job'[w].at = "idle"
           \/ job'[w].at = "both" /\ job'[w].user = job[w].user /\ job'[w].arg = job[w].arg
    BY <1>b, <1>3, <2>1, DirectEffect
  <2>3. \A c \in DOMAIN chats' \ DOMAIN chats : RowsOf(c) = {}
    BY <1>b, <2>2, AppendedEmpty
  <2> QED
    BY <1>s, <2>2, <2>3, BoundedKept
<1>4. CASE insert_group(w)
  <2>1. PICK chat : chat = [kind |-> "group", by |-> job[w].user, pair |-> {}]
    OBVIOUS
  <2>2. /\ chat_members' = chat_members /\ job[w].at = "group" /\ chat \in ChatRow
        /\ chats' = chats \/ chats' = Append(chats, chat)
        /\ job'[w].at \in {"idle", "owner"}
    BY <1>b, <1>4, <2>1, GroupEffect
  <2>3. \A c \in DOMAIN chats' \ DOMAIN chats : RowsOf(c) = {}
    BY <1>b, <2>2, AppendedEmpty
  <2> QED
    BY <1>s, <2>2, <2>3, BoundedKept
<1>5. CASE insert_both(w)
  <2>1. PICK c : c = job[w].row
    OBVIOUS
  <2>2. chats' = chats /\ job'[w].at = "idle"
    BY <1>b, <1>5, <2>1, BothEffect
  <2> QED
    BY <1>s, <2>2, BoundedKept
<1>6. CASE insert_owner(w) \/ insert_member(w)
  <2>1. PICK c : c = job[w].row
    OBVIOUS
  <2>2. chats' = chats /\ job'[w].at \in {"idle", "member"} /\ job[w].at \in {"owner", "member"}
    BY <1>b, <1>6, <2>1, OwnerEffect, MemberEffect
  <2> QED
    BY <1>s, <2>2, BoundedKept
<1>7. CASE upsert_member(w) \/ leave_chat(w)
  <2>1. chats' = chats /\ job'[w].at = "idle"
    BY <1>b, <1>7, UpsertEffect, LeaveEffect
  <2> QED
    BY <1>s, <2>1, BoundedKept
<1>8. CASE verify_membership(w) \/ read_content(w)
  <2>1. UNCHANGED chatVars /\ job'[w].at \in {"idle", "content"} /\ job[w].at \in {"membership", "content"}
    BY <1>b, <1>8, VerifyEffect, ContentEffect
  <2> QED
    BY <1>s, <2>1, BoundedKept DEF chatVars
<1> QED
  BY <1>1, <1>2, <1>3, <1>4, <1>5, <1>6, <1>7, <1>8 DEF ChatsStep

LEMMA BoundedByOthers ==
  ASSUME ChatInv, ChatInv', Bounded, NEW w \in Workers, Frame(w), UNCHANGED <<chats, chat_members>>,
         NEW L, NEW R, Within(w, L, R), L \cap ChatLabels = {}
  PROVE  Bounded'
<1>1. ChatsKept /\ RowsChanged(w)
  BY DEF ChatsKept, RowsChanged
<1>2. job'[w].at \notin {"direct", "both"} /\ job[w].at # "both"
  BY DEF Within, ChatLabels
<1> QED
  BY <1>1, <1>2, BoundedKept

LEMMA BoundedNext ==
  ASSUME ChatInv, ChatInv', Bounded, [Next]_vars
  PROVE  Bounded'
<1>b. Base
  BY DEF ChatInv
<1>1. ASSUME NEW w \in Workers, AccountsStep(w), UNCHANGED <<chatVars, channelVars>> PROVE Bounded'
  <2>1. Frame(w) /\ Within(w, AccountLabels, AccountRoutes) /\ UNCHANGED <<chats, chat_members>>
    BY <1>b, <1>1, AccountsBase
  <2>2. AccountLabels \cap ChatLabels = {}
    BY DEF AccountLabels, ChatLabels
  <2> QED
    BY <2>1, <2>2, BoundedByOthers
<1>2. ASSUME NEW w \in Workers, ChannelsStep(w), UNCHANGED <<users, chatVars>> PROVE Bounded'
  <2>1. Frame(w) /\ Within(w, ChannelLabels, ChannelRoutes) /\ UNCHANGED <<chats, chat_members>>
    BY <1>b, <1>2, ChannelsBase DEF ChannelStart
  <2>2. ChannelLabels \cap ChatLabels = {}
    BY DEF ChannelLabels, ChatLabels
  <2> QED
    BY <2>1, <2>2, BoundedByOthers
<1>3. ASSUME NEW w \in Workers, ChatsStep(w), UNCHANGED <<users, channelVars>> PROVE Bounded'
  BY <1>3, BoundedByChats
<1>4. ASSUME UNCHANGED <<chats, chat_members>>, \A w \in Workers : job'[w].at = "idle" \/ job'[w] = job[w]
      PROVE  Bounded'
  <2> SUFFICES ASSUME NEW p \in Pairs PROVE Tight(p)'
    BY DEF Bounded
  <2>1. ChatsOf(p)' = ChatsOf(p)
    BY <1>4 DEF ChatsOf, MembersOf, RowsOf
  <2>2. Makers(p)' \subseteq Makers(p)
    BY <1>4 DEF Makers
  <2> QED
    BY <1>b, <2>1, <2>2, TightByKept DEF Base, Bounded
<1>5. ASSUME Restart, UNCHANGED tables PROVE Bounded'
  BY <1>b, <1>4, <1>5, RestartEffect
<1>6. ASSUME UNCHANGED vars PROVE Bounded'
  BY <1>4, <1>6 DEF vars, pgVars, tables, chatVars
<1> QED
  BY <1>1, <1>2, <1>3, <1>5, <1>6 DEF Next

(* Two users never have more direct chats than the server has workers.     *)
(* Between a look-up that finds none and the two rows a chat is made, and  *)
(* only who looked while there was none is on the way; so the chats there  *)
(* are and the workers on the way are together at most the workers.        *)
THEOREM FewDirectChats == Spec => []DirectChatsBounded
<1>1. Init => Bounded
  <2> SUFFICES ASSUME Init, NEW p \in Pairs PROVE ChatsOf(p) = {}
    BY DEF Bounded, Tight
  <2> QED
    BY DEF Init, ChatsInit, ChatsOf
<1>2. ChatInv /\ ChatInv' /\ Bounded /\ [Next]_vars => Bounded'
  BY BoundedNext
<1>3. ChatInv /\ Bounded => DirectChatsBounded
  <2> SUFFICES ASSUME ChatInv, Bounded, NEW p \in Pairs PROVE Cardinality(ChatsOf(p)) <= Cardinality(Workers)
    BY DEF DirectChatsBounded, ChatsOf
  <2>1. IsFiniteSet(Makers(p))
    BY WorkersAssumption, FS_Subset DEF Makers
  <2>2. /\ Cardinality(Makers(p)) \in Nat /\ Cardinality(Workers) \in Nat
        /\ Cardinality(ChatsOf(p)) \in Nat
    BY <2>1, ChatsFinite, WorkersAssumption, FS_CardinalityType DEF ChatInv, Base
  <2>3. CASE ChatsOf(p) = {}
    BY <2>2, <2>3, FS_EmptySet
  <2>4. CASE ChatsOf(p) # {}
    <3>1. Cardinality(ChatsOf(p)) + Cardinality(Makers(p)) <= Cardinality(Workers)
      BY <2>4 DEF Bounded, Tight
    <3> QED
      BY <2>2, <3>1
  <2> QED
    BY <2>3, <2>4
<1> QED
  BY <1>1, <1>2, <1>3, ChatInvariant, PTL DEF Spec

----------------------------------------------------------------------------
(* Who may read *)

LEMMA AnswersFit ==
  ASSUME ChatInv, [Next]_vars, NEW a \in answers' \ answers,
         a.route \in {"get_chat_info", "get_messages"}, a.code \in {200, 403}
  PROVE  a.disturbed \/ (a.code = 200) = Active(a.row, a.user)
<1>b. Shaped /\ CountersOK /\ JobsSound /\ ChatsTypeOK /\ ChatsFresh
  BY DEF ChatInv, Base
<1>o. a.route \notin AccountRoutes /\ a.route \notin ChannelRoutes
  BY DEF AccountRoutes, ChannelRoutes
<1>1. ASSUME NEW w \in Workers, AccountsStep(w), UNCHANGED <<chatVars, channelVars>> PROVE FALSE
  BY <1>1, <1>o, AccountsBase DEF ChatInv, Within
<1>2. ASSUME NEW w \in Workers, ChannelsStep(w), UNCHANGED <<users, chatVars>> PROVE FALSE
  BY <1>2, <1>o, ChannelsBase DEF ChatInv, ChannelStart, Within
<1>3. ASSUME Restart, UNCHANGED tables PROVE FALSE
  BY <1>3 DEF Restart
<1>4. ASSUME UNCHANGED vars PROVE FALSE
  BY <1>4 DEF vars, pgVars
<1>5. ASSUME NEW w \in Workers, ChatsStep(w)
      PROVE  a.disturbed \/ (a.code = 200) = Active(a.row, a.user)
  <2>1. CASE \/ open_direct(w) \/ create_group(w) \/ add_member(w) \/ remove_member(w)
             \/ get_chat_info(w) \/ get_messages(w)
    BY <2>1, RequestsSettle
  <2>2. CASE existing_chat(w)
    BY <1>b, <2>2, ExistingEffect
  <2>3. CASE insert_direct(w) \/ insert_group(w)
    <3>1. a.route \in {"open_direct", "create_group"}
      BY <1>b, <2>3, DirectEffect, GroupEffect, ZenonT(60)
    <3> QED
      BY <3>1
  <2>4. CASE insert_both(w) \/ insert_owner(w) \/ insert_member(w)
    <3>1. PICK c : c = job[w].row
      OBVIOUS
    <3>2. a.route \in {"open_direct", "create_group"}
      BY <1>b, <2>4, <3>1, BothEffect, OwnerEffect, MemberEffect
    <3> QED
      BY <3>2
  <2>5. CASE upsert_member(w) \/ leave_chat(w)
    BY <1>b, <2>5, UpsertEffect, LeaveEffect
  <2>6. CASE verify_membership(w)
    <3>1. a.code = 403 /\ ~Active(a.row, a.user)
      BY <1>b, <2>6, VerifyEffect
    <3>2. a.code # 200 /\ Active(a.row, a.user) \in BOOLEAN
      BY <3>1 DEF Active
    <3>3. (a.code = 200) = Active(a.row, a.user)
      BY <3>1, <3>2
    <3> QED
      BY <3>3
  <2>7. CASE read_content(w)
    <3>1. /\ a.code = 200 /\ a.row = job[w].row /\ a.user = job[w].user /\ a.disturbed = job[w].disturbed
          /\ job[w].at = "content"
      BY <1>b, <2>7, ContentEffect
    <3>2. job[w].disturbed \/ Active(job[w].row, job[w].user)
      BY <3>1 DEF ChatInv, Known, ReaderKnown
    <3> QED
      BY <3>1, <3>2 DEF Active
  <2> QED
    BY <1>5, <2>1, <2>2, <2>3, <2>4, <2>5, <2>6, <2>7 DEF ChatsStep
<1> QED
  BY <1>1, <1>2, <1>3, <1>4, <1>5 DEF Next

(* GET /api/chats/:id and its /messages answer 200 to active members and   *)
(* 403 to others, unless another request changed a table meanwhile.        *)
THEOREM OnlyMembersRead == Spec => MembershipAnswers
<1>1. ChatInv /\ [Next]_vars =>
        [\A a \in answers' \ answers :
           a.route \in {"get_chat_info", "get_messages"} /\ a.code \in {200, 403} =>
             a.disturbed \/ (a.code = 200) = Active(a.row, a.user)]_<<answers, chat_members>>
  BY AnswersFit
<1> QED
  BY <1>1, ChatInvariant, PTL DEF Spec, MembershipAnswers
=============================================================================
