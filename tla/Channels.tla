------------------------------ MODULE Channels ------------------------------
(***************************************************************************)
(* Channels of http_api.cpp: creating one, subscribing, posting, deleting  *)
(* a post, on the tables channels, channel_subscribers and channel_posts.  *)
(* Everybody can see a channel as soon as its row exists (the listings and *)
(* GET /api/channels/:name), which is before its owner has a row.          *)
(***************************************************************************)
EXTENDS PgDb

CONSTANT Titles     \* user names of channels

VARIABLES channels,              \* the table; an id is an index
          channel_subscribers,   \* the table: rows [channel, user, role]
          channel_posts,         \* the table: rows [id, channel, author]
          repeats                \* history: per channel, subscriptions of somebody
                                 \* who had a row already

channelVars == <<channels, channel_subscribers, channel_posts, repeats>>

ChannelsTypeOK ==
  /\ channels \in Seq([username : Titles, owner_id : Users, subscriber_count : Nat])
  /\ channel_subscribers \subseteq
       [channel : DOMAIN channels, user : Users, role : {"owner", "subscriber"}]
  /\ \A r, s \in channel_subscribers : r.channel = s.channel /\ r.user = s.user => r = s
  /\ channel_posts \subseteq [id : 1..plan.requests, channel : DOMAIN channels, author : Users]
  /\ repeats \in [DOMAIN channels -> Nat]

ChannelsInit ==
  /\ channels = <<>> /\ channel_subscribers = {} /\ channel_posts = {} /\ repeats = <<>>

Subscriber(c, u, role) == [channel |-> c, user |-> u, role |-> role]
Subscribed(c, u) == \E r \in channel_subscribers : r.channel = c /\ r.user = u
IsOwner(c, u)    == Subscriber(c, u, "owner") \in channel_subscribers

create_channel(w) ==
  /\ \E u \in Users, name \in Titles : Request(w, "create_channel", u, name, 0, "channel")
  /\ UNCHANGED channelVars

insert_channel(w) ==
  /\ At(w, "channel")
  /\ LET j     == job[w]
         legal == \A c \in DOMAIN channels : channels[c].username # j.arg
         new   == [username |-> j.arg, owner_id |-> j.user, subscriber_count |-> 0] IN
     \E out \in Outcomes :
       /\ channels' = IF out.done /\ legal THEN Append(channels, new) ELSE channels
       /\ repeats' = IF out.done /\ legal THEN Append(repeats, 0) ELSE repeats
       /\ IF out.ok /\ legal THEN Continue(w, out, TRUE, Len(channels) + 1, {}, "channel owner")
          ELSE Last(w, out, legal, 201, 409)
  /\ UNCHANGED <<channel_subscribers, channel_posts>>

(* The handler takes every unique key for the name's: it answers "Username *)
(* already taken" as well when the creator has subscribed meanwhile.       *)
insert_channel_owner(w) ==
  /\ At(w, "channel owner")
  /\ LET j     == job[w]
         legal == ~Subscribed(j.row, j.user) IN
     \E out \in Outcomes :
       /\ channel_subscribers' = IF out.done /\ legal
                                 THEN channel_subscribers \cup {Subscriber(j.row, j.user, "owner")}
                                 ELSE channel_subscribers
       /\ Last(w, out, legal, 201, 409)
  /\ UNCHANGED <<channels, channel_posts, repeats>>

subscribe_channel(w) ==
  /\ \E u \in Users, c \in DOMAIN channels :
       Request(w, "subscribe_channel", u, Nobody, c, "subscribe")
  /\ UNCHANGED channelVars

(* Mutant: the conflict branch writes the role instead of nothing.         *)
SubscribeOver(c, u) ==
  {r \in channel_subscribers : ~(r.channel = c /\ r.user = u)} \cup {Subscriber(c, u, "subscriber")}

(* ON CONFLICT DO NOTHING.                                                 *)
Subscribe(c, u) ==
  IF Subscribed(c, u) THEN channel_subscribers
  ELSE channel_subscribers \cup {Subscriber(c, u, "subscriber")}

insert_subscriber(w) ==
  /\ At(w, "subscribe")
  /\ LET j   == job[w]
         old == Subscribed(j.row, j.user) IN
     \E out \in Outcomes :
       /\ channel_subscribers' = IF out.done THEN Subscribe(j.row, j.user) ELSE channel_subscribers
       /\ repeats' = IF out.done /\ old THEN [repeats EXCEPT ![j.row] = @ + 1] ELSE repeats
       /\ IF out.ok THEN Continue(w, out, ~old, j.row, {}, "count") ELSE Last(w, out, ~old, 200, 500)
  /\ UNCHANGED <<channels, channel_posts>>

(* Mutant: the UPDATE has no WHERE clause.                                 *)
CountedEverywhere(c) == [d \in DOMAIN channels |-> [channels[d] EXCEPT !.subscriber_count = @ + 1]]

Counted(c) == [channels EXCEPT ![c].subscriber_count = @ + 1]

(* The counter is raised whether or not a row was inserted.                *)
count_subscriber(w) ==
  /\ At(w, "count")
  /\ \E out \in Outcomes :
       /\ channels' = IF out.done THEN Counted(job[w].row) ELSE channels
       /\ Last(w, out, TRUE, 200, 500)
  /\ UNCHANGED <<channel_subscribers, channel_posts, repeats>>

(* The argument is the id the post gets, a new one for every request.      *)
create_post(w) ==
  /\ \E u \in Users, c \in DOMAIN channels : Request(w, "create_post", u, requests + 1, c, "role")
  /\ UNCHANGED channelVars

(* Mutant: any row passes.                                                 *)
check_subscribed(w) ==
  /\ At(w, "role")
  /\ Select(w, Subscribed(job[w].row, job[w].user), "post", 403)
  /\ UNCHANGED channelVars

(* No route ever stores the role "admin" the code also accepts.            *)
check_role(w) ==
  /\ At(w, "role")
  /\ Select(w, IsOwner(job[w].row, job[w].user), "post", 403)
  /\ UNCHANGED channelVars

insert_post(w) ==
  /\ At(w, "post")
  /\ LET post == [id |-> job[w].arg, channel |-> job[w].row, author |-> job[w].user] IN
     \E out \in Outcomes :
       /\ channel_posts' = IF out.done THEN channel_posts \cup {post} ELSE channel_posts
       /\ Last(w, out, TRUE, 201, 500)
  /\ UNCHANGED <<channels, channel_subscribers, repeats>>

delete_post(w) ==
  /\ \E c \in DOMAIN channels, p \in channel_posts :
       Request(w, "delete_post", Nobody, p.id, c, "delete")
  /\ UNCHANGED channelVars

(* The post must be one of that channel; a DELETE of nothing is no error.  *)
delete_row(w) ==
  /\ At(w, "delete")
  /\ LET j     == job[w]
         kept  == {p \in channel_posts : ~(p.id = j.arg /\ p.channel = j.row)} IN
     \E out \in Outcomes :
       /\ channel_posts' = IF out.done THEN kept ELSE channel_posts
       /\ Last(w, out, TRUE, 200, 500)
  /\ UNCHANGED <<channels, channel_subscribers, repeats>>

ChannelsStep(w) ==
  \/ create_channel(w) \/ insert_channel(w) \/ insert_channel_owner(w)
  \/ subscribe_channel(w) \/ insert_subscriber(w) \/ count_subscriber(w)
  \/ create_post(w) \/ check_role(w) \/ insert_post(w)
  \/ delete_post(w) \/ delete_row(w)

(* route_create_post() checks the role in one statement and inserts in     *)
(* another; the check never goes stale: the author of every post is an     *)
(* owner of its channel at any later time, whoever subscribes when.        *)
PostsByOwners == \A p \in channel_posts : IsOwner(p.channel, p.author)

(* subscriber_count of a channel, with the increments of the workers that  *)
(* are between the two statements of route_subscribe_channel(), is exactly *)
(* the subscribers (the owner is not counted) plus the repeated            *)
(* subscriptions; once a statement failed or the process restarted it may  *)
(* fall short of that and never exceeds it.                                *)
CountAccounted ==
  \A c \in DOMAIN channels :
    LET pending == {w \in Workers : At(w, "count") /\ job[w].row = c}
        rows    == {r \in channel_subscribers : r.channel = c /\ r.role = "subscriber"}
        counted == channels[c].subscriber_count + Cardinality(pending)
        real    == Cardinality(rows) + repeats[c] IN
    /\ counted <= real
    /\ fails = 0 /\ restarts = 0 => counted = real

(* A channel has an owner's row, for good, except in four ways: its        *)
(* creation is still under way, or was cut off by a restart, or by a fault *)
(* of its own; or its creator subscribed between the two statements of     *)
(* route_create_channel() and was told that the name is taken.             *)
ChannelsOwned ==
  \A c \in DOMAIN channels :
    \/ IsOwner(c, channels[c].owner_id)
    \/ \E w \in Workers : At(w, "channel owner") /\ job[w].row = c
    \/ restarts > 0
    \/ \E a \in answers : /\ a.route = "create_channel" /\ a.arg = channels[c].username
                          /\ a.faulty \/ (a.row = c /\ a.code = 409 /\ a.disturbed)

(* A channel that was answered 201 has its owner, whatever fails later.    *)
ChannelsComplete ==
  \A a \in answers : a.route = "create_channel" /\ a.code = 201 => IsOwner(a.row, a.user)
=============================================================================
