----------------------------- MODULE MCHttpApi -----------------------------
(* Instances of HttpApi for TLC. *)
EXTENDS HttpApi, TLC

(* Accounts that meet in a name, an address or a number. *)
Signup  == [routes |-> {"register", "update_me"}, requests |-> 3, fails |-> 1, restarts |-> 1]
(* Two users, or one, asking for their chat three times. *)
Direct  == [routes |-> {"open_direct"}, requests |-> 3, fails |-> 1, restarts |-> 1]
(* Groups at fault, then groups whose members come and go. *)
Group   == [routes |-> {"create_group"}, requests |-> 2, fails |-> 1, restarts |-> 1]
Members == [routes |-> {"create_group", "add_member", "remove_member"},
            requests |-> 3, fails |-> 0, restarts |-> 0]
(* Reads while a member is removed and added again. *)
Reading == [routes |-> {"open_direct", "add_member", "remove_member", "get_chat_info", "get_messages"},
            requests |-> 4, fails |-> 0, restarts |-> 0]
(* Channels and their counters at fault, then posts. *)
Channel == [routes |-> {"create_channel", "subscribe_channel"},
            requests |-> 3, fails |-> 1, restarts |-> 1]
Posting == [routes |-> {"create_channel", "subscribe_channel", "create_post", "delete_post"},
            requests |-> 4, fails |-> 0, restarts |-> 0]

AllPlans == {Signup, Direct, Group, Members, Reading, Channel, Posting}

Symmetry == Permutations(Workers) \cup Permutations(Users) \cup Permutations(Names) \cup Permutations(Titles)
=============================================================================
