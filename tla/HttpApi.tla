------------------------------ MODULE HttpApi ------------------------------
(***************************************************************************)
(* The REST API on its one database connection: the handlers of accounts,  *)
(* chats and channels run on the same workers, interleave statement by     *)
(* statement, fail together when the connection is lost, and are forgotten *)
(* together when the process restarts.                                     *)
(***************************************************************************)
EXTENDS Accounts, Chats, Channels

tables == <<users, chatVars, channelVars>>
vars == <<pgVars, tables>>

Init == PgInit /\ AccountsInit /\ ChatsInit /\ ChannelsInit

Next ==
  \/ \E w \in Workers :
       \/ AccountsStep(w) /\ UNCHANGED <<chatVars, channelVars>>
       \/ ChatsStep(w) /\ UNCHANGED <<users, channelVars>>
       \/ ChannelsStep(w) /\ UNCHANGED <<users, chatVars>>
  \/ Restart /\ UNCHANGED tables

Spec == Init /\ [][Next]_vars

(* Workers, connection and tables have the shape of the code's.            *)
TypeOK == PgTypeOK /\ AccountsTypeOK /\ ChatsTypeOK /\ ChannelsTypeOK

(* Whatever a client was told exists (201) exists completely and for good: *)
(* the account, the direct chat with both sides, the group with its owner, *)
(* the channel with its owner.  The handlers have no transaction, so this  *)
(* rests on the order of their statements; it holds through lost           *)
(* connections, restarts and whatever other requests do in between.        *)
AnsweredIsComplete == RegisteredKept /\ ChatsComplete /\ ChannelsComplete
=============================================================================
