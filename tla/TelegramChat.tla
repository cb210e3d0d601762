---------------------------- MODULE TelegramChat ----------------------------
(***************************************************************************)
(* What the bot relies on in Telegram, for ONE user of ONE protected chat. *)
(* Telegram is not part of the repository: every operator here is read off *)
(* the calls app/ makes and the updates app/bot/controller consumes.       *)
(*                                                                         *)
(* A chat record holds the user's membership status, whether a join        *)
(* request of the user is open, and the bot's challenge messages that are  *)
(* still on display (in the group, or privately to the user).              *)
(***************************************************************************)
EXTENDS Sequences

CONSTANT Messages       \* ids of the challenge messages

Inside   == {"member", "restricted"}
Outside  == {"left", "kicked"}
Statuses == Inside \cup Outside

Challenges == [id : Messages, private : BOOLEAN]

Chats == [member : Statuses, request : BOOLEAN, challenges : SUBSET Challenges]

EmptyChat == [member |-> "left", request |-> FALSE, challenges |-> {}]

-----------------------------------------------------------------------------
(* When Telegram can execute a call, and the chat after it.                *)

CanRestrict(chat) == chat.member \in Inside
CanApprove(chat)  == chat.request
CanDecline(chat)  == chat.request

Restrict(chat) == [chat EXCEPT !.member = "restricted"]

\* restrict_chat_member with every permission granted lifts the restriction.
Unrestrict(chat) == [chat EXCEPT !.member = "member"]

Approve(chat) == [chat EXCEPT !.member = "member", !.request = FALSE]

Decline(chat) == [chat EXCEPT !.request = FALSE]

\* A ban also reaches a user who is not in the chat.
Ban(chat) == [chat EXCEPT !.member = "kicked"]

\* unban_chat_member without only_if_banned: the user is not a member after it.
Unban(chat) == [chat EXCEPT !.member = "left"]

Show(chat, c) == [chat EXCEPT !.challenges = @ \cup {c}]
Hide(chat, c) == [chat EXCEPT !.challenges = @ \ {c}]

-----------------------------------------------------------------------------
(* The chat_member updates that lead the bot to act, by old and new status *)
(* (_joined_from_outside and _left_after_join of the controller).          *)

MemberNotice(old, new) ==
    IF old.member \in Outside /\ new.member \in Inside THEN <<"joined">>
    ELSE IF old.member \in Inside /\ new.member \in Outside THEN <<"left">>
    ELSE <<>>
=============================================================================
