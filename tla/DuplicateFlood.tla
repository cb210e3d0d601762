--------------------------- MODULE DuplicateFlood ---------------------------
(***************************************************************************)
(* The protection against series of equal messages: the moderation handler *)
(* of app/bot/controller/v1/moderation/flood.py, the Redis keys of         *)
(* duplicate_message.py and the actions of flood_action.py, for one user   *)
(* of one chat: all keys are per (chat_id, user_id).                       *)
(*                                                                         *)
(* The keys of one user are shared by the handlers of all his messages,    *)
(* which aiogram runs concurrently.  An action is what a handler does from *)
(* one await to the next.                                                  *)
(***************************************************************************)
EXTENDS Integers, Sequences, FiniteSets, Calls

CONSTANTS
    Handlers,        \* tasks aiogram can run at once for messages of the user
    Contents,        \* what a message can say, up to normalisation and digest
    MaxPosts,        \* bound on the messages the user posts
    Threshold,       \* DUPLICATE_MESSAGE_WARN_THRESHOLD
    MaxTracked,      \* DUPLICATE_MESSAGE_MAX_TRACKED_IDS
    Window,          \* DUPLICATE_MESSAGE_WINDOW_SECONDS, in ticks
    WarningTTL,      \* DUPLICATE_MESSAGE_WARNING_TTL_SECONDS
    Grace,           \* DUPLICATE_MESSAGE_KICK_GRACE_SECONDS
    None,            \* an absent key
    Calm,            \* the clock waits for the handlers
    MayCrash, TelegramMayFail, RedisMayFail

ASSUME ConstantsAssumption ==
    /\ MaxPosts \in Nat /\ Threshold \in Nat \ {0, 1} /\ MaxTracked \in Nat \ {0}
    /\ Window \in Nat \ {0} /\ WarningTTL \in Nat \ {0} /\ Grace \in Nat
    /\ {Calm, MayCrash, TelegramMayFail, RedisMayFail} \subseteq BOOLEAN
    /\ None \notin Nat /\ None \notin [digest : Contents, ids : Seq(Nat), age : Nat]

VARIABLES
    posts,      \* the content of every message the user has posted
    next,       \* the first message no handler has taken yet
    deleted,    \* messages the bot has deleted
    member,     \* of the chat: "in", "out" or "banned"
    admin,      \* the user is an administrator of the chat
    series,     \* Redis: duplicate_message:{chat}:{user}
    warning,    \* Redis: age of duplicate_message_warning:{chat}:{user}
    grace,      \* Redis: age of duplicate_message_warning_grace:{chat}:{user}
    handlers,   \* the running handlers
    streak,     \* history: equal messages handled in a row and not answered
    warned      \* history: ticks since a warning was last on display

vars == <<posts, next, deleted, member, admin, series, warning, grace,
          handlers, streak, warned>>

chat  == <<posts, next, deleted, member, admin>>
redis == <<series, warning, grace>>

\* Where a handler stands: the call it makes next.
Steps == {"record", "lookup", "exempt_first", "exempt_again", "mark", "mark_grace",
          "delete_warn", "warn", "rollback", "rollback_grace", "relookup",
          "check_grace", "delete_grace", "clear", "delete_kick", "ban", "unban",
          "clear_all"}

HandlerStates == [pc : Steps \cup {"idle"}, post : 0..MaxPosts,
                  ids : SUBSET (1..MaxPosts)]

Idle == [pc |-> "idle", post |-> 0, ids |-> {}]

Posts == 1..Len(posts)

TypeOK ==
    /\ posts \in Seq(Contents) /\ Len(posts) <= MaxPosts
    /\ next \in 1..(Len(posts) + 1)
    /\ deleted \subseteq Posts
    /\ member \in {"in", "out", "banned"} /\ admin \in BOOLEAN
    /\ series # None =>
         /\ series.digest \in Contents /\ series.age \in 0..(Window - 1)
         /\ series.ids \in Seq(Posts) /\ Len(series.ids) \in 1..MaxTracked
    /\ warning \in {None} \cup 0..(WarningTTL - 1)
    /\ grace \in {None} \cup 0..(Grace - 1)
    /\ handlers \in [Handlers -> HandlerStates]
    /\ streak \in Nat
    /\ warned \in {None} \cup 0..WarningTTL

Telegram(possible) == Outcomes(possible, TelegramMayFail)
Redis == Outcomes(TRUE, RedisMayFail)

\* What a key becomes: an awaited write that was refused changes nothing.
Written(o, old, new) == IF o = "refused" THEN old ELSE new

-----------------------------------------------------------------------------
(* Stepping a handler                                                      *)

At(h, pc) == handlers[h].pc = pc
Goto(h, pc) == handlers' = [handlers EXCEPT ![h].pc = pc]
Return(h) == handlers' = [handlers EXCEPT ![h] = Idle]

\* An exception leaves the handler; aiogram logs it.
GotoIf(ok, h, pc) == IF ok THEN Goto(h, pc) ELSE Return(h)

Dispatch(h) ==
    /\ At(h, "idle") /\ next <= Len(posts)
    /\ handlers' = [handlers EXCEPT ![h] = [pc |-> "record", post |-> next, ids |-> {}]]
    /\ next' = next + 1
    /\ UNCHANGED <<posts, deleted, member, admin, redis, streak, warned>>

-----------------------------------------------------------------------------
(* Recording the message and finding what to do about it                   *)

\* Variant: the digest of the stored series is not compared.
ContinuesAnything(post) == series # None

Continues(post) == series # None /\ series.digest = posts[post]

\* Variant: the list of ids is not cut.
ExtendedUncut(post) == IF Continues(post) THEN Append(series.ids, post) ELSE <<post>>

\* The Lua script: append to the series of the same digest or start a new one,
\* and keep the last MaxTracked ids.
Extended(post) ==
    LET all == IF Continues(post) THEN Append(series.ids, post) ELSE <<post>>
    IN  IF Len(all) > MaxTracked
        THEN SubSeq(all, Len(all) - MaxTracked + 1, Len(all)) ELSE all

Record(h) ==
    LET post == handlers[h].post
        ids  == Extended(post)
    IN
    /\ At(h, "record")
    /\ \E o \in Redis :
         /\ series' = Written(o, series, [digest |-> posts[post], ids |-> ids, age |-> 0])
         /\ streak' = Written(o, streak, IF Continues(post) THEN streak + 1 ELSE 1)
         /\ IF o = "ok"
            THEN handlers' = [handlers EXCEPT ![h].pc = "lookup",
                                              ![h].ids = {ids[i] : i \in DOMAIN ids}]
            ELSE Return(h)
    /\ UNCHANGED <<chat, warning, grace, warned>>

\* Variant: a series is noticed one message late.
IsFloodLate(ids) == Cardinality(ids) > Threshold

IsFlood(ids) == Cardinality(ids) >= Threshold

Lookup(h) ==
    /\ At(h, "lookup")
    /\ \E o \in Redis :
         IF o # "ok" \/ ~IsFlood(handlers[h].ids) THEN Return(h)
         ELSE Goto(h, IF warning # None THEN "exempt_again" ELSE "exempt_first")
    /\ UNCHANGED <<chat, redis, streak, warned>>

\* is_chat_admin_sender: a lookup that fails counts as "no administrator".
CheckExempt(h) ==
    /\ handlers[h].pc \in {"exempt_first", "exempt_again"}
    /\ \E o \in Telegram(TRUE) :
         Goto(h, IF o = "ok" /\ admin THEN "clear_all"
                 ELSE IF At(h, "exempt_first") THEN "mark" ELSE "check_grace")
    /\ UNCHANGED <<chat, redis, streak, warned>>

-----------------------------------------------------------------------------
(* The first series: mark, warn, or take the mark back                     *)

\* mark_warned_once: SET NX; the grace key is set by a call of its own.
MarkWarned(h) ==
    /\ At(h, "mark")
    /\ \E o \in Redis :
         /\ warning' = IF warning # None THEN warning ELSE Written(o, None, 0)
         /\ GotoIf(o = "ok", h, IF warning # None THEN "relookup"
                                ELSE IF Grace > 0 THEN "mark_grace" ELSE "delete_warn")
    /\ UNCHANGED <<chat, series, grace, streak, warned>>

MarkGrace(h) ==
    /\ At(h, "mark_grace")
    /\ \E o \in Redis :
         /\ grace' = Written(o, grace, 0)
         /\ GotoIf(o = "ok", h, "delete_warn")
    /\ UNCHANGED <<chat, series, warning, streak, warned>>

\* Variant: the warning is sent without a rollback of the mark.
WarnWithoutRollback(h) ==
    /\ At(h, "warn")
    /\ \E o \in Telegram(TRUE) :
         /\ warned' = Written(o, warned, 0)
         /\ GotoIf(o = "ok", h, "clear")
    /\ UNCHANGED <<chat, redis, streak>>

Warn(h) ==
    /\ At(h, "warn")
    /\ \E o \in Telegram(TRUE) :
         /\ warned' = Written(o, warned, 0)
         /\ Goto(h, IF o = "ok" THEN "clear" ELSE "rollback")
    /\ UNCHANGED <<chat, redis, streak>>

Relookup(h) ==
    /\ At(h, "relookup")
    /\ \E o \in Redis : GotoIf(o = "ok" /\ warning # None, h, "check_grace")
    /\ UNCHANGED <<chat, redis, streak, warned>>

-----------------------------------------------------------------------------
(* A series after the warning: delete within the grace period, else kick   *)

\* Variant: the grace key is not looked at.
CheckNoGrace(h) ==
    /\ At(h, "check_grace")
    /\ \E o \in Redis : GotoIf(o = "ok", h, "delete_kick")
    /\ UNCHANGED <<chat, redis, streak, warned>>

CheckGrace(h) ==
    /\ At(h, "check_grace")
    /\ \E o \in Redis :
         GotoIf(o = "ok", h, IF grace # None THEN "delete_grace" ELSE "delete_kick")
    /\ UNCHANGED <<chat, redis, streak, warned>>

\* delete_messages: one call per message, each best effort; the calls of the
\* loop touch nothing else and are one step here.
DeleteSeries(h) ==
    /\ handlers[h].pc \in {"delete_warn", "delete_grace", "delete_kick"}
    /\ \E gone \in IF TelegramMayFail THEN SUBSET handlers[h].ids ELSE {handlers[h].ids} :
         deleted' = deleted \cup gone
    /\ Goto(h, CASE At(h, "delete_warn") -> "warn" [] At(h, "delete_grace") -> "clear"
                 [] At(h, "delete_kick") -> "ban")
    /\ UNCHANGED <<posts, next, member, admin, redis, streak, warned>>

\* Telegram bans no administrator.
BanFlooder(h) ==
    /\ At(h, "ban")
    /\ \E o \in Telegram(~admin) :
         /\ member' = Written(o, member, "banned")
         /\ GotoIf(o = "ok", h, "unban")
    /\ UNCHANGED <<posts, next, deleted, admin, redis, streak, warned>>

UnbanFlooder(h) ==
    /\ At(h, "unban")
    /\ \E o \in Telegram(TRUE) :
         /\ member' = Written(o, member, "out")
         /\ GotoIf(o = "ok", h, "clear_all")
    /\ UNCHANGED <<posts, next, deleted, admin, redis, streak, warned>>

\* Clearing the series, alone or before the warning is cleared too.
ClearSeries(h) ==
    /\ handlers[h].pc \in {"clear", "clear_all"}
    /\ \E o \in Redis :
         /\ series' = Written(o, series, None)
         /\ streak' = Written(o, streak, 0)
         /\ GotoIf(o = "ok" /\ At(h, "clear_all"), h, "rollback")
    /\ UNCHANGED <<chat, warning, grace, warned>>

\* clear_warning: after a kick, for an administrator, or as rollback.
ClearWarning(h) ==
    /\ At(h, "rollback")
    /\ \E o \in Redis :
         /\ warning' = Written(o, warning, None)
         /\ GotoIf(o = "ok", h, "rollback_grace")
    /\ UNCHANGED <<chat, series, grace, streak, warned>>

ClearGrace(h) ==
    /\ At(h, "rollback_grace")
    /\ \E o \in Redis : grace' = Written(o, grace, None)
    /\ Return(h)
    /\ UNCHANGED <<chat, series, warning, streak, warned>>

Handle(h) ==
    \/ Record(h) \/ Lookup(h) \/ CheckExempt(h)
    \/ MarkWarned(h) \/ MarkGrace(h) \/ Warn(h) \/ Relookup(h)
    \/ CheckGrace(h) \/ DeleteSeries(h) \/ BanFlooder(h) \/ UnbanFlooder(h)
    \/ ClearSeries(h) \/ ClearWarning(h) \/ ClearGrace(h)

-----------------------------------------------------------------------------
(* The user, the process and the clock                                     *)

Quiet == next > Len(posts) /\ \A h \in Handlers : At(h, "idle")

Post(c) ==
    /\ member = "in" /\ Len(posts) < MaxPosts
    /\ posts' = Append(posts, c)
    /\ UNCHANGED <<next, deleted, member, admin, redis, handlers, streak, warned>>

\* MaxPosts bounds this too: nobody comes back once all messages are posted.
Rejoin ==
    /\ member = "out" /\ Len(posts) < MaxPosts
    /\ member' = "in"
    /\ UNCHANGED <<posts, next, deleted, admin, redis, handlers, streak, warned>>

\* The process stops and is started again: nothing is restored for handlers.
Restart ==
    /\ MayCrash /\ \E h \in Handlers : ~At(h, "idle")
    /\ handlers' = [h \in Handlers |-> Idle]
    /\ UNCHANGED <<chat, redis, streak, warned>>

Aged(key, ttl) == IF key = None \/ key = ttl - 1 THEN None ELSE key + 1

Tick ==
    /\ Calm => Quiet
    /\ series' = IF series = None \/ series.age = Window - 1 THEN None
                 ELSE [series EXCEPT !.age = @ + 1]
    /\ streak' = IF series' = None THEN 0 ELSE streak
    /\ warning' = Aged(warning, WarningTTL)
    /\ grace' = Aged(grace, Grace)
    /\ warned' = Aged(warned, WarningTTL + 1)
    /\ UNCHANGED <<chat, handlers>>

-----------------------------------------------------------------------------
(* Specification                                                           *)

Init ==
    /\ posts = <<>> /\ next = 1 /\ deleted = {} /\ member = "in"
    /\ admin \in BOOLEAN
    /\ series = None /\ warning = None /\ grace = None
    /\ handlers = [h \in Handlers |-> Idle]
    /\ streak = 0 /\ warned = None

Next ==
    \/ \E h \in Handlers : Dispatch(h) \/ Handle(h)
    \/ \E c \in Contents : Post(c)
    \/ Rejoin \/ Restart \/ Tick

Spec == Init /\ [][Next]_vars

-----------------------------------------------------------------------------
(* Properties                                                              *)

\* Once the handlers are through, the mark that makes the next series a kick
\* stands only if a warning has been on display since it was set: a warning
\* Telegram refused is taken back, also when other handlers set, read or clear
\* the mark meanwhile (flood.py:90-133, 272-273).
MarkIsDelivered ==
    Quiet /\ warning # None => warned # None /\ warned <= warning

\* Only messages of a series are deleted: the user posted at least Threshold
\* messages with the same content (duplicate_message.py:30-62, flood.py:60-80).
OnlySeriesDeleted ==
    \A m \in deleted :
        Cardinality({n \in Posts : posts[n] = posts[m]}) >= Threshold

\* A series at the threshold is answered: a handler that finds nothing to do
\* has not seen that many equal messages in a row, counted without the cut of
\* the tracked ids (duplicate_message.py:30-62, flood.py:60-82; README.md:250).
SeriesIsNoticed ==
    [][\A h \in Handlers :
         At(h, "lookup") /\ handlers'[h].pc = "idle" => streak < Threshold]_vars

\* Nobody is kicked who has not been warned within the TTL of a warning
\* (README.md:13; flood.py:56-78).
KickIsWarned ==
    [][member' = "banned" /\ member # "banned" => warned # None]_vars

\* Nobody is kicked within the grace period after the warning, in which series
\* are deleted without a kick (README.md:126, 141; flood.py:182-195).
KickAfterGrace ==
    [][member' = "banned" /\ member # "banned" => warned # None /\ warned >= Grace]_vars
=============================================================================
