---------------------------- MODULE Verification ----------------------------
(***************************************************************************)
(* The verification of newcomers (app/usecase/verification, the handlers   *)
(* of app/bot/controller/v1/verification.py and the restore of timers in   *)
(* app/bootstrap), for one user of one chat: every key, task and call is   *)
(* keyed by (chat_id, user_id), so users do not interact.                  *)
(*                                                                         *)
(* An action is what a coroutine does from one await to the next: the      *)
(* local code after the previous await and the effect of the call it then  *)
(* awaits.  Coroutines of the event loop interleave only there.            *)
(***************************************************************************)
EXTENDS TelegramChat, Calls, Naturals

CONSTANTS
    Handlers,        \* tasks aiogram can run at once for updates of this user
    Timers,          \* slots for timeout tasks (live, or not yet reaped)
    NoTimer, NoRecord, NoChallenge,
    Timeout,         \* VERIFY_TIMEOUT_SECONDS, in ticks
    Grace,           \* what the TTL of a record adds to it
    MaxUpdates,      \* user and admins move only while fewer updates wait
    Entrances,       \* ways into the chat: "request", "join", "admin"
    Calm,            \* user and clock wait for the bot's calls to end (see below)
    MayCrash,        \* the process may stop at any point and start again
    TelegramMayFail, \* a Telegram call may be refused or lose its answer
    RedisMayFail     \* likewise for Redis

ASSUME ConstantsAssumption ==
    /\ Timeout \in Nat /\ Grace \in Nat \ {0} /\ MaxUpdates \in Nat
    /\ Entrances \subseteq {"request", "join", "admin"}
    /\ {Calm, MayCrash, TelegramMayFail, RedisMayFail} \subseteq BOOLEAN

ASSUME NullsAssumption ==
    /\ NoTimer \notin Timers
    /\ NoChallenge \notin Challenges
    /\ NoRecord \notin [challenge : Challenges, age : Nat]

TTL == Timeout + Grace

VARIABLES
    tg,         \* the chat as Telegram knows it
    updates,    \* updates Telegram holds for the bot, in order
    pending,    \* Redis: verify:{chat}:{user}, with its age
    verified,   \* Redis: verified:{chat}:{user}
    handlers,   \* the running update handlers
    timers,     \* the timeout tasks
    registry,   \* VerificationTaskRegistry.timeout_task[(chat, user)]
    phase,      \* of the process: stopped, restoring, or polling ("up")
    restoring,  \* the record restore_pending_verification_entry has read
    earned,     \* history: a button press has let the user in at least once
    grant       \* history: who let the user in for the present stay

vars == <<tg, updates, pending, verified, handlers, timers, registry, phase,
          restoring, earned, grant>>

redis   == <<pending, verified>>
tasks   == <<timers, registry>>
history == <<earned, grant>>

-----------------------------------------------------------------------------
(* Types                                                                   *)

Updates == {"request", "joined", "left", "press_private", "press_chat"}

Records == [challenge : Challenges, age : 0..TTL]

StartSteps == {"start_get", "restrict", "send", "create", "schedule",
               "undo_message", "undo_decline", "undo_ban", "undo_unban"}
LeaveSteps == {"leave_get", "leave_delete", "leave_cancel"}
PressSteps == {"press_get", "press_reget", "open", "mark", "forget", "tidy"}

HandlerStates == [pc      : {"idle"} \cup StartSteps \cup LeaveSteps \cup PressSteps,
                  private : BOOLEAN,
                  held    : Challenges \cup {NoChallenge}]

TimerStates == [pc      : {"free", "sleep", "get", "notify", "decline", "ban",
                           "unban", "delete", "tidy", "over"},
                private : BOOLEAN,
                wait    : 0..TTL,
                held    : Challenges \cup {NoChallenge}]

Phases == {"down", "restore_read", "restore_verified", "restore_joined",
           "restore_schedule", "up"}

Idle == [pc |-> "idle", private |-> FALSE, held |-> NoChallenge]
Free == [pc |-> "free", private |-> FALSE, wait |-> 0, held |-> NoChallenge]

TypeOK ==
    /\ tg \in Chats
    /\ updates \in Seq(Updates)
    /\ pending \in Records \cup {NoRecord}
    /\ verified \in BOOLEAN
    /\ handlers \in [Handlers -> HandlerStates]
    /\ timers \in [Timers -> TimerStates]
    /\ registry \in Timers \cup {NoTimer}
    /\ phase \in Phases
    /\ restoring \in Records \cup {NoRecord}
    /\ earned \in BOOLEAN
    /\ grant \in {"none", "callback", "admin"}

-----------------------------------------------------------------------------
(* Calls                                                                   *)

Telegram(possible) == Outcomes(possible, TelegramMayFail)
Redis == Outcomes(TRUE, RedisMayFail)

\* Telegram executes a call, unless it refused it, and queues the update
\* about the membership change for the bot, whoever caused the change.
Execute(outcome, new) ==
    IF outcome = "refused" THEN UNCHANGED <<tg, updates>>
    ELSE tg' = new /\ updates' = updates \o MemberNotice(tg, new)

HideBestEffort(c) ==
    \E o \in Telegram(c \in tg.challenges) : Execute(o, Hide(tg, c))

-----------------------------------------------------------------------------
(* The task registry (task.py)                                             *)

Live(timer) == timer.pc \notin {"free", "over"}

\* task.cancel(): the CancelledError passes the best-effort wrappers, which
\* catch Exception only, so the task ends at the await it stands at.
Cancelled(ts, t) ==
    IF t # NoTimer /\ Live(ts[t]) THEN [ts EXCEPT ![t].pc = "over"] ELSE ts

CancelTimer ==
    /\ timers' = Cancelled(timers, registry)
    /\ registry' = NoTimer

RegisterTimer(private, delay) ==
    \E t \in Timers :
        /\ timers[t].pc = "free"
        /\ timers' = [Cancelled(timers, registry) EXCEPT ![t] =
               [pc |-> "sleep", private |-> private, wait |-> delay,
                held |-> NoChallenge]]
        /\ registry' = t

-----------------------------------------------------------------------------
(* Stepping a handler or a timer                                           *)

At(h, pc) == handlers[h].pc = pc
Goto(h, pc) == handlers' = [handlers EXCEPT ![h].pc = pc]
GotoHolding(h, pc, c) ==
    handlers' = [handlers EXCEPT ![h].pc = pc, ![h].held = c]
Return(h) == handlers' = [handlers EXCEPT ![h] = Idle]

TimerAt(t, pc) == timers[t].pc = pc
TimerGoto(t, pc) == timers' = [timers EXCEPT ![t].pc = pc]

FreshMessages ==
    LET used == tg.challenges
                \cup {handlers[h].held : h \in Handlers}
                \cup {timers[t].held : t \in Timers}
                \cup (IF pending = NoRecord THEN {} ELSE {pending.challenge})
    IN  {m \in Messages : \A b \in BOOLEAN : [id |-> m, private |-> b] \notin used}

-----------------------------------------------------------------------------
(* Updates: Telegram keeps them until the bot polls; each becomes a task.  *)

FirstStep(u) ==
    IF u = "left" THEN "leave_get"
    ELSE IF u \in {"press_private", "press_chat"} THEN "press_get" ELSE "start_get"

Spawned(u) == [pc |-> FirstStep(u), private |-> u \in {"request", "press_private"},
               held |-> NoChallenge]

Dispatch(h) ==
    /\ phase = "up" /\ updates # <<>> /\ At(h, "idle")
    /\ handlers' = [handlers EXCEPT ![h] = Spawned(Head(updates))]
    /\ updates' = Tail(updates)
    /\ UNCHANGED <<tg, redis, tasks, phase, restoring, history>>

-----------------------------------------------------------------------------
(* start_join_request_verification and start_member_verification           *)

StartGet(h) ==
    /\ At(h, "start_get")
    /\ \E o \in Redis :
         IF o # "ok" \/ pending # NoRecord THEN Return(h)
         ELSE Goto(h, IF handlers[h].private THEN "send" ELSE "restrict")
    /\ UNCHANGED <<tg, updates, redis, tasks, phase, restoring, history>>

RestrictMember(h) ==
    /\ At(h, "restrict")
    /\ \E o \in Telegram(CanRestrict(tg)) :
         /\ Execute(o, Restrict(tg))
         /\ Goto(h, IF o = "ok" THEN "send" ELSE "undo_ban")
    /\ UNCHANGED <<redis, tasks, phase, restoring, history>>

SendChallenge(h) ==
    /\ At(h, "send")
    /\ \E m \in FreshMessages, o \in Telegram(TRUE) :
         LET c == [id |-> m, private |-> handlers[h].private] IN
         /\ Execute(o, Show(tg, c))
         /\ IF o = "ok" THEN GotoHolding(h, "create", c)
            ELSE Goto(h, IF c.private THEN "undo_decline" ELSE "undo_ban")
    /\ UNCHANGED <<redis, tasks, phase, restoring, history>>

CreatePending(h) ==
    /\ At(h, "create")
    /\ \E o \in Redis :
         /\ pending' = IF o = "refused" THEN pending
                       ELSE [challenge |-> handlers[h].held, age |-> 0]
         /\ Goto(h, IF o = "ok" THEN "schedule" ELSE "undo_message")
    /\ UNCHANGED <<tg, updates, verified, tasks, phase, restoring, history>>

ScheduleTimer(h) ==
    /\ At(h, "schedule")
    /\ RegisterTimer(handlers[h].private, Timeout)
    /\ Return(h)
    /\ UNCHANGED <<tg, updates, redis, phase, restoring, history>>

UndoMessage(h) ==
    /\ At(h, "undo_message")
    /\ HideBestEffort(handlers[h].held)
    /\ Goto(h, IF handlers[h].private THEN "undo_decline" ELSE "undo_ban")
    /\ UNCHANGED <<redis, tasks, phase, restoring, history>>

UndoDecline(h) ==
    /\ At(h, "undo_decline")
    /\ \E o \in Telegram(CanDecline(tg)) : Execute(o, Decline(tg))
    /\ Return(h)
    /\ UNCHANGED <<redis, tasks, phase, restoring, history>>

UndoBan(h) ==
    /\ At(h, "undo_ban")
    /\ \E o \in Telegram(TRUE) : Execute(o, Ban(tg))
    /\ Goto(h, "undo_unban")
    /\ UNCHANGED <<redis, tasks, phase, restoring, history>>

UndoUnban(h) ==
    /\ At(h, "undo_unban")
    /\ \E o \in Telegram(TRUE) : Execute(o, Unban(tg))
    /\ Return(h)
    /\ UNCHANGED <<redis, tasks, phase, restoring, history>>

Start(h) ==
    \/ StartGet(h) \/ RestrictMember(h) \/ SendChallenge(h) \/ CreatePending(h)
    \/ ScheduleTimer(h)
    \/ UndoMessage(h) \/ UndoDecline(h) \/ UndoBan(h) \/ UndoUnban(h)

-----------------------------------------------------------------------------
(* cleanup_pending_member_verification, when the user has left             *)

LeaveGet(h) ==
    /\ At(h, "leave_get")
    /\ \E o \in Redis :
         IF o # "ok" \/ pending = NoRecord THEN Return(h)
         ELSE GotoHolding(h, "leave_delete", pending.challenge)
    /\ UNCHANGED <<tg, updates, redis, tasks, phase, restoring, history>>

LeaveDelete(h) ==
    /\ At(h, "leave_delete")
    /\ \E o \in Redis :
         /\ pending' = IF o = "refused" THEN pending ELSE NoRecord
         /\ IF o = "ok" THEN Goto(h, "leave_cancel") ELSE Return(h)
    /\ UNCHANGED <<tg, updates, verified, tasks, phase, restoring, history>>

\* Variant: the timeout task of the user who left is not cancelled.
LeaveWithoutCancel(h) ==
    /\ At(h, "leave_cancel")
    /\ HideBestEffort(handlers[h].held)
    /\ Return(h)
    /\ UNCHANGED <<redis, tasks, phase, restoring, history>>

LeaveCancel(h) ==
    /\ At(h, "leave_cancel")
    /\ CancelTimer
    /\ HideBestEffort(handlers[h].held)
    /\ Return(h)
    /\ UNCHANGED <<redis, phase, restoring, history>>

Leave(h) == LeaveGet(h) \/ LeaveDelete(h) \/ LeaveCancel(h)

-----------------------------------------------------------------------------
(* complete_verification_from_callback and complete_pending_verification   *)

Expired(record) == record.age >= Timeout

PressGet(h) ==
    /\ At(h, "press_get")
    /\ \E o \in Redis :
         IF o # "ok" \/ pending = NoRecord THEN Return(h)
         ELSE IF Expired(pending) THEN Return(h)
         ELSE Goto(h, "press_reget")
    /\ UNCHANGED <<tg, updates, redis, tasks, phase, restoring, history>>

\* Variant: the timeout task is cancelled before Telegram has agreed.
PressRegetCancelling(h) ==
    /\ At(h, "press_reget")
    /\ CancelTimer
    /\ \E o \in Redis :
         IF o # "ok" \/ pending = NoRecord THEN Return(h)
         ELSE GotoHolding(h, "open", pending.challenge)
    /\ UNCHANGED <<tg, updates, redis, phase, restoring, history>>

PressReget(h) ==
    /\ At(h, "press_reget")
    /\ \E o \in Redis :
         IF o # "ok" \/ pending = NoRecord THEN Return(h)
         ELSE GotoHolding(h, "open", pending.challenge)
    /\ UNCHANGED <<tg, updates, redis, tasks, phase, restoring, history>>

\* Variant: a refused call counts as success, as the best-effort calls do.
OpenAccessBestEffort(h) ==
    /\ At(h, "open")
    /\ LET private == handlers[h].private IN
       \E o \in Telegram(IF private THEN CanApprove(tg) ELSE CanRestrict(tg)) :
         /\ Execute(o, IF private THEN Approve(tg) ELSE Unrestrict(tg))
         /\ earned' = (earned \/ o # "refused")
         /\ grant' = IF o = "refused" THEN grant ELSE "callback"
         /\ Goto(h, "mark")
    /\ UNCHANGED <<redis, tasks, phase, restoring>>

\* Which of the two calls opens the chat is read from the pressed button.
OpenAccess(h) ==
    /\ At(h, "open")
    /\ LET private == handlers[h].private IN
       \E o \in Telegram(IF private THEN CanApprove(tg) ELSE CanRestrict(tg)) :
         /\ Execute(o, IF private THEN Approve(tg) ELSE Unrestrict(tg))
         /\ earned' = (earned \/ o # "refused")
         /\ grant' = IF o = "refused" THEN grant ELSE "callback"
         /\ IF o = "ok" THEN Goto(h, "mark") ELSE Return(h)
    /\ UNCHANGED <<redis, tasks, phase, restoring>>

MarkVerified(h) ==
    /\ At(h, "mark")
    /\ CancelTimer
    /\ \E o \in Redis : verified' = (verified \/ o # "refused")
    /\ Goto(h, "forget")
    /\ UNCHANGED <<tg, updates, pending, phase, restoring, history>>

ForgetPending(h) ==
    /\ At(h, "forget")
    /\ \E o \in Redis : pending' = IF o = "refused" THEN pending ELSE NoRecord
    /\ Goto(h, "tidy")
    /\ UNCHANGED <<tg, updates, verified, tasks, phase, restoring, history>>

\* Variant: the timeout task is cancelled last, after the record is gone.
TidyChallengeCancelling(h) ==
    /\ At(h, "tidy")
    /\ CancelTimer
    /\ HideBestEffort(handlers[h].held)
    /\ Return(h)
    /\ UNCHANGED <<redis, phase, restoring, history>>

TidyChallenge(h) ==
    /\ At(h, "tidy")
    /\ HideBestEffort(handlers[h].held)
    /\ Return(h)
    /\ UNCHANGED <<redis, tasks, phase, restoring, history>>

Press(h) ==
    \/ PressGet(h) \/ PressReget(h) \/ OpenAccess(h) \/ MarkVerified(h)
    \/ ForgetPending(h) \/ TidyChallenge(h)

-----------------------------------------------------------------------------
(* remove_unverified_user_after_timeout and, for private timers,           *)
(* block_unverified_join_request_after_timeout                             *)

TimerWake(t) ==
    /\ TimerAt(t, "sleep") /\ timers[t].wait = 0
    /\ TimerGoto(t, "get")
    /\ UNCHANGED <<tg, updates, redis, handlers, registry, phase, restoring, history>>

\* Variant: the timeout of a member forgets him without removing him.
AfterGetWithoutBan(timer, c) == IF timer.private THEN "decline" ELSE "delete"

\* Variant: the timeout of a join request bans at once and leaves the request.
AfterGetWithoutDecline(timer, c) == "ban"

AfterGet(timer, c) ==
    IF ~timer.private THEN "ban" ELSE IF c.private THEN "notify" ELSE "decline"

TimerGet(t) ==
    /\ TimerAt(t, "get")
    /\ \E o \in Redis :
         IF o # "ok" \/ pending = NoRecord THEN TimerGoto(t, "over")
         ELSE LET c == pending.challenge IN
              timers' = [timers EXCEPT ![t].pc = AfterGet(timers[t], c), ![t].held = c]
    /\ UNCHANGED <<tg, updates, redis, handlers, registry, phase, restoring, history>>

TimerNotify(t) ==
    /\ TimerAt(t, "notify")
    /\ HideBestEffort(timers[t].held)
    /\ TimerGoto(t, "decline")
    /\ UNCHANGED <<redis, handlers, registry, phase, restoring, history>>

TimerDecline(t) ==
    /\ TimerAt(t, "decline")
    /\ \E o \in Telegram(CanDecline(tg)) : Execute(o, Decline(tg))
    /\ TimerGoto(t, "ban")
    /\ UNCHANGED <<redis, handlers, registry, phase, restoring, history>>

TimerBan(t) ==
    /\ TimerAt(t, "ban")
    /\ \E o \in Telegram(TRUE) : Execute(o, Ban(tg))
    /\ TimerGoto(t, "unban")
    /\ UNCHANGED <<redis, handlers, registry, phase, restoring, history>>

TimerUnban(t) ==
    /\ TimerAt(t, "unban")
    /\ \E o \in Telegram(TRUE) : Execute(o, Unban(tg))
    /\ TimerGoto(t, "delete")
    /\ UNCHANGED <<redis, handlers, registry, phase, restoring, history>>

TimerDelete(t) ==
    /\ TimerAt(t, "delete")
    /\ \E o \in Redis :
         /\ pending' = IF o = "refused" THEN pending ELSE NoRecord
         /\ TimerGoto(t, IF o = "ok" /\ ~timers[t].private THEN "tidy" ELSE "over")
    /\ UNCHANGED <<tg, updates, verified, handlers, registry, phase, restoring, history>>

TimerTidy(t) ==
    /\ TimerAt(t, "tidy")
    /\ HideBestEffort(timers[t].held)
    /\ TimerGoto(t, "over")
    /\ UNCHANGED <<redis, handlers, registry, phase, restoring, history>>

\* Variant: the done callback drops the registry entry whoever it names.
TimerDoneUnchecked(t) ==
    /\ TimerAt(t, "over")
    /\ registry' = NoTimer
    /\ timers' = [timers EXCEPT ![t] = Free]
    /\ UNCHANGED <<tg, updates, redis, handlers, phase, restoring, history>>

\* remove_completed_task, the done callback of a registered task.
TimerDone(t) ==
    /\ TimerAt(t, "over")
    /\ registry' = IF registry = t THEN NoTimer ELSE registry
    /\ timers' = [timers EXCEPT ![t] = Free]
    /\ UNCHANGED <<tg, updates, redis, handlers, phase, restoring, history>>

Timer(t) ==
    \/ TimerWake(t) \/ TimerGet(t) \/ TimerNotify(t) \/ TimerDecline(t)
    \/ TimerBan(t) \/ TimerUnban(t) \/ TimerDelete(t) \/ TimerTidy(t)
    \/ TimerDone(t)

-----------------------------------------------------------------------------
(* Stop, start, and the restore of timers before polling begins            *)

\* A crash, or on_shutdown: tasks end where they stand and nothing is written.
Stop ==
    /\ MayCrash /\ phase # "down"
    /\ phase' = "down"
    /\ handlers' = [h \in Handlers |-> Idle]
    /\ timers' = [t \in Timers |-> Free]
    /\ registry' = NoTimer
    /\ restoring' = NoRecord
    /\ UNCHANGED <<tg, updates, redis, history>>

Startup ==
    /\ phase = "down"
    /\ phase' = "restore_read"
    /\ UNCHANGED <<tg, updates, redis, handlers, tasks, restoring, history>>

RestoreRead ==
    /\ phase = "restore_read"
    /\ \E o \in Redis :
         /\ phase' = IF o # "ok" THEN "down"
                     ELSE IF pending = NoRecord THEN "up" ELSE "restore_verified"
         /\ restoring' = IF o = "ok" THEN pending ELSE NoRecord
    /\ UNCHANGED <<tg, updates, redis, handlers, tasks, history>>

\* delete_unrestorable_verification_key; a failing delete aborts the startup.
DropUnrestorable ==
    /\ \E o \in Redis :
         /\ pending' = IF o = "refused" THEN pending ELSE NoRecord
         /\ phase' = IF o = "ok" THEN "up" ELSE "down"
    /\ restoring' = NoRecord

\* A lookup that fails counts as "not verified".
RestoreVerified ==
    /\ phase = "restore_verified"
    /\ \E o \in Redis :
         IF o = "ok" /\ verified THEN DropUnrestorable
         ELSE /\ phase' = IF restoring.challenge.private THEN "restore_joined"
                          ELSE "restore_schedule"
              /\ UNCHANGED <<pending, restoring>>
    /\ UNCHANGED <<tg, updates, verified, handlers, tasks, history>>

\* join_request_user_already_joined; here too a failing lookup counts as "no".
RestoreJoined ==
    /\ phase = "restore_joined"
    /\ \E o \in Telegram(TRUE) :
         IF o = "ok" /\ tg.member = "member" THEN DropUnrestorable
         ELSE phase' = "restore_schedule" /\ UNCHANGED <<pending, restoring>>
    /\ UNCHANGED <<tg, updates, verified, handlers, tasks, history>>

\* Variant: the elapsed time is slept again instead of the remaining time.
RestoredDelaysElapsed(record) ==
    IF record.age + 1 >= Timeout THEN {0} ELSE {record.age}

\* Variant: the remaining time is not cut off at zero.
RestoredDelaysUncut(record) == {Timeout - record.age - 1, Timeout - record.age}

\* restored_timer_delay: at once in the last tick, otherwise a fraction of a
\* tick before the deadline.
RestoredDelays(record) ==
    IF record.age + 1 >= Timeout THEN {0}
    ELSE {Timeout - record.age - 1, Timeout - record.age}

RestoreSchedule ==
    /\ phase = "restore_schedule"
    /\ \E d \in RestoredDelays(restoring) :
         RegisterTimer(restoring.challenge.private, d)
    /\ phase' = "up"
    /\ restoring' = NoRecord
    /\ UNCHANGED <<tg, updates, redis, handlers, history>>

Restore == Startup \/ RestoreRead \/ RestoreVerified \/ RestoreJoined \/ RestoreSchedule

-----------------------------------------------------------------------------
(* The user, the administrators and the clock                              *)

AtRest(t) == timers[t].pc \in {"free", "sleep"}

Quiet ==
    /\ updates = <<>>
    /\ \A h \in Handlers : At(h, "idle")
    /\ \A t \in Timers : AtRest(t)

\* What the clock waits for when Calm: a press may still be under way.
Settled ==
    /\ updates = <<>>
    /\ \A h \in Handlers : handlers[h].pc \in {"idle"} \cup PressSteps
    /\ \A t \in Timers : AtRest(t)

\* What a press waits for when Calm: no start of a verification is under way.
NoneStarting ==
    /\ \A i \in DOMAIN updates : updates[i] # "request"
    /\ \A h \in Handlers : handlers[h].pc \notin StartSteps

CanMove == Len(updates) < MaxUpdates /\ (Calm => Quiet)

Move(new, notice) ==
    /\ CanMove
    /\ tg' = new
    /\ updates' = updates \o notice
    /\ UNCHANGED <<redis, handlers, tasks, phase, restoring, earned>>

UserRequests ==
    /\ "request" \in Entrances /\ tg.member = "left" /\ ~tg.request
    /\ Move([tg EXCEPT !.request = TRUE], <<"request">>)
    /\ grant' = "none"

UserJoins ==
    LET new == [tg EXCEPT !.member = "member", !.request = FALSE] IN
    /\ "join" \in Entrances /\ tg.member = "left"
    /\ Move(new, MemberNotice(tg, new))
    /\ grant' = "none"

UserLeaves ==
    LET new == [tg EXCEPT !.member = "left"] IN
    /\ tg.member \in Inside
    /\ Move(new, MemberNotice(tg, new))
    /\ grant' = "none"

AdminApproves ==
    /\ "admin" \in Entrances /\ CanApprove(tg)
    /\ Move(Approve(tg), MemberNotice(tg, Approve(tg)))
    /\ grant' = "admin"

\* Withdrawn by the user or declined by an administrator: no update says so.
RequestDismissed ==
    /\ tg.request
    /\ Move(Decline(tg), <<>>)
    /\ UNCHANGED grant

UserPresses(c) ==
    /\ Len(updates) < MaxUpdates
    /\ Calm => NoneStarting
    /\ updates' = Append(updates, IF c.private THEN "press_private" ELSE "press_chat")
    /\ UNCHANGED <<tg, redis, handlers, tasks, phase, restoring, history>>

Environment ==
    \/ UserRequests \/ UserJoins \/ UserLeaves \/ AdminApproves \/ RequestDismissed
    \/ \E c \in tg.challenges : UserPresses(c)

Older(record) ==
    IF record = NoRecord \/ record.age = TTL THEN NoRecord
    ELSE [record EXCEPT !.age = @ + 1]

\* The event loop wakes a sleeper that is due before more time passes.  Redis
\* drops a record at its TTL; a copy being restored only gets older.
Tick ==
    /\ \A t \in Timers : TimerAt(t, "sleep") => timers[t].wait > 0
    /\ Calm => phase = "down" \/ (phase = "up" /\ Settled)
    /\ pending' = Older(pending)
    /\ timers' = [t \in Timers |->
           IF TimerAt(t, "sleep") THEN [timers[t] EXCEPT !.wait = @ - 1]
           ELSE timers[t]]
    /\ restoring' = IF restoring # NoRecord /\ restoring.age < TTL
                    THEN Older(restoring) ELSE restoring
    /\ UNCHANGED <<tg, updates, verified, handlers, registry, phase, history>>

-----------------------------------------------------------------------------
(* Specification                                                           *)

Init ==
    /\ tg = EmptyChat /\ updates = <<>>
    /\ pending = NoRecord /\ verified = FALSE
    /\ handlers = [h \in Handlers |-> Idle]
    /\ timers = [t \in Timers |-> Free] /\ registry = NoTimer
    /\ phase = "down" /\ restoring = NoRecord
    /\ earned = FALSE /\ grant = "none"

Handler(h) == Start(h) \/ Leave(h) \/ Press(h)

Next ==
    \/ \E h \in Handlers : Dispatch(h) \/ Handler(h)
    \/ \E t \in Timers : Timer(t)
    \/ Restore \/ Stop
    \/ Environment \/ Tick

Spec == Init /\ [][Next]_vars

\* The event loop runs every ready task and the process is restarted; time
\* passes.  Nothing is assumed of the user or of the administrators.
Fairness ==
    /\ WF_vars(\E h \in Handlers : Dispatch(h))
    /\ \A h \in Handlers : WF_vars(Handler(h))
    /\ \A t \in Timers : WF_vars(Timer(t))
    /\ WF_vars(Restore)
    /\ SF_vars(Tick)

FairSpec == Spec /\ Fairness

-----------------------------------------------------------------------------
(* Properties                                                              *)

\* A timeout task that is still alive is the one the registry names: no task
\* runs that cancel_verification_task could not reach (task.py:29-70).
RegistryTracksLiveTimer == \A t \in Timers : Live(timers[t]) => registry = t

\* The permanent verified marker is only ever written for somebody whose press
\* of a button made Telegram open the chat (approval.py:46-79), whatever calls
\* failed and wherever the process stopped.
MarkerIsEarned == verified => earned

\* While the bot polls, a pending record has somebody who will remove it: a
\* live timeout task, or a handler that is about to schedule one or to delete
\* the record (flow.py:58-83, approval.py:69-94, verification_restore.py:264-288).
PendingIsWatched ==
    phase = "up" /\ pending # NoRecord =>
        \/ \E t \in Timers : Live(timers[t])
        \/ \E h \in Handlers : handlers[h].pc \in {"schedule", "forget"}

\* Once the bot is through with what it has received, the task of a pending
\* record sleeps until the record is Timeout old, whatever calls failed and
\* however often the process was restarted on the way: a late task would find no
\* record any more, an early one removes a user who has time left (task.py:43-70,
\* verification_restore.py:50-61, 131-164, verification_timer.py:17-21).
TimerIsTimely ==
    phase = "up" /\ Quiet /\ pending # NoRecord =>
        \E t \in Timers :
            /\ TimerAt(t, "sleep") /\ registry = t
            /\ pending.age + timers[t].wait + 1 >= Timeout
            /\ timers[t].wait > 0 => pending.age + timers[t].wait <= Timeout

\* A timeout task acts on a record only once its time is up, give or take the
\* fraction of a tick a restored timer is early (timeout.py:94-103, 141-149,
\* verification_restore.py:50-61).
NoEarlyRemoval ==
    [][\A t \in Timers :
         TimerAt(t, "get") /\ timers'[t].pc \in {"ban", "notify", "decline"}
         => pending.age + 1 >= Timeout]_vars

\* The record is pending and a timeout task sleeps on it.
Watched ==
    /\ pending # NoRecord
    /\ \E t \in Timers : TimerAt(t, "sleep") /\ registry = t

\* Whenever the bot has nothing in flight, whoever asked to come in, or is in
\* the chat without having been let in, has a pending record and a timeout task
\* that sleeps on it (flow.py:28-92, 124-193; README.md:8, 18).
UnverifiedIsWatched ==
    phase = "up" /\ Quiet
    /\ (tg.request \/ tg.member = "restricted" \/ (tg.member = "member" /\ grant = "none"))
    => Watched

\* When the bot has nothing in flight, no challenge is left on display but the
\* one of the pending record, and no timeout task outlives the record it was
\* started for (flow.py:225-263, approval.py:69-114, timeout.py:104-128).
NothingLeftBehind ==
    phase = "up" /\ Quiet =>
        /\ \A c \in tg.challenges : pending # NoRecord /\ pending.challenge = c
        /\ \A t \in Timers : Live(timers[t]) => pending # NoRecord

\* A join request does not stay open for ever: it is approved, declined by the
\* timeout task (timeout.py:131-195) or withdrawn.
RequestIsResolved == tg.request ~> ~tg.request

\* A newcomer does not stay muted for ever: the mute ends with the press of the
\* button, or the timeout task removes the user (timeout.py:85-128).
MutedIsResolved == tg.member = "restricted" ~> tg.member # "restricted"

-----------------------------------------------------------------------------
(* What the documentation and the tests say and the code does not keep     *)

\* Who pressed the button of a join request has access (message.py:11,
\* README.md:139): the bot does not mute a user whom it has let in.
ApprovedIsNotMuted == grant = "callback" => tg.member # "restricted"

\* A removal is a kick: the ban is lifted again, so a user is not left banned
\* (tests/test_verification_timeout.py:48-49, README.md:18).
RemovalIsNotABan == phase = "up" /\ Quiet => tg.member # "kicked"

\* A restart restores the timeout task of a pending record (README.md:131): at
\* least for a user who sits muted in the chat.
RestoreKeepsWatch ==
    [][restoring # NoRecord /\ phase' = "up" /\ tg.member = "restricted"
       => \E t \in Timers : Live(timers'[t])]_vars
=============================================================================
