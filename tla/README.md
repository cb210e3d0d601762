# TLA+ verification of TelegramSpamGuardBot

The bot admits newcomers to Telegram groups, moderates messages and removes its
own temporary messages. It is one asyncio process that talks to two services it
does not control, Telegram and Redis. Its hard part is not any single function
but the awaits between them: every handler, timer and restore step can be
overtaken by another one, cut off by a restart, or left by an exception.

This directory holds TLA+ modules for that part, the TLC configurations that
check them, and proofs for TLAPS. `src/` below means the repository; paths that
begin with `app/` are under it.

## 1. Inventory

| component | state | operations | talks to |
|---|---|---|---|
| verification of newcomers (`usecase/verification`, `controller/v1/verification.py`) | one handler task per update; `VerificationTaskRegistry.timeout_task` | join request, join, leave, button press, timeout | Telegram, `verify:*` and `verified:*` in Redis |
| restore at startup (`bootstrap/verification_restore.py`, `verification_timer.py`, `lifecycle.py`) | the record being restored | read, drop, reschedule | Redis, Telegram, the registry |
| verification keys (`pending_verification.py`, `verified_user.py`, `redis/client.py`) | `verify:{chat}:{user}` with TTL, `verified:{chat}:{user}` without | create, get, delete, mark | Redis |
| durable removal of warnings (`moderation/auto_delete.py`, `warning_action.py`, `auto_delete_message.py`) | `auto_delete_message:*` with TTL; `AutoDeleteTaskRegistry`; in-memory fallback tasks | schedule, delete after delay, restore | Telegram, Redis |
| series of equal messages (`moderation/flood.py`, `flood_action.py`, `duplicate_message.py`) | `duplicate_message:*`, `..._warning:*`, `..._warning_grace:*`, each with TTL | record (Lua), mark once, warn, delete, kick, roll back | Telegram, Redis, durable removal |
| stop-word warning and action mode (`moderation/action.py`, `stop_word_warning.py`, `warning_action.py`, `spam_action.py`, `notification.py`) | `stop_word_warning:*` with TTL | mark once, warn, roll back, kick or notify | Telegram, Redis, runtime settings, durable removal |
| spam detector (`spam_detector.py`, `llm_cache.py`, `llm/`) | `llm:{sha256}` with TTL | check words, read cache, ask, cache | Redis, the LLM provider |
| runtime settings (`runtime_setting.py`, `admin/`) | `settings:action_mode:{chat}`, the legacy `settings:action_mode`, `settings:notification_target:{chat}` | set, reset, read, discard | Redis, administrators, the spam handlers |
| router, extraction, lifecycle, logging, configuration, texts | none that a protocol depends on | | |

aiogram runs every update as a task of its own, so handlers of the same user
overlap. Handlers and timers share the Redis keys and the registries; they also
influence each other through Telegram, because what the bot does to a member
comes back as an update (an approval is reported as a join, a ban as a leave).

What makes each component correct:

* **verification**: nobody unverified is in the chat unwatched; the timeout acts
  in time, on the right record, and removes only who did not pass; the permanent
  marker is written only for somebody who passed; no task runs that cannot be
  cancelled; requests and mutes come to an end, through restarts as well;
* **durable removal**: a written record is carried out, not early, whatever
  stops in between; nothing runs in the process for a job that is over;
* **series of messages**: only messages of a series are deleted, a series at the
  threshold is answered, nobody is kicked unwarned or in the grace period, and a
  mark that stays behind stands for a warning that was delivered;
* **stop words**: every message is judged whatever the LLM does, spam is
  answered, nobody is kicked for a first offence or unwarned, a kick ends with
  the unban, and a mark stands for a delivered warning;
* **runtime settings**: what an administrator was told is in force stays in
  force until somebody changes it, and a message is dealt with in a mode that
  was in force while it was handled.

The hazards behind these properties, each at its line, are in `PROJECT.json`.

## 2. Modules

| module | models | builds on |
|---|---|---|
| `Calls` | outcomes of an awaited call: `ok`, `refused`, `lost` | |
| `TelegramChat` | external: one user's membership, join request and challenge messages | |
| `Verification` | newcomers, timers, registry, restore | `TelegramChat`, `Calls` |
| `Verification_proofs` | theorems that need no premise | `Verification`, `TLAPS` |
| `VerificationCalm_proofs` | theorems with a Redis that answers and a user who does not outrun the bot | `Verification_proofs` |
| `VerificationPatient_proofs` | theorems when besides nothing fails | `VerificationCalm_proofs` |
| `DurableJobs` | abstract: what the durable removal promises | |
| `AutoDelete` | schedule, tasks, fallback, restore; implements `DurableJobs` | `Calls`, `DurableJobs` |
| `AutoDelete_proofs` | theorems, among them the refinement | `AutoDelete`, `TLAPS` |
| `DuplicateFlood` | series, mark, grace, warning, kick | `Calls` |
| `DuplicateFlood_proofs` | theorems about it | `DuplicateFlood`, `TLAPS` |
| `StopWords` | exemption, detector with LLM and cache, mark, warning, kick or notice | `Calls` |
| `StopWords_proofs` | theorems about it | `StopWords`, `TLAPS` |
| `RuntimeSettings` | mode keys, targets, commands, buttons and readers | `Calls` |
| `RuntimeSettings_proofs` | theorems about it | `RuntimeSettings`, `TLAPS` |
| `MC...` (one for each of the five) | the instances for TLC, with their symmetry sets | |

### Conventions

*An action is what a coroutine does from one await to the next*: the local code
after the previous await and the effect of the call it then awaits. That is
where the event loop can switch, so interleavings of actions are the
interleavings of the program. `handlers[h].pc` and `timers[t].pc` name the call
that is made next.

*Failing calls.* `Outcomes(possible, mayFail)` gives the answers of a call: it
is `ok`; it is `refused` and has no effect; or it is `lost`, that is, it took
effect and the caller still gets an exception. What the handler does then is
read off its `try` blocks: an exception that leaves the handler ends it, a
best-effort call goes on.

*Time* is a digital clock. A sleeper that is due is woken before more time
passes. The age of a key counts ticks since it was written; a key expires at
its TTL.

*One user of one chat.* Every key, task and registry entry is keyed by
`(chat_id, user_id)` (warnings: by `(chat_id, message_id)`), and no operation
reads another user's entry, so users do not interact. There are two exceptions.
The mode keys are kept by chat, and one of them for all: `RuntimeSettings` has
several chats and any number of updates. The LLM cache is kept by text: an
answer another user's message left there is one the handler could have got from
the LLM itself, so `StopWords` needs no other users.

*Variants.* Next to some actions stands the same action with a plausible
mistake in it, marked `\* Variant:`. No specification uses a variant; putting
one in the place of the action makes TLC report the property it is paired with in
`PROJECT.json`. That is how we know each property can fail.

### Verification

| in the model | in the code |
|---|---|
| `tg`, `updates` | the chat at Telegram, the updates it holds for the bot |
| `pending`, `verified` | the two Redis keys; `pending.age` stands for `created_at` and for the TTL |
| `handlers`, `Dispatch` | the tasks aiogram starts for updates |
| `timers`, `registry` | timeout tasks, alive or waiting for their done callback, and the registry entry of the user |
| `StartGet` ... `ScheduleTimer`, `Undo*` | `start_join_request_verification`, `start_member_verification` and their rollbacks |
| `LeaveGet`, `LeaveDelete`, `LeaveCancel` | `cleanup_pending_member_verification` |
| `PressGet` ... `TidyChallenge` | `complete_verification_from_callback`, `complete_pending_verification` |
| `TimerWake` ... `TimerTidy`, `TimerDone` | the two timeout tasks and the done callback |
| `Stop`, `Startup`, `Restore*` | shutdown or crash, and the restore before polling |
| `UserRequests` ... `UserPresses` | the user and the administrators |

`earned` and `grant` are history variables. Cancelling ends a task at the await
it stands at: the best-effort wrappers catch `Exception`, which
`CancelledError` is not.

### AutoDelete

`records` and `age` are the keys, `senders[m]` the handler that sends message
`m` and schedules its removal, `tasks[m]` the task (`durable` if it has a
record). `ReadRecord` is one `GET` of the listing, `RegisterListed` the loop
that registers tasks without an await. `promised` and `tried` are history.
`DurableJobs` speaks of jobs only: promised once the record is written, done
once the removal was attempted, lost only if the TTL ended while the bot was not
up. `JobsAreDurable` is that specification under the refinement mapping `Job`.

### DuplicateFlood

`series`, `warning`, `grace` are the three keys, `handlers[h]` the handlers of
the user's messages with the ids the script returned to them. `Record` is the
Lua script (one atomic step in Redis). `mark_warned_once` is two actions,
`MarkWarned` and `MarkGrace`, because it is two calls. `streak` and `warned` are
history: the messages of the present series counted without the cut at
`MaxTracked`, and the time since a warning was displayed. `delete_messages`
is a loop of best-effort calls that touch nothing else; it is one step.

### StopWords

| in the model | in the code |
|---|---|
| `posts` | the messages of the user that hold a stop word; what was decided about each and what became of it |
| `mark`, `cache` | `stop_word_warning:{chat}:{user}`, `llm:{digest}` |
| `Dispatch`, `CheckExempt` | `handle_text_message` up to the memoised administrator check |
| `CheckFlood` | `handle_duplicate_flood`, whose details are module `DuplicateFlood`: not a series, a series (perhaps a kick), or an exception |
| `LookupAnswer`, `Ask`, `FillCache`, `Judge` | `SpamDetectorService.detect` |
| `GetMode`, `MarkWarned`, `ClearMark`, `GetTarget` | `apply_moderation_action`, `apply_stop_word_warning` |
| `DeleteSpam`, `Warn`, `BanSpammer`, `UnbanSpammer`, `NotifyAdmin` | `warn_stop_word_spam`, `delete_spam_message`, `notify_admin_about_spam` |

`delivered` and `trouble` are history. `trouble` collects what has gone wrong in
the behaviour so far (a call that could have succeeded and did not, a restart,
two handlers at once, an exception of the handler of series), so that one run
with every fault shows each property under exactly the conditions it needs,
which the property names. `SwitchMode` is all this module needs of
`RuntimeSettings`: the mode may change at any moment.

### RuntimeSettings

`mode` holds the keys `settings:action_mode:{chat}` and, under `Everywhere`, the
legacy `settings:action_mode`, with values of either mode, none, or one no mode
has. A task is an update that is handled: `/mode` or a button (`Write`,
`WriteEverywhere`), `/notify` (`WriteTarget`), a panel or a spam message
(`ReadChat`, `ReadEverywhere`, `Discard`, `Apply`). A request to set or reset
`Everywhere` itself comes from buttons of earlier versions, whose data carries
no chat (`panel.py:18-30`). Of an authorisation only its outcome matters.

`promise[c]` is history: the mode an administrator of chat `c` was told is in
force, until a change that can break it begins. `seen` and `steady` of a task
are history too: which modes were in force in its chat while it was reading,
and whether the legacy key stayed as it was.

## 3. Runs

Bounds common to the `V_` runs: two handlers, two timer slots (a replaced task
waiting for its done callback, and its successor), two messages, which are as
many as can be on display or held at once, and one update waiting (two in
`V_Patient`). Times are as small as keeps the order of deadline, TTL and restart
interesting: `Timeout` 2 or 3, `Grace` 1.

`Calm = TRUE` restricts the *environment*, never the bot: the user and the
administrators change the membership only while nothing is in flight, a press
waits until no start of a verification is under way, and the clock ticks, while
the bot is up, only when no handler but a press is running. It separates what
the bot's own concurrency does from what happens if people outrun it. The
button press and the timeout still overlap freely, since a press may be under
way when the clock ticks.

| run | question | bounds worth knowing |
|---|---|---|
| `V_Patient` | is nobody unverified unwatched, nothing left behind, nobody removed early; do requests and mutes end? | `FairSpec`, all entrances, `Timeout` 3, no failures, `Calm` |
| `V_Refusals` | does a pending record keep its timer when Telegram refuses and the process restarts, and does that timer sleep exactly the remaining time? | all entrances; `Timeout` 3; Redis answers; `Calm` |
| `V_Overlap` | types; who is marked verified; is every live timeout task the registered one, when users outrun the bot, Redis fails and the process stops? | not `Calm`; joins only, `Timeout` 1 |
| `A_Durable` | types; has every record somebody who tries it; does the schedule implement `DurableJobs`; is a promised removal attempted while the bot stays up, and that of every warning sent, with or without a record? | `FairSpec`, two messages, everything fails |
| `F_Faults` | types; are only series deleted? | two handlers, three messages, tracking limit 2, everything fails, not `Calm` |
| `F_Serial` | does a mark that stays stand for a delivered warning, is every series answered, is every kick preceded by a warning and its grace period? | one handler at a time, seven messages, tracking limit above the threshold; Telegram fails |
| `M_StopWords` | types; is everything judged and spam answered; who is kicked, in what order with the warning; does a mark stand for a warning; does a kick end with the unban? | `FairSpec`; two handlers, two messages of one text, everything fails, restarts, mode switches |
| `S_Settings` | types; do promises stand; was the mode that is applied in force? | two updates at once, two chats, any keys to begin with, failing Redis, restarts |

Two messages of `M_StopWords` are a first offence and its repetition, and one
text makes them meet in the cache; the mark lives two ticks and the cache one,
so that either may be gone at the second. Two tasks of `S_Settings` are a
change with a change or a reader overlapping it, two chats a change of one with
the promise of the other; tasks come and go without a bound. That a mark is
right for several flood handlers is theorem `MarksAreDelivered`, and so is the
rest for any number of handlers, messages, chats and tasks.

Two messages of `AutoDelete` meet only in the listing of a restart. The seven
of `F_Serial` are two series of two, a third within or after the grace period,
and one to spare; the TTLs (window 2, grace 2, warning 3) differ so that every
order of expiry occurs. The tracking limit is 2 in `F_Faults`, where it cuts,
and 3 in `F_Serial`, one above the threshold.

Safety runs use symmetry in handlers, timers, messages and contents, which no
operator distinguishes; the runs with liveness or the refinement, and the
`V_` runs that end in a counterexample, use none.

Why properties are checked under the assumptions named in the table: with
failing Redis writes a record can stay without a task for its TTL (hazards at
`flow.py:58`), with users who outrun the bot two verifications can be started at
once, and two flood handlers race as the next section shows. The runs say what
holds without those and PROJECT.json what happens with them.

### Where the code does not do what is said of it

Four runs end in a counterexample to a statement of the documentation, the
tests or a comment; the findings in `PROJECT.json` quote it.

| run | what happens |
|---|---|
| `V_ApprovedMuted` | the bot's own approval comes back as a join, and the user who has just passed is muted and asked again |
| `V_KickIsBan` | the leave update of the ban cancels the timeout task before it has lifted the ban |
| `V_RestoreDrops` | the marker of an earlier stay makes the restore drop the record of a user who is muted now |
| `F_EarlyKick` | a second handler sees the mark but not yet the grace key, and kicks before the warning is sent |

Eight more are known and have no run; where a run shows them after a change of
its constants, that is said.

* A process that stops between the mark and the warning leaves a mark: the next
  series is a kick without a warning (`F_Serial` with `MayCrash = TRUE`).
* A threshold above the number of tracked ids is never reached, and no setting
  forbids it (`F_Serial` with `Threshold = 3`, `MaxTracked = 2`).
* A timeout task that read the record before a press forgot it removes the user
  who has just passed, if the press cancels it too late (`timeout.py:96`).
* A pending join request makes the bot skip the mute of a user who comes in by
  another link (`flow.py:137`); he is watched, but not muted.
* A late press deletes the record of a newer verification, because it names the
  record by chat and user only (`NoEarlyRemoval` under the constants of
  `V_Refusals`: the task of one verification then acts on the record of the
  next).
* In the mode `notify_admin` a first stop-word message is neither deleted nor
  answered with a warning, but reported: the mode is read first
  (`action.py:102`). `src/README.md:141` describes the warning for the first
  message and the action mode for a repetition.
* A second handler that finds the mark of a stop word kicks before the warning
  is displayed (`KickIsWarned` without its condition on `trouble`); both
  messages were judged spam (`KickIsRepeat`).
* A reader that found an unknown value deletes the key by name, and with it a
  mode an administrator has set there in between (`runtime_setting.py:46`).

A removal that Telegram refuses once is given up, record and all
(`auto_delete.py:148`): "tried", not "done", is what the durable removal
promises, and what `DurableJobs` says.

### Fairness

The event loop runs every ready task, so each handler, each timer and the
dispatch of waiting updates is weakly fair; the supervisor restarts the
process, so the restore is. A timer slot is weakly fair as a whole: it is never
waiting for anything but its own sleep. The clock is *strongly* fair because it
is disabled again and again while a due sleeper is woken, yet time does not
stop. In `StopWords` aiogram takes every message, and every awaited call ends,
at the latest by its timeout. Nothing is assumed of users, administrators, of the sending of warnings,
or of calls that fail.

## 4. Proofs

| theorem | establishes | argument |
|---|---|---|
| `Verification_proofs!TypesAreKept` | `TypeOK` | `RestoredInRange`: the delay of a restored timer and the ages stay in range |
| `Verification_proofs!OneTimerAlive` | `RegistryTracksLiveTimer` | inductive with `TypeOK`: registering cancels whom the registry names and takes a free slot; only `over` tasks are reaped |
| `Verification_proofs!MarkersAreEarned` | `MarkerIsEarned` | strengthened by: a handler at `mark` has let the user in |
| `VerificationCalm_proofs!RecordsAreWatched` | `PendingIsWatched`, if `Calm` and Redis answers | `CalmInv`, see below |
| `VerificationCalm_proofs!TimersAreTimely` | `TimerIsTimely`, on the same premises | `SleepFits`, a part of `CalmInv` |
| `VerificationPatient_proofs!UnverifiedAreWatched` | `UnverifiedIsWatched`, if `Patience` | `PatientInv`, see below |
| `VerificationPatient_proofs!NothingStaysBehind` | `NothingLeftBehind`, if `Patience` | the same invariant |
| `VerificationPatient_proofs!RemovalsAreTimely` | `NoEarlyRemoval`, if `Patience` | the same invariant, and: only `TimerGet` makes a task act |
| `AutoDelete_proofs!TypesAreKept` | `TypeOK` | the delay of a restored task is cut at zero and at `Delay` |
| `AutoDelete_proofs!RecordsHaveTasks` | `RecordHasTask` | a part of the invariant below |
| `AutoDelete_proofs!RecordsAreForgotten` | a record has its task also after the attempt, if Redis answers | strengthened by: a task that has tried is still there to forget |
| `AutoDelete_proofs!ScheduleIsDurable` | `Spec => JobsAreDurable` | see below |
| `DuplicateFlood_proofs!TypesAreKept` | `TypeOK` | the script cuts what it appends to |
| `DuplicateFlood_proofs!SeriesAreDeleted` | `OnlySeriesDeleted` | strengthened by: a handler's ids, and those of the stored series, are messages of one content, and handlers past the threshold test hold enough of them |
| `DuplicateFlood_proofs!MarksAreDelivered` | `MarkIsDelivered`, if Redis answers and the process lives | a mark was displayed since, or some handler is between setting it and taking it back |
| `DuplicateFlood_proofs!KicksComeAfterGrace` | `KickAfterGrace`, also if messages are handled one at a time, faster than a tick | see below |
| `DuplicateFlood_proofs!KicksAreWarned` | `KickIsWarned`, on the same premises | the same invariant |
| `DuplicateFlood_proofs!SeriesAreSeen` | no run's: whoever records a message at the threshold is given enough ids to see it, for any number of handlers and whatever fails, if the threshold is within the tracked ids | `CountInOrder`: the stored ids are distinct, as many as the streak is long, up to the limit, and nobody is about to record one of them again; `DistinctCount` turns their number into that of the set the handler counts |
| `DuplicateFlood_proofs!SeriesAreNoticed` | `SeriesIsNoticed`, if besides messages are handled one at a time, Redis answers and the process lives | `CountInOrder`, and `LookupInOrder` of the only handler, which keeps what it was given until it acts |
| `StopWords_proofs!TypesAreKept` | `TypeOK` | a step changes its own handler and message |
| `StopWords_proofs!KicksAreRepeated` | `KickIsRepeat`, whatever fails or overlaps | a mark was set for a message judged spam; a handler that kicks has another one; no two handlers have the same message |
| `StopWords_proofs!MarksAreDelivered` | `MarkIsDelivered`, its premises in the property | the mark is settled, or a handler is between setting it and taking it back |
| `StopWords_proofs!KicksAreWarned` | `KickIsWarned` | before two handlers have overlapped an idle handler means a settled mark |
| `StopWords_proofs!KicksAreNotBans` | `KickIsNotABan` | a banned user has a handler at `unban` |
| `RuntimeSettings_proofs!TypesAreKept` | `TypeOK` | what is decoded is a mode |
| `RuntimeSettings_proofs!PromisesStand` | `PromiseStands`, for any number of chats and tasks | strengthened by: while a promise stands, no task is about to change the chat's key, and that key holds the mode, or there is none, the legacy key means the environment's mode and nobody is about to set it |
| `RuntimeSettings_proofs!ReadsWereInForce` | `ReadWasInForce` | at each step of a reader, what it would find next it has seen in force |

The theorems assume only the named assumptions of the modules on their
constants, and what the second column says; they hold for any number of
handlers, slots and messages, any timeout, grace period, threshold and any
choice of what may fail.

The refinement needs an invariant of eight parts (`AutoDelete_proofs!IInv`)
because whether a job is *lost* depends on who still holds it: a record is only
in Redis if it was promised (`StoredIsPromised`), a tried job's task is past its
call (`TriedIsOver`), a task sleeps exactly the remaining delay (`TasksOnTime`),
which gives "not before its time", and a promised job that is neither tried nor
held is still stored until its TTL (`UntriedIsStored`, `RecordHasTask`), which
gives "lost only while down". Then each action is a step of `DurableJobs` or
stutters.

The mark and the kick need what the three keys say about the display of the
warning. `MarkIsShownOrMarking` says that a mark is no younger than the display,
unless the handler that has set it is still on its way; it is kept by any number
of handlers because the one that fails to send is the one that clears. For the
kick, `Settled` adds that the grace key, while it lives, is no older than the
display, so that its absence means the display is `Grace` ticks old. That is
lost as soon as a second handler may look between the two calls that set the
keys, which is what `F_EarlyKick` shows: the theorem's premise of one handler is
needed.

### The invariant behind the quiet states of Verification

What holds of `Verification` whenever the bot has nothing in flight rests on all
that a handler or task in flight may still do. The invariant has two layers, each
proved from the one before, with a lemma for every group of actions.

`CalmInv` (`VerificationCalm_proofs`) needs `Calm` and a Redis that answers;
Telegram may refuse and lose calls and the process may stop. Its first half,
`Flow`, is about updates and handlers: at most one start of a verification is
waiting or running (`OneStart`); while it is that of a join request nobody has
pressed and the user is outside (`RequestIsUndisturbed`); until a departure is
dealt with the user stays outside and no start gets as far as a record
(`LeavingIsOut`). Its second half, `Watch`, is about records and tasks: a start
on its way to a record finds none (`RecordIsOnly`); a task that acts on the old
record meets nobody about to write a new one for somebody in the chat
(`ActingIsAlone`); a press about to delete the record meets no start once a task
is due (`ForgetIsAlone`); a task that has deleted its record leaves a later one
to another watcher (`TidyIsReplaced`); a sleeping task wakes when the record is
`Timeout` old (`SleepFits`). `PendingIsWatched` is not inductive without these: a
departure, a press or a task deletes by chat and user, so each of them must be
shown never to meet a record it did not read.

`PatientInv` (`VerificationPatient_proofs`) adds what holds if besides Telegram
executes all it can and the process is not stopped (`Patience`, the constants of
`V_Patient`). `Tasks`: a task outlives its record only until the departure
cancels it (`ArmedHasRecord`), nobody gets a record while the task of another is
armed (`UnderwayHasNoTask`), the record stays until the press that opened the
chat deletes it, so that the joining which that press caused starts no
verification before (`OpenedKeepsRecord`), a task finds its record at its age
(`TaskFits`). `Display`: a challenge on display is the record's, or some handler
or task is about to hide it (`ShownIsKnown`). `Guarded`: whoever asked to come in
or is in the chat unverified has a record or a start on its way
(`RequestIsWatched`, `GuestIsWatched`). The clock is the delicate step: `Calm`
lets it tick under a running press, and `ExpiryMeetsForget` shows that Redis then
drops a record only if that press is about to delete it anyway.

No premise can be dropped. From the constants of `V_Refusals` with Telegram
answering and no crash (`Timeout` 2), TLC finds each of the five properties
violated when only Redis may fail, and when nothing fails but `Calm` is `FALSE`.
Each of the last three (`UnverifiedIsWatched`, `NothingLeftBehind`,
`NoEarlyRemoval`) is violated when only the process may stop, and when only
Telegram may fail (`NoEarlyRemoval` then needs three message ids): a decline that
Telegram refuses leaves a request which a late press approves, whose join then
gets a record that the same press deletes, and the orphaned task finds the record
of the next stay.

### Only model-checked

Liveness (`RequestIsResolved`, `MutedIsResolved`, `JobIsCarriedOut`,
`WarningIsTried`, `PostIsJudged`, `SpamIsAnswered`): fairness is outside the
prover's reach. Every other property of a passing run is stated by a theorem.

## 5. Abstractions

* Redis survives crashes of the bot, and executes calls one at a time. Calls
  that were in flight when their task was cancelled or the process stopped have
  either taken effect in the model (the action was taken) or never do.
* aiogram confirms updates as it takes them; an update taken before a crash is
  not delivered again.
* A privately shown challenge is one whose record has a `verification_chat_id`.
  Texts, markup, callback answers and topic ids are left out, and so are the
  success and timeout messages, which no code reads back.
* Corrupt keys and keys without TTL, which the restore removes, are left out:
  the program writes none. `SCAN` may return a key twice; the second pass
  registers an equal timer and is left out.
* A restored delay is a real number of seconds; in ticks it is rounded either
  way (`RestoredDelays`), so a restored timer may be early by less than a tick.
* Digests are model values: different contents never collide.
* `Rejoin`, `Post` and the environment of `Verification` are bounded by
  `MaxPosts` and `MaxUpdates`.
* Whether a user is an administrator does not change during a run of
  `DuplicateFlood` or `StopWords`; the check itself may fail.
* What an LLM answers is any of its three meanings, each time anew; texts are
  model values, all with a stop word. Messages without one stop at the detector
  and are those of `DuplicateFlood`.
* `DeletedElsewhere` stands for administrators and for the handler of a series.
* A promise of `RuntimeSettings` is made with the write: the answer that tells
  the administrator of it follows without touching a key.

## 6. Plan

Done: verification, durable removal with its abstract specification and
refinement proof, protection against series, stop words with detector and
cache, runtime settings; an inductive proof for each.

Left, in this order:

1. `Startup`: restore of many keys with `SCAN` while keys expire, one failing
   key among them.
2. Composition of `Verification` with the kicks of the two moderation handlers,
   whose ban and unban also come back as updates.
3. Proofs: what of `NoEarlyRemoval` is left when Telegram fails.

### Not modelled

Logging, configuration parsing, keyboards, texts and middleware keep no state
that the program reads back. Wiring (`application.py`), the command menu and the
closing of clients run once and hold no protocol. The extraction of texts from
messages and the matching of stop words are pure string functions without a
case that depends on state. `usecase/contract.py` holds only type signatures.
