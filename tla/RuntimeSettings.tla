-------------------------- MODULE RuntimeSettings --------------------------
(***************************************************************************)
(* The settings administrators change while the bot runs: the Redis keys   *)
(* of app/infrastructure/redis/repository/runtime_setting.py, the commands *)
(* and the panel buttons of app/bot/controller/v1/admin/ that write them,  *)
(* and the handlers of spam messages that read the action mode.            *)
(*                                                                         *)
(* A chat's action mode is looked up in a key of its own, then in the key  *)
(* Everywhere that earlier versions used for all chats, then in the        *)
(* environment.  Every task is one update aiogram handles; an action is    *)
(* what it does from one await to the next.                                *)
(***************************************************************************)
EXTENDS Calls

CONSTANTS
    Chats,           \* chats that use the bot
    Tasks,           \* updates aiogram can handle at once
    Default,         \* ACTION_MODE of the environment
    Targets,         \* whom notifications can be sent to
    Everywhere,      \* the key settings:action_mode without a chat
    None,            \* an absent key; as the value of a request, a reset
    Unknown,         \* a value no ActionMode has, left by another version
    MayCrash, RedisMayFail

Modes == {"delete", "notify_admin"}
Scopes == Chats \cup {Everywhere}

ASSUME ConstantsAssumption ==
    /\ Default \in Modes
    /\ {MayCrash, RedisMayFail} \subseteq BOOLEAN
    /\ Everywhere \notin Chats
    /\ None \notin Modes \cup Targets /\ Unknown \notin Modes \cup {None}

VARIABLES
    mode,       \* Redis: settings:action_mode[:{chat}], by scope
    target,     \* Redis: settings:notification_target:{chat}
    tasks,      \* the running handlers
    promise     \* history: the mode a chat was told and nobody has changed since

vars == <<mode, target, tasks, promise>>

\* What a task is asked: to change the mode of a scope, to change the target
\* of a chat, to show the panel of a chat, or to act on spam in a chat.
Changes == [kind : {"mode"}, scope : Scopes, value : Modes \cup {None}]
Notifies == [kind : {"notify"}, scope : Chats, value : Targets \cup {None}]
Readings == [kind : {"panel", "spam"}, scope : Chats, value : {None}]
Requests == Changes \cup Notifies \cup Readings

ReadSteps == {"read", "read_everywhere", "discard"}
Steps == {"idle", "authorise", "write", "write_everywhere", "write_target", "apply"}
         \cup ReadSteps

\* Besides its request a task holds the key it found an Unknown value in and
\* the mode it has read.  History, for the time it reads: the modes that were
\* in force in its chat, and whether the key Everywhere stayed as it was.
TaskStates == [pc : Steps, request : Requests, key : Scopes, found : Modes,
               seen : SUBSET Modes, steady : BOOLEAN]

Keys == [Scopes -> Modes \cup {Unknown, None}]

TypeOK ==
    /\ mode \in Keys
    /\ target \in [Chats -> Targets \cup {None}]
    /\ tasks \in [Tasks -> TaskStates]
    /\ promise \in [Chats -> Modes \cup {None}]

Redis == Outcomes(TRUE, RedisMayFail)
Written(o, old, new) == IF o = "refused" THEN old ELSE new

-----------------------------------------------------------------------------
(* The mode in force                                                       *)

Resolved(raw) == IF raw \in Modes THEN raw ELSE Default

\* What get_action_mode returns for a scope if no key changes meanwhile.
InForceBy(keys, s) == Resolved(IF keys[s] = None THEN keys[Everywhere] ELSE keys[s])

InForce(s) == InForceBy(mode, s)

-----------------------------------------------------------------------------
(* Stepping a task                                                         *)

At(t, pc) == tasks[t].pc = pc
Scope(t) == tasks[t].request.scope
Value(t) == tasks[t].request.value

\* An idle task keeps nothing; its request stands for any.
Idle == [pc |-> "idle", request |-> [kind |-> "mode", scope |-> Everywhere, value |-> None],
         key |-> Everywhere, found |-> Default, seen |-> {}, steady |-> TRUE]

Moved(t, pc) == [tasks EXCEPT ![t].pc = pc]
Returned(t) == [tasks EXCEPT ![t] = Idle]
Reading(task) == [task EXCEPT !.pc = "read", !.seen = {InForce(task.request.scope)}]

\* What a reader sees of the keys becoming keys.
Watched(task, keys) ==
    IF task.pc \notin ReadSteps THEN task
    ELSE [task EXCEPT !.seen = @ \cup {InForceBy(keys, task.request.scope)},
                      !.steady = @ /\ keys[Everywhere] = mode[Everywhere]]

\* The mode keys become keys, and the tasks after.
Store(keys, after) ==
    /\ mode' = keys
    /\ tasks' = [t \in Tasks |-> Watched(after[t], keys)]

\* A task is about to change the mode key of a chat.
Changing(t, c) ==
    \/ At(t, "write") /\ Scope(t) = c
    \/ At(t, "discard") /\ tasks[t].key = c

\* A task is about to set the mode of all chats without a key of their own.
ChangingAll(t) == At(t, "write") /\ Scope(t) = Everywhere /\ Value(t) # None

Begin(t) ==
    /\ At(t, "idle")
    /\ \E r \in Requests :
         LET begun == [Idle EXCEPT !.request = r]
         IN  tasks' = [tasks EXCEPT ![t] =
                         IF r.kind = "spam" THEN Reading(begun)
                         ELSE [begun EXCEPT !.pc = "authorise"]]
    /\ UNCHANGED <<mode, target, promise>>

\* Who is an administrator is Telegram's business: the check goes either way.
\* A change that begins ends the promises it can break.
Authorise(t) ==
    /\ At(t, "authorise")
    /\ \/ tasks' = Returned(t) /\ UNCHANGED promise
       \/ /\ tasks[t].request.kind = "mode"
          /\ tasks' = Moved(t, "write")
          /\ promise' = [c \in Chats |->
                IF \/ Scope(t) = c
                   \/ Scope(t) = Everywhere /\ Value(t) # None /\ mode[c] = None
                THEN None ELSE promise[c]]
       \/ /\ tasks[t].request.kind = "notify"
          /\ tasks' = Moved(t, "write_target") /\ UNCHANGED promise
       \/ /\ tasks[t].request.kind = "panel"
          /\ tasks' = [tasks EXCEPT ![t] = Reading(@)] /\ UNCHANGED promise
    /\ UNCHANGED <<mode, target>>

-----------------------------------------------------------------------------
(* Changing the mode                                                       *)

\* The administrator of chat c is told that mode m is in force there.  It is a
\* promise unless another task is about to change the keys it rests on.
Told(t, c, m) ==
    promise' = IF c = Everywhere \/ \E u \in Tasks \ {t} : Changing(u, c)
               THEN promise ELSE [promise EXCEPT ![c] = m]

\* set_action_mode, or the first call of reset_action_mode.
Write(t) ==
    /\ At(t, "write")
    /\ \E o \in Redis :
         /\ Store(Written(o, mode, [mode EXCEPT ![Scope(t)] = Value(t)]),
                  IF o = "ok" /\ Value(t) = None /\ Scope(t) # Everywhere
                  THEN Moved(t, "write_everywhere") ELSE Returned(t))
         /\ IF o = "ok" /\ Value(t) # None
            THEN Told(t, Scope(t), Value(t)) ELSE UNCHANGED promise
    /\ UNCHANGED target

\* Variant: a reset leaves the key Everywhere alone.
WriteChatOnly(t) ==
    /\ At(t, "write_everywhere")
    /\ Told(t, Scope(t), Default)
    /\ tasks' = Returned(t)
    /\ UNCHANGED <<mode, target>>

\* The second call of reset_action_mode.
WriteEverywhere(t) ==
    /\ At(t, "write_everywhere")
    /\ \E o \in Redis :
         /\ Store(Written(o, mode, [mode EXCEPT ![Everywhere] = None]), Returned(t))
         /\ IF /\ o = "ok" /\ mode[Scope(t)] = None
               /\ \A u \in Tasks : ~ChangingAll(u)
            THEN Told(t, Scope(t), Default) ELSE UNCHANGED promise
    /\ UNCHANGED target

\* set_notification_target or reset_notification_target.
WriteTarget(t) ==
    /\ At(t, "write_target")
    /\ \E o \in Redis :
         target' = [target EXCEPT ![Scope(t)] = Written(o, @, Value(t))]
    /\ tasks' = Returned(t)
    /\ UNCHANGED <<mode, promise>>

-----------------------------------------------------------------------------
(* get_action_mode, for a panel or for a spam message                      *)

Found(t, m) == [tasks EXCEPT ![t].pc = "apply", ![t].found = m]

\* Variant: the value is taken as it was found.
DecodedUnchecked(t, s) == Found(t, mode[s])

\* What a reader does with the value of a key that is not absent.
Decoded(t, s) ==
    IF mode[s] \in Modes THEN Found(t, mode[s])
    ELSE [tasks EXCEPT ![t].pc = "discard", ![t].key = s]

\* Variant: the key of the chat is not looked at when the other is set.
ReadEverywhereFirst(t) ==
    /\ At(t, "read")
    /\ \E o \in Redis :
         tasks' = IF o # "ok" THEN Returned(t)
                  ELSE IF mode[Everywhere] \in Modes \/ mode[Scope(t)] = None
                       THEN Moved(t, "read_everywhere")
                       ELSE Decoded(t, Scope(t))
    /\ UNCHANGED <<mode, target, promise>>

ReadChat(t) ==
    /\ At(t, "read")
    /\ \E o \in Redis :
         tasks' = IF o # "ok" THEN Returned(t)
                  ELSE IF mode[Scope(t)] = None THEN Moved(t, "read_everywhere")
                       ELSE Decoded(t, Scope(t))
    /\ UNCHANGED <<mode, target, promise>>

ReadEverywhere(t) ==
    /\ At(t, "read_everywhere")
    /\ \E o \in Redis :
         tasks' = IF o # "ok" THEN Returned(t)
                  ELSE IF mode[Everywhere] = None THEN Found(t, Default)
                       ELSE Decoded(t, Everywhere)
    /\ UNCHANGED <<mode, target, promise>>

\* A value of no mode is deleted with its key, whatever the key holds by now.
Discard(t) ==
    /\ At(t, "discard")
    /\ \E o \in Redis :
         Store(Written(o, mode, [mode EXCEPT ![tasks[t].key] = None]),
               IF o = "ok" THEN Found(t, Default) ELSE Returned(t))
    /\ UNCHANGED <<target, promise>>

\* The panel is shown, or the spam is dealt with in the mode that was read.
Apply(t) ==
    /\ At(t, "apply")
    /\ tasks' = Returned(t)
    /\ UNCHANGED <<mode, target, promise>>

\* The process stops and is started again: nothing is restored for tasks.
Restart ==
    /\ MayCrash /\ \E t \in Tasks : ~At(t, "idle")
    /\ tasks' = [t \in Tasks |-> Idle]
    /\ UNCHANGED <<mode, target, promise>>

-----------------------------------------------------------------------------
(* Specification                                                           *)

\* The keys may hold what administrators and earlier versions left in them.
Init ==
    /\ mode \in Keys
    /\ target = [c \in Chats |-> None]
    /\ tasks = [t \in Tasks |-> Idle]
    /\ promise = [c \in Chats |-> None]

Handle(t) ==
    \/ Begin(t) \/ Authorise(t)
    \/ Write(t) \/ WriteEverywhere(t) \/ WriteTarget(t)
    \/ ReadChat(t) \/ ReadEverywhere(t) \/ Discard(t) \/ Apply(t)

Next == Restart \/ \E t \in Tasks : Handle(t)

Spec == Init /\ [][Next]_vars

-----------------------------------------------------------------------------
(* Properties                                                              *)

\* What an administrator was told is in force in his chat stays in force until
\* another change of it begins, whatever is set or reset in other chats
\* meanwhile; told while a task is about to change the same keys is excepted
\* (runtime_setting.py:57-72, command.py:97-132; README.md:288).
PromiseStands ==
    \A c \in Chats : promise[c] # None => InForce(c) = promise[c]

\* The mode a message is dealt with in was in force at some moment while it
\* was looked up, as long as the key of all chats does not change between the
\* two reads (runtime_setting.py:25-55).
ReadWasInForce ==
    \A t \in Tasks :
        At(t, "apply") /\ tasks[t].steady => tasks[t].found \in tasks[t].seen
=============================================================================
