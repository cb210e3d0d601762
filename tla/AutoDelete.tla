----------------------------- MODULE AutoDelete -----------------------------
(***************************************************************************)
(* The removal of the bot's temporary messages (warnings): the schedule    *)
(* kept in Redis, the tasks that carry it out, the in-memory fallback, and *)
(* the restore at startup (app/usecase/moderation/auto_delete.py and       *)
(* warning_action.py, the auto_delete_message repository).                 *)
(*                                                                         *)
(* A message id is scheduled once, by the handler that sent the message,   *)
(* so the handler, the record and the task of a message are indexed by it. *)
(* An action is what a coroutine does from one await to the next.          *)
(***************************************************************************)
EXTENDS Integers, Calls

CONSTANTS
    Messages,        \* temporary messages the bot may send
    Delay,           \* ..._WARNING_MESSAGE_TTL_SECONDS, in ticks
    Grace,           \* AUTO_DELETE_MESSAGE_CLEANUP_GRACE_SECONDS
    MayCrash,        \* the process may stop at any point and start again
    TelegramMayFail, \* a Telegram call may be refused or lose its answer
    RedisMayFail     \* likewise for Redis

ASSUME ConstantsAssumption ==
    /\ Delay \in Nat /\ Grace \in Nat \ {0}
    /\ {MayCrash, TelegramMayFail, RedisMayFail} \subseteq BOOLEAN

TTL == Delay + Grace

VARIABLES
    shown,      \* Telegram: the temporary messages on display
    records,    \* Redis: the messages with an auto_delete_message:* key
    age,        \* ticks since the record of the message was written
    senders,    \* the handler that sends the message and schedules its removal
    tasks,      \* the task that is to remove the message
    phase,      \* of the process: "down", "listing" the records, "up"
    unread,     \* keys the listing has still to read
    listed,     \* records the listing has read
    promised,   \* history: messages whose record has been written
    tried       \* history: messages whose removal has been attempted

vars == <<shown, records, age, senders, tasks, phase, unread, listed,
          promised, tried>>

listing == <<unread, listed>>

SenderStates == {"none", "create", "register", "fallback", "over"}

TaskStates == [pc      : {"none", "sleep", "delete", "forget"},
               durable : BOOLEAN,
               wait    : 0..Delay]

NoTask == [pc |-> "none", durable |-> FALSE, wait |-> 0]

TypeOK ==
    /\ shown \subseteq Messages
    /\ records \subseteq Messages
    /\ age \in [Messages -> 0..TTL]
    /\ senders \in [Messages -> SenderStates]
    /\ tasks \in [Messages -> TaskStates]
    /\ phase \in {"down", "listing", "up"}
    /\ unread \subseteq Messages
    /\ listed \subseteq Messages
    /\ promised \subseteq Messages
    /\ tried \subseteq Messages

Telegram(possible) == Outcomes(possible, TelegramMayFail)
Redis == Outcomes(TRUE, RedisMayFail)

-----------------------------------------------------------------------------
(* Sending a warning and scheduling its removal                            *)

SendWarning(m) ==
    /\ phase = "up" /\ senders[m] = "none"
    /\ \E o \in Telegram(TRUE) :
         /\ shown' = IF o = "refused" THEN shown ELSE shown \cup {m}
         /\ senders' = [senders EXCEPT ![m] = IF o = "ok" THEN "create" ELSE "over"]
    /\ UNCHANGED <<records, age, tasks, phase, listing, promised, tried>>

CreateRecord(m) ==
    /\ senders[m] = "create"
    /\ \E o \in Redis :
         /\ records' = IF o = "refused" THEN records ELSE records \cup {m}
         /\ promised' = IF o = "refused" THEN promised ELSE promised \cup {m}
         /\ senders' = [senders EXCEPT ![m] = IF o = "ok" THEN "register" ELSE "fallback"]
    /\ UNCHANGED <<shown, age, tasks, phase, listing, tried>>

\* Variant: without a record nothing is scheduled.
ScheduleTaskNoFallback(m) ==
    /\ senders[m] \in {"register", "fallback"}
    /\ tasks' = IF senders[m] = "fallback" THEN tasks
                ELSE [tasks EXCEPT ![m] = [pc |-> "sleep", durable |-> TRUE, wait |-> Delay]]
    /\ senders' = [senders EXCEPT ![m] = "over"]
    /\ UNCHANGED <<shown, records, age, phase, listing, promised, tried>>

\* register_auto_delete_task, or the in-memory task when the record could not
\* be written.  No task of the message exists yet, so none is replaced.
ScheduleTask(m) ==
    /\ senders[m] \in {"register", "fallback"}
    /\ tasks' = [tasks EXCEPT ![m] =
           [pc |-> "sleep", durable |-> senders[m] = "register", wait |-> Delay]]
    /\ senders' = [senders EXCEPT ![m] = "over"]
    /\ UNCHANGED <<shown, records, age, phase, listing, promised, tried>>

Sender(m) == SendWarning(m) \/ CreateRecord(m) \/ ScheduleTask(m)

-----------------------------------------------------------------------------
(* delete_auto_delete_message_after_delay, and for the tasks without a     *)
(* record delete_message_after_delay                                       *)

TaskWake(m) ==
    /\ tasks[m].pc = "sleep" /\ tasks[m].wait = 0
    /\ tasks' = [tasks EXCEPT ![m].pc = "delete"]
    /\ UNCHANGED <<shown, records, age, senders, phase, listing, promised, tried>>

\* Whether Telegram agreed makes no difference to what follows.
TaskDelete(m) ==
    /\ tasks[m].pc = "delete"
    /\ \E o \in Telegram(m \in shown) :
         shown' = IF o = "refused" THEN shown ELSE shown \ {m}
    /\ tasks' = IF tasks[m].durable THEN [tasks EXCEPT ![m].pc = "forget"]
                ELSE [tasks EXCEPT ![m] = NoTask]
    /\ tried' = tried \cup {m}
    /\ UNCHANGED <<records, age, senders, phase, listing, promised>>

TaskForget(m) ==
    /\ tasks[m].pc = "forget"
    /\ \E o \in Redis : records' = IF o = "refused" THEN records ELSE records \ {m}
    /\ tasks' = [tasks EXCEPT ![m] = NoTask]
    /\ UNCHANGED <<shown, age, senders, phase, listing, promised, tried>>

Task(m) == TaskWake(m) \/ TaskDelete(m) \/ TaskForget(m)

-----------------------------------------------------------------------------
(* Stop, start, and restore_auto_delete_message_tasks                      *)

\* A crash, or on_shutdown with cancel_all: every coroutine ends where it is.
Stop ==
    /\ MayCrash /\ phase # "down"
    /\ phase' = "down"
    /\ senders' = [m \in Messages |-> IF senders[m] = "none" THEN "none" ELSE "over"]
    /\ tasks' = [m \in Messages |-> NoTask]
    /\ unread' = {} /\ listed' = {}
    /\ UNCHANGED <<shown, records, age, promised, tried>>

StartListing ==
    /\ phase = "down"
    /\ phase' = "listing" /\ unread' = records
    /\ UNCHANGED <<shown, records, age, senders, tasks, listed, promised, tried>>

\* SCAN and one GET per key; the record may have expired in between, and a
\* call that fails aborts the startup.
ReadRecord(m) ==
    /\ phase = "listing" /\ m \in unread
    /\ \E o \in Redis :
         IF o = "ok"
         THEN /\ listed' = listed \cup ({m} \cap records)
              /\ unread' = unread \ {m}
              /\ UNCHANGED phase
         ELSE phase' = "down" /\ unread' = {} /\ listed' = {}
    /\ UNCHANGED <<shown, records, age, senders, tasks, promised, tried>>

\* Variant: the delay of the schedule is slept again after a restart.
DelayElapsed(m) == IF age[m] >= Delay THEN 0 ELSE age[m]

\* Variant: a removal that fell due while the process was down is skipped.
RegisterNotDue ==
    /\ phase = "listing" /\ unread = {}
    /\ tasks' = [m \in Messages |->
           IF m \in listed /\ age[m] < Delay
           THEN [pc |-> "sleep", durable |-> TRUE, wait |-> Delay - age[m]]
           ELSE tasks[m]]
    /\ phase' = "up" /\ listed' = {}
    /\ UNCHANGED <<shown, records, age, senders, unread, promised, tried>>

\* Variant: the delay is not cut off at zero.
DelayUncut(m) == Delay - age[m]

\* delay_until_auto_delete
DelayUntil(m) == IF age[m] >= Delay THEN 0 ELSE Delay - age[m]

\* The tasks are registered without an await in between; a key SCAN returned
\* twice only replaces a task that has not begun by an equal one.
RegisterListed ==
    /\ phase = "listing" /\ unread = {}
    /\ tasks' = [m \in Messages |->
           IF m \in listed THEN [pc |-> "sleep", durable |-> TRUE, wait |-> DelayUntil(m)]
           ELSE tasks[m]]
    /\ phase' = "up" /\ listed' = {}
    /\ UNCHANGED <<shown, records, age, senders, unread, promised, tried>>

Restore == StartListing \/ (\E m \in Messages : ReadRecord(m)) \/ RegisterListed

-----------------------------------------------------------------------------
(* The clock                                                               *)

\* The event loop wakes a sleeper that is due before more time passes; Redis
\* drops a record at its TTL.
Tick ==
    LET Older(m) == IF m \in promised /\ age[m] < TTL THEN age[m] + 1 ELSE age[m] IN
    /\ \A m \in Messages : tasks[m].pc = "sleep" => tasks[m].wait > 0
    /\ age' = [m \in Messages |-> Older(m)]
    /\ records' = {m \in records : Older(m) < TTL}
    /\ tasks' = [m \in Messages |->
           IF tasks[m].pc = "sleep" THEN [tasks[m] EXCEPT !.wait = @ - 1] ELSE tasks[m]]
    /\ UNCHANGED <<shown, senders, phase, listing, promised, tried>>

-----------------------------------------------------------------------------
(* Specification                                                           *)

Init ==
    /\ shown = {} /\ records = {} /\ age = [m \in Messages |-> 0]
    /\ senders = [m \in Messages |-> "none"]
    /\ tasks = [m \in Messages |-> NoTask]
    /\ phase = "down" /\ unread = {} /\ listed = {}
    /\ promised = {} /\ tried = {}

Next ==
    \/ \E m \in Messages : Sender(m) \/ Task(m)
    \/ Restore \/ Stop \/ Tick

Spec == Init /\ [][Next]_vars

\* The event loop runs every ready coroutine, the process is restarted, and
\* time passes.  That a warning is ever sent is not assumed.
Fairness ==
    /\ \A m \in Messages : /\ WF_vars(CreateRecord(m) \/ ScheduleTask(m))
                           /\ WF_vars(Task(m))
    /\ WF_vars(Restore)
    /\ SF_vars(Tick)

FairSpec == Spec /\ Fairness

-----------------------------------------------------------------------------
(* Properties                                                              *)

\* Somebody in the process knows of the job.
Held(m) ==
    \/ tasks[m].pc # "none"
    \/ m \in listed
    \/ senders[m] \in {"register", "fallback"}

\* Whatever fails, when the bot is up every record of a message nobody has
\* tried to remove has somebody in the process who will: its task, or the
\* handler that is about to start one (auto_delete.py:42-56, 158-188;
\* warning_action.py:62-96).
RecordHasTask ==
    phase = "up" => \A m \in records : m \in tried \/ Held(m)

Lost(m) == m \in promised /\ m \notin tried /\ m \notin records /\ ~Held(m)

\* The jobs as the owner of the chat sees them.
Job == [m \in Messages |->
           IF m \notin promised THEN "none"
           ELSE IF m \in tried THEN "done"
           ELSE IF Lost(m) THEN "lost" ELSE "promised"]

Jobs == INSTANCE DurableJobs WITH job <- Job, up <- phase = "up"

\* A removal whose record was written survives every crash, restart and lost
\* call: it is attempted, not before its time, unless the bot was not up when
\* the record expired (auto_delete.py:136-155, 158-208; README.md:256).
JobsAreDurable == Jobs!Spec

\* As long as the bot stays up, a removal that was promised, before or after a
\* restart, is attempted in the end (auto_delete.py:124-155, 158-188).
JobIsCarriedOut ==
    \A m \in Messages :
        (m \in promised /\ ~Lost(m)) ~> (m \in tried \/ phase # "up")

\* A warning that was sent is not left on display without an attempt to remove
\* it while the bot stays up, even if its schedule could not be written to Redis
\* (warning_action.py:58-96, flood_action.py:117-129; README.md:141).
WarningIsTried ==
    \A m \in Messages : (senders[m] = "create") ~> (m \in tried \/ phase # "up")
=============================================================================
