----------------------- MODULE VerificationPatient_proofs -----------------------
(***************************************************************************)
(* Proofs about Verification when besides (see VerificationCalm_proofs)    *)
(* Telegram executes every call it can execute (~TelegramMayFail) and the  *)
(* process is not stopped (~MayCrash).                                     *)
(***************************************************************************)
EXTENDS VerificationCalm_proofs

-----------------------------------------------------------------------------
(* Who is under way                                                        *)

\* The press of a button shown privately, or in the chat.
PressOf(private) ==
    \/ Queued(IF private THEN "press_private" ELSE "press_chat")
    \/ \E h \in Handlers : handlers[h].pc \in PressSteps /\ handlers[h].private = private

\* Start steps once the user is known to be new and muted.
UnderwayPCs == {"send", "create", "schedule"}

\* Press steps once the chat is open.
OpenedPCs == {"mark", "forget"}

\* Steps of a timeout task that is not through with its record.
ArmedPCs == {"sleep", "get"} \cup ActingPCs

\* Whoever is in the chat without having been let in.
Guest == tg.member = "restricted" \/ (tg.member = "member" /\ grant = "none")

-----------------------------------------------------------------------------
(* The inductive invariant: records, handlers and timeout tasks            *)

IdleBeforeUp ==
    phase # "up" =>
        /\ phase \in {"down", "restore_read"}
        /\ pending = NoRecord /\ restoring = NoRecord /\ tg.challenges = {}

\* A start is taken back only when the user is out of the chat again.
UndoneIsOut ==
    \A h \in Handlers :
        /\ handlers[h].pc \notin {"undo_message", "undo_decline"}
        /\ handlers[h].pc \in {"restrict", "undo_ban", "undo_unban"} => ~handlers[h].private
        /\ handlers[h].pc \in {"undo_ban", "undo_unban"} => tg.member \in Outside

\* A task outlives its record only until the departure cancels it.
ArmedHasRecord ==
    \A t \in Timers : timers[t].pc \in ArmedPCs /\ pending = NoRecord =>
        \E h \in Handlers : handlers[h].pc = "leave_cancel"

\* A press about to delete the record has cancelled the task for good.
ForgetHasNoTask ==
    \A h \in Handlers, t \in Timers :
        handlers[h].pc = "forget" => timers[t].pc \in {"free", "over"}

\* A task is scheduled for the record its handler has written.
ScheduleHasRecord ==
    \A h \in Handlers :
        /\ handlers[h].pc \in {"create", "schedule"}
               => handlers[h].held.private = handlers[h].private
        /\ handlers[h].pc = "schedule"
               => pending # NoRecord /\ pending.challenge = handlers[h].held

\* Nobody gets a new record while the task of another one is armed.
UnderwayHasNoTask ==
    \A h \in Handlers, t \in Timers : timers[t].pc \in ArmedPCs =>
        /\ handlers[h].pc \notin UnderwayPCs
        /\ handlers[h].pc = "restrict" => tg.member \in Outside

\* Whoever came in and is getting a record is in the chat.
UnderwayIsInside ==
    \A h \in Handlers :
        handlers[h].pc \in UnderwayPCs /\ ~handlers[h].private => tg.member \in Inside

\* The record stays until the press that opened the chat deletes it, so the
\* joining it caused starts no verification before.
OpenedKeepsRecord ==
    \A h \in Handlers : handlers[h].pc \in OpenedPCs /\ tg.member \in Inside =>
        /\ StartOf(FALSE) => pending # NoRecord
        /\ \A g \in Handlers : handlers[g].pc \notin {"restrict"} \cup UnderwayPCs

\* One press at most approves a join request.
OneApproved ==
    \A g, h \in Handlers :
        /\ handlers[g].pc \in OpenedPCs /\ handlers[g].private
        /\ handlers[h].pc \in OpenedPCs /\ handlers[h].private
        => g = h

\* The record of somebody who came in is his who is in, or about to be deleted.
ChatRecordIsInside ==
    pending # NoRecord /\ ~pending.challenge.private => tg.member \in Inside \/ Leaving

\* While a join request is open, no button in the chat is shown or pressed,
RequestIsPrivate ==
    tg.request => ~PressOf(FALSE) /\ \A c \in tg.challenges : c.private

\* nor is one from the joining to the challenge it leads to.
JoinIsPrivate ==
    /\ StartOf(FALSE) => ~PressOf(FALSE)
    /\ \/ Queued("joined")
       \/ \E h \in Handlers :
              /\ handlers[h].pc \in StartSteps \ {"create", "schedule"}
              /\ ~handlers[h].private
       => \A c \in tg.challenges : c.private

\* The task is of the kind of its record.
TaskMatchesRecord ==
    \A t \in Timers : timers[t].pc \in ArmedPCs /\ pending # NoRecord =>
        timers[t].private = pending.challenge.private

\* The task of somebody who came in meets no new join request.
ChatTaskMeetsNoRequest ==
    \A t \in Timers :
        timers[t].pc \in ArmedPCs \cup {"tidy"} /\ ~timers[t].private => ~StartOf(TRUE)

\* A press about to open the chat holds the challenge of the record.
OpenHoldsRecord ==
    \A h \in Handlers :
        handlers[h].pc = "open" /\ (~handlers[h].private \/ tg.request) =>
            /\ pending # NoRecord => handlers[h].held = pending.challenge
            /\ handlers[h].private => pending # NoRecord

\* A task that has removed the user finds him out, and no open request.
RemovedIsOut ==
    \A t \in Timers :
        /\ timers[t].pc \in {"unban", "delete", "tidy"} => tg.member \in Outside
        /\ timers[t].pc \in {"ban", "unban", "delete", "tidy"} => ~tg.request

\* Nobody acts earlier than the record says.
TaskFits ==
    \A t \in Timers : pending # NoRecord =>
        /\ timers[t].pc = "sleep" => Fits(t)
        /\ timers[t].pc = "get" => pending.age + 1 >= Timeout

Tasks ==
    /\ IdleBeforeUp /\ UndoneIsOut /\ ArmedHasRecord /\ ForgetHasNoTask
    /\ ScheduleHasRecord /\ UnderwayHasNoTask /\ UnderwayIsInside /\ OpenedKeepsRecord
    /\ OneApproved /\ ChatRecordIsInside /\ RequestIsPrivate /\ JoinIsPrivate
    /\ TaskMatchesRecord /\ ChatTaskMeetsNoRequest /\ OpenHoldsRecord /\ RemovedIsOut
    /\ TaskFits

-----------------------------------------------------------------------------
(* The inductive invariant: challenges on display                          *)

\* Handlers and tasks hold the challenge of the record while there is one.
HandlerHoldsRecord ==
    \A h \in Handlers :
        handlers[h].pc \in OpenedPCs \cup {"leave_delete"} /\ pending # NoRecord =>
            handlers[h].held = pending.challenge

TaskHoldsRecord ==
    \A t \in Timers :
        timers[t].pc \in ActingPCs /\ pending # NoRecord => timers[t].held = pending.challenge

\* A handler that cancels a task holds the challenge the task would have hidden.
SameChallenge ==
    \A t \in Timers, h \in Handlers :
        /\ timers[t].pc \in ActingPCs \cup {"tidy"}
        /\ handlers[h].pc \in {"mark", "leave_delete", "leave_cancel"}
        => handlers[h].held = timers[t].held

\* The task of a join request hides the challenge before anything else.
NotifyComesFirst ==
    \A t \in Timers :
        /\ timers[t].pc = "notify" => timers[t].private
        /\ timers[t].pc \in ActingPCs \ {"notify"} /\ timers[t].private
               => timers[t].held \notin tg.challenges

\* A task hides the challenge in the chat once the record is gone.
TidyHasNoRecord ==
    \A t \in Timers : timers[t].pc = "tidy" => pending = NoRecord /\ ~timers[t].private

\* A challenge on display is the record's, or somebody is about to hide it.
ShownIsKnown ==
    \A c \in tg.challenges :
        \/ pending # NoRecord /\ pending.challenge = c
        \/ \E h \in Handlers : /\ handlers[h].pc \in {"create", "forget", "tidy", "leave_cancel"}
                               /\ handlers[h].held = c
        \/ \E t \in Timers : timers[t].pc = "tidy" /\ timers[t].held = c

Display ==
    /\ HandlerHoldsRecord /\ TaskHoldsRecord /\ SameChallenge /\ NotifyComesFirst
    /\ TidyHasNoRecord /\ ShownIsKnown

-----------------------------------------------------------------------------
(* The inductive invariant: nobody is left unwatched                       *)

RequestIsWatched == tg.request => pending # NoRecord \/ StartOf(TRUE)

GuestIsWatched == Guest => pending # NoRecord \/ StartOf(FALSE)

\* Whom a press has let in is no guest while the press is carried out.
OpenedIsNoGuest == \A h \in Handlers : handlers[h].pc \in OpenedPCs => ~Guest

Guarded == RequestIsWatched /\ GuestIsWatched /\ OpenedIsNoGuest

PatientInv == Tasks /\ Display /\ Guarded

Patience == Calm /\ ~MayCrash /\ ~TelegramMayFail /\ ~RedisMayFail
Inv == IInv /\ CalmInv /\ PatientInv

-----------------------------------------------------------------------------
(* What calls and steps do when nothing fails                              *)

LEMMA CallsSucceed ==
    ASSUME Patience
    PROVE  /\ Redis = {"ok"}
           /\ \A possible \in BOOLEAN :
                  Telegram(possible) = IF possible THEN {"ok"} ELSE {"refused"}
  BY DEF Patience, Redis, Telegram, Outcomes

\* A challenge is off the display after the call that hides it, shown or not.
LEMMA Hidden ==
    ASSUME Patience, TypeOK, NEW c, HideBestEffort(c)
    PROVE  /\ UNCHANGED updates /\ tg' \in Chats
           /\ tg'.member = tg.member /\ tg'.request = tg.request
           /\ tg'.challenges = tg.challenges \ {c}
  <1>1. tg \in Chats /\ updates \in Seq(Updates)
    BY DEF TypeOK
  <1>2. /\ UNCHANGED updates /\ tg' \in Chats
        /\ tg'.member = tg.member /\ tg'.request = tg.request
    BY <1>1, HideInPlace
  <1>3. CASE c \in tg.challenges
    <2>1. Execute("ok", Hide(tg, c))
      BY <1>3, CallsSucceed DEF HideBestEffort
    <2>2. tg' = Hide(tg, c)
      BY <2>1 DEF Execute
    <2> QED
      BY <1>1, <1>2, <2>2 DEF Hide, Chats
  <1>4. CASE c \notin tg.challenges
    <2>1. Execute("refused", Hide(tg, c))
      BY <1>4 DEF HideBestEffort, Telegram, Outcomes, Patience
    <2>2. tg' = tg
      BY <2>1 DEF Execute
    <2> QED
      BY <1>2, <1>4, <2>2
  <1> QED
    BY <1>3, <1>4

\* A handler stays within the operation it carries out.
Continues(h) ==
    /\ handlers'[h].pc \in StartSteps
           => handlers[h].pc \in StartSteps /\ handlers'[h].private = handlers[h].private
    /\ handlers'[h].pc \in PressSteps
           => handlers[h].pc \in PressSteps /\ handlers'[h].private = handlers[h].private
    /\ handlers'[h].pc \in LeaveSteps => handlers[h].pc \in LeaveSteps

\* Then nobody starts, presses or leaves who did not before.
LEMMA NobodyNew ==
    ASSUME \A u : Queued(u)' => Queued(u), NEW h \in Handlers, Continues(h),
           \A g \in Handlers \ {h} : handlers'[g] = handlers[g]
    PROVE  /\ StartOf(TRUE)' => StartOf(TRUE)
           /\ StartOf(FALSE)' => StartOf(FALSE)
           /\ PressOf(TRUE)' => PressOf(TRUE)
           /\ PressOf(FALSE)' => PressOf(FALSE)
           /\ Leaving' => Leaving
  BY DEF Continues, StartOf, PressOf, Leaving

\* Nobody stops starting who does not end his operation.
LEMMA StartsGoOn ==
    ASSUME \A u : Queued(u) => Queued(u)', NEW h \in Handlers,
           \A g \in Handlers \ {h} : handlers'[g] = handlers[g],
           handlers[h].pc \in StartSteps
               => handlers'[h].pc \in StartSteps /\ handlers'[h].private = handlers[h].private
    PROVE  /\ StartOf(TRUE) => StartOf(TRUE)'
           /\ StartOf(FALSE) => StartOf(FALSE)'
  BY DEF StartOf

LEMMA NoticesStay ==
    ASSUME UNCHANGED <<updates, handlers>>
    PROVE  /\ \A b : StartOf(b)' = StartOf(b) /\ PressOf(b)' = PressOf(b)
           /\ Leaving' = Leaving
  BY DEF StartOf, PressOf, Leaving, Queued

-----------------------------------------------------------------------------
(* The handlers keep the invariant                                         *)

\* A handler that only reads the record.
LEMMA PatientRead ==
    ASSUME Patience, Inv, IInv', CalmInv', NEW h \in Handlers,
           StartGet(h) \/ LeaveGet(h) \/ PressGet(h) \/ PressReget(h)
    PROVE  PatientInv'
  <1>0. /\ handlers \in [Handlers -> HandlerStates] /\ handlers[h].private \in BOOLEAN
        /\ pending # NoRecord => pending.challenge \in Challenges
        /\ tg \in Chats
    BY DEF Inv, IInv, TypeOK, HandlerStates, Records
  <1>1. UNCHANGED <<tg, updates, pending, timers, phase, restoring, grant>>
    BY DEF StartGet, LeaveGet, PressGet, PressReget, redis, tasks, history
  <1>2. \A g \in Handlers \ {h} : handlers'[g] = handlers[g]
    BY <1>0 DEF StartGet, LeaveGet, PressGet, PressReget, Return, Goto, GotoHolding
  <1>3. \/ /\ handlers[h].pc = "start_get" /\ pending = NoRecord
           /\ handlers'[h].pc = (IF handlers[h].private THEN "send" ELSE "restrict")
           /\ handlers'[h].private = handlers[h].private
        \/ /\ handlers[h].pc = "leave_get" /\ pending # NoRecord
           /\ handlers'[h].pc = "leave_delete" /\ handlers'[h].held = pending.challenge
        \/ /\ handlers[h].pc = "press_get" /\ handlers'[h].pc = "press_reget"
           /\ handlers'[h].private = handlers[h].private
        \/ /\ handlers[h].pc = "press_reget" /\ pending # NoRecord
           /\ handlers'[h].pc = "open" /\ handlers'[h].held = pending.challenge
           /\ handlers'[h].private = handlers[h].private
        \/ /\ handlers'[h].pc = "idle"
           /\ handlers[h].pc \in {"start_get", "leave_get", "press_get", "press_reget"}
           /\ handlers[h].pc = "start_get" => pending # NoRecord
           /\ handlers[h].pc = "leave_get" => pending = NoRecord
    BY <1>0, CallsSucceed
    DEF StartGet, LeaveGet, PressGet, PressReget, Return, Goto, GotoHolding, HandlerStates,
        At, Idle
  <1>4. Continues(h)
    BY <1>3 DEF Continues, StartSteps, PressSteps, LeaveSteps
  <1>5. \A u : Queued(u)' <=> Queued(u)
    BY <1>1 DEF Queued
  <1>6. /\ StartOf(TRUE)' => StartOf(TRUE)
        /\ StartOf(FALSE)' => StartOf(FALSE)
        /\ PressOf(TRUE)' => PressOf(TRUE)
        /\ PressOf(FALSE)' => PressOf(FALSE)
        /\ Leaving' => Leaving
    BY <1>2, <1>4, <1>5, NobodyNew
  <1>7. pending = NoRecord => (StartOf(TRUE) => StartOf(TRUE)') /\ (StartOf(FALSE) => StartOf(FALSE)')
    BY <1>2, <1>3, <1>5, StartsGoOn DEF StartSteps
  <1>8. /\ handlers[h].pc = "start_get" /\ handlers[h].private => StartOf(TRUE)
        /\ handlers[h].pc = "start_get" /\ ~handlers[h].private => StartOf(FALSE)
    BY <1>0 DEF StartOf, StartSteps
  <1>9. \A t \in Timers : timers[t].pc \in ArmedPCs /\ pending = NoRecord => Leaving
    BY DEF Inv, PatientInv, Tasks, ArmedHasRecord, Leaving, LeaveSteps
  <1>10. Leaving => tg.member \in Outside /\ ~StartOf(TRUE)
    BY DEF Inv, CalmInv, Flow, LeavingIsOut
  <1>11. tg.member \in Inside => ~StartOf(TRUE) /\ tg.member \notin Outside
    BY DEF Inv, CalmInv, Flow, RequestIsUndisturbed, Inside, Outside
  <1>12. IdleBeforeUp' /\ UndoneIsOut' /\ ArmedHasRecord' /\ ForgetHasNoTask' /\ ScheduleHasRecord'
    BY <1>1, <1>2, <1>3
    DEF Inv, PatientInv, Tasks, IdleBeforeUp, UndoneIsOut, ArmedHasRecord, ForgetHasNoTask,
        ScheduleHasRecord
  <1>13. UnderwayHasNoTask' /\ UnderwayIsInside'
    BY <1>1, <1>2, <1>3, <1>8, <1>9, <1>10
    DEF Inv, PatientInv, Tasks, UnderwayHasNoTask, UnderwayIsInside, UnderwayPCs
  <1>14. OpenedKeepsRecord' /\ OneApproved'
    BY <1>1, <1>2, <1>3, <1>6, <1>8, <1>11
    DEF Inv, PatientInv, Tasks, OpenedKeepsRecord, OneApproved, OpenedPCs, UnderwayPCs
  <1>15. ChatRecordIsInside'
    BY <1>1, <1>2, <1>3, <1>5
    DEF Inv, PatientInv, Tasks, ChatRecordIsInside, Leaving, LeaveSteps
  <1>16. RequestIsPrivate' /\ JoinIsPrivate'
    BY <1>1, <1>2, <1>3, <1>5, <1>6
    DEF Inv, PatientInv, Tasks, RequestIsPrivate, JoinIsPrivate, StartSteps
  <1>17. TaskMatchesRecord' /\ ChatTaskMeetsNoRequest' /\ RemovedIsOut' /\ TaskFits'
    BY <1>1, <1>6
    DEF Inv, PatientInv, Tasks, TaskMatchesRecord, ChatTaskMeetsNoRequest, RemovedIsOut,
        TaskFits, Fits
  <1>18. OpenHoldsRecord'
    BY <1>1, <1>2, <1>3 DEF Inv, PatientInv, Tasks, OpenHoldsRecord
  <1>19. Display'
    BY <1>1, <1>2, <1>3
    DEF Inv, PatientInv, Display, Tasks, ArmedHasRecord, HandlerHoldsRecord, TaskHoldsRecord, SameChallenge,
        NotifyComesFirst, TidyHasNoRecord, ShownIsKnown, OpenedPCs, ArmedPCs
  <1>20. Guarded'
    BY <1>1, <1>2, <1>3, <1>7
    DEF Inv, PatientInv, Guarded, RequestIsWatched, GuestIsWatched, OpenedIsNoGuest, Guest,
        OpenedPCs
  <1> QED
    BY <1>12, <1>13, <1>14, <1>15, <1>16, <1>17, <1>18, <1>19, <1>20 DEF PatientInv, Tasks

LEMMA PatientRestrict ==
    ASSUME Patience, Inv, IInv', CalmInv', NEW h \in Handlers, RestrictMember(h)
    PROVE  PatientInv'
  <1>0. handlers \in [Handlers -> HandlerStates] /\ tg \in Chats /\ updates \in Seq(Updates)
    BY DEF Inv, IInv, TypeOK
  <1>1. /\ UNCHANGED <<pending, timers, phase, restoring, grant>>
        /\ handlers[h].pc = "restrict"
    BY DEF RestrictMember, redis, tasks, history, At
  <1>2. /\ UNCHANGED updates
        /\ tg'.request = tg.request /\ tg'.challenges = tg.challenges
        /\ \/ /\ tg.member \in Inside /\ tg'.member = "restricted" /\ Goto(h, "send")
           \/ /\ tg.member \in Outside /\ tg'.member = tg.member /\ Goto(h, "undo_ban")
    <2>1. CASE tg.member \in Inside
      <3>1. Execute("ok", Restrict(tg)) /\ Goto(h, "send")
        BY <2>1 DEF RestrictMember, CanRestrict, Telegram, Outcomes, Patience
      <3>2. Restrict(tg) \in Chats /\ Restrict(tg).member \in Inside
        BY <1>0, ChatOperations DEF Restrict, Chats, Inside
      <3>3. UNCHANGED updates /\ tg' = Restrict(tg)
        BY <1>0, <2>1, <3>1, <3>2, CallInPlace DEF Execute
      <3> QED
        BY <1>0, <2>1, <3>1, <3>3 DEF Restrict, Chats
    <2>2. CASE tg.member \notin Inside
      <3>1. Execute("refused", Restrict(tg)) /\ Goto(h, "undo_ban")
        BY <2>2 DEF RestrictMember, CanRestrict, Telegram, Outcomes, Patience
      <3> QED
        BY <1>0, <2>2, <3>1 DEF Execute, Chats, Statuses
    <2> QED
      BY <2>1, <2>2
  <1>3. /\ handlers'[h].pc \in {"send", "undo_ban"}
        /\ handlers'[h].pc = "send" => tg.member \in Inside /\ tg'.member = "restricted"
        /\ handlers'[h].pc = "undo_ban" => tg.member \in Outside /\ tg'.member = tg.member
        /\ handlers'[h].private = handlers[h].private
        /\ \A g \in Handlers \ {h} : handlers'[g] = handlers[g]
    BY <1>0, <1>2, GotoStep DEF HandlerPCs, StartSteps
  <1>4. /\ "restricted" \in Inside /\ Inside \cap Outside = {}
        /\ tg'.member \in Inside <=> tg.member \in Inside
        /\ tg'.member \in Outside <=> tg.member \in Outside
    BY <1>0, <1>2 DEF Inside, Outside
  <1>5. \A u : Queued(u)' <=> Queued(u)
    BY <1>2 DEF Queued
  <1>6. /\ StartOf(TRUE)' <=> StartOf(TRUE)
        /\ StartOf(FALSE)' <=> StartOf(FALSE)
        /\ PressOf(TRUE)' => PressOf(TRUE)
        /\ PressOf(FALSE)' => PressOf(FALSE)
    <2>1. Continues(h) /\ handlers[h].pc \in StartSteps /\ handlers'[h].pc \in StartSteps
      BY <1>1, <1>3 DEF Continues, StartSteps, PressSteps, LeaveSteps
    <2> QED
      BY <1>3, <1>5, <2>1, NobodyNew, StartsGoOn
  <1>7. Leaving => Leaving'
    BY <1>1, <1>3, <1>5 DEF Leaving, LeaveSteps
  <1>8. ~handlers[h].private /\ StartOf(FALSE)
    <2>1. ~handlers[h].private
      BY <1>1 DEF Inv, PatientInv, Tasks, UndoneIsOut
    <2> QED
      BY <1>0, <1>1, <2>1 DEF StartOf, StartSteps, HandlerStates
  <1>9. IdleBeforeUp' /\ UndoneIsOut' /\ ArmedHasRecord' /\ ForgetHasNoTask' /\ ScheduleHasRecord'
    BY <1>1, <1>2, <1>3, <1>4, <1>8
    DEF Inv, PatientInv, Tasks, IdleBeforeUp, UndoneIsOut, ArmedHasRecord, ForgetHasNoTask,
        ScheduleHasRecord
  <1>10. UnderwayHasNoTask' /\ UnderwayIsInside'
    BY <1>1, <1>3, <1>4
    DEF Inv, PatientInv, Tasks, UnderwayHasNoTask, UnderwayIsInside, UnderwayPCs
  <1>11. OpenedKeepsRecord' /\ OneApproved'
    BY <1>1, <1>3, <1>4, <1>6
    DEF Inv, PatientInv, Tasks, OpenedKeepsRecord, OneApproved, OpenedPCs, UnderwayPCs
  <1>12. ChatRecordIsInside' /\ RequestIsPrivate' /\ JoinIsPrivate'
    BY <1>1, <1>2, <1>3, <1>4, <1>5, <1>6, <1>7
    DEF Inv, PatientInv, Tasks, ChatRecordIsInside, RequestIsPrivate, JoinIsPrivate, StartSteps
  <1>13. TaskMatchesRecord' /\ ChatTaskMeetsNoRequest' /\ RemovedIsOut' /\ TaskFits'
    BY <1>1, <1>2, <1>4, <1>6
    DEF Inv, PatientInv, Tasks, TaskMatchesRecord, ChatTaskMeetsNoRequest, RemovedIsOut,
        TaskFits, Fits
  <1>14. OpenHoldsRecord'
    BY <1>1, <1>2, <1>3 DEF Inv, PatientInv, Tasks, OpenHoldsRecord
  <1>15. Display'
    BY <1>1, <1>2, <1>3
    DEF Inv, PatientInv, Display, HandlerHoldsRecord, TaskHoldsRecord, SameChallenge,
        NotifyComesFirst, TidyHasNoRecord, ShownIsKnown, OpenedPCs
  <1>16. Guarded'
    BY <1>1, <1>2, <1>3, <1>4, <1>6, <1>8
    DEF Inv, PatientInv, Tasks, OpenedKeepsRecord, Guarded, RequestIsWatched, GuestIsWatched,
        OpenedIsNoGuest, Guest, OpenedPCs
  <1> QED
    BY <1>9, <1>10, <1>11, <1>12, <1>13, <1>14, <1>15, <1>16 DEF PatientInv, Tasks

LEMMA PatientSend ==
    ASSUME Patience, Inv, IInv', CalmInv', NEW h \in Handlers, SendChallenge(h)
    PROVE  PatientInv'
  <1>0. /\ handlers \in [Handlers -> HandlerStates] /\ tg \in Chats /\ updates \in Seq(Updates)
        /\ handlers[h].private \in BOOLEAN
    BY DEF Inv, IInv, TypeOK, HandlerStates
  <1>1. /\ UNCHANGED <<pending, timers, phase, restoring, grant>>
        /\ handlers[h].pc = "send"
    BY DEF SendChallenge, redis, tasks, history, At
  <1>2. PICK c \in Challenges :
            /\ Execute("ok", Show(tg, c)) /\ GotoHolding(h, "create", c)
            /\ c.private = handlers[h].private
            /\ \A t \in Timers : timers[t].held # c
    <2>1. PICK m \in FreshMessages :
              LET c == [id |-> m, private |-> handlers[h].private]
              IN  Execute("ok", Show(tg, c)) /\ GotoHolding(h, "create", c)
      BY CallsSucceed DEF SendChallenge
    <2> DEFINE c == [id |-> m, private |-> handlers[h].private]
    <2>2. c \in Challenges /\ c.private = handlers[h].private
      BY <1>0 DEF Challenges, FreshMessages
    <2>3. \A t \in Timers : timers[t].held # c
      BY <1>0 DEF FreshMessages
    <2> QED
      BY <2>1, <2>2, <2>3
  <1>3. /\ UNCHANGED updates
        /\ tg'.member = tg.member /\ tg'.request = tg.request
        /\ tg'.challenges = tg.challenges \cup {c}
    <2>1. Show(tg, c) \in Chats /\ Show(tg, c).member = tg.member
          /\ Show(tg, c).request = tg.request /\ Show(tg, c).challenges = tg.challenges \cup {c}
      BY <1>0 DEF Show, Chats
    <2> QED
      BY <1>0, <1>2, <2>1, CallInPlace DEF Execute
  <1>4. /\ handlers'[h].pc = "create" /\ handlers'[h].held = c
        /\ handlers'[h].private = handlers[h].private
        /\ \A g \in Handlers \ {h} : handlers'[g] = handlers[g]
    BY <1>0, <1>2, GotoHoldingStep DEF HandlerPCs, StartSteps
  <1>5. \A u : Queued(u)' <=> Queued(u)
    BY <1>3 DEF Queued
  <1>6. /\ StartOf(TRUE)' <=> StartOf(TRUE)
        /\ StartOf(FALSE)' <=> StartOf(FALSE)
        /\ PressOf(TRUE)' => PressOf(TRUE)
        /\ PressOf(FALSE)' => PressOf(FALSE)
    <2>1. Continues(h) /\ handlers[h].pc \in StartSteps /\ handlers'[h].pc \in StartSteps
      BY <1>1, <1>4 DEF Continues, StartSteps, PressSteps, LeaveSteps
    <2> QED
      BY <1>4, <1>5, <2>1, NobodyNew, StartsGoOn
  <1>7. Leaving => Leaving'
    BY <1>1, <1>4, <1>5 DEF Leaving, LeaveSteps
  <1>8. /\ ~handlers[h].private => ~tg.request
        /\ ~Queued("joined") /\ \A g \in Handlers \ {h} : handlers[g].pc \notin StartSteps
    <2>1. ~handlers[h].private => StartOf(FALSE)
      BY <1>0, <1>1 DEF StartOf, StartSteps
    <2> QED
      BY <1>1, <2>1 DEF Inv, CalmInv, Flow, JoinIsClosed, OneStart, StartSteps
  <1>9. IdleBeforeUp'
    BY <1>1 DEF Inv, CalmInv, Watch, RunsOnlyUp, IdleBeforeUp, At
  <1>10. UndoneIsOut' /\ ArmedHasRecord' /\ ForgetHasNoTask' /\ ScheduleHasRecord'
    BY <1>1, <1>2, <1>3, <1>4
    DEF Inv, PatientInv, Tasks, UndoneIsOut, ArmedHasRecord, ForgetHasNoTask, ScheduleHasRecord
  <1>11. UnderwayHasNoTask' /\ UnderwayIsInside'
    BY <1>1, <1>3, <1>4
    DEF Inv, PatientInv, Tasks, UnderwayHasNoTask, UnderwayIsInside, UnderwayPCs
  <1>12. OpenedKeepsRecord' /\ OneApproved'
    BY <1>1, <1>3, <1>4, <1>6
    DEF Inv, PatientInv, Tasks, OpenedKeepsRecord, OneApproved, OpenedPCs, UnderwayPCs
  <1>13. ChatRecordIsInside' /\ RequestIsPrivate'
    BY <1>1, <1>2, <1>3, <1>6, <1>7, <1>8
    DEF Inv, PatientInv, Tasks, ChatRecordIsInside, RequestIsPrivate
  <1>14. JoinIsPrivate'
    BY <1>4, <1>5, <1>6, <1>8 DEF Inv, PatientInv, Tasks, JoinIsPrivate, StartSteps
  <1>15. TaskMatchesRecord' /\ ChatTaskMeetsNoRequest' /\ RemovedIsOut' /\ TaskFits'
    BY <1>1, <1>3, <1>6
    DEF Inv, PatientInv, Tasks, TaskMatchesRecord, ChatTaskMeetsNoRequest, RemovedIsOut,
        TaskFits, Fits
  <1>16. OpenHoldsRecord'
    BY <1>1, <1>3, <1>4 DEF Inv, PatientInv, Tasks, OpenHoldsRecord
  <1>17. Display'
    BY <1>1, <1>2, <1>3, <1>4
    DEF Inv, PatientInv, Display, HandlerHoldsRecord, TaskHoldsRecord, SameChallenge,
        NotifyComesFirst, TidyHasNoRecord, ShownIsKnown, OpenedPCs
  <1>18. Guarded'
    BY <1>1, <1>3, <1>4, <1>6
    DEF Inv, PatientInv, Guarded, RequestIsWatched, GuestIsWatched, OpenedIsNoGuest, Guest,
        OpenedPCs
  <1> QED
    BY <1>9, <1>10, <1>11, <1>12, <1>13, <1>14, <1>15, <1>16, <1>17, <1>18
    DEF PatientInv, Tasks

LEMMA PatientCreate ==
    ASSUME Patience, Inv, IInv', CalmInv', NEW h \in Handlers, CreatePending(h)
    PROVE  PatientInv'
  <1>0. /\ handlers \in [Handlers -> HandlerStates] /\ tg \in Chats
        /\ handlers[h].private \in BOOLEAN
    BY DEF Inv, IInv, TypeOK, HandlerStates
  <1>1. /\ UNCHANGED <<tg, updates, timers, phase, restoring, grant>>
        /\ handlers[h].pc = "create" /\ Goto(h, "schedule")
        /\ pending' = [challenge |-> handlers[h].held, age |-> 0]
    BY CallsSucceed DEF CreatePending, tasks, history, At
  <1>2. /\ handlers'[h].pc = "schedule" /\ handlers'[h].held = handlers[h].held
        /\ handlers'[h].private = handlers[h].private
        /\ \A g \in Handlers \ {h} : handlers'[g] = handlers[g]
    BY <1>0, <1>1, GotoStep DEF HandlerPCs, StartSteps
  <1>3. /\ pending'.challenge = handlers[h].held /\ pending' # NoRecord
        /\ handlers[h].held.private = handlers[h].private
    <2>1. handlers[h].held \in Challenges
      BY <1>1 DEF Inv, IInv, HeldIsSent
    <2> QED
      BY <1>1, <2>1, NullsAssumption DEF Inv, PatientInv, Tasks, ScheduleHasRecord
  <1>4. pending = NoRecord
    BY <1>1 DEF Inv, CalmInv, Watch, RecordIsOnly, MakingSteps
  <1>5. \A u : Queued(u)' <=> Queued(u)
    BY <1>1 DEF Queued
  <1>6. /\ StartOf(TRUE)' <=> StartOf(TRUE)
        /\ StartOf(FALSE)' <=> StartOf(FALSE)
        /\ PressOf(TRUE)' => PressOf(TRUE)
        /\ PressOf(FALSE)' => PressOf(FALSE)
    <2>1. Continues(h) /\ handlers[h].pc \in StartSteps /\ handlers'[h].pc \in StartSteps
      BY <1>1, <1>2 DEF Continues, StartSteps, PressSteps, LeaveSteps
    <2> QED
      BY <1>2, <1>5, <2>1, NobodyNew, StartsGoOn
  <1>7. /\ handlers[h].private => StartOf(TRUE)
        /\ ~handlers[h].private => StartOf(FALSE)
    BY <1>0, <1>1 DEF StartOf, StartSteps
  <1>8. ~handlers[h].private => tg.member \in Inside /\ tg.member \notin Outside
    BY <1>1 DEF Inv, PatientInv, Tasks, UnderwayIsInside, UnderwayPCs, Inside, Outside
  \* Nobody leaves, and nobody presses for whom the new record would count.
  <1>9. /\ \A g \in Handlers : handlers[g].pc \notin LeaveSteps
        /\ \A g \in Handlers : handlers[g].pc = "open" => handlers[g].private
        /\ \A g \in Handlers : handlers[g].pc \notin OpenedPCs
        /\ handlers[h].private => \A g \in Handlers : handlers[g].pc \notin PressSteps
    <2>1. \A g \in Handlers : handlers[g].pc \notin LeaveSteps
      BY <1>1 DEF Inv, CalmInv, Flow, LeavingIsOut, Leaving, MakingSteps
    <2>2. handlers[h].private => \A g \in Handlers : handlers[g].pc \notin PressSteps
      BY <1>7 DEF Inv, CalmInv, Flow, RequestIsUndisturbed, Pressing
    <2>3. ~handlers[h].private =>
              \A g \in Handlers : handlers[g].pc \in PressSteps => handlers[g].private
      <3>1. \A g \in Handlers : handlers[g].private \in BOOLEAN
        BY <1>0 DEF HandlerStates
      <3> QED
        BY <1>7, <3>1 DEF Inv, PatientInv, Tasks, JoinIsPrivate, PressOf
    <2>4. ~handlers[h].private => \A g \in Handlers : handlers[g].pc \notin OpenedPCs
      BY <1>1, <1>8 DEF Inv, PatientInv, Tasks, OpenedKeepsRecord, UnderwayPCs
    <2> QED
      BY <2>1, <2>2, <2>3, <2>4 DEF OpenedPCs, PressSteps
  <1>10. \A t \in Timers : timers[t].pc \notin ArmedPCs \cup {"tidy"}
    <2>1. \A t \in Timers : timers[t].pc \notin ArmedPCs
      BY <1>1 DEF Inv, PatientInv, Tasks, UnderwayHasNoTask, UnderwayPCs
    <2>2. \A t \in Timers : timers[t].pc # "tidy"
      BY <1>7, <1>8
      DEF Inv, PatientInv, Tasks, Display, TidyHasNoRecord, ChatTaskMeetsNoRequest, RemovedIsOut
    <2> QED
      BY <2>1, <2>2
  <1>11. IdleBeforeUp'
    BY <1>1 DEF Inv, CalmInv, Watch, RunsOnlyUp, IdleBeforeUp, At
  <1>12. UndoneIsOut' /\ ArmedHasRecord' /\ ForgetHasNoTask' /\ ScheduleHasRecord'
    BY <1>1, <1>2, <1>3, <1>4
    DEF Inv, PatientInv, Tasks, UndoneIsOut, ArmedHasRecord, ForgetHasNoTask, ScheduleHasRecord
  <1>13. UnderwayHasNoTask' /\ UnderwayIsInside'
    BY <1>1, <1>2, <1>8, <1>10
    DEF Inv, PatientInv, Tasks, UnderwayHasNoTask, UnderwayIsInside, UnderwayPCs
  <1>14. OpenedKeepsRecord' /\ OneApproved' /\ OpenHoldsRecord'
    BY <1>1, <1>2, <1>3, <1>4, <1>9
    DEF Inv, PatientInv, Tasks, OpenedKeepsRecord, OneApproved, OpenHoldsRecord, OpenedPCs,
        PressSteps
  <1>15. ChatRecordIsInside' /\ RequestIsPrivate'
    BY <1>1, <1>3, <1>6, <1>8
    DEF Inv, PatientInv, Tasks, ChatRecordIsInside, RequestIsPrivate
  <1>16. JoinIsPrivate'
    BY <1>1, <1>2, <1>5, <1>6 DEF Inv, PatientInv, Tasks, JoinIsPrivate
  <1>17. TaskMatchesRecord' /\ ChatTaskMeetsNoRequest' /\ RemovedIsOut' /\ TaskFits'
    BY <1>1, <1>10
    DEF Inv, PatientInv, Tasks, TaskMatchesRecord, ChatTaskMeetsNoRequest, RemovedIsOut,
        TaskFits, ArmedPCs, ActingPCs
  <1>18. Display'
    BY <1>1, <1>2, <1>3, <1>4, <1>9, <1>10
    DEF Inv, PatientInv, Display, HandlerHoldsRecord, TaskHoldsRecord, SameChallenge,
        NotifyComesFirst, TidyHasNoRecord, ShownIsKnown, OpenedPCs, LeaveSteps, ArmedPCs,
        ActingPCs
  <1>19. Guarded'
    BY <1>1, <1>2, <1>3, <1>9
    DEF Inv, PatientInv, Guarded, RequestIsWatched, GuestIsWatched, OpenedIsNoGuest, OpenedPCs
  <1> QED
    BY <1>11, <1>12, <1>13, <1>14, <1>15, <1>16, <1>17, <1>18, <1>19 DEF PatientInv, Tasks

\* The registered task is the only one alive, and is of the kind asked for.
LEMMA RegisteredKind ==
    ASSUME timers \in [Timers -> TimerStates], RegistryTracksLiveTimer,
           NEW private, NEW delay, RegisterTimer(private, delay)
    PROVE  \E t \in Timers :
               /\ timers'[t].pc = "sleep" /\ timers'[t].wait = delay
               /\ timers'[t].private = private
               /\ \A s \in Timers \ {t} : timers'[s].pc \in {"free", "over"}
  BY NullsAssumption
     DEF RegisterTimer, Cancelled, Live, RegistryTracksLiveTimer, TimerStates

LEMMA PatientSchedule ==
    ASSUME Patience, Inv, IInv', CalmInv', NEW h \in Handlers, ScheduleTimer(h)
    PROVE  PatientInv'
  <1>0. /\ handlers \in [Handlers -> HandlerStates] /\ tg \in Chats
        /\ handlers[h].private \in BOOLEAN
        /\ timers \in [Timers -> TimerStates] /\ RegistryTracksLiveTimer
    BY DEF Inv, IInv, TypeOK, HandlerStates
  <1>1. /\ UNCHANGED <<tg, updates, pending, phase, restoring, grant>>
        /\ handlers[h].pc = "schedule" /\ Return(h)
        /\ RegisterTimer(handlers[h].private, Timeout)
    BY DEF ScheduleTimer, redis, history, At
  <1>2. /\ handlers'[h].pc = "idle"
        /\ \A g \in Handlers \ {h} : handlers'[g] = handlers[g]
    BY <1>0, <1>1, ReturnStep
  <1>3. PICK t \in Timers :
            /\ timers'[t].pc = "sleep" /\ timers'[t].wait = Timeout
            /\ timers'[t].private = handlers[h].private
            /\ \A s \in Timers \ {t} : timers'[s].pc \in {"free", "over"}
    BY <1>0, <1>1, RegisteredKind
  <1>4. /\ pending # NoRecord /\ pending.challenge.private = handlers[h].private
        /\ pending.age = 0
    BY <1>1
    DEF Inv, PatientInv, Tasks, ScheduleHasRecord, CalmInv, Watch, FreshAtSchedule, At
  <1>5. \A u : Queued(u)' <=> Queued(u)
    BY <1>1 DEF Queued
  <1>6. /\ StartOf(TRUE)' => StartOf(TRUE)
        /\ StartOf(FALSE)' => StartOf(FALSE)
        /\ PressOf(TRUE)' => PressOf(TRUE)
        /\ PressOf(FALSE)' => PressOf(FALSE)
    <2>1. Continues(h)
      BY <1>2 DEF Continues, StartSteps, PressSteps, LeaveSteps
    <2> QED
      BY <1>2, <1>5, <2>1, NobodyNew
  <1>7. Leaving => Leaving'
    BY <1>1, <1>2, <1>5 DEF Leaving, LeaveSteps
  <1>8. /\ \A g \in Handlers : handlers'[g].pc \notin StartSteps
        /\ ~StartOf(TRUE)'
    <2>1. \A g \in Handlers : handlers'[g].pc \notin StartSteps
      BY <1>1, <1>2 DEF Inv, CalmInv, Flow, OneStart, StartSteps
    <2>2. ~Queued("request")
      BY <1>1 DEF Inv, CalmInv, Flow, OneStart, StartSteps
    <2> QED
      BY <1>5, <2>1, <2>2 DEF StartOf
  <1>9. \A g \in Handlers : handlers'[g].pc # "forget"
    <2>1. CASE handlers[h].private
      <3>1. StartOf(TRUE)
        BY <1>0, <1>1, <2>1 DEF StartOf, StartSteps
      <3>2. \A g \in Handlers : handlers[g].pc \notin PressSteps
        BY <3>1 DEF Inv, CalmInv, Flow, RequestIsUndisturbed, Pressing
      <3> QED
        BY <1>2, <3>2 DEF PressSteps
    <2>2. CASE ~handlers[h].private
      BY <1>1, <1>2, <2>2
      DEF Inv, PatientInv, Tasks, UnderwayIsInside, UnderwayPCs, OpenedKeepsRecord, OpenedPCs
    <2> QED
      BY <2>1, <2>2
  <1>10. IdleBeforeUp'
    BY <1>1 DEF Inv, CalmInv, Watch, RunsOnlyUp, IdleBeforeUp, At
  <1>11. UndoneIsOut' /\ ArmedHasRecord' /\ ForgetHasNoTask' /\ ScheduleHasRecord'
    BY <1>1, <1>2, <1>4, <1>9
    DEF Inv, PatientInv, Tasks, UndoneIsOut, ArmedHasRecord, ForgetHasNoTask, ScheduleHasRecord
  <1>12. UnderwayHasNoTask' /\ UnderwayIsInside'
    BY <1>8 DEF UnderwayHasNoTask, UnderwayIsInside, UnderwayPCs, StartSteps
  <1>13. OpenedKeepsRecord' /\ OneApproved' /\ OpenHoldsRecord'
    BY <1>1, <1>2, <1>6
    DEF Inv, PatientInv, Tasks, OpenedKeepsRecord, OneApproved, OpenHoldsRecord, OpenedPCs,
        UnderwayPCs
  <1>14. ChatRecordIsInside' /\ RequestIsPrivate'
    BY <1>1, <1>6, <1>7 DEF Inv, PatientInv, Tasks, ChatRecordIsInside, RequestIsPrivate
  <1>15. JoinIsPrivate'
    BY <1>1, <1>2, <1>5, <1>6 DEF Inv, PatientInv, Tasks, JoinIsPrivate, StartSteps
  <1>16. TaskMatchesRecord' /\ ChatTaskMeetsNoRequest' /\ RemovedIsOut'
    BY <1>1, <1>3, <1>4, <1>8
    DEF TaskMatchesRecord, ChatTaskMeetsNoRequest, RemovedIsOut, ArmedPCs, ActingPCs
  <1>17. TaskFits'
    BY <1>1, <1>3, <1>4, ConstantsAssumption DEF TaskFits, Fits
  <1>18. Display'
    BY <1>1, <1>2, <1>3, <1>4
    DEF Inv, PatientInv, Display, HandlerHoldsRecord, TaskHoldsRecord, SameChallenge,
        NotifyComesFirst, TidyHasNoRecord, ShownIsKnown, OpenedPCs, ActingPCs
  <1>19. Guarded'
    BY <1>1, <1>2, <1>4
    DEF Inv, PatientInv, Guarded, RequestIsWatched, GuestIsWatched, OpenedIsNoGuest, Guest,
        OpenedPCs
  <1> QED
    BY <1>10, <1>11, <1>12, <1>13, <1>14, <1>15, <1>16, <1>17, <1>18, <1>19
    DEF PatientInv, Tasks

\* The user who is removed because he could not be muted is out already.
LEMMA PatientUndo ==
    ASSUME Patience, Inv, IInv', CalmInv', NEW h \in Handlers, UndoBan(h) \/ UndoUnban(h)
    PROVE  PatientInv'
  <1>0. /\ handlers \in [Handlers -> HandlerStates] /\ tg \in Chats /\ updates \in Seq(Updates)
        /\ handlers[h].private \in BOOLEAN
    BY DEF Inv, IInv, TypeOK, HandlerStates
  <1>1. /\ UNCHANGED <<pending, timers, phase, restoring, grant>>
        /\ handlers[h].pc \in {"undo_ban", "undo_unban"}
    BY DEF UndoBan, UndoUnban, redis, tasks, history, At
  <1>2. ~handlers[h].private /\ tg.member \in Outside /\ tg.member \notin Inside
    BY <1>1 DEF Inv, PatientInv, Tasks, UndoneIsOut, Inside, Outside
  <1>3. PICK new \in {Ban(tg), Unban(tg)} : Execute("ok", new)
    BY CallsSucceed DEF UndoBan, UndoUnban
  <1>4. /\ UNCHANGED updates
        /\ tg'.request = tg.request /\ tg'.challenges = tg.challenges
        /\ tg'.member \in Outside /\ tg'.member \notin Inside
    <2>1. /\ new \in Chats /\ new.request = tg.request /\ new.challenges = tg.challenges
          /\ new.member \in Outside /\ new.member \notin Inside
      BY <1>0, <1>3 DEF Ban, Unban, Chats, Statuses, Inside, Outside
    <2> QED
      BY <1>0, <1>2, <1>3, <2>1, CallInPlace DEF Execute
  <1>5. /\ handlers'[h].pc \in {"undo_unban", "idle"}
        /\ handlers'[h].pc = "undo_unban" => handlers'[h].private = handlers[h].private
        /\ \A g \in Handlers \ {h} : handlers'[g] = handlers[g]
    BY <1>0, GotoStep, ReturnStep DEF UndoBan, UndoUnban, HandlerPCs, StartSteps
  <1>6. \A u : Queued(u)' <=> Queued(u)
    BY <1>4 DEF Queued
  <1>7. /\ StartOf(TRUE)' => StartOf(TRUE)
        /\ StartOf(FALSE)' => StartOf(FALSE)
        /\ PressOf(TRUE)' => PressOf(TRUE)
        /\ PressOf(FALSE)' => PressOf(FALSE)
    <2>1. Continues(h)
      BY <1>1, <1>5 DEF Continues, StartSteps, PressSteps, LeaveSteps
    <2> QED
      BY <1>5, <1>6, <2>1, NobodyNew
  <1>8. StartOf(TRUE) => StartOf(TRUE)'
    BY <1>2, <1>5, <1>6 DEF StartOf
  <1>9. Leaving => Leaving'
    BY <1>1, <1>5, <1>6 DEF Leaving, LeaveSteps
  <1>10. IdleBeforeUp' /\ UndoneIsOut' /\ ArmedHasRecord' /\ ForgetHasNoTask' /\ ScheduleHasRecord'
    BY <1>1, <1>2, <1>4, <1>5
    DEF Inv, PatientInv, Tasks, IdleBeforeUp, UndoneIsOut, ArmedHasRecord, ForgetHasNoTask,
        ScheduleHasRecord
  <1>11. UnderwayHasNoTask' /\ UnderwayIsInside'
    BY <1>1, <1>2, <1>4, <1>5
    DEF Inv, PatientInv, Tasks, UnderwayHasNoTask, UnderwayIsInside, UnderwayPCs
  <1>12. OpenedKeepsRecord' /\ OneApproved' /\ OpenHoldsRecord'
    BY <1>1, <1>4, <1>5
    DEF Inv, PatientInv, Tasks, OpenedKeepsRecord, OneApproved, OpenHoldsRecord, OpenedPCs
  <1>13. ChatRecordIsInside' /\ RequestIsPrivate' /\ JoinIsPrivate'
    BY <1>1, <1>2, <1>4, <1>5, <1>6, <1>7, <1>9
    DEF Inv, PatientInv, Tasks, ChatRecordIsInside, RequestIsPrivate, JoinIsPrivate, StartSteps
  <1>14. TaskMatchesRecord' /\ ChatTaskMeetsNoRequest' /\ RemovedIsOut' /\ TaskFits'
    BY <1>1, <1>4, <1>7
    DEF Inv, PatientInv, Tasks, TaskMatchesRecord, ChatTaskMeetsNoRequest, RemovedIsOut,
        TaskFits, Fits
  <1>15. Display'
    BY <1>1, <1>4, <1>5
    DEF Inv, PatientInv, Display, HandlerHoldsRecord, TaskHoldsRecord, SameChallenge,
        NotifyComesFirst, TidyHasNoRecord, ShownIsKnown, OpenedPCs
  <1>16. Guarded'
    BY <1>1, <1>4, <1>8
    DEF Inv, PatientInv, Guarded, RequestIsWatched, GuestIsWatched, OpenedIsNoGuest, Guest,
        Inside
  <1> QED
    BY <1>10, <1>11, <1>12, <1>13, <1>14, <1>15, <1>16 DEF PatientInv, Tasks

LEMMA PatientLeaveDelete ==
    ASSUME Patience, Inv, IInv', CalmInv', NEW h \in Handlers, LeaveDelete(h)
    PROVE  PatientInv'
  <1>0. handlers \in [Handlers -> HandlerStates] /\ tg \in Chats
    BY DEF Inv, IInv, TypeOK
  <1>1. /\ UNCHANGED <<tg, updates, timers, phase, restoring, grant>>
        /\ handlers[h].pc = "leave_delete" /\ pending' = NoRecord
        /\ Goto(h, "leave_cancel")
    BY CallsSucceed DEF LeaveDelete, tasks, history, At
  <1>2. /\ handlers'[h].pc = "leave_cancel" /\ handlers'[h].held = handlers[h].held
        /\ \A g \in Handlers \ {h} : handlers'[g] = handlers[g]
    BY <1>0, <1>1, GotoStep DEF HandlerPCs, LeaveSteps
  <1>3. \A u : Queued(u)' <=> Queued(u)
    BY <1>1 DEF Queued
  <1>4. /\ StartOf(TRUE)' => StartOf(TRUE)
        /\ StartOf(FALSE)' => StartOf(FALSE)
        /\ PressOf(TRUE)' => PressOf(TRUE)
        /\ PressOf(FALSE)' => PressOf(FALSE)
    <2>1. Continues(h)
      BY <1>1, <1>2 DEF Continues, StartSteps, PressSteps, LeaveSteps
    <2> QED
      BY <1>2, <1>3, <2>1, NobodyNew
  <1>5. tg.member \in Outside /\ tg.member \notin Inside /\ ~tg.request /\ ~StartOf(TRUE)
    BY <1>1 DEF Inv, CalmInv, Flow, LeavingIsOut, Leaving, LeaveSteps, Inside, Outside
  <1>6. \A g \in Handlers : handlers[g].pc # "schedule"
    <2>1. ASSUME NEW g \in Handlers, handlers[g].pc = "schedule" PROVE FALSE
      <3>1. handlers[g].private \in BOOLEAN
        BY <1>0 DEF HandlerStates
      <3>2. ~handlers[g].private
        BY <1>5, <2>1, <3>1 DEF StartOf, StartSteps
      <3> QED
        BY <1>5, <2>1, <3>2 DEF Inv, PatientInv, Tasks, UnderwayIsInside, UnderwayPCs
    <2> QED
      BY <2>1
  <1>7. IdleBeforeUp' /\ UndoneIsOut' /\ ArmedHasRecord' /\ ForgetHasNoTask' /\ ScheduleHasRecord'
    BY <1>1, <1>2, <1>6
    DEF Inv, PatientInv, Tasks, IdleBeforeUp, UndoneIsOut, ArmedHasRecord, ForgetHasNoTask,
        ScheduleHasRecord
  <1>8. UnderwayHasNoTask' /\ UnderwayIsInside' /\ OneApproved' /\ OpenedKeepsRecord'
        /\ OpenHoldsRecord'
    BY <1>1, <1>2, <1>5
    DEF Inv, PatientInv, Tasks, UnderwayHasNoTask, UnderwayIsInside, UnderwayPCs, OneApproved,
        OpenedKeepsRecord, OpenHoldsRecord, OpenedPCs
  <1>9. ChatRecordIsInside' /\ RequestIsPrivate' /\ JoinIsPrivate'
    BY <1>1, <1>2, <1>3, <1>4, <1>5
    DEF Inv, PatientInv, Tasks, ChatRecordIsInside, RequestIsPrivate, JoinIsPrivate, StartSteps
  <1>10. TaskMatchesRecord' /\ ChatTaskMeetsNoRequest' /\ RemovedIsOut' /\ TaskFits'
    BY <1>1, <1>4
    DEF Inv, PatientInv, Tasks, TaskMatchesRecord, ChatTaskMeetsNoRequest, RemovedIsOut, TaskFits
  <1>11. HandlerHoldsRecord' /\ TaskHoldsRecord' /\ SameChallenge' /\ NotifyComesFirst'
         /\ TidyHasNoRecord'
    BY <1>1, <1>2
    DEF Inv, PatientInv, Display, HandlerHoldsRecord, TaskHoldsRecord, SameChallenge,
        NotifyComesFirst, TidyHasNoRecord
  <1>12. ShownIsKnown'
    BY <1>1, <1>2 DEF Inv, PatientInv, Display, HandlerHoldsRecord, ShownIsKnown
  <1>13. Guarded'
    BY <1>1, <1>2, <1>5
    DEF Inv, PatientInv, Guarded, RequestIsWatched, GuestIsWatched, OpenedIsNoGuest, Guest,
        OpenedPCs, Inside
  <1> QED
    BY <1>7, <1>8, <1>9, <1>10, <1>11, <1>12, <1>13 DEF PatientInv, Tasks, Display

\* The departure is dealt with: no task is left, and its challenge is hidden.
LEMMA PatientLeaveCancel ==
    ASSUME Patience, Inv, IInv', CalmInv', NEW h \in Handlers, LeaveCancel(h)
    PROVE  PatientInv'
  <1>0. /\ handlers \in [Handlers -> HandlerStates] /\ TypeOK
        /\ timers \in [Timers -> TimerStates] /\ RegistryTracksLiveTimer
    BY DEF Inv, IInv, TypeOK
  <1>1. /\ UNCHANGED <<pending, phase, restoring, grant>>
        /\ handlers[h].pc = "leave_cancel" /\ Return(h)
        /\ CancelTimer /\ HideBestEffort(handlers[h].held)
    BY DEF LeaveCancel, redis, history, At
  <1>2. /\ handlers'[h].pc = "idle"
        /\ \A g \in Handlers \ {h} : handlers'[g] = handlers[g]
    BY <1>0, <1>1, ReturnStep
  <1>3. /\ UNCHANGED updates
        /\ tg'.member = tg.member /\ tg'.request = tg.request
        /\ tg'.challenges = tg.challenges \ {handlers[h].held}
    BY <1>0, <1>1, Hidden
  <1>4. \A t \in Timers : timers'[t].pc \in {"free", "over"}
    BY <1>0, <1>1, CancelledNone DEF Live
  <1>5. pending = NoRecord /\ ~tg.request /\ ~Guest
    BY <1>1
    DEF Inv, CalmInv, Flow, LeavingIsOut, Leaving, LeaveSteps, Watch, LeaveHasDeleted, At,
        Guest, Outside
  <1>6. \A u : Queued(u)' <=> Queued(u)
    BY <1>3 DEF Queued
  <1>7. /\ StartOf(TRUE)' => StartOf(TRUE)
        /\ StartOf(FALSE)' => StartOf(FALSE)
        /\ PressOf(TRUE)' => PressOf(TRUE)
        /\ PressOf(FALSE)' => PressOf(FALSE)
    <2>1. Continues(h)
      BY <1>2 DEF Continues, StartSteps, PressSteps, LeaveSteps
    <2> QED
      BY <1>2, <1>6, <2>1, NobodyNew
  <1>8. IdleBeforeUp' /\ UndoneIsOut' /\ ArmedHasRecord' /\ ForgetHasNoTask' /\ ScheduleHasRecord'
    BY <1>1, <1>2, <1>3, <1>4
    DEF Inv, PatientInv, Tasks, IdleBeforeUp, UndoneIsOut, ArmedHasRecord, ForgetHasNoTask,
        ScheduleHasRecord, ArmedPCs, ActingPCs
  <1>9. UnderwayHasNoTask' /\ UnderwayIsInside' /\ OneApproved' /\ OpenedKeepsRecord'
        /\ OpenHoldsRecord'
    BY <1>1, <1>2, <1>3, <1>4, <1>7
    DEF Inv, PatientInv, Tasks, UnderwayHasNoTask, UnderwayIsInside, UnderwayPCs, OneApproved,
        OpenedKeepsRecord, OpenHoldsRecord, OpenedPCs, ArmedPCs, ActingPCs
  <1>10. ChatRecordIsInside' /\ RequestIsPrivate' /\ JoinIsPrivate'
    BY <1>1, <1>2, <1>3, <1>5, <1>6, <1>7
    DEF Inv, PatientInv, Tasks, ChatRecordIsInside, RequestIsPrivate, JoinIsPrivate, StartSteps
  <1>11. TaskMatchesRecord' /\ ChatTaskMeetsNoRequest' /\ RemovedIsOut' /\ TaskFits'
    BY <1>4
    DEF TaskMatchesRecord, ChatTaskMeetsNoRequest, RemovedIsOut, TaskFits, ArmedPCs, ActingPCs
  <1>12. HandlerHoldsRecord' /\ TaskHoldsRecord' /\ SameChallenge' /\ NotifyComesFirst'
         /\ TidyHasNoRecord'
    BY <1>1, <1>4, <1>5
    DEF HandlerHoldsRecord, TaskHoldsRecord, SameChallenge, NotifyComesFirst, TidyHasNoRecord,
        ActingPCs
  <1>13. ShownIsKnown'
    BY <1>1, <1>2, <1>3
    DEF Inv, PatientInv, Display, SameChallenge, ShownIsKnown
  <1>14. Guarded'
    BY <1>1, <1>3, <1>5
    DEF Guarded, RequestIsWatched, GuestIsWatched, OpenedIsNoGuest, Guest
  <1> QED
    BY <1>8, <1>9, <1>10, <1>11, <1>12, <1>13, <1>14 DEF PatientInv, Tasks, Display

\* A press that comes too late: nothing is opened.
LEMMA PatientOpenRefused ==
    ASSUME Patience, Inv, IInv', CalmInv', NEW h \in Handlers,
           handlers[h].pc = "open", Return(h),
           UNCHANGED <<tg, updates, pending, timers, phase, restoring, grant>>
    PROVE  PatientInv'
  <1>0. handlers \in [Handlers -> HandlerStates]
    BY DEF Inv, IInv, TypeOK
  <1>1. /\ handlers'[h].pc = "idle"
        /\ \A g \in Handlers \ {h} : handlers'[g] = handlers[g]
    BY <1>0, ReturnStep
  <1>2. \A u : Queued(u)' <=> Queued(u)
    BY DEF Queued
  <1>3. /\ StartOf(TRUE)' <=> StartOf(TRUE)
        /\ StartOf(FALSE)' <=> StartOf(FALSE)
        /\ PressOf(TRUE)' => PressOf(TRUE)
        /\ PressOf(FALSE)' => PressOf(FALSE)
    <2>1. Continues(h) /\ handlers[h].pc \notin StartSteps
      BY <1>1 DEF Continues, StartSteps, PressSteps, LeaveSteps
    <2> QED
      BY <1>1, <1>2, <2>1, NobodyNew, StartsGoOn
  <1>4. Leaving => Leaving'
    BY <1>1, <1>2 DEF Leaving, LeaveSteps
  <1>5. IdleBeforeUp' /\ UndoneIsOut' /\ ArmedHasRecord' /\ ForgetHasNoTask' /\ ScheduleHasRecord'
    BY <1>1
    DEF Inv, PatientInv, Tasks, IdleBeforeUp, UndoneIsOut, ArmedHasRecord, ForgetHasNoTask,
        ScheduleHasRecord
  <1>6. UnderwayHasNoTask' /\ UnderwayIsInside' /\ OneApproved' /\ OpenedKeepsRecord'
        /\ OpenHoldsRecord'
    BY <1>1, <1>3
    DEF Inv, PatientInv, Tasks, UnderwayHasNoTask, UnderwayIsInside, UnderwayPCs, OneApproved,
        OpenedKeepsRecord, OpenHoldsRecord, OpenedPCs
  <1>7. ChatRecordIsInside' /\ RequestIsPrivate' /\ JoinIsPrivate'
    BY <1>1, <1>2, <1>3, <1>4
    DEF Inv, PatientInv, Tasks, ChatRecordIsInside, RequestIsPrivate, JoinIsPrivate, StartSteps
  <1>8. TaskMatchesRecord' /\ ChatTaskMeetsNoRequest' /\ RemovedIsOut' /\ TaskFits'
    BY <1>3
    DEF Inv, PatientInv, Tasks, TaskMatchesRecord, ChatTaskMeetsNoRequest, RemovedIsOut,
        TaskFits, Fits
  <1>9. Display'
    BY <1>1
    DEF Inv, PatientInv, Display, HandlerHoldsRecord, TaskHoldsRecord, SameChallenge,
        NotifyComesFirst, TidyHasNoRecord, ShownIsKnown, OpenedPCs
  <1>10. Guarded'
    BY <1>1, <1>3
    DEF Inv, PatientInv, Guarded, RequestIsWatched, GuestIsWatched, OpenedIsNoGuest, Guest,
        OpenedPCs
  <1> QED
    BY <1>5, <1>6, <1>7, <1>8, <1>9, <1>10 DEF PatientInv, Tasks

\* What a press finds that can open the chat.
LEMMA OpenFinds ==
    ASSUME Inv, NEW h \in Handlers, handlers[h].pc = "open",
           IF handlers[h].private THEN tg.request ELSE tg.member \in Inside
    PROVE  /\ ~StartOf(FALSE) /\ ~StartOf(TRUE)
           /\ \A g \in Handlers : handlers[g].pc \notin StartSteps
           /\ pending # NoRecord => handlers[h].held = pending.challenge
           /\ handlers[h].private => /\ pending # NoRecord /\ tg.member \in Outside
                                     /\ \A g \in Handlers : handlers[g].pc \notin OpenedPCs
                                     /\ ~PressOf(FALSE) /\ \A c \in tg.challenges : c.private
           /\ \A t \in Timers :
                  /\ timers[t].pc \in ActingPCs => handlers[h].held = timers[t].held
                  /\ timers[t].pc \notin {"unban", "delete", "tidy"}
  <1>0. /\ handlers \in [Handlers -> HandlerStates] /\ tg \in Chats
        /\ \A g \in Handlers : handlers[g].private \in BOOLEAN
    BY DEF Inv, IInv, TypeOK, HandlerStates
  <1>1. Pressing /\ (~handlers[h].private => PressOf(FALSE))
    BY <1>0 DEF Pressing, PressOf, PressSteps
  <1>2. ~StartOf(TRUE)
    BY <1>1 DEF Inv, CalmInv, Flow, RequestIsUndisturbed
  <1>3. ~StartOf(FALSE)
    BY <1>1 DEF Inv, CalmInv, Flow, JoinIsClosed, PatientInv, Tasks, JoinIsPrivate
  <1>4. \A g \in Handlers : handlers[g].pc \notin StartSteps
    BY <1>0, <1>2, <1>3 DEF StartOf
  <1>5. /\ pending # NoRecord => handlers[h].held = pending.challenge
        /\ handlers[h].private => pending # NoRecord
    BY DEF Inv, PatientInv, Tasks, OpenHoldsRecord
  <1>6. handlers[h].private => /\ tg.member \in Outside
                               /\ \A g \in Handlers : handlers[g].pc \notin OpenedPCs
                               /\ ~PressOf(FALSE) /\ \A c \in tg.challenges : c.private
    BY <1>0
    DEF Inv, CalmInv, Flow, InsideIsClosed, OpenedIsClosed, OpenedPCs, PatientInv, Tasks,
        RequestIsPrivate, Chats, Statuses
  <1>7. ~Leaving
    BY DEF Inv, CalmInv, Flow, LeavingIsOut, Inside, Outside
  <1>8. ASSUME NEW t \in Timers
        PROVE  /\ timers[t].pc \in ActingPCs => handlers[h].held = timers[t].held
               /\ timers[t].pc \notin {"unban", "delete", "tidy"}
    <2>1. timers[t].pc \in ActingPCs => pending # NoRecord
      BY <1>7 DEF Inv, PatientInv, Tasks, ArmedHasRecord, ArmedPCs, Leaving, LeaveSteps
    <2>2. timers[t].pc \in ActingPCs => handlers[h].held = timers[t].held
      BY <1>5, <2>1 DEF Inv, PatientInv, Display, TaskHoldsRecord
    <2>3. timers[t].pc \notin {"unban", "delete", "tidy"}
      BY DEF Inv, PatientInv, Tasks, RemovedIsOut, Inside, Outside
    <2> QED
      BY <2>2, <2>3
  <1> QED
    BY <1>2, <1>3, <1>4, <1>5, <1>6, <1>8

LEMMA PatientOpen ==
    ASSUME Patience, Inv, IInv', CalmInv', NEW h \in Handlers, OpenAccess(h)
    PROVE  PatientInv'
  <1>0. /\ handlers \in [Handlers -> HandlerStates] /\ tg \in Chats /\ updates \in Seq(Updates)
        /\ handlers[h].private \in BOOLEAN
    BY DEF Inv, IInv, TypeOK, HandlerStates
  <1>1. UNCHANGED <<pending, timers, phase, restoring>> /\ handlers[h].pc = "open"
    BY DEF OpenAccess, redis, tasks, At
  <1> DEFINE possible == IF handlers[h].private THEN tg.request ELSE tg.member \in Inside
  <1>2. CASE ~possible
    <2>1. UNCHANGED <<tg, updates, grant>> /\ Return(h)
      BY <1>2
      DEF OpenAccess, CanApprove, CanRestrict, Execute, Telegram, Outcomes, Patience
    <2> QED
      BY <1>1, <2>1, PatientOpenRefused
  <1>3. CASE possible
    <2>1. /\ Execute("ok", IF handlers[h].private THEN Approve(tg) ELSE Unrestrict(tg))
          /\ grant' = "callback" /\ Goto(h, "mark")
      BY <1>3 DEF OpenAccess, CanApprove, CanRestrict, Telegram, Outcomes, Patience
    <2>2. /\ ~StartOf(FALSE) /\ ~StartOf(TRUE)
          /\ \A g \in Handlers : handlers[g].pc \notin StartSteps
          /\ pending # NoRecord => handlers[h].held = pending.challenge
          /\ handlers[h].private => /\ pending # NoRecord /\ tg.member \in Outside
                                    /\ \A g \in Handlers : handlers[g].pc \notin OpenedPCs
                                    /\ ~PressOf(FALSE) /\ \A c \in tg.challenges : c.private
          /\ \A t \in Timers :
                 /\ timers[t].pc \in ActingPCs => handlers[h].held = timers[t].held
                 /\ timers[t].pc \notin {"unban", "delete", "tidy"}
      BY <1>1, <1>3, OpenFinds
    <2>3. /\ handlers'[h].pc = "mark" /\ handlers'[h].held = handlers[h].held
          /\ handlers'[h].private = handlers[h].private
          /\ \A g \in Handlers \ {h} : handlers'[g] = handlers[g]
      BY <1>0, <2>1, GotoStep DEF HandlerPCs, PressSteps
    <2>4. /\ tg'.member = "member" /\ tg'.challenges = tg.challenges /\ ~tg'.request
          /\ updates' = IF handlers[h].private THEN updates \o <<"joined">> ELSE updates
      <3>1. CASE handlers[h].private
        <4>1. tg' = Approve(tg) /\ updates' = updates \o MemberNotice(tg, Approve(tg))
          BY <2>1, <3>1 DEF Execute
        <4>2. MemberNotice(tg, Approve(tg)) = <<"joined">>
          BY <1>0, <2>2, <3>1 DEF MemberNotice, Approve, Chats, Inside, Outside
        <4> QED
          BY <1>0, <3>1, <4>1, <4>2 DEF Approve, Chats
      <3>2. CASE ~handlers[h].private
        <4>1. Execute("ok", Unrestrict(tg))
          BY <2>1, <3>2
        <4>2. Unrestrict(tg) \in Chats /\ Unrestrict(tg).member \in Inside
          BY <1>0, ChatOperations DEF Unrestrict, Chats, Inside
        <4>3. UNCHANGED updates /\ tg' = Unrestrict(tg)
          BY <1>0, <1>3, <3>2, <4>1, <4>2, CallInPlace DEF Execute
        <4>4. ~tg.request
          BY <1>3, <3>2 DEF Inv, CalmInv, Flow, InsideIsClosed
        <4> QED
          BY <1>0, <3>2, <4>3, <4>4 DEF Unrestrict, Chats
      <3> QED
        BY <3>1, <3>2
    <2>5. \A u : Queued(u)' <=> Queued(u) \/ (handlers[h].private /\ u = "joined")
      <3>1. CASE handlers[h].private
        BY <1>0, <2>4, <3>1, AppendQueue
      <3>2. CASE ~handlers[h].private
        BY <2>4, <3>2 DEF Queued
      <3> QED
        BY <3>1, <3>2
    <2>6. /\ \A g \in Handlers : handlers'[g].pc \notin StartSteps
          /\ ~StartOf(TRUE)'
          /\ StartOf(FALSE)' => handlers[h].private
          /\ PressOf(FALSE)' => PressOf(FALSE)
      <3>1. \A g \in Handlers : handlers'[g].pc \notin StartSteps
        BY <2>2, <2>3 DEF StartSteps
      <3>2. ~StartOf(TRUE)' /\ (StartOf(FALSE)' => handlers[h].private)
        BY <2>2, <2>5, <3>1 DEF StartOf
      <3>3. PressOf(FALSE)' => PressOf(FALSE)
        BY <1>1, <2>3, <2>5 DEF PressOf, PressSteps
      <3> QED
        BY <3>1, <3>2, <3>3
    <2>7. "member" \in Inside
      BY DEF Inside
    <2>8. IdleBeforeUp'
      BY <1>1 DEF Inv, CalmInv, Watch, RunsOnlyUp, IdleBeforeUp, At
    <2>9. UndoneIsOut' /\ ArmedHasRecord' /\ ForgetHasNoTask' /\ ScheduleHasRecord'
      BY <1>1, <2>2, <2>3
      DEF Inv, PatientInv, Tasks, UndoneIsOut, ArmedHasRecord, ForgetHasNoTask,
          ScheduleHasRecord, StartSteps
    <2>10. UnderwayHasNoTask' /\ UnderwayIsInside' /\ OpenedKeepsRecord'
      BY <1>1, <2>2, <2>6
      DEF UnderwayHasNoTask, UnderwayIsInside, UnderwayPCs, OpenedKeepsRecord, StartSteps
    <2>11. OneApproved' /\ OpenHoldsRecord'
      <3>1. handlers[h].private => \A g \in Handlers : handlers[g].pc \in PressSteps => handlers[g].private
        <4>1. \A g \in Handlers : handlers[g].private \in BOOLEAN
          BY <1>0 DEF HandlerStates
        <4> QED
          BY <2>2, <4>1 DEF PressOf
      <3> QED
        BY <1>1, <2>2, <2>3, <2>4, <3>1
        DEF Inv, PatientInv, Tasks, OneApproved, OpenHoldsRecord, OpenedPCs, PressSteps
    <2>12. ChatRecordIsInside' /\ RequestIsPrivate'
      BY <2>4, <2>7 DEF ChatRecordIsInside, RequestIsPrivate
    <2>13. JoinIsPrivate'
      BY <2>2, <2>4, <2>5, <2>6
      DEF Inv, PatientInv, Tasks, JoinIsPrivate, StartOf
    <2>14. TaskMatchesRecord' /\ ChatTaskMeetsNoRequest' /\ RemovedIsOut' /\ TaskFits'
      BY <1>1, <2>2, <2>4, <2>6
      DEF Inv, PatientInv, Tasks, TaskMatchesRecord, ChatTaskMeetsNoRequest, RemovedIsOut,
          TaskFits, Fits
    <2>15. HandlerHoldsRecord' /\ TaskHoldsRecord' /\ NotifyComesFirst' /\ TidyHasNoRecord'
      BY <1>1, <2>2, <2>3, <2>4
      DEF Inv, PatientInv, Display, HandlerHoldsRecord, TaskHoldsRecord, NotifyComesFirst,
          TidyHasNoRecord, OpenedPCs
    <2>16. SameChallenge'
      BY <1>1, <2>2, <2>3 DEF Inv, PatientInv, Display, SameChallenge
    <2>17. ShownIsKnown'
      BY <1>1, <2>3, <2>4 DEF Inv, PatientInv, Display, ShownIsKnown
    <2>18. Guarded'
      BY <2>1, <2>4
      DEF Guarded, RequestIsWatched, GuestIsWatched, OpenedIsNoGuest, Guest
    <2> QED
      BY <2>8, <2>9, <2>10, <2>11, <2>12, <2>13, <2>14, <2>15, <2>16, <2>17, <2>18
      DEF PatientInv, Tasks, Display
  <1> QED
    BY <1>2, <1>3

LEMMA PatientMark ==
    ASSUME Patience, Inv, IInv', CalmInv', NEW h \in Handlers, MarkVerified(h)
    PROVE  PatientInv'
  <1>0. /\ handlers \in [Handlers -> HandlerStates]
        /\ timers \in [Timers -> TimerStates] /\ RegistryTracksLiveTimer
    BY DEF Inv, IInv, TypeOK
  <1>1. /\ UNCHANGED <<tg, updates, pending, phase, restoring, grant>>
        /\ handlers[h].pc = "mark" /\ Goto(h, "forget") /\ CancelTimer
    BY DEF MarkVerified, history, At
  <1>2. /\ handlers'[h].pc = "forget" /\ handlers'[h].held = handlers[h].held
        /\ handlers'[h].private = handlers[h].private
        /\ \A g \in Handlers \ {h} : handlers'[g] = handlers[g]
    BY <1>0, <1>1, GotoStep DEF HandlerPCs, PressSteps
  <1>3. \A t \in Timers : timers'[t].pc \in {"free", "over"}
    BY <1>0, <1>1, CancelledNone DEF Live
  <1>4. \A u : Queued(u)' <=> Queued(u)
    BY <1>1 DEF Queued
  <1>5. /\ StartOf(TRUE)' <=> StartOf(TRUE)
        /\ StartOf(FALSE)' <=> StartOf(FALSE)
        /\ PressOf(TRUE)' => PressOf(TRUE)
        /\ PressOf(FALSE)' => PressOf(FALSE)
    <2>1. Continues(h) /\ handlers[h].pc \notin StartSteps
      BY <1>1, <1>2 DEF Continues, StartSteps, PressSteps, LeaveSteps
    <2> QED
      BY <1>2, <1>4, <2>1, NobodyNew, StartsGoOn
  <1>6. Leaving => Leaving'
    BY <1>1, <1>2, <1>4 DEF Leaving, LeaveSteps
  <1>7. IdleBeforeUp' /\ UndoneIsOut' /\ ArmedHasRecord' /\ ForgetHasNoTask' /\ ScheduleHasRecord'
    BY <1>1, <1>2, <1>3
    DEF Inv, PatientInv, Tasks, IdleBeforeUp, UndoneIsOut, ArmedHasRecord, ForgetHasNoTask,
        ScheduleHasRecord, ArmedPCs, ActingPCs
  <1>8. UnderwayHasNoTask' /\ UnderwayIsInside' /\ OneApproved' /\ OpenedKeepsRecord'
        /\ OpenHoldsRecord'
    BY <1>1, <1>2, <1>3, <1>5
    DEF Inv, PatientInv, Tasks, UnderwayHasNoTask, UnderwayIsInside, UnderwayPCs, OneApproved,
        OpenedKeepsRecord, OpenHoldsRecord, OpenedPCs, ArmedPCs, ActingPCs
  <1>9. ChatRecordIsInside' /\ RequestIsPrivate' /\ JoinIsPrivate'
    BY <1>1, <1>2, <1>4, <1>5, <1>6
    DEF Inv, PatientInv, Tasks, ChatRecordIsInside, RequestIsPrivate, JoinIsPrivate, StartSteps
  <1>10. TaskMatchesRecord' /\ ChatTaskMeetsNoRequest' /\ RemovedIsOut' /\ TaskFits'
    BY <1>3
    DEF TaskMatchesRecord, ChatTaskMeetsNoRequest, RemovedIsOut, TaskFits, ArmedPCs, ActingPCs
  <1>11. HandlerHoldsRecord' /\ TaskHoldsRecord' /\ SameChallenge' /\ NotifyComesFirst'
         /\ TidyHasNoRecord'
    BY <1>1, <1>2, <1>3
    DEF Inv, PatientInv, Display, HandlerHoldsRecord, TaskHoldsRecord, SameChallenge,
        NotifyComesFirst, TidyHasNoRecord, ActingPCs, OpenedPCs
  <1>12. ShownIsKnown'
    BY <1>1, <1>2 DEF Inv, PatientInv, Display, SameChallenge, ShownIsKnown
  <1>13. Guarded'
    BY <1>1, <1>2, <1>5
    DEF Inv, PatientInv, Guarded, RequestIsWatched, GuestIsWatched, OpenedIsNoGuest, Guest,
        OpenedPCs
  <1> QED
    BY <1>7, <1>8, <1>9, <1>10, <1>11, <1>12, <1>13 DEF PatientInv, Tasks, Display

LEMMA PatientForget ==
    ASSUME Patience, Inv, IInv', CalmInv', NEW h \in Handlers, ForgetPending(h)
    PROVE  PatientInv'
  <1>0. handlers \in [Handlers -> HandlerStates]
    BY DEF Inv, IInv, TypeOK
  <1>1. /\ UNCHANGED <<tg, updates, timers, phase, restoring, grant>>
        /\ handlers[h].pc = "forget" /\ Goto(h, "tidy") /\ pending' = NoRecord
    BY CallsSucceed DEF ForgetPending, tasks, history, At
  <1>2. /\ handlers'[h].pc = "tidy" /\ handlers'[h].held = handlers[h].held
        /\ handlers'[h].private = handlers[h].private
        /\ \A g \in Handlers \ {h} : handlers'[g] = handlers[g]
    BY <1>0, <1>1, GotoStep DEF HandlerPCs, PressSteps
  <1>3. \A t \in Timers : timers[t].pc \in {"free", "over"}
    BY <1>1 DEF Inv, PatientInv, Tasks, ForgetHasNoTask
  <1>4. \A u : Queued(u)' <=> Queued(u)
    BY <1>1 DEF Queued
  <1>5. /\ StartOf(TRUE)' => StartOf(TRUE)
        /\ StartOf(FALSE)' => StartOf(FALSE)
        /\ PressOf(TRUE)' => PressOf(TRUE)
        /\ PressOf(FALSE)' => PressOf(FALSE)
    <2>1. Continues(h)
      BY <1>1, <1>2 DEF Continues, StartSteps, PressSteps, LeaveSteps
    <2> QED
      BY <1>2, <1>4, <2>1, NobodyNew
  <1>6. ~tg.request /\ ~Guest
    BY <1>1 DEF Inv, CalmInv, Flow, OpenedIsClosed, PatientInv, Guarded, OpenedIsNoGuest, OpenedPCs
  <1>7. /\ Pressing
        /\ \A g \in Handlers :
               handlers[g].pc \in PressSteps /\ ~handlers[g].private => PressOf(FALSE)
    <2>1. \A g \in Handlers : handlers[g].private \in BOOLEAN
      BY <1>0 DEF HandlerStates
    <2> QED
      BY <1>1, <2>1 DEF Pressing, PressOf, PressSteps
  <1>8. \A g \in Handlers : handlers[g].pc # "schedule"
    <2>1. ASSUME NEW g \in Handlers, handlers[g].pc = "schedule" PROVE FALSE
      <3>1. CASE handlers[g].private
        <4>1. StartOf(TRUE)
          BY <1>0, <2>1, <3>1 DEF StartOf, StartSteps, HandlerStates
        <4> QED
          BY <1>7, <4>1 DEF Inv, CalmInv, Flow, RequestIsUndisturbed
      <3>2. CASE ~handlers[g].private
        BY <1>1, <2>1, <3>2
        DEF Inv, PatientInv, Tasks, UnderwayIsInside, UnderwayPCs, OpenedKeepsRecord, OpenedPCs
      <3> QED
        BY <3>1, <3>2
    <2> QED
      BY <2>1
  <1>9. IdleBeforeUp' /\ UndoneIsOut' /\ ArmedHasRecord' /\ ForgetHasNoTask' /\ ScheduleHasRecord'
    BY <1>1, <1>2, <1>3, <1>8
    DEF Inv, PatientInv, Tasks, IdleBeforeUp, UndoneIsOut, ArmedHasRecord, ForgetHasNoTask,
        ScheduleHasRecord, ArmedPCs, ActingPCs
  <1>10. UnderwayHasNoTask' /\ UnderwayIsInside' /\ OneApproved' /\ OpenHoldsRecord'
    BY <1>1, <1>2, <1>6
    DEF Inv, PatientInv, Tasks, UnderwayHasNoTask, UnderwayIsInside, UnderwayPCs, OneApproved,
        OpenHoldsRecord, OpenedPCs
  \* Of two presses that opened the chat one was made in the chat, where no
  \* joining is under way then.
  <1>11. OpenedKeepsRecord'
    <2>1. ASSUME NEW g \in Handlers, g # h, handlers[g].pc \in OpenedPCs
          PROVE  ~StartOf(FALSE)
      <3>1. ~handlers[g].private \/ ~handlers[h].private
        BY <1>1, <2>1 DEF Inv, PatientInv, Tasks, OneApproved, OpenedPCs
      <3>2. PressOf(FALSE)
        BY <1>1, <1>7, <2>1, <3>1 DEF OpenedPCs, PressSteps
      <3> QED
        BY <3>2 DEF Inv, PatientInv, Tasks, JoinIsPrivate
    <2> QED
      BY <1>1, <1>2, <1>5, <2>1
      DEF Inv, PatientInv, Tasks, OpenedKeepsRecord, OpenedPCs, UnderwayPCs
  <1>12. ChatRecordIsInside' /\ RequestIsPrivate' /\ JoinIsPrivate'
    BY <1>1, <1>2, <1>4, <1>5, <1>6
    DEF Inv, PatientInv, Tasks, ChatRecordIsInside, RequestIsPrivate, JoinIsPrivate, StartSteps
  <1>13. TaskMatchesRecord' /\ ChatTaskMeetsNoRequest' /\ RemovedIsOut' /\ TaskFits'
    BY <1>1, <1>3
    DEF TaskMatchesRecord, ChatTaskMeetsNoRequest, RemovedIsOut, TaskFits, ArmedPCs, ActingPCs
  <1>14. HandlerHoldsRecord' /\ TaskHoldsRecord' /\ SameChallenge' /\ NotifyComesFirst'
         /\ TidyHasNoRecord'
    BY <1>1, <1>3
    DEF HandlerHoldsRecord, TaskHoldsRecord, SameChallenge, NotifyComesFirst, TidyHasNoRecord,
        ActingPCs
  <1>15. ShownIsKnown'
    BY <1>1, <1>2 DEF Inv, PatientInv, Display, HandlerHoldsRecord, ShownIsKnown, OpenedPCs
  <1>16. Guarded'
    BY <1>1, <1>6 DEF Guarded, RequestIsWatched, GuestIsWatched, OpenedIsNoGuest, Guest
  <1> QED
    BY <1>9, <1>10, <1>11, <1>12, <1>13, <1>14, <1>15, <1>16 DEF PatientInv, Tasks, Display

LEMMA PatientTidy ==
    ASSUME Patience, Inv, IInv', CalmInv', NEW h \in Handlers, TidyChallenge(h)
    PROVE  PatientInv'
  <1>0. handlers \in [Handlers -> HandlerStates] /\ TypeOK
    BY DEF Inv, IInv, TypeOK
  <1>1. /\ UNCHANGED <<pending, timers, phase, restoring, grant>>
        /\ handlers[h].pc = "tidy" /\ Return(h) /\ HideBestEffort(handlers[h].held)
    BY DEF TidyChallenge, redis, tasks, history, At
  <1>2. /\ handlers'[h].pc = "idle"
        /\ \A g \in Handlers \ {h} : handlers'[g] = handlers[g]
    BY <1>0, <1>1, ReturnStep
  <1>3. /\ UNCHANGED updates
        /\ tg'.member = tg.member /\ tg'.request = tg.request
        /\ tg'.challenges = tg.challenges \ {handlers[h].held}
    BY <1>0, <1>1, Hidden
  <1>4. \A u : Queued(u)' <=> Queued(u)
    BY <1>3 DEF Queued
  <1>5. /\ StartOf(TRUE)' <=> StartOf(TRUE)
        /\ StartOf(FALSE)' <=> StartOf(FALSE)
        /\ PressOf(TRUE)' => PressOf(TRUE)
        /\ PressOf(FALSE)' => PressOf(FALSE)
    <2>1. Continues(h) /\ handlers[h].pc \notin StartSteps
      BY <1>1, <1>2 DEF Continues, StartSteps, PressSteps, LeaveSteps
    <2> QED
      BY <1>2, <1>4, <2>1, NobodyNew, StartsGoOn
  <1>6. Leaving => Leaving'
    BY <1>1, <1>2, <1>4 DEF Leaving, LeaveSteps
  <1>7. IdleBeforeUp' /\ UndoneIsOut' /\ ArmedHasRecord' /\ ForgetHasNoTask' /\ ScheduleHasRecord'
    BY <1>1, <1>2, <1>3
    DEF Inv, PatientInv, Tasks, IdleBeforeUp, UndoneIsOut, ArmedHasRecord, ForgetHasNoTask,
        ScheduleHasRecord
  <1>8. UnderwayHasNoTask' /\ UnderwayIsInside' /\ OneApproved' /\ OpenedKeepsRecord'
        /\ OpenHoldsRecord'
    BY <1>1, <1>2, <1>3, <1>5
    DEF Inv, PatientInv, Tasks, UnderwayHasNoTask, UnderwayIsInside, UnderwayPCs, OneApproved,
        OpenedKeepsRecord, OpenHoldsRecord, OpenedPCs
  <1>9. ChatRecordIsInside' /\ RequestIsPrivate' /\ JoinIsPrivate'
    BY <1>1, <1>2, <1>3, <1>4, <1>5, <1>6
    DEF Inv, PatientInv, Tasks, ChatRecordIsInside, RequestIsPrivate, JoinIsPrivate, StartSteps
  <1>10. TaskMatchesRecord' /\ ChatTaskMeetsNoRequest' /\ RemovedIsOut' /\ TaskFits'
    BY <1>1, <1>3, <1>5
    DEF Inv, PatientInv, Tasks, TaskMatchesRecord, ChatTaskMeetsNoRequest, RemovedIsOut,
        TaskFits, Fits
  <1>11. HandlerHoldsRecord' /\ TaskHoldsRecord' /\ SameChallenge' /\ NotifyComesFirst'
         /\ TidyHasNoRecord'
    BY <1>1, <1>2, <1>3
    DEF Inv, PatientInv, Display, HandlerHoldsRecord, TaskHoldsRecord, SameChallenge,
        NotifyComesFirst, TidyHasNoRecord, OpenedPCs
  <1>12. ShownIsKnown'
    BY <1>1, <1>2, <1>3 DEF Inv, PatientInv, Display, ShownIsKnown
  <1>13. Guarded'
    BY <1>1, <1>2, <1>3, <1>5
    DEF Inv, PatientInv, Guarded, RequestIsWatched, GuestIsWatched, OpenedIsNoGuest, Guest,
        OpenedPCs
  <1> QED
    BY <1>7, <1>8, <1>9, <1>10, <1>11, <1>12, <1>13 DEF PatientInv, Tasks, Display

\* Of what is queued, only the first update is taken.
LEMMA TailKeepsRest ==
    ASSUME updates \in Seq(Updates), updates # <<>>, updates' = Tail(updates)
    PROVE  \A u : Queued(u) => u = Head(updates) \/ Queued(u)'
  <1>1. /\ Len(updates) \in Nat \ {0}
        /\ DOMAIN updates = 1..Len(updates) /\ DOMAIN updates' = 1..(Len(updates) - 1)
        /\ \A i \in 1..(Len(updates) - 1) : updates'[i] = updates[i + 1]
        /\ Head(updates) = updates[1]
    OBVIOUS
  <1> SUFFICES ASSUME NEW u, Queued(u), u # Head(updates) PROVE Queued(u)'
    OBVIOUS
  <1>2. PICK i \in DOMAIN updates : updates[i] = u
    BY DEF Queued
  <1>3. i - 1 \in DOMAIN updates' /\ updates'[i - 1] = u
    BY <1>1, <1>2
  <1> QED
    BY <1>3 DEF Queued

LEMMA PatientDispatch ==
    ASSUME Patience, Inv, IInv', CalmInv', NEW h \in Handlers, Dispatch(h)
    PROVE  PatientInv'
  <1> DEFINE u == Head(updates)
  <1>1. /\ updates \in Seq(Updates) /\ updates # <<>> /\ updates' = Tail(updates)
        /\ u \in Updates /\ handlers \in [Handlers -> HandlerStates]
        /\ handlers[h].pc = "idle"
        /\ UNCHANGED <<tg, pending, timers, phase, restoring, grant>>
    BY DEF Inv, IInv, TypeOK, Dispatch, redis, tasks, history, At
  <1>2. /\ handlers'[h] = Spawned(u)
        /\ \A g \in Handlers \ {h} : handlers'[g] = handlers[g]
    BY <1>1 DEF Dispatch
  <1>3. /\ \A v : Queued(v)' => Queued(v)
        /\ \A v : Queued(v) => v = u \/ Queued(v)'
        /\ Queued(u)
    BY <1>1, TailQueue, TailKeepsRest
  <1> HIDE DEF u
  <1>4. /\ u = "request" => handlers'[h].pc = "start_get" /\ handlers'[h].private = TRUE
        /\ u = "joined" => handlers'[h].pc = "start_get" /\ handlers'[h].private = FALSE
        /\ u = "left" => handlers'[h].pc = "leave_get"
        /\ u = "press_private" => handlers'[h].pc = "press_get" /\ handlers'[h].private = TRUE
        /\ u = "press_chat" => handlers'[h].pc = "press_get" /\ handlers'[h].private = FALSE
    <2>1. /\ handlers'[h].pc = FirstStep(u)
          /\ handlers'[h].private = (u \in {"request", "press_private"})
      BY <1>2 DEF Spawned
    <2>2. handlers'[h].private \in BOOLEAN
      BY DEF IInv, TypeOK, HandlerStates
    <2>3. ASSUME u \in {"request", "press_private"} PROVE handlers'[h].private = TRUE
      BY <2>1, <2>3
    <2>4. ASSUME u \notin {"request", "press_private"} PROVE handlers'[h].private = FALSE
      <3>1. ~handlers'[h].private
        BY <2>1, <2>4
      <3> QED
        BY <2>2, <3>1
    <2> QED
      BY <2>1, <2>3, <2>4 DEF FirstStep
  <1>5. u \in {"request", "joined", "left", "press_private", "press_chat"}
    BY <1>1 DEF Updates
  <1>6. /\ handlers'[h].pc \in {"start_get", "leave_get", "press_get"}
        /\ handlers'[h].pc = "start_get" => u = (IF handlers'[h].private THEN "request" ELSE "joined")
        /\ handlers'[h].pc = "press_get"
               => u = (IF handlers'[h].private THEN "press_private" ELSE "press_chat")
    BY <1>4, <1>5
  <1>7. /\ StartOf(TRUE)' => StartOf(TRUE)
        /\ StartOf(FALSE)' => StartOf(FALSE)
        /\ PressOf(TRUE)' => PressOf(TRUE)
        /\ PressOf(FALSE)' => PressOf(FALSE)
    BY <1>2, <1>3, <1>6 DEF StartOf, PressOf, StartSteps, PressSteps
  <1>8. /\ StartOf(TRUE) => StartOf(TRUE)'
        /\ StartOf(FALSE) => StartOf(FALSE)'
    BY <1>1, <1>2, <1>3, <1>4 DEF StartOf, StartSteps
  <1>9. Leaving => Leaving'
    BY <1>1, <1>2, <1>3, <1>4 DEF Leaving, LeaveSteps
  <1>10. IdleBeforeUp' /\ UndoneIsOut' /\ ArmedHasRecord' /\ ForgetHasNoTask' /\ ScheduleHasRecord'
    BY <1>1, <1>2, <1>6
    DEF Inv, PatientInv, Tasks, IdleBeforeUp, UndoneIsOut, ArmedHasRecord, ForgetHasNoTask,
        ScheduleHasRecord
  <1>11. UnderwayHasNoTask' /\ UnderwayIsInside' /\ OneApproved' /\ OpenHoldsRecord'
    BY <1>1, <1>2, <1>6
    DEF Inv, PatientInv, Tasks, UnderwayHasNoTask, UnderwayIsInside, UnderwayPCs, OneApproved,
        OpenHoldsRecord, OpenedPCs
  <1>12. OpenedKeepsRecord'
    BY <1>1, <1>2, <1>6, <1>7
    DEF Inv, PatientInv, Tasks, OpenedKeepsRecord, OpenedPCs, UnderwayPCs
  <1>13. ChatRecordIsInside' /\ RequestIsPrivate'
    BY <1>1, <1>7, <1>9 DEF Inv, PatientInv, Tasks, ChatRecordIsInside, RequestIsPrivate
  <1>14. JoinIsPrivate'
    BY <1>1, <1>2, <1>3, <1>6, <1>7 DEF Inv, PatientInv, Tasks, JoinIsPrivate, StartSteps
  <1>15. TaskMatchesRecord' /\ ChatTaskMeetsNoRequest' /\ RemovedIsOut' /\ TaskFits'
    BY <1>1, <1>7
    DEF Inv, PatientInv, Tasks, TaskMatchesRecord, ChatTaskMeetsNoRequest, RemovedIsOut,
        TaskFits, Fits
  <1>16. Display'
    BY <1>1, <1>2, <1>6
    DEF Inv, PatientInv, Display, HandlerHoldsRecord, TaskHoldsRecord, SameChallenge,
        NotifyComesFirst, TidyHasNoRecord, ShownIsKnown, OpenedPCs
  <1>17. Guarded'
    BY <1>1, <1>2, <1>6, <1>8
    DEF Inv, PatientInv, Guarded, RequestIsWatched, GuestIsWatched, OpenedIsNoGuest, Guest,
        OpenedPCs
  <1> QED
    BY <1>10, <1>11, <1>12, <1>13, <1>14, <1>15, <1>16, <1>17 DEF PatientInv, Tasks

-----------------------------------------------------------------------------
(* The timeout tasks keep the invariant                                    *)

LEMMA TaskGoes ==
    ASSUME timers \in [Timers -> TimerStates], NEW t \in Timers, NEW pc, TimerGoto(t, pc)
    PROVE  /\ timers'[t].pc = pc /\ timers'[t].held = timers[t].held
           /\ timers'[t].private = timers[t].private
           /\ \A s \in Timers \ {t} : timers'[s] = timers[s]
  BY DEF TimerGoto, TimerStates

\* A task wakes up, ends without more ado, or is reaped.
LEMMA PatientTaskRests ==
    ASSUME Patience, Inv, IInv', CalmInv', NEW t \in Timers, TimerWake(t) \/ TimerDone(t)
    PROVE  PatientInv'
  <1>0. timers \in [Timers -> TimerStates]
    BY DEF Inv, IInv, TypeOK
  <1>1. UNCHANGED <<tg, updates, pending, handlers, phase, restoring, grant>>
    BY DEF TimerWake, TimerDone, redis, history
  <1>2. /\ \/ timers[t].pc = "sleep" /\ timers[t].wait = 0 /\ timers'[t].pc = "get"
              /\ timers'[t].private = timers[t].private
           \/ timers[t].pc = "over" /\ timers'[t].pc = "free"
        /\ \A s \in Timers \ {t} : timers'[s] = timers[s]
    BY <1>0, TaskGoes DEF TimerWake, TimerDone, TimerAt, Free
  <1>3. /\ \A b : StartOf(b)' = StartOf(b) /\ PressOf(b)' = PressOf(b)
        /\ Leaving' = Leaving /\ \A u : Queued(u)' = Queued(u)
    BY <1>1, NoticesStay DEF Queued
  <1>4. IdleBeforeUp' /\ UndoneIsOut' /\ ArmedHasRecord' /\ ForgetHasNoTask' /\ ScheduleHasRecord'
    BY <1>1, <1>2
    DEF Inv, PatientInv, Tasks, IdleBeforeUp, UndoneIsOut, ArmedHasRecord, ForgetHasNoTask,
        ScheduleHasRecord, ArmedPCs, ActingPCs
  <1>5. UnderwayHasNoTask' /\ UnderwayIsInside' /\ OneApproved' /\ OpenHoldsRecord'
        /\ OpenedKeepsRecord'
    BY <1>1, <1>2, <1>3
    DEF Inv, PatientInv, Tasks, UnderwayHasNoTask, UnderwayIsInside, OneApproved,
        OpenHoldsRecord, OpenedKeepsRecord, ArmedPCs, ActingPCs
  <1>6. ChatRecordIsInside' /\ RequestIsPrivate' /\ JoinIsPrivate'
    BY <1>1, <1>3 DEF Inv, PatientInv, Tasks, ChatRecordIsInside, RequestIsPrivate, JoinIsPrivate
  <1>7. TaskMatchesRecord' /\ ChatTaskMeetsNoRequest' /\ RemovedIsOut'
    BY <1>1, <1>2, <1>3
    DEF Inv, PatientInv, Tasks, TaskMatchesRecord, ChatTaskMeetsNoRequest, RemovedIsOut,
        ArmedPCs, ActingPCs
  <1>8. TaskFits'
    <2>1. pending # NoRecord => pending.age \in Nat
      BY ConstantsAssumption DEF Inv, IInv, TypeOK, Records, TTL
    <2> QED
      BY <1>1, <1>2, <2>1, ConstantsAssumption DEF Inv, PatientInv, Tasks, TaskFits, Fits
  <1>9. Display'
    BY <1>1, <1>2
    DEF Inv, PatientInv, Display, HandlerHoldsRecord, TaskHoldsRecord, SameChallenge,
        NotifyComesFirst, TidyHasNoRecord, ShownIsKnown, ActingPCs
  <1>10. Guarded'
    BY <1>1, <1>3
    DEF Inv, PatientInv, Guarded, RequestIsWatched, GuestIsWatched, OpenedIsNoGuest, Guest
  <1> QED
    BY <1>4, <1>5, <1>6, <1>7, <1>8, <1>9, <1>10 DEF PatientInv, Tasks

\* A task whose time is up reads the record.
LEMMA PatientTaskReads ==
    ASSUME Patience, Inv, IInv', CalmInv', NEW t \in Timers, TimerGet(t)
    PROVE  PatientInv'
  <1>0. timers \in [Timers -> TimerStates] /\ timers[t].private \in BOOLEAN
    BY DEF Inv, IInv, TypeOK, TimerStates
  <1>1. /\ UNCHANGED <<tg, updates, pending, handlers, phase, restoring, grant>>
        /\ timers[t].pc = "get"
    BY DEF TimerGet, redis, history, TimerAt
  <1>2. pending # NoRecord => pending.challenge.private = timers[t].private
    BY <1>1 DEF Inv, PatientInv, Tasks, TaskMatchesRecord, ArmedPCs
  <1>3. /\ \/ pending = NoRecord /\ timers'[t].pc = "over"
           \/ /\ pending # NoRecord /\ timers'[t].held = pending.challenge
              /\ timers'[t].private = timers[t].private
              /\ timers'[t].pc = (IF timers[t].private THEN "notify" ELSE "ban")
        /\ \A s \in Timers \ {t} : timers'[s] = timers[s]
    BY <1>0, <1>2, CallsSucceed DEF TimerGet, TimerGoto, AfterGet, TimerStates
  <1>4. /\ \A b : StartOf(b)' = StartOf(b) /\ PressOf(b)' = PressOf(b)
        /\ Leaving' = Leaving
    BY <1>1, NoticesStay
  <1>5. pending # NoRecord /\ ~timers[t].private => ~tg.request
    BY <1>2
    DEF Inv, PatientInv, Tasks, ChatRecordIsInside, CalmInv, Flow, InsideIsClosed, LeavingIsOut
  <1>6. IdleBeforeUp' /\ UndoneIsOut' /\ ArmedHasRecord' /\ ForgetHasNoTask' /\ ScheduleHasRecord'
    BY <1>1, <1>3
    DEF Inv, PatientInv, Tasks, IdleBeforeUp, UndoneIsOut, ArmedHasRecord, ForgetHasNoTask,
        ScheduleHasRecord, ArmedPCs, ActingPCs
  <1>7. UnderwayHasNoTask' /\ UnderwayIsInside' /\ OneApproved' /\ OpenHoldsRecord'
        /\ OpenedKeepsRecord'
    BY <1>1, <1>3, <1>4
    DEF Inv, PatientInv, Tasks, UnderwayHasNoTask, UnderwayIsInside, OneApproved,
        OpenHoldsRecord, OpenedKeepsRecord, ArmedPCs, ActingPCs
  <1>8. ChatRecordIsInside' /\ RequestIsPrivate' /\ JoinIsPrivate'
    BY <1>1, <1>4
    DEF Inv, PatientInv, Tasks, ChatRecordIsInside, RequestIsPrivate, JoinIsPrivate, Queued
  <1>9. TaskMatchesRecord' /\ ChatTaskMeetsNoRequest' /\ RemovedIsOut'
    BY <1>1, <1>3, <1>4, <1>5
    DEF Inv, PatientInv, Tasks, TaskMatchesRecord, ChatTaskMeetsNoRequest, RemovedIsOut,
        ArmedPCs, ActingPCs
  <1>10. TaskFits'
    BY <1>1, <1>3 DEF Inv, PatientInv, Tasks, TaskFits, Fits
  <1>11. HandlerHoldsRecord' /\ TaskHoldsRecord' /\ NotifyComesFirst' /\ TidyHasNoRecord'
         /\ ShownIsKnown'
    BY <1>1, <1>3
    DEF Inv, PatientInv, Display, HandlerHoldsRecord, TaskHoldsRecord,
        NotifyComesFirst, TidyHasNoRecord, ShownIsKnown, ActingPCs
  <1>12. SameChallenge'
    BY <1>1, <1>3
    DEF Inv, PatientInv, Display, SameChallenge, HandlerHoldsRecord, OpenedPCs, ActingPCs,
        CalmInv, Watch, LeaveHasDeleted, At
  <1>13. Guarded'
    BY <1>1, <1>4
    DEF Inv, PatientInv, Guarded, RequestIsWatched, GuestIsWatched, OpenedIsNoGuest, Guest
  <1> QED
    BY <1>6, <1>7, <1>8, <1>9, <1>10, <1>11, <1>12, <1>13 DEF PatientInv, Tasks, Display

\* A task hides its challenge, in private before it removes the user, in the
\* chat after that, or it declines the join request.
LEMMA PatientTaskCalls ==
    ASSUME Patience, Inv, IInv', CalmInv', NEW t \in Timers,
           TimerNotify(t) \/ TimerDecline(t) \/ TimerTidy(t)
    PROVE  PatientInv'
  <1>0. /\ timers \in [Timers -> TimerStates] /\ TypeOK /\ tg \in Chats
        /\ updates \in Seq(Updates)
    BY DEF Inv, IInv, TypeOK
  <1>1. UNCHANGED <<pending, handlers, phase, restoring, grant>>
    BY DEF TimerNotify, TimerDecline, TimerTidy, redis, history
  <1>2. /\ \/ timers[t].pc = "notify" /\ timers'[t].pc = "decline"
           \/ timers[t].pc = "decline" /\ timers'[t].pc = "ban"
           \/ timers[t].pc = "tidy" /\ timers'[t].pc = "over"
        /\ timers'[t].held = timers[t].held
        /\ timers'[t].private = timers[t].private
        /\ \A s \in Timers \ {t} : timers'[s] = timers[s]
    BY <1>0, TaskGoes DEF TimerNotify, TimerDecline, TimerTidy, TimerAt
  <1>3. /\ UNCHANGED updates
        /\ tg'.member = tg.member
        /\ tg'.request = (tg.request /\ timers[t].pc # "decline")
        /\ tg'.challenges = IF timers[t].pc = "decline" THEN tg.challenges
                            ELSE tg.challenges \ {timers[t].held}
    <2>1. CASE timers[t].pc = "decline"
      <3>1. \/ tg.request /\ tg' = Decline(tg)
            \/ ~tg.request /\ tg' = tg
        BY <2>1
        DEF TimerNotify, TimerDecline, TimerTidy, TimerAt, CanDecline, Execute, Telegram,
            Outcomes, Patience
      <3>2. UNCHANGED updates
        BY <1>0, <2>1, DeclineInPlace DEF TimerNotify, TimerDecline, TimerTidy, TimerAt
      <3> QED
        BY <1>0, <2>1, <3>1, <3>2 DEF Decline, Chats
    <2>2. CASE timers[t].pc # "decline"
      <3>1. HideBestEffort(timers[t].held)
        BY <2>2 DEF TimerNotify, TimerDecline, TimerTidy, TimerAt
      <3>2. tg'.request = tg.request /\ tg.request \in BOOLEAN
        BY <1>0, <3>1, Hidden DEF Chats
      <3> QED
        BY <1>0, <2>2, <3>1, <3>2, Hidden
    <2> QED
      BY <2>1, <2>2
  <1>4. /\ \A b : StartOf(b)' = StartOf(b) /\ PressOf(b)' = PressOf(b)
        /\ Leaving' = Leaving /\ \A u : Queued(u)' = Queued(u)
    BY <1>1, <1>3, NoticesStay DEF Queued
  <1>5. IdleBeforeUp' /\ UndoneIsOut' /\ ArmedHasRecord' /\ ForgetHasNoTask' /\ ScheduleHasRecord'
    BY <1>1, <1>2, <1>3
    DEF Inv, PatientInv, Tasks, IdleBeforeUp, UndoneIsOut, ArmedHasRecord, ForgetHasNoTask,
        ScheduleHasRecord, ArmedPCs, ActingPCs
  <1>6. UnderwayHasNoTask' /\ UnderwayIsInside' /\ OneApproved' /\ OpenHoldsRecord'
        /\ OpenedKeepsRecord'
    BY <1>1, <1>2, <1>3, <1>4
    DEF Inv, PatientInv, Tasks, UnderwayHasNoTask, UnderwayIsInside, OneApproved,
        OpenHoldsRecord, OpenedKeepsRecord, ArmedPCs, ActingPCs
  <1>7. ChatRecordIsInside' /\ RequestIsPrivate' /\ JoinIsPrivate'
    BY <1>1, <1>3, <1>4
    DEF Inv, PatientInv, Tasks, ChatRecordIsInside, RequestIsPrivate, JoinIsPrivate
  <1>8. TaskMatchesRecord' /\ ChatTaskMeetsNoRequest' /\ RemovedIsOut'
    BY <1>1, <1>2, <1>3, <1>4
    DEF Inv, PatientInv, Tasks, TaskMatchesRecord, ChatTaskMeetsNoRequest, RemovedIsOut,
        ArmedPCs, ActingPCs
  <1>9. TaskFits'
    BY <1>1, <1>2 DEF Inv, PatientInv, Tasks, TaskFits, Fits
  <1>10. HandlerHoldsRecord' /\ TaskHoldsRecord' /\ SameChallenge' /\ TidyHasNoRecord'
    BY <1>1, <1>2
    DEF Inv, PatientInv, Display, HandlerHoldsRecord, TaskHoldsRecord, SameChallenge,
        TidyHasNoRecord, ActingPCs
  <1>11. NotifyComesFirst' /\ ShownIsKnown'
    BY <1>1, <1>2, <1>3
    DEF Inv, PatientInv, Display, NotifyComesFirst, ShownIsKnown, ActingPCs
  <1>12. Guarded'
    BY <1>1, <1>3, <1>4
    DEF Inv, PatientInv, Guarded, RequestIsWatched, GuestIsWatched, OpenedIsNoGuest, Guest
  <1> QED
    BY <1>5, <1>6, <1>7, <1>8, <1>9, <1>10, <1>11, <1>12 DEF PatientInv, Tasks, Display

\* A task removes the user.
LEMMA PatientTaskRemoves ==
    ASSUME Patience, Inv, IInv', CalmInv', NEW t \in Timers, TimerBan(t) \/ TimerUnban(t)
    PROVE  PatientInv'
  <1>0. timers \in [Timers -> TimerStates] /\ tg \in Chats /\ updates \in Seq(Updates)
    BY DEF Inv, IInv, TypeOK
  <1>1. UNCHANGED <<pending, handlers, phase, restoring, grant>>
    BY DEF TimerBan, TimerUnban, redis, history
  <1>2. /\ \/ timers[t].pc = "ban" /\ timers'[t].pc = "unban"
           \/ timers[t].pc = "unban" /\ timers'[t].pc = "delete"
        /\ timers'[t].held = timers[t].held
        /\ timers'[t].private = timers[t].private
        /\ \A s \in Timers \ {t} : timers'[s] = timers[s]
    BY <1>0, TaskGoes DEF TimerBan, TimerUnban, TimerAt
  <1>3. PICK new \in {Ban(tg), Unban(tg)} : Execute("ok", new)
    BY CallsSucceed DEF TimerBan, TimerUnban
  <1>4. /\ new \in Chats /\ new.member \in Outside /\ new.request = tg.request
        /\ new.challenges = tg.challenges
    BY <1>0, <1>3 DEF Ban, Unban, Chats, Statuses, Outside
  <1>5. /\ tg'.member \in Outside /\ tg'.member \notin Inside
        /\ tg'.request = tg.request /\ tg'.challenges = tg.challenges
    BY <1>3, <1>4 DEF Execute, Inside, Outside
  <1>6. \/ UNCHANGED updates /\ tg.member \in Outside
        \/ updates' = updates \o <<"left">>
    <2>1. \/ UNCHANGED updates /\ (tg'.member \in Inside <=> tg.member \in Inside)
          \/ updates' = updates \o <<"left">>
      BY <1>0, <1>3, <1>4, Removal
    <2> QED
      BY <1>0, <1>5, <2>1 DEF Chats, Statuses
  <1>7. /\ \A u : Queued(u) => Queued(u)'
        /\ \A u : Queued(u)' => Queued(u) \/ u = "left"
        /\ tg.member \in Inside => Queued("left")'
    <2>1. CASE UNCHANGED updates /\ tg.member \in Outside
      BY <2>1 DEF Queued, Inside, Outside
    <2>2. CASE updates' = updates \o <<"left">>
      BY <1>0, <2>2, AppendQueue
    <2> QED
      BY <1>6, <2>1, <2>2
  <1>8. /\ StartOf(TRUE)' <=> StartOf(TRUE)
        /\ StartOf(FALSE)' <=> StartOf(FALSE)
        /\ PressOf(TRUE)' <=> PressOf(TRUE)
        /\ PressOf(FALSE)' <=> PressOf(FALSE)
        /\ Leaving => Leaving'
        /\ Queued("left")' => Leaving'
    BY <1>1, <1>7 DEF StartOf, PressOf, Leaving
  <1>9. /\ ~tg.request
        /\ \A h \in Handlers : handlers[h].pc \notin UnderwayPCs
    BY <1>2
    DEF Inv, PatientInv, Tasks, RemovedIsOut, UnderwayHasNoTask, ArmedPCs, ActingPCs
  <1>10. IdleBeforeUp' /\ UndoneIsOut' /\ ArmedHasRecord' /\ ForgetHasNoTask' /\ ScheduleHasRecord'
    BY <1>1, <1>2, <1>5
    DEF Inv, PatientInv, Tasks, IdleBeforeUp, UndoneIsOut, ArmedHasRecord, ForgetHasNoTask,
        ScheduleHasRecord, ArmedPCs, ActingPCs
  <1>11. UnderwayHasNoTask' /\ UnderwayIsInside' /\ OneApproved' /\ OpenHoldsRecord'
         /\ OpenedKeepsRecord'
    BY <1>1, <1>5, <1>9
    DEF Inv, PatientInv, Tasks, UnderwayHasNoTask, UnderwayIsInside, OneApproved,
        OpenHoldsRecord, OpenedKeepsRecord
  <1>12. ChatRecordIsInside' /\ RequestIsPrivate' /\ JoinIsPrivate'
    BY <1>1, <1>5, <1>7, <1>8
    DEF Inv, PatientInv, Tasks, ChatRecordIsInside, RequestIsPrivate, JoinIsPrivate
  <1>13. TaskMatchesRecord' /\ ChatTaskMeetsNoRequest' /\ RemovedIsOut'
    BY <1>1, <1>2, <1>5, <1>8, <1>9
    DEF Inv, PatientInv, Tasks, TaskMatchesRecord, ChatTaskMeetsNoRequest, RemovedIsOut,
        ArmedPCs, ActingPCs
  <1>14. TaskFits'
    BY <1>1, <1>2 DEF Inv, PatientInv, Tasks, TaskFits, Fits
  <1>15. Display'
    BY <1>1, <1>2, <1>5
    DEF Inv, PatientInv, Display, HandlerHoldsRecord, TaskHoldsRecord, SameChallenge,
        NotifyComesFirst, TidyHasNoRecord, ShownIsKnown, ActingPCs
  <1>16. Guarded'
    BY <1>1, <1>5, <1>9
    DEF Guarded, RequestIsWatched, GuestIsWatched, OpenedIsNoGuest, Guest, Inside
  <1> QED
    BY <1>10, <1>11, <1>12, <1>13, <1>14, <1>15, <1>16 DEF PatientInv, Tasks

\* A task deletes the record of the user it has removed.
LEMMA PatientTaskDeletes ==
    ASSUME Patience, Inv, IInv', CalmInv', NEW t \in Timers, TimerDelete(t)
    PROVE  PatientInv'
  <1>0. timers \in [Timers -> TimerStates] /\ RegistryTracksLiveTimer
    BY DEF Inv, IInv, TypeOK
  <1>1. /\ UNCHANGED <<tg, updates, handlers, phase, restoring, grant>>
        /\ timers[t].pc = "delete" /\ pending' = NoRecord
        /\ TimerGoto(t, IF ~timers[t].private THEN "tidy" ELSE "over")
    BY CallsSucceed DEF TimerDelete, history, TimerAt
  <1>2. /\ timers'[t].pc = (IF timers[t].private THEN "over" ELSE "tidy")
        /\ timers'[t].held = timers[t].held
        /\ timers'[t].private = timers[t].private
        /\ \A s \in Timers \ {t} : timers'[s] = timers[s]
    BY <1>0, <1>1, TaskGoes
  <1>3. \A s \in Timers \ {t} : timers[s].pc \in {"free", "over"}
    BY <1>0, <1>1 DEF RegistryTracksLiveTimer, Live
  <1>4. /\ \A b : StartOf(b)' = StartOf(b) /\ PressOf(b)' = PressOf(b)
        /\ Leaving' = Leaving /\ \A u : Queued(u)' = Queued(u)
    BY <1>1, NoticesStay DEF Queued
  <1>5. /\ ~tg.request /\ tg.member \in Outside /\ tg.member \notin Inside
        /\ \A h \in Handlers : handlers[h].pc \notin UnderwayPCs
    BY <1>1
    DEF Inv, PatientInv, Tasks, RemovedIsOut, UnderwayHasNoTask, ArmedPCs, ActingPCs, Inside,
        Outside
  <1>6. IdleBeforeUp' /\ UndoneIsOut' /\ ArmedHasRecord' /\ ForgetHasNoTask' /\ ScheduleHasRecord'
    BY <1>1, <1>2, <1>3, <1>5
    DEF Inv, PatientInv, Tasks, IdleBeforeUp, UndoneIsOut, ArmedHasRecord, ForgetHasNoTask,
        ScheduleHasRecord, ArmedPCs, ActingPCs, UnderwayPCs
  <1>7. UnderwayHasNoTask' /\ UnderwayIsInside' /\ OneApproved' /\ OpenHoldsRecord'
        /\ OpenedKeepsRecord'
    BY <1>1, <1>5
    DEF Inv, PatientInv, Tasks, UnderwayHasNoTask, UnderwayIsInside, OneApproved,
        OpenHoldsRecord, OpenedKeepsRecord
  <1>8. ChatRecordIsInside' /\ RequestIsPrivate' /\ JoinIsPrivate'
    BY <1>1, <1>4
    DEF Inv, PatientInv, Tasks, ChatRecordIsInside, RequestIsPrivate, JoinIsPrivate
  <1>9. TaskMatchesRecord' /\ ChatTaskMeetsNoRequest' /\ RemovedIsOut' /\ TaskFits'
    BY <1>1, <1>2, <1>4, <1>5
    DEF Inv, PatientInv, Tasks, TaskMatchesRecord, ChatTaskMeetsNoRequest, RemovedIsOut,
        TaskFits, ArmedPCs, ActingPCs
  <1>10. HandlerHoldsRecord' /\ TaskHoldsRecord' /\ SameChallenge' /\ NotifyComesFirst'
         /\ TidyHasNoRecord'
    BY <1>1, <1>2
    DEF Inv, PatientInv, Display, HandlerHoldsRecord, TaskHoldsRecord, SameChallenge,
        NotifyComesFirst, TidyHasNoRecord, ActingPCs
  <1>11. ShownIsKnown'
    <2>1. /\ pending # NoRecord => pending.challenge = timers[t].held
          /\ timers[t].private => timers[t].held \notin tg.challenges
      BY <1>1 DEF Inv, PatientInv, Display, TaskHoldsRecord, NotifyComesFirst, ActingPCs
    <2> QED
      BY <1>1, <1>2, <2>1 DEF Inv, PatientInv, Display, ShownIsKnown
  <1>12. Guarded'
    BY <1>1, <1>5
    DEF Guarded, RequestIsWatched, GuestIsWatched, OpenedIsNoGuest, Guest, Inside
  <1> QED
    BY <1>6, <1>7, <1>8, <1>9, <1>10, <1>11, <1>12 DEF PatientInv, Tasks, Display

-----------------------------------------------------------------------------
(* The startup, the user and the clock keep the invariant                  *)

LEMMA PatientRestore ==
    ASSUME Patience, Inv, IInv', CalmInv', Restore
    PROVE  PatientInv'
  <1>1. \/ phase = "up"
        \/ phase \in {"down", "restore_read"} /\ pending = NoRecord /\ tg.challenges = {}
    BY DEF Inv, PatientInv, Tasks, IdleBeforeUp
  <1>2. /\ UNCHANGED <<tg, updates, pending, handlers, timers, grant>>
        /\ \/ phase' = "restore_read" /\ restoring' = restoring
           \/ phase' = "up"
    BY <1>1, CallsSucceed
    DEF Restore, Startup, RestoreRead, RestoreVerified, RestoreJoined, RestoreSchedule, redis,
        tasks, history
  <1>3. /\ \A b : StartOf(b)' = StartOf(b) /\ PressOf(b)' = PressOf(b)
        /\ Leaving' = Leaving /\ \A u : Queued(u)' = Queued(u)
    BY <1>2, NoticesStay DEF Queued
  <1>4. IdleBeforeUp'
    BY <1>1, <1>2
    DEF Inv, PatientInv, Tasks, IdleBeforeUp, Restore, Startup, RestoreRead, RestoreVerified,
        RestoreJoined, RestoreSchedule
  <1>5. UndoneIsOut' /\ ArmedHasRecord' /\ ForgetHasNoTask' /\ ScheduleHasRecord'
        /\ UnderwayHasNoTask' /\ UnderwayIsInside' /\ OneApproved' /\ OpenHoldsRecord'
        /\ OpenedKeepsRecord'
    BY <1>2, <1>3
    DEF Inv, PatientInv, Tasks, UndoneIsOut, ArmedHasRecord, ForgetHasNoTask,
        ScheduleHasRecord, UnderwayHasNoTask, UnderwayIsInside, OneApproved, OpenHoldsRecord,
        OpenedKeepsRecord
  <1>6. ChatRecordIsInside' /\ RequestIsPrivate' /\ JoinIsPrivate' /\ TaskMatchesRecord'
        /\ ChatTaskMeetsNoRequest' /\ RemovedIsOut' /\ TaskFits'
    BY <1>2, <1>3
    DEF Inv, PatientInv, Tasks, ChatRecordIsInside, RequestIsPrivate, JoinIsPrivate,
        TaskMatchesRecord, ChatTaskMeetsNoRequest, RemovedIsOut, TaskFits, Fits
  <1>7. Display'
    BY <1>2
    DEF Inv, PatientInv, Display, HandlerHoldsRecord, TaskHoldsRecord, SameChallenge,
        NotifyComesFirst, TidyHasNoRecord, ShownIsKnown
  <1>8. Guarded'
    BY <1>2, <1>3
    DEF Inv, PatientInv, Guarded, RequestIsWatched, GuestIsWatched, OpenedIsNoGuest, Guest
  <1> QED
    BY <1>4, <1>5, <1>6, <1>7, <1>8 DEF PatientInv, Tasks

\* What the user and the administrators find who wait for the bot.
LEMMA QuietFinds ==
    ASSUME Inv, Quiet
    PROVE  /\ \A h \in Handlers : handlers[h].pc = "idle"
           /\ \A t \in Timers : timers[t].pc \in {"free", "sleep"}
           /\ ~StartOf(TRUE) /\ ~StartOf(FALSE) /\ ~Leaving
           /\ pending # NoRecord /\ ~pending.challenge.private => tg.member \in Inside
           /\ tg.member \in Outside => \A c \in tg.challenges : c.private
           /\ \A c \in tg.challenges : pending # NoRecord /\ pending.challenge = c
           /\ \A t \in Timers : timers[t].pc = "sleep" =>
                  pending # NoRecord /\ timers[t].private = pending.challenge.private
  <1>1. /\ \A h \in Handlers : handlers[h].pc = "idle"
        /\ \A t \in Timers : timers[t].pc \in {"free", "sleep"}
        /\ \A u : ~Queued(u)
    BY DEF Quiet, At, AtRest, Queued
  <1>2. ~StartOf(TRUE) /\ ~StartOf(FALSE) /\ ~Leaving
    BY <1>1 DEF StartOf, Leaving, StartSteps, LeaveSteps
  <1>3. pending # NoRecord /\ ~pending.challenge.private => tg.member \in Inside
    BY <1>2 DEF Inv, PatientInv, Tasks, ChatRecordIsInside
  <1>4. \A c \in tg.challenges : pending # NoRecord /\ pending.challenge = c
    BY <1>1 DEF Inv, PatientInv, Display, ShownIsKnown
  <1>5. tg.member \in Outside => \A c \in tg.challenges : c.private
    BY <1>3, <1>4 DEF Inside, Outside
  <1>6. \A t \in Timers : timers[t].pc = "sleep" =>
            pending # NoRecord /\ timers[t].private = pending.challenge.private
    BY <1>1 DEF Inv, PatientInv, Tasks, ArmedHasRecord, TaskMatchesRecord, ArmedPCs
  <1> QED
    BY <1>1, <1>2, <1>3, <1>4, <1>5, <1>6

\* What a move of the user or of an administrator has to keep.
LEMMA PatientMove ==
    ASSUME Patience, Inv, IInv', CalmInv', Quiet,
           UNCHANGED <<pending, handlers, timers, phase, restoring>>,
           tg'.challenges = tg.challenges,
           NEW kind \in {"request", "joined", "left", "none"},
           \A v : Queued(v)' <=> v = kind /\ kind # "none",
           tg'.request => kind = "request",
           kind = "request" => tg.member \in Outside /\ tg'.member = tg.member,
           kind = "joined" => tg.member \in Outside /\ tg'.member = "member",
           kind = "left" => tg'.member \in Outside,
           kind = "none" => tg'.member = tg.member /\ grant' = grant
    PROVE  PatientInv'
  <1>1. /\ \A h \in Handlers : handlers'[h].pc = "idle"
        /\ \A t \in Timers : timers'[t].pc \in {"free", "sleep"}
        /\ ~StartOf(TRUE) /\ ~StartOf(FALSE) /\ ~Leaving
        /\ pending # NoRecord /\ ~pending.challenge.private => tg.member \in Inside
        /\ tg.member \in Outside => \A c \in tg.challenges : c.private
        /\ \A c \in tg.challenges : pending # NoRecord /\ pending.challenge = c
        /\ \A t \in Timers : timers[t].pc = "sleep" =>
               pending # NoRecord /\ timers[t].private = pending.challenge.private
    BY QuietFinds
  <1>2. /\ StartOf(TRUE)' <=> kind = "request"
        /\ StartOf(FALSE)' <=> kind = "joined"
        /\ ~PressOf(FALSE)'
        /\ Leaving' <=> kind = "left"
    BY <1>1 DEF StartOf, PressOf, Leaving, StartSteps, PressSteps, LeaveSteps
  <1>3. "member" \in Inside /\ Inside \cap Outside = {}
    BY DEF Inside, Outside
  <1>4. IdleBeforeUp' /\ UndoneIsOut' /\ ArmedHasRecord' /\ ForgetHasNoTask' /\ ScheduleHasRecord'
    BY <1>1
    DEF Inv, PatientInv, Tasks, IdleBeforeUp, UndoneIsOut, ArmedHasRecord, ForgetHasNoTask,
        ScheduleHasRecord, ArmedPCs, ActingPCs
  <1>5. UnderwayHasNoTask' /\ UnderwayIsInside' /\ OneApproved' /\ OpenHoldsRecord'
        /\ OpenedKeepsRecord'
    BY <1>1
    DEF UnderwayHasNoTask, UnderwayIsInside, OneApproved, OpenHoldsRecord, OpenedKeepsRecord,
        UnderwayPCs, OpenedPCs
  <1>6. ChatRecordIsInside'
    BY <1>1, <1>2, <1>3 DEF ChatRecordIsInside
  <1>7. RequestIsPrivate' /\ JoinIsPrivate'
    BY <1>1, <1>2 DEF RequestIsPrivate, JoinIsPrivate, StartSteps
  <1>8. TaskMatchesRecord' /\ ChatTaskMeetsNoRequest' /\ RemovedIsOut'
    BY <1>1, <1>2, <1>3
    DEF TaskMatchesRecord, ChatTaskMeetsNoRequest, RemovedIsOut, ArmedPCs, ActingPCs
  <1>9. TaskFits'
    BY DEF Inv, PatientInv, Tasks, TaskFits, Fits
  <1>10. Display'
    BY <1>1
    DEF Display, HandlerHoldsRecord, TaskHoldsRecord, SameChallenge, NotifyComesFirst,
        TidyHasNoRecord, ShownIsKnown, ActingPCs, OpenedPCs
  <1>11. RequestIsWatched' /\ OpenedIsNoGuest'
    BY <1>1, <1>2 DEF RequestIsWatched, OpenedIsNoGuest, OpenedPCs
  <1>12. GuestIsWatched'
    BY <1>1, <1>2, <1>3 DEF Inv, PatientInv, Guarded, GuestIsWatched, Guest, Outside
  <1> QED
    BY <1>4, <1>5, <1>6, <1>7, <1>8, <1>9, <1>10, <1>11, <1>12
    DEF PatientInv, Tasks, Guarded

LEMMA PatientPressing ==
    ASSUME Patience, Inv, IInv', CalmInv', NEW c \in tg.challenges, UserPresses(c)
    PROVE  PatientInv'
  <1>0. tg \in Chats /\ updates \in Seq(Updates)
    BY DEF Inv, IInv, TypeOK
  <1> DEFINE s == IF c.private THEN "press_private" ELSE "press_chat"
  <1>1. /\ UNCHANGED <<tg, pending, handlers, timers, phase, restoring, grant>>
        /\ updates' = updates \o <<s>>
        /\ ~Queued("request") /\ \A h \in Handlers : handlers[h].pc \notin StartSteps
    <2>1. \A x : Append(updates, x) = updates \o <<x>>
      BY <1>0
    <2> QED
      BY <2>1 DEF UserPresses, NoneStarting, Queued, Patience, redis, tasks, history
  <1>2. \A v : Queued(v)' <=> Queued(v) \/ v = s
    BY <1>0, <1>1, AppendQueue
  <1>3. /\ StartOf(TRUE)' <=> StartOf(TRUE)
        /\ StartOf(FALSE)' <=> StartOf(FALSE)
        /\ Leaving' <=> Leaving
        /\ PressOf(FALSE)' => PressOf(FALSE) \/ ~c.private
    BY <1>1, <1>2 DEF StartOf, Leaving, PressOf
  <1>4. StartOf(FALSE) => Queued("joined")
    BY <1>1 DEF StartOf
  <1>5. IdleBeforeUp' /\ UndoneIsOut' /\ ArmedHasRecord' /\ ForgetHasNoTask' /\ ScheduleHasRecord'
    BY <1>1
    DEF Inv, PatientInv, Tasks, IdleBeforeUp, UndoneIsOut, ArmedHasRecord, ForgetHasNoTask,
        ScheduleHasRecord
  <1>6. UnderwayHasNoTask' /\ UnderwayIsInside' /\ OneApproved' /\ OpenHoldsRecord'
        /\ OpenedKeepsRecord'
    BY <1>1, <1>3
    DEF Inv, PatientInv, Tasks, UnderwayHasNoTask, UnderwayIsInside, OneApproved,
        OpenHoldsRecord, OpenedKeepsRecord
  <1>7. ChatRecordIsInside' /\ RequestIsPrivate'
    BY <1>1, <1>3 DEF Inv, PatientInv, Tasks, ChatRecordIsInside, RequestIsPrivate
  <1>8. JoinIsPrivate'
    BY <1>1, <1>2, <1>3, <1>4 DEF Inv, PatientInv, Tasks, JoinIsPrivate
  <1>9. TaskMatchesRecord' /\ ChatTaskMeetsNoRequest' /\ RemovedIsOut' /\ TaskFits'
    BY <1>1, <1>3
    DEF Inv, PatientInv, Tasks, TaskMatchesRecord, ChatTaskMeetsNoRequest, RemovedIsOut,
        TaskFits, Fits
  <1>10. Display'
    BY <1>1
    DEF Inv, PatientInv, Display, HandlerHoldsRecord, TaskHoldsRecord, SameChallenge,
        NotifyComesFirst, TidyHasNoRecord, ShownIsKnown
  <1>11. Guarded'
    BY <1>1, <1>3
    DEF Inv, PatientInv, Guarded, RequestIsWatched, GuestIsWatched, OpenedIsNoGuest, Guest
  <1> QED
    BY <1>5, <1>6, <1>7, <1>8, <1>9, <1>10, <1>11 DEF PatientInv, Tasks

LEMMA PatientEnvironment ==
    ASSUME Patience, Inv, IInv', CalmInv', Environment
    PROVE  PatientInv'
  <1>0. tg \in Chats /\ updates \in Seq(Updates)
    BY DEF Inv, IInv, TypeOK
  <1>1. ASSUME NEW new, NEW s, Move(new, <<s>>)
        PROVE  /\ Quiet /\ UNCHANGED <<pending, handlers, timers, phase, restoring>>
               /\ tg' = new /\ \A v : Queued(v)' <=> v = s
    <2>1. /\ Quiet /\ UNCHANGED <<pending, handlers, timers, phase, restoring>>
          /\ tg' = new /\ updates = <<>> /\ updates' = updates \o <<s>>
      BY <1>1 DEF Move, CanMove, Quiet, Patience, redis, tasks
    <2>2. \A v : ~Queued(v)
      BY <2>1 DEF Queued
    <2> QED
      BY <1>0, <2>1, <2>2, AppendQueue
  <1>2. CASE UserRequests
    <2>1. Move([tg EXCEPT !.request = TRUE], <<"request">>) /\ tg.member = "left"
      BY <1>2 DEF UserRequests
    <2>2. /\ Quiet /\ UNCHANGED <<pending, handlers, timers, phase, restoring>>
          /\ tg' = [tg EXCEPT !.request = TRUE] /\ \A v : Queued(v)' <=> v = "request"
      BY <1>1, <2>1
    <2>3. /\ tg'.challenges = tg.challenges /\ tg'.member = tg.member
          /\ tg.member \in Outside
      BY <1>0, <2>1, <2>2 DEF Chats, Outside
    <2> QED
      BY <2>2, <2>3, PatientMove
  <1>3. CASE UserJoins
    <2> DEFINE new == [tg EXCEPT !.member = "member", !.request = FALSE]
    <2>1. Move(new, MemberNotice(tg, new)) /\ tg.member = "left"
      BY <1>3 DEF UserJoins
    <2>2. MemberNotice(tg, new) = <<"joined">>
      BY <1>0, <2>1 DEF MemberNotice, Chats, Inside, Outside
    <2>3. /\ Quiet /\ UNCHANGED <<pending, handlers, timers, phase, restoring>>
          /\ tg' = new /\ \A v : Queued(v)' <=> v = "joined"
      BY <1>1, <2>1, <2>2
    <2>4. /\ tg'.challenges = tg.challenges /\ tg'.member = "member" /\ ~tg'.request
          /\ tg.member \in Outside
      BY <1>0, <2>1, <2>3 DEF Chats, Outside
    <2> QED
      BY <2>3, <2>4, PatientMove
  <1>4. CASE UserLeaves
    <2> DEFINE new == [tg EXCEPT !.member = "left"]
    <2>1. Move(new, MemberNotice(tg, new)) /\ tg.member \in Inside
      BY <1>4 DEF UserLeaves
    <2>2. MemberNotice(tg, new) = <<"left">>
      BY <1>0, <2>1 DEF MemberNotice, Chats, Inside, Outside
    <2>3. /\ Quiet /\ UNCHANGED <<pending, handlers, timers, phase, restoring>>
          /\ tg' = new /\ \A v : Queued(v)' <=> v = "left"
      BY <1>1, <2>1, <2>2
    <2>4. /\ tg'.challenges = tg.challenges /\ tg'.member \in Outside /\ ~tg'.request
      BY <1>0, <2>1, <2>3 DEF Chats, Outside, Inv, CalmInv, Flow, InsideIsClosed
    <2> QED
      BY <2>3, <2>4, PatientMove
  <1>5. CASE AdminApproves
    <2>1. Move(Approve(tg), MemberNotice(tg, Approve(tg))) /\ tg.request
      BY <1>5 DEF AdminApproves, CanApprove
    <2>2. tg.member \in Outside /\ MemberNotice(tg, Approve(tg)) = <<"joined">>
      BY <1>0, <2>1
      DEF MemberNotice, Approve, Chats, Statuses, Inside, Outside, Inv, CalmInv, Flow,
          InsideIsClosed
    <2>3. /\ Quiet /\ UNCHANGED <<pending, handlers, timers, phase, restoring>>
          /\ tg' = Approve(tg) /\ \A v : Queued(v)' <=> v = "joined"
      BY <1>1, <2>1, <2>2
    <2>4. /\ tg'.challenges = tg.challenges /\ tg'.member = "member" /\ ~tg'.request
      BY <1>0, <2>3 DEF Chats, Approve
    <2> QED
      BY <2>2, <2>3, <2>4, PatientMove
  <1>6. CASE RequestDismissed
    <2>1. Move(Decline(tg), <<>>) /\ grant' = grant
      BY <1>6 DEF RequestDismissed
    <2>2. /\ Quiet /\ UNCHANGED <<pending, handlers, timers, phase, restoring>>
          /\ tg' = Decline(tg) /\ updates' = <<>>
      BY <2>1 DEF Move, CanMove, Quiet, Patience, redis, tasks
    <2>3. \A v : ~Queued(v)'
      BY <2>2 DEF Queued
    <2>4. /\ tg'.challenges = tg.challenges /\ tg'.member = tg.member /\ ~tg'.request
      BY <1>0, <2>2 DEF Chats, Decline
    <2> QED
      BY <2>1, <2>2, <2>3, <2>4, PatientMove
  <1> QED
    BY <1>2, <1>3, <1>4, <1>5, <1>6, PatientPressing DEF Environment

\* No record gets so old that Redis drops it, unless a press is about to delete
\* it anyway: the task sleeps no longer than until the record is Timeout old.
LEMMA ExpiryMeetsForget ==
    ASSUME Patience, Inv, Tick, phase = "up", pending # NoRecord, pending.age = TTL
    PROVE  \E h \in Handlers : handlers[h].pc = "forget"
  <1>1. /\ \A h \in Handlers : handlers[h].pc \in {"idle"} \cup PressSteps
        /\ \A t \in Timers : timers[t].pc \in {"free", "sleep"}
        /\ \A t \in Timers : timers[t].pc = "sleep" => timers[t].wait > 0
    BY DEF Tick, Settled, AtRest, TimerAt, Patience
  <1>2. timers \in [Timers -> TimerStates] /\ TTL > Timeout /\ Timeout \in Nat /\ TTL \in Nat
    BY ConstantsAssumption DEF Inv, IInv, TypeOK, TTL
  <1>3. ASSUME NEW t \in Timers, Live(timers[t]) PROVE FALSE
    <2>1. timers[t].pc = "sleep" /\ timers[t].wait > 0
      BY <1>1, <1>3 DEF Live
    <2>2. pending.age + timers[t].wait <= Timeout
      BY <2>1 DEF Inv, PatientInv, Tasks, TaskFits, Fits
    <2>3. timers[t].wait \in Nat
      BY <1>2 DEF TimerStates
    <2> QED
      BY <1>2, <2>1, <2>2, <2>3
  <1>4. \E h \in Handlers : handlers[h].pc \in {"schedule", "forget"}
    BY <1>3 DEF Inv, CalmInv, Watch, PendingIsWatched
  <1> QED
    BY <1>1, <1>4 DEF PressSteps

LEMMA PatientTick ==
    ASSUME Patience, Inv, IInv', CalmInv', Tick
    PROVE  PatientInv'
  <1>0. /\ timers \in [Timers -> TimerStates]
        /\ pending \in Records \cup {NoRecord}
        /\ UNCHANGED <<tg, updates, handlers, phase, grant>>
        /\ phase = "down" \/ (phase = "up" /\ Settled)
    BY DEF Inv, IInv, TypeOK, Tick, Patience, history
  <1>1. \A t \in Timers : /\ timers'[t].pc = timers[t].pc
                          /\ timers'[t].private = timers[t].private
                          /\ timers'[t].held = timers[t].held
    BY <1>0 DEF Tick, TimerStates
  <1>2. /\ \A t \in Timers : timers[t].pc \in {"free", "over", "sleep"}
        /\ \A h \in Handlers : handlers[h].pc \in {"idle"} \cup PressSteps
    <2>1. CASE phase = "down"
      BY <2>1, NobodyRuns DEF Inv, Live
    <2>2. CASE phase = "up" /\ Settled
      BY <2>2 DEF Settled, AtRest
    <2> QED
      BY <1>0, <2>1, <2>2
  <1>3. /\ \A b : StartOf(b)' = StartOf(b) /\ PressOf(b)' = PressOf(b)
        /\ Leaving' = Leaving /\ \A u : Queued(u)' = Queued(u)
    BY <1>0, NoticesStay DEF Queued
  \* The record stays, or goes unnoticed.
  <1>4. \/ pending = NoRecord /\ pending' = NoRecord
        \/ /\ pending # NoRecord /\ pending' # NoRecord
           /\ pending'.challenge = pending.challenge /\ pending'.age = pending.age + 1
        \/ /\ pending # NoRecord /\ pending' = NoRecord
           /\ \E h \in Handlers : handlers[h].pc = "forget"
           /\ ~tg.request /\ ~Guest /\ ~StartOf(FALSE)
           /\ \A t \in Timers : timers[t].pc \in {"free", "over"}
    <2>1. CASE pending = NoRecord
      BY <2>1 DEF Tick, Older
    <2>2. CASE pending # NoRecord /\ pending.age # TTL
      <3>1. /\ pending' = [pending EXCEPT !.age = @ + 1] /\ pending \in Records
        BY <1>0, <2>2 DEF Tick, Older
      <3>2. /\ pending' \in [challenge : Challenges, age : Nat]
            /\ pending'.challenge = pending.challenge /\ pending'.age = pending.age + 1
        BY <3>1, ConstantsAssumption DEF Records, TTL
      <3> QED
        BY <2>2, <3>2, NullsAssumption
    <2>3. CASE pending # NoRecord /\ pending.age = TTL
      <3>1. phase = "up" /\ Settled
        BY <1>0, <2>3 DEF Inv, PatientInv, Tasks, IdleBeforeUp
      <3>2. PICK h \in Handlers : handlers[h].pc = "forget"
        BY <2>3, <3>1, ExpiryMeetsForget
      <3>3. pending' = NoRecord
        BY <2>3 DEF Tick, Older
      <3>4. /\ ~tg.request /\ ~Guest
            /\ \A t \in Timers : timers[t].pc \in {"free", "over"}
        BY <3>2
        DEF Inv, CalmInv, Flow, OpenedIsClosed, PatientInv, Tasks, ForgetHasNoTask, Guarded,
            OpenedIsNoGuest, OpenedPCs
      <3>5. ~StartOf(FALSE)
        BY <3>1 DEF Settled, StartOf, Queued, StartSteps, PressSteps
      <3> QED
        BY <2>3, <3>2, <3>3, <3>4, <3>5
    <2> QED
      BY <2>1, <2>2, <2>3
  <1>5. IdleBeforeUp' /\ UndoneIsOut'
    BY <1>0, <1>4, <1>2
    DEF Inv, PatientInv, Tasks, IdleBeforeUp, UndoneIsOut, PressSteps, CalmInv, Watch,
        RestoringIsPending, Tick
  <1>6. ArmedHasRecord' /\ ForgetHasNoTask' /\ ScheduleHasRecord'
    BY <1>0, <1>1, <1>2, <1>4
    DEF Inv, PatientInv, Tasks, ArmedHasRecord, ForgetHasNoTask, ScheduleHasRecord, ArmedPCs,
        ActingPCs, PressSteps
  <1>7. UnderwayHasNoTask' /\ UnderwayIsInside' /\ OneApproved' /\ OpenHoldsRecord'
        /\ OpenedKeepsRecord'
    BY <1>0, <1>1, <1>3, <1>4
    DEF Inv, PatientInv, Tasks, UnderwayHasNoTask, UnderwayIsInside, OneApproved,
        OpenHoldsRecord, OpenedKeepsRecord
  <1>8. ChatRecordIsInside' /\ RequestIsPrivate' /\ JoinIsPrivate'
    BY <1>0, <1>3, <1>4
    DEF Inv, PatientInv, Tasks, ChatRecordIsInside, RequestIsPrivate, JoinIsPrivate
  <1>9. TaskMatchesRecord' /\ ChatTaskMeetsNoRequest' /\ RemovedIsOut'
    BY <1>0, <1>1, <1>3, <1>4
    DEF Inv, PatientInv, Tasks, TaskMatchesRecord, ChatTaskMeetsNoRequest, RemovedIsOut
  <1>10. TaskFits'
    <2> SUFFICES ASSUME NEW t \in Timers, timers'[t].pc = "sleep", pending' # NoRecord
                 PROVE  Fits(t)'
      BY <1>1, <1>2 DEF TaskFits
    <2>1. timers[t].pc = "sleep" /\ pending # NoRecord /\ pending'.age = pending.age + 1
      BY <1>1, <1>4
    <2>2. Fits(t)
      BY <2>1 DEF Inv, PatientInv, Tasks, TaskFits
    <2>3. /\ timers[t].wait \in Nat /\ timers[t].wait > 0
          /\ timers'[t].wait = timers[t].wait - 1
      BY <1>0, <2>1, ConstantsAssumption DEF Tick, TimerAt, TimerStates, TTL
    <2>4. pending.age \in Nat
      BY <1>0, <2>1, ConstantsAssumption DEF Records, TTL
    <2> QED
      BY <2>1, <2>2, <2>3, <2>4, ConstantsAssumption DEF Fits
  <1>11. HandlerHoldsRecord' /\ TaskHoldsRecord' /\ SameChallenge' /\ NotifyComesFirst'
         /\ TidyHasNoRecord'
    BY <1>0, <1>1, <1>2, <1>4
    DEF Inv, PatientInv, Display, HandlerHoldsRecord, TaskHoldsRecord, SameChallenge,
        NotifyComesFirst, TidyHasNoRecord, ActingPCs
  <1>12. ShownIsKnown'
    <2> SUFFICES ASSUME NEW c \in tg.challenges
                 PROVE  \/ pending' # NoRecord /\ pending'.challenge = c
                        \/ \E h \in Handlers :
                               /\ handlers[h].pc \in {"create", "forget", "tidy", "leave_cancel"}
                               /\ handlers[h].held = c
                        \/ \E t \in Timers : timers'[t].pc = "tidy" /\ timers'[t].held = c
      BY <1>0 DEF ShownIsKnown
    <2>1. CASE pending # NoRecord /\ pending.challenge = c
      <3>1. \A h \in Handlers : handlers[h].pc = "forget" => handlers[h].held = c
        BY <2>1 DEF Inv, PatientInv, Display, HandlerHoldsRecord, OpenedPCs
      <3> QED
        BY <1>4, <2>1, <3>1
    <2>2. CASE \E t \in Timers : timers[t].pc = "tidy" /\ timers[t].held = c
      BY <1>1, <2>2
    <2> QED
      BY <2>1, <2>2 DEF Inv, PatientInv, Display, ShownIsKnown
  <1>13. Guarded'
    BY <1>0, <1>3, <1>4
    DEF Inv, PatientInv, Guarded, RequestIsWatched, GuestIsWatched, OpenedIsNoGuest, Guest
  <1> QED
    BY <1>5, <1>6, <1>7, <1>8, <1>9, <1>10, <1>11, <1>12, <1>13 DEF PatientInv, Tasks, Display

-----------------------------------------------------------------------------
(* The theorems                                                            *)

LEMMA PatientInit == Init => PatientInv
  <1> SUFFICES ASSUME Init PROVE PatientInv
    OBVIOUS
  <1>1. /\ \A h \in Handlers : handlers[h].pc = "idle"
        /\ \A t \in Timers : timers[t].pc = "free"
        /\ \A v : ~Queued(v)
        /\ tg.member = "left" /\ ~tg.request /\ tg.challenges = {}
        /\ pending = NoRecord /\ restoring = NoRecord /\ phase = "down"
    BY DEF Init, Idle, Free, Queued, EmptyChat
  <1>2. ~StartOf(TRUE) /\ ~StartOf(FALSE)
    BY <1>1 DEF StartOf, StartSteps
  <1>3. Tasks
    BY <1>1, <1>2
    DEF Tasks, IdleBeforeUp, UndoneIsOut, ArmedHasRecord, ForgetHasNoTask, ScheduleHasRecord,
        UnderwayHasNoTask, UnderwayIsInside, OpenedKeepsRecord, OneApproved,
        ChatRecordIsInside, RequestIsPrivate, JoinIsPrivate, TaskMatchesRecord,
        ChatTaskMeetsNoRequest, OpenHoldsRecord, RemovedIsOut, TaskFits, UnderwayPCs,
        OpenedPCs, ArmedPCs, ActingPCs, StartSteps
  <1>4. Display
    BY <1>1
    DEF Display, HandlerHoldsRecord, TaskHoldsRecord, SameChallenge, NotifyComesFirst,
        TidyHasNoRecord, ShownIsKnown, ActingPCs
  <1>5. Guarded
    BY <1>1 DEF Guarded, RequestIsWatched, GuestIsWatched, OpenedIsNoGuest, Guest
  <1> QED
    BY <1>3, <1>4, <1>5 DEF PatientInv

LEMMA PatientStutter ==
    ASSUME PatientInv, UNCHANGED vars
    PROVE  PatientInv'
  <1>1. /\ \A b : StartOf(b)' = StartOf(b) /\ PressOf(b)' = PressOf(b)
        /\ Leaving' = Leaving /\ \A u : Queued(u)' = Queued(u)
    BY NoticesStay DEF Queued, vars
  <1>2. Tasks'
    BY <1>1
    DEF vars, PatientInv, Tasks, IdleBeforeUp, UndoneIsOut, ArmedHasRecord, ForgetHasNoTask,
        ScheduleHasRecord, UnderwayHasNoTask, UnderwayIsInside, OpenedKeepsRecord,
        OneApproved, ChatRecordIsInside, RequestIsPrivate, JoinIsPrivate, TaskMatchesRecord,
        ChatTaskMeetsNoRequest, OpenHoldsRecord, RemovedIsOut, TaskFits, Fits
  <1>3. Display'
    BY DEF vars, PatientInv, Display, HandlerHoldsRecord, TaskHoldsRecord, SameChallenge,
        NotifyComesFirst, TidyHasNoRecord, ShownIsKnown
  <1>4. Guarded'
    BY <1>1
    DEF vars, PatientInv, Guarded, RequestIsWatched, GuestIsWatched, OpenedIsNoGuest, Guest
  <1> QED
    BY <1>2, <1>3, <1>4 DEF PatientInv

\* Telegram executes what it can: no start has to be taken back for another
\* reason than that the user is gone.
LEMMA PatientHandler ==
    ASSUME Patience, Inv, IInv', CalmInv', NEW h \in Handlers, Handler(h)
    PROVE  PatientInv'
  <1>1. ~UndoMessage(h) /\ ~UndoDecline(h)
    BY DEF Inv, PatientInv, Tasks, UndoneIsOut, UndoMessage, UndoDecline, At
  <1> QED
    BY <1>1, PatientRead, PatientRestrict, PatientSend, PatientCreate, PatientSchedule,
       PatientUndo, PatientLeaveDelete, PatientLeaveCancel, PatientOpen, PatientMark,
       PatientForget, PatientTidy
    DEF Handler, Start, Leave, Press

LEMMA PatientTask ==
    ASSUME Patience, Inv, IInv', CalmInv', NEW t \in Timers, Timer(t)
    PROVE  PatientInv'
  BY PatientTaskRests, PatientTaskReads, PatientTaskCalls, PatientTaskRemoves,
     PatientTaskDeletes DEF Timer

LEMMA PatientNext ==
    ASSUME Patience
    PROVE  Inv /\ IInv' /\ CalmInv' /\ [Next]_vars => PatientInv'
  <1> SUFFICES ASSUME Inv, IInv', CalmInv', [Next]_vars PROVE PatientInv'
    OBVIOUS
  <1>1. ~Stop
    BY DEF Stop, Patience
  <1>2. CASE UNCHANGED vars
    BY <1>2, PatientStutter DEF Inv
  <1>3. CASE Next
    BY <1>1, <1>3, PatientDispatch, PatientHandler, PatientTask, PatientRestore,
       PatientEnvironment, PatientTick DEF Next
  <1> QED
    BY <1>2, <1>3

LEMMA PatientInvariant ==
    ASSUME Patience
    PROVE  Spec => []Inv
  <1>1. Calm /\ ~RedisMayFail
    BY DEF Patience
  <1>2. Inv /\ IInv' /\ CalmInv' /\ [Next]_vars => PatientInv'
    BY PatientNext
  <1>3. Spec => []CalmInv
    BY <1>1, CalmInvariant
  <1> QED
    BY <1>2, <1>3, PatientInit, InvariantHolds, PTL DEF Spec, Inv

\* While the bot has nothing in flight, everybody who asked to come in, or is in
\* the chat without having been let in, has a pending record and a timeout task
\* asleep on it: no interleaving of updates, presses, departures and timeouts
\* leaves somebody in the chat whom nobody is going to check.
THEOREM UnverifiedAreWatched ==
    ASSUME Patience
    PROVE  Spec => []UnverifiedIsWatched
  <1>1. Inv => UnverifiedIsWatched
    <2> SUFFICES ASSUME Inv, phase = "up", Quiet, tg.request \/ Guest
                 PROVE  Watched
      BY DEF UnverifiedIsWatched, Guest
    <2>1. /\ \A h \in Handlers : handlers[h].pc = "idle"
          /\ \A t \in Timers : timers[t].pc \in {"free", "sleep"}
          /\ ~StartOf(TRUE) /\ ~StartOf(FALSE)
      BY QuietFinds
    <2>2. pending # NoRecord
      BY <2>1 DEF Inv, PatientInv, Guarded, RequestIsWatched, GuestIsWatched
    <2>3. PICK t \in Timers : Live(timers[t])
      BY <2>1, <2>2 DEF Inv, CalmInv, Watch, PendingIsWatched
    <2>4. timers[t].pc = "sleep" /\ registry = t
      BY <2>1, <2>3 DEF Live, Inv, IInv, RegistryTracksLiveTimer
    <2> QED
      BY <2>2, <2>4 DEF Watched, TimerAt
  <1> QED
    BY <1>1, PatientInvariant, PTL

\* While the bot has nothing in flight, the only challenge on display is that of
\* the pending record, and no timeout task has outlived its record.
THEOREM NothingStaysBehind ==
    ASSUME Patience
    PROVE  Spec => []NothingLeftBehind
  <1>1. Inv => NothingLeftBehind
    <2> SUFFICES ASSUME Inv, Quiet
                 PROVE  /\ \A c \in tg.challenges : pending # NoRecord /\ pending.challenge = c
                        /\ \A t \in Timers : Live(timers[t]) => pending # NoRecord
      BY DEF NothingLeftBehind
    <2> QED
      BY QuietFinds DEF Live
  <1> QED
    BY <1>1, PatientInvariant, PTL

\* A task that finds no record is over.
LEMMA ReadingActs ==
    ASSUME NEW t \in Timers, timers \in [Timers -> TimerStates], TimerGet(t),
           pending = NoRecord
    PROVE  timers'[t].pc = "over"
  <1>1. TimerGoto(t, "over")
    BY DEF TimerGet
  <1> QED
    BY <1>1 DEF TimerGoto

\* Of all steps, only its own reading of the record makes a task act.
LEMMA OnlyReadingActs ==
    ASSUME ~MayCrash, Inv, Next, NEW t \in Timers, timers[t].pc = "get",
           timers'[t].pc \in {"ban", "notify", "decline"}
    PROVE  pending # NoRecord
  <1>1. timers \in [Timers -> TimerStates] /\ registry \in Timers \cup {NoTimer}
    BY DEF Inv, IInv, TypeOK
  <1>2. UNCHANGED timers => FALSE
    OBVIOUS
  <1>3. timers' = Cancelled(timers, registry) => FALSE
    BY <1>1 DEF Cancelled
  <1>4. ASSUME NEW private, NEW delay, RegisterTimer(private, delay) PROVE FALSE
    <2>1. PICK s \in Timers : /\ timers[s].pc = "free"
                              /\ timers' = [Cancelled(timers, registry) EXCEPT ![s] =
                                     [pc |-> "sleep", private |-> private, wait |-> delay,
                                      held |-> NoChallenge]]
      BY <1>4 DEF RegisterTimer
    <2>2. s # t
      BY <2>1
    <2>3. timers'[t] = Cancelled(timers, registry)[t]
      BY <2>1, <2>2, <1>1
    <2> QED
      BY <2>3, <1>1 DEF Cancelled
  <1>5. ASSUME NEW h \in Handlers, Dispatch(h) \/ Handler(h) PROVE FALSE
    BY <1>2, <1>3, <1>4, <1>5
    DEF Dispatch, Handler, Start, Leave, Press, StartGet, RestrictMember, SendChallenge,
        CreatePending, ScheduleTimer, UndoMessage, UndoDecline, UndoBan, UndoUnban, LeaveGet,
        LeaveDelete, LeaveCancel, PressGet, PressReget, OpenAccess, MarkVerified,
        ForgetPending, TidyChallenge, CancelTimer, tasks
  <1>6. ASSUME NEW s \in Timers, Timer(s), s # t PROVE FALSE
    <2>1. timers'[t] = timers[t]
      BY <1>1, <1>6
      DEF Timer, TimerWake, TimerGet, TimerNotify, TimerDecline, TimerBan, TimerUnban,
          TimerDelete, TimerTidy, TimerDone, TimerGoto
    <2> QED
      BY <2>1
  <1>7. ASSUME Timer(t) PROVE pending # NoRecord
    <2>1. TimerGet(t)
      BY <1>7
      DEF Timer, TimerWake, TimerNotify, TimerDecline, TimerBan, TimerUnban, TimerDelete,
          TimerTidy, TimerDone, TimerAt
    <2> QED
      BY <1>1, <2>1, ReadingActs
  <1>8. Restore \/ Environment => FALSE
    BY <1>2, <1>4
    DEF Restore, Startup, RestoreRead, RestoreVerified, RestoreJoined, RestoreSchedule, Environment,
        UserRequests, UserJoins, UserLeaves, AdminApproves, RequestDismissed, UserPresses, Move,
        tasks
  <1>9. Tick => FALSE
    BY <1>1 DEF Tick, TimerAt
  <1>10. ~Stop
    BY DEF Stop
  <1> QED
    BY <1>5, <1>6, <1>7, <1>8, <1>9, <1>10 DEF Next

\* A timeout task that acts finds the record in the last tick before Timeout or
\* later: no race with a newer verification makes an older task act for it.
THEOREM RemovalsAreTimely ==
    ASSUME Patience
    PROVE  Spec => NoEarlyRemoval
  <1> DEFINE Timely ==
          \A t \in Timers :
              TimerAt(t, "get") /\ timers'[t].pc \in {"ban", "notify", "decline"}
              => pending.age + 1 >= Timeout
  <1>1. Inv /\ [Next]_vars => [Timely]_vars
    <2> SUFFICES ASSUME Inv, Next, NEW t \in Timers, timers[t].pc = "get",
                        timers'[t].pc \in {"ban", "notify", "decline"}
                 PROVE  pending.age + 1 >= Timeout
      BY DEF TimerAt
    <2>1. pending # NoRecord
      BY OnlyReadingActs DEF Patience
    <2> QED
      BY <2>1 DEF Inv, PatientInv, Tasks, TaskFits
  <1> HIDE DEF Timely
  <1>2. Spec => [][Timely]_vars
    BY <1>1, PatientInvariant, PTL DEF Spec
  <1> QED
    BY <1>2 DEF Timely, NoEarlyRemoval
=============================================================================
