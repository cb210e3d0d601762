------------------------ MODULE VerificationCalm_proofs ------------------------
(***************************************************************************)
(* Proofs about Verification when the user and the clock wait for the      *)
(* bot's calls to end (Calm) and Redis answers (~RedisMayFail), for every  *)
(* set of handlers, timer slots and message ids, every timeout, and        *)
(* whether or not Telegram refuses calls and the process is restarted.     *)
(***************************************************************************)
EXTENDS Verification_proofs

-----------------------------------------------------------------------------
(* Who is under way                                                        *)

Queued(u) == \E i \in DOMAIN updates : updates[i] = u

\* The start of a verification, before it is scheduled or taken back: by a join
\* request (private) or by somebody who is in the chat.
StartOf(private) ==
    \/ Queued(IF private THEN "request" ELSE "joined")
    \/ \E h \in Handlers : handlers[h].pc \in StartSteps /\ handlers[h].private = private

Pressing ==
    \/ Queued("press_private") \/ Queued("press_chat")
    \/ \E h \in Handlers : handlers[h].pc \in PressSteps

Leaving == Queued("left") \/ \E h \in Handlers : handlers[h].pc \in LeaveSteps

\* Start steps that end in a pending record.
MakingSteps == {"send", "create"}

\* Steps of a timeout task that has found a record and not yet deleted it.
ActingPCs == {"notify", "decline", "ban", "unban", "delete"}

\* A timeout task whose time is up and that has not yet deleted the record.
Due(t) ==
    \/ timers[t].pc \in {"get"} \cup ActingPCs
    \/ TimerAt(t, "sleep") /\ timers[t].wait = 0

-----------------------------------------------------------------------------
(* The inductive invariant: updates and handlers                           *)

\* Whoever is in the chat has no open join request.
InsideIsClosed == tg.member \in Inside => ~tg.request

\* A press that has opened the chat leaves no open join request.
OpenedIsClosed == \A h \in Handlers : handlers[h].pc \in {"mark", "forget"} => ~tg.request

StartUpdates == {"request", "joined"}

\* At most one verification is being started: one update, or one handler.
OneQueued ==
    \A i, j \in DOMAIN updates :
        updates[i] \in StartUpdates /\ updates[j] \in StartUpdates => i = j

OneStart ==
    /\ OneQueued
    /\ Queued("request") \/ Queued("joined")
           => \A h \in Handlers : handlers[h].pc \notin StartSteps
    /\ \A g, h \in Handlers :
           handlers[g].pc \in StartSteps /\ handlers[h].pc \in StartSteps => g = h

\* While the verification of somebody who came in is being started, no request
\* of the same user is open.
JoinIsClosed == StartOf(FALSE) => ~tg.request

\* While that of a join request is being started, no button has been pressed
\* and the user is outside.
RequestIsUndisturbed == StartOf(TRUE) => ~Pressing /\ tg.member \in Outside

\* Until the bot is through with a departure the user stays outside, and no
\* start of a verification gets as far as a record.
LeavingIsOut ==
    Leaving =>
        /\ tg.member \in Outside /\ ~tg.request /\ ~StartOf(TRUE)
        /\ \A h \in Handlers : handlers[h].pc \notin MakingSteps

Flow ==
    /\ InsideIsClosed /\ OpenedIsClosed /\ OneStart /\ JoinIsClosed
    /\ RequestIsUndisturbed /\ LeavingIsOut

-----------------------------------------------------------------------------
(* The queue                                                               *)

\* Appending an update adds it to what is queued.
LEMMA AppendQueue ==
    ASSUME updates \in Seq(Updates), NEW s, updates' = updates \o <<s>>
    PROVE  /\ \A u : Queued(u)' <=> Queued(u) \/ u = s
           /\ OneQueued /\ ~(s \in StartUpdates /\ (Queued("request") \/ Queued("joined")))
                => OneQueued'
  <1>1. /\ Len(updates) \in Nat /\ Len(updates') = Len(updates) + 1
        /\ DOMAIN updates = 1..Len(updates) /\ DOMAIN updates' = 1..(Len(updates) + 1)
        /\ \A i \in 1..Len(updates) : updates'[i] = updates[i]
        /\ updates'[Len(updates) + 1] = s
    OBVIOUS
  <1>2. ASSUME NEW u PROVE Queued(u)' <=> Queued(u) \/ u = s
    BY <1>1 DEF Queued
  <1>3. OneQueued /\ ~(s \in StartUpdates /\ (Queued("request") \/ Queued("joined")))
            => OneQueued'
    BY <1>1 DEF OneQueued, Queued, StartUpdates
  <1> QED
    BY <1>2, <1>3

\* Taking the first update removes nothing else, and nothing comes in.
LEMMA TailQueue ==
    ASSUME updates \in Seq(Updates), updates # <<>>, updates' = Tail(updates)
    PROVE  /\ \A u : Queued(u)' => Queued(u)
           /\ Queued(Head(updates))
           /\ OneQueued => /\ OneQueued'
                           /\ Head(updates) \in StartUpdates
                                => ~Queued("request")' /\ ~Queued("joined")'
  <1>1. /\ Len(updates) \in Nat \ {0} /\ Len(updates') = Len(updates) - 1
        /\ DOMAIN updates = 1..Len(updates) /\ DOMAIN updates' = 1..(Len(updates) - 1)
        /\ \A i \in 1..(Len(updates) - 1) : updates'[i] = updates[i + 1]
        /\ Head(updates) = updates[1]
    OBVIOUS
  <1>2. ASSUME NEW u PROVE Queued(u)' => Queued(u)
    BY <1>1 DEF Queued
  <1>3. Queued(Head(updates))
    BY <1>1 DEF Queued
  <1>4. OneQueued => OneQueued'
    BY <1>1 DEF OneQueued
  <1>5. ASSUME OneQueued, Head(updates) \in StartUpdates
        PROVE  ~Queued("request")' /\ ~Queued("joined")'
    BY <1>1, <1>5 DEF OneQueued, Queued, StartUpdates
  <1> QED
    BY <1>2, <1>3, <1>4, <1>5

-----------------------------------------------------------------------------
(* What a step does to the flow of updates and handlers                    *)

\* A handler stays within the operation it carries out.
Proceeds(h) ==
    /\ handlers'[h].pc \in StartSteps
           => handlers[h].pc \in StartSteps /\ handlers'[h].private = handlers[h].private
    /\ handlers'[h].pc \in PressSteps => handlers[h].pc \in PressSteps
    /\ handlers'[h].pc \in LeaveSteps => handlers[h].pc \in LeaveSteps
    /\ handlers'[h].pc \in {"mark", "forget"}
           => handlers[h].pc \in {"mark", "forget"} \/ ~tg'.request
    /\ handlers'[h].pc \in MakingSteps => handlers[h].pc \in MakingSteps \/ ~Leaving

Proceed == \A h \in Handlers : Proceeds(h)

LEMMA HandlersStay ==
    ASSUME UNCHANGED handlers PROVE Proceed
  BY DEF Proceed, Proceeds

LEMMA OneProceeds ==
    ASSUME NEW h \in Handlers, \A g \in Handlers \ {h} : handlers'[g] = handlers[g],
           Proceeds(h)
    PROVE  Proceed
  BY DEF Proceed, Proceeds

\* Nobody starts, presses or leaves who did not before, when no update arrives.
LEMMA NothingNew ==
    ASSUME Proceed, \A u : Queued(u)' => Queued(u)
    PROVE  /\ \A b \in BOOLEAN : StartOf(b)' => StartOf(b)
           /\ Pressing' => Pressing
           /\ Leaving' => Leaving
  BY DEF Proceed, Proceeds, StartOf, Pressing, Leaving

LEMMA OneStartKept ==
    ASSUME OneStart, OneQueued', Proceed, \A u : Queued(u)' => Queued(u)
    PROVE  OneStart'
  BY DEF Proceed, Proceeds, OneStart

\* The flow is kept by a step that brings no update and lets nobody in or out.
LEMMA QuietStep ==
    ASSUME Flow, Proceed, OneQueued', \A u : Queued(u)' => Queued(u),
           tg \in Chats, tg' \in Chats,
           tg'.member \in Inside <=> tg.member \in Inside, tg'.request => tg.request
    PROVE  Flow'
  <1>1. (tg.member \in Outside <=> tg.member \notin Inside)
        /\ (tg'.member \in Outside <=> tg'.member \notin Inside)
    BY DEF Chats, Statuses, Inside, Outside
  <1>2. InsideIsClosed'
    BY DEF Flow, InsideIsClosed
  <1>3. OpenedIsClosed'
    BY DEF Flow, OpenedIsClosed, Proceed, Proceeds
  <1>4. OneStart'
    BY OneStartKept DEF Flow
  <1>5. JoinIsClosed'
    BY NothingNew DEF Flow, JoinIsClosed
  <1>6. RequestIsUndisturbed'
    BY <1>1, NothingNew DEF Flow, RequestIsUndisturbed
  <1>7. LeavingIsOut'
    BY <1>1, NothingNew DEF Flow, LeavingIsOut, Proceed, Proceeds
  <1> QED
    BY <1>2, <1>3, <1>4, <1>5, <1>6, <1>7 DEF Flow

LEMMA QueueStays ==
    ASSUME UNCHANGED updates
    PROVE  (\A u : Queued(u)' <=> Queued(u)) /\ (OneQueued => OneQueued')
  BY DEF Queued, OneQueued

\* The flow is kept when the bot removes the user and no start gets to a record.
LEMMA RemovalStep ==
    ASSUME Flow, Proceed, updates \in Seq(Updates), updates' = updates \o <<"left">>,
           tg \in Chats, tg' \in Chats, tg.member \in Inside, tg'.member \in Outside,
           tg'.request = tg.request,
           \A h \in Handlers : handlers'[h].pc \notin MakingSteps
    PROVE  Flow'
  <1>1. \A u : Queued(u)' <=> Queued(u) \/ u = "left"
    BY AppendQueue
  <1>2. OneQueued'
    BY AppendQueue DEF Flow, OneStart, StartUpdates
  <1>3. ~tg'.request /\ tg.member \notin Outside /\ tg'.member \notin Inside
    BY DEF Flow, InsideIsClosed, Inside, Outside
  <1>4. ~StartOf(TRUE)
    BY <1>3 DEF Flow, RequestIsUndisturbed
  <1>5. ~StartOf(TRUE)'
    BY <1>1, <1>4 DEF StartOf, Proceed, Proceeds
  <1>6. OneStart'
    BY <1>1, <1>2 DEF Flow, OneStart, Proceed, Proceeds
  <1> QED
    BY <1>3, <1>5, <1>6
    DEF Flow, InsideIsClosed, OpenedIsClosed, JoinIsClosed, RequestIsUndisturbed, LeavingIsOut

\* The flow is kept when a press opens the chat to the user who asked.
LEMMA ApprovalStep ==
    ASSUME Flow, Proceed, updates \in Seq(Updates), updates' = updates \o <<"joined">>,
           handlers \in [Handlers -> HandlerStates],
           tg.request, ~tg'.request, Pressing
    PROVE  Flow'
  <1>1. \A u : Queued(u)' <=> Queued(u) \/ u = "joined"
    BY AppendQueue
  <1>2. ~StartOf(TRUE) /\ ~StartOf(FALSE) /\ ~Leaving
    BY DEF Flow, JoinIsClosed, RequestIsUndisturbed, LeavingIsOut
  <1>3. ~Queued("request") /\ ~Queued("joined")
    BY <1>2 DEF StartOf
  <1>4. \A h \in Handlers : handlers[h].pc \notin StartSteps
    <2>1. \A h \in Handlers : handlers[h].private \in BOOLEAN
      BY DEF HandlerStates
    <2> QED
      BY <1>2, <2>1 DEF StartOf
  <1>5. \A h \in Handlers : handlers'[h].pc \notin StartSteps
    BY <1>4 DEF Proceed, Proceeds
  <1>6. OneQueued'
    BY <1>3, AppendQueue DEF Flow, OneStart
  <1>7. OneStart'
    BY <1>5, <1>6 DEF OneStart
  <1>8. ~StartOf(TRUE)'
    BY <1>1, <1>3, <1>5 DEF StartOf
  <1>9. ~Leaving'
    BY <1>1, <1>2 DEF Leaving, Proceed, Proceeds
  <1> QED
    BY <1>7, <1>8, <1>9
    DEF Flow, InsideIsClosed, OpenedIsClosed, JoinIsClosed, RequestIsUndisturbed, LeavingIsOut

\* The flow is kept when a handler takes up the next update.
LEMMA DispatchFlow ==
    ASSUME Flow, TypeOK, TypeOK', NEW h \in Handlers, Dispatch(h)
    PROVE  Flow'
  <1> DEFINE u == Head(updates)
  <1>1. /\ updates \in Seq(Updates) /\ updates # <<>> /\ updates' = Tail(updates)
        /\ u \in Updates
        /\ handlers \in [Handlers -> HandlerStates]
        /\ UNCHANGED tg
    BY DEF TypeOK, Dispatch
  <1>2. /\ \A v : Queued(v)' => Queued(v)
        /\ Queued(u)
        /\ OneQueued => OneQueued'
        /\ OneQueued /\ u \in StartUpdates => ~Queued("request")' /\ ~Queued("joined")'
    BY <1>1, TailQueue
  <1>3. /\ handlers'[h] = Spawned(u)
        /\ \A g \in Handlers \ {h} : handlers'[g] = handlers[g]
    BY <1>1 DEF Dispatch
  <1> HIDE DEF u
  <1>4. CASE u \in StartUpdates
    <2>1. /\ handlers'[h].pc = "start_get"
          /\ handlers'[h].private = (u = "request")
      BY <1>3, <1>4 DEF StartUpdates, Spawned, FirstStep
    <2>2. \A g \in Handlers : handlers[g].pc \notin StartSteps
      BY <1>2, <1>4 DEF Flow, OneStart, StartUpdates
    <2>3. \A b \in BOOLEAN : StartOf(b)' => StartOf(b)
      BY <1>2, <1>3, <1>4, <2>1, <2>2 DEF StartOf, StartUpdates
    <2>4. (Pressing' => Pressing) /\ (Leaving' => Leaving)
      BY <1>2, <1>3, <2>1 DEF Pressing, Leaving, PressSteps, LeaveSteps
    <2>5. OneStart'
      BY <1>2, <1>3, <1>4, <2>2 DEF Flow, OneStart
    <2> QED
      BY <1>1, <1>3, <2>1, <2>3, <2>4, <2>5
      DEF Flow, InsideIsClosed, OpenedIsClosed, JoinIsClosed, RequestIsUndisturbed,
          LeavingIsOut, MakingSteps
  <1>5. CASE u \notin StartUpdates
    <2>1. /\ u = "left" => handlers'[h].pc = "leave_get"
          /\ u \in {"press_private", "press_chat"} => handlers'[h].pc = "press_get"
          /\ u = "left" \/ u \in {"press_private", "press_chat"}
      BY <1>1, <1>3, <1>5 DEF Updates, StartUpdates, Spawned, FirstStep
    <2>2. handlers'[h].pc \in {"leave_get", "press_get"}
      BY <2>1
    <2>3. \A b \in BOOLEAN : StartOf(b)' => StartOf(b)
      BY <1>2, <1>3, <2>2 DEF StartOf, StartSteps
    <2>4. (Pressing' => Pressing) /\ (Leaving' => Leaving)
      BY <1>2, <1>3, <2>1 DEF Pressing, Leaving, PressSteps, LeaveSteps
    <2>5. OneStart'
      BY <1>2, <1>3, <2>2 DEF Flow, OneStart, StartSteps
    <2> QED
      BY <1>1, <1>3, <2>2, <2>3, <2>4, <2>5
      DEF Flow, InsideIsClosed, OpenedIsClosed, JoinIsClosed, RequestIsUndisturbed,
          LeavingIsOut, MakingSteps
  <1> QED
    BY <1>4, <1>5

-----------------------------------------------------------------------------
(* The inductive invariant: records and timeout tasks                      *)

\* Handlers and timeout tasks run only while the process polls.
RunsOnlyUp ==
    phase # "up" => /\ \A h \in Handlers : At(h, "idle")
                    /\ \A t \in Timers : ~Live(timers[t])

\* A departure that is about to cancel the timeout task has deleted the record.
LeaveHasDeleted == \A h \in Handlers : At(h, "leave_cancel") => pending = NoRecord

\* While a record is pending, no start of a verification is on its way to another.
RecordIsOnly ==
    pending # NoRecord
        => \A h \in Handlers : handlers[h].pc \notin {"restrict"} \cup MakingSteps

\* The record of a timeout task about to be scheduled is new.
FreshAtSchedule ==
    \A h \in Handlers : At(h, "schedule") /\ pending # NoRecord => pending.age = 0

\* Nobody who came in gets a new record while a timeout task acts on the old one.
ActingIsAlone ==
    \A t \in Timers : timers[t].pc \in ActingPCs =>
        /\ \A h \in Handlers :
               /\ handlers[h].pc \in MakingSteps => handlers[h].private
               /\ At(h, "restrict") => tg.member \in Outside
        /\ pending = NoRecord =>
               /\ ~tg.request
               /\ Queued("joined")
                  \/ (\E h \in Handlers : At(h, "start_get") /\ ~handlers[h].private)
                      => tg.member \in Outside

\* A press about to delete the record meets no start of a verification when a
\* timeout task is due.
ForgetIsAlone ==
    \A t \in Timers, h \in Handlers :
        Due(t) /\ At(h, "forget") => ~StartOf(TRUE) /\ ~StartOf(FALSE)

\* A record beside a timeout task that has deleted its own has another watcher.
TidyIsReplaced ==
    \A t \in Timers : TimerAt(t, "tidy") /\ pending # NoRecord =>
        \E h \in Handlers : handlers[h].pc \in {"schedule", "forget"}

\* A sleeping task wakes when the record is Timeout old, or a fraction of a tick
\* before, unless a handler is about to replace the task.
Fits(t) ==
    /\ pending.age + timers[t].wait + 1 >= Timeout
    /\ timers[t].wait > 0 => pending.age + timers[t].wait <= Timeout

SleepFits ==
    \A t \in Timers :
        TimerAt(t, "sleep") /\ pending # NoRecord /\ (\A h \in Handlers : ~At(h, "schedule"))
            => Fits(t)

\* The record being restored is the pending one.
RestoringIsPending ==
    restoring # NoRecord => phase \notin {"up", "down"} /\ restoring = pending

Watch ==
    /\ RunsOnlyUp /\ LeaveHasDeleted /\ RecordIsOnly /\ FreshAtSchedule
    /\ ActingIsAlone /\ ForgetIsAlone /\ TidyIsReplaced /\ SleepFits
    /\ PendingIsWatched /\ RestoringIsPending

CalmInv == Flow /\ Watch

-----------------------------------------------------------------------------
(* What a step does to records and timeout tasks                           *)

\* A step of a handler that neither schedules nor deletes anything.
Watches(h) ==
    LET p == handlers[h].pc
        q == handlers'[h].pc
    IN  /\ p \in {"schedule", "forget"} => q = p
        /\ q \in {"schedule", "forget", "leave_cancel"} => q = p
        /\ q = "start_get" => p = "start_get" /\ handlers'[h].private = handlers[h].private
        /\ q = "restrict" => \/ p = "restrict"
                             \/ p = "start_get" /\ ~handlers[h].private /\ pending = NoRecord
        /\ q \in MakingSteps =>
               \/ p \in MakingSteps /\ handlers'[h].private = handlers[h].private
               \/ p = "restrict" /\ tg.member \in Inside
               \/ p = "start_get" /\ handlers'[h].private /\ pending = NoRecord

LEMMA WatchStep ==
    ASSUME Watch, Proceed, \A h \in Handlers : Watches(h),
           handlers \in [Handlers -> HandlerStates],
           \A u \in StartUpdates : Queued(u)' => Queued(u),
           UNCHANGED <<pending, timers, phase, restoring>>,
           phase = "up" \/ UNCHANGED handlers,
           tg.member \in Outside => tg'.member \in Outside, tg'.request => tg.request
    PROVE  Watch'
  <1>0. \A b \in BOOLEAN : StartOf(b)' => StartOf(b)
    BY DEF StartOf, StartUpdates, Proceed, Proceeds
  <1>1. RunsOnlyUp' /\ RestoringIsPending'
    BY DEF Watch, RunsOnlyUp, RestoringIsPending, At
  <1>2. LeaveHasDeleted' /\ RecordIsOnly' /\ FreshAtSchedule'
    BY DEF Watch, Watches, LeaveHasDeleted, RecordIsOnly, FreshAtSchedule, At, MakingSteps
  <1>3. ActingIsAlone'
    BY DEF Watch, Watches, ActingIsAlone, At, StartUpdates, Inside, Outside
  <1>4. ForgetIsAlone'
    BY <1>0 DEF Watch, Watches, ForgetIsAlone, At, TimerAt, Due
  <1>5. TidyIsReplaced' /\ SleepFits' /\ PendingIsWatched'
    BY DEF Watch, Watches, TidyIsReplaced, SleepFits, Fits, PendingIsWatched, At, TimerAt, Live
  <1> QED
    BY <1>1, <1>2, <1>3, <1>4, <1>5 DEF Watch

-----------------------------------------------------------------------------
(* What a call does to the chat and the queue                              *)

\* A call that moves nobody in or out of the chat queues nothing.
LEMMA CallInPlace ==
    ASSUME tg \in Chats, updates \in Seq(Updates), NEW o, NEW new \in Chats, Execute(o, new),
           new.member \in Inside <=> tg.member \in Inside
    PROVE  UNCHANGED updates /\ (tg' = tg \/ tg' = new)
  <1>1. MemberNotice(tg, new) = <<>>
    BY DEF MemberNotice, Chats, Statuses, Inside, Outside
  <1>2. updates \o <<>> = updates
    OBVIOUS
  <1> QED
    BY <1>1, <1>2 DEF Execute

LEMMA HideInPlace ==
    ASSUME tg \in Chats, updates \in Seq(Updates), NEW c, HideBestEffort(c)
    PROVE  /\ UNCHANGED updates /\ tg' \in Chats
           /\ tg'.member = tg.member /\ tg'.request = tg.request
  <1>1. Hide(tg, c) \in Chats /\ Hide(tg, c).member = tg.member
        /\ Hide(tg, c).request = tg.request
    BY DEF Hide, Chats
  <1> QED
    BY <1>1, CallInPlace DEF HideBestEffort

LEMMA DeclineInPlace ==
    ASSUME tg \in Chats, updates \in Seq(Updates), NEW S, \E o \in S : Execute(o, Decline(tg))
    PROVE  /\ UNCHANGED updates /\ tg' \in Chats
           /\ tg'.member = tg.member /\ (tg'.request => tg.request)
  <1>1. Decline(tg) \in Chats /\ Decline(tg).member = tg.member /\ ~Decline(tg).request
    BY DEF Decline, Chats
  <1> QED
    BY <1>1, CallInPlace

\* A removal takes the user out and queues a departure, unless he is outside
\* already or Telegram refuses.
LEMMA Removal ==
    ASSUME tg \in Chats, updates \in Seq(Updates), NEW o, NEW new \in Chats, Execute(o, new),
           new.member \in Outside, new.request = tg.request
    PROVE  /\ tg' \in Chats /\ tg'.request = tg.request
           /\ \/ UNCHANGED updates /\ (tg'.member \in Inside <=> tg.member \in Inside)
              \/ /\ updates' = updates \o <<"left">>
                 /\ tg.member \in Inside /\ tg'.member \in Outside
  <1>1. MemberNotice(tg, new) = IF tg.member \in Inside THEN <<"left">> ELSE <<>>
    BY DEF MemberNotice, Chats, Statuses, Inside, Outside
  <1>2. updates \o <<>> = updates
    OBVIOUS
  <1>3. new.member \notin Inside
    BY DEF Inside, Outside
  <1> QED
    BY <1>1, <1>2, <1>3 DEF Execute

LEMMA BanOrUnban ==
    ASSUME NEW chat \in Chats
    PROVE  /\ Ban(chat) \in Chats /\ Ban(chat).member \in Outside
           /\ Ban(chat).request = chat.request
           /\ Unban(chat) \in Chats /\ Unban(chat).member \in Outside
           /\ Unban(chat).request = chat.request
  BY DEF Ban, Unban, Chats, Statuses, Outside

-----------------------------------------------------------------------------
(* The handlers keep the invariant                                         *)

\* What a handler's step that brings no update and moves nobody has to keep.
LEMMA InPlaceStep ==
    ASSUME CalmInv, IInv, IInv', NEW h \in Handlers,
           \A g \in Handlers \ {h} : handlers'[g] = handlers[g],
           ~At(h, "idle"), Proceeds(h), Watches(h),
           UNCHANGED <<updates, pending, timers, phase, restoring>>,
           tg'.member \in Inside <=> tg.member \in Inside, tg'.request => tg.request
    PROVE  CalmInv'
  <1>1. tg \in Chats /\ tg' \in Chats /\ handlers \in [Handlers -> HandlerStates]
    BY DEF IInv, TypeOK
  <1>2. Proceed /\ \A g \in Handlers : Watches(g)
    BY OneProceeds DEF Watches
  <1>3. (\A u : Queued(u)' => Queued(u)) /\ OneQueued'
    BY QueueStays DEF CalmInv, Flow, OneStart
  <1>4. phase = "up"
    BY DEF CalmInv, Watch, RunsOnlyUp
  <1>5. Flow'
    BY <1>1, <1>2, <1>3, QuietStep DEF CalmInv
  <1>6. tg.member \in Outside => tg'.member \in Outside
    BY <1>1 DEF Chats, Statuses, Inside, Outside
  <1>7. Watch'
    BY <1>1, <1>2, <1>3, <1>4, <1>6, WatchStep DEF CalmInv
  <1> QED
    BY <1>5, <1>7 DEF CalmInv

\* A handler that removes the user.
LEMMA HandlerRemoves ==
    ASSUME CalmInv, IInv, IInv', NEW h \in Handlers, NEW o, NEW new \in Chats,
           \A g \in Handlers \ {h} : handlers'[g] = handlers[g],
           handlers[h].pc \in {"undo_ban", "undo_unban"}, Proceeds(h), Watches(h),
           handlers'[h].pc \notin MakingSteps,
           UNCHANGED <<pending, timers, phase, restoring>>,
           Execute(o, new), new.member \in Outside, new.request = tg.request
    PROVE  CalmInv'
  <1>1. tg \in Chats /\ handlers \in [Handlers -> HandlerStates] /\ updates \in Seq(Updates)
    BY DEF IInv, TypeOK
  <1>2. /\ tg' \in Chats /\ tg'.request = tg.request
        /\ \/ UNCHANGED updates /\ (tg'.member \in Inside <=> tg.member \in Inside)
           \/ /\ updates' = updates \o <<"left">>
              /\ tg.member \in Inside /\ tg'.member \in Outside
    BY <1>1, Removal
  <1>3. ~At(h, "idle")
    BY DEF At
  <1>4. CASE UNCHANGED updates /\ (tg'.member \in Inside <=> tg.member \in Inside)
    BY <1>2, <1>3, <1>4, InPlaceStep
  <1>5. CASE /\ updates' = updates \o <<"left">>
             /\ tg.member \in Inside /\ tg'.member \in Outside
    <2>1. Proceed /\ \A g \in Handlers : Watches(g)
      BY OneProceeds DEF Watches
    <2>2. \A g \in Handlers : handlers'[g].pc \notin MakingSteps
      BY DEF CalmInv, Flow, OneStart, MakingSteps, StartSteps
    <2>3. Flow'
      BY <1>1, <1>2, <1>5, <2>1, <2>2, RemovalStep DEF CalmInv
    <2>4. \A u \in StartUpdates : Queued(u)' => Queued(u)
      BY <1>1, <1>5, AppendQueue DEF StartUpdates
    <2>5. phase = "up"
      BY <1>3 DEF CalmInv, Watch, RunsOnlyUp
    <2>6. Watch'
      BY <1>1, <1>2, <1>5, <2>1, <2>4, <2>5, WatchStep DEF CalmInv
    <2> QED
      BY <2>3, <2>6 DEF CalmInv
  <1> QED
    BY <1>2, <1>4, <1>5

LEMMA CalmStart ==
    ASSUME ~RedisMayFail, CalmInv, IInv, IInv', NEW h \in Handlers, Start(h), ~ScheduleTimer(h)
    PROVE  CalmInv'
  <1>0. /\ tg \in Chats /\ updates \in Seq(Updates) /\ handlers \in [Handlers -> HandlerStates]
        /\ handlers[h].private \in BOOLEAN
    BY DEF IInv, TypeOK, HandlerStates
  <1>1. Redis = {"ok"}
    BY DEF Redis, Outcomes
  <1>2. CASE StartGet(h)
    <2>1. /\ At(h, "start_get") /\ UNCHANGED <<tg, updates, pending, timers, phase, restoring>>
          /\ \/ Return(h)
             \/ pending = NoRecord /\ Goto(h, IF handlers[h].private THEN "send" ELSE "restrict")
      BY <1>1, <1>2 DEF StartGet, redis, tasks
    <2>2. CASE Return(h)
      <3>1. /\ handlers'[h].pc = "idle"
            /\ \A g \in Handlers \ {h} : handlers'[g] = handlers[g]
        BY <1>0, <2>2, ReturnStep
      <3>2. Proceeds(h) /\ Watches(h)
        BY <2>1, <3>1 DEF Proceeds, Watches, At, StartSteps, PressSteps, LeaveSteps, MakingSteps
      <3> QED
        BY <2>1, <3>1, <3>2, InPlaceStep DEF At
    <2>3. CASE pending = NoRecord /\ Goto(h, IF handlers[h].private THEN "send" ELSE "restrict")
      <3>1. /\ handlers'[h].pc = (IF handlers[h].private THEN "send" ELSE "restrict")
            /\ handlers'[h].private = handlers[h].private
            /\ \A g \in Handlers \ {h} : handlers'[g] = handlers[g]
        BY <1>0, <2>3, GotoStep DEF HandlerPCs, StartSteps
      <3>2. handlers[h].private => ~Leaving
        <4>1. handlers[h].private => StartOf(TRUE)
          BY <1>0, <2>1 DEF StartOf, At, StartSteps
        <4> QED
          BY <4>1 DEF CalmInv, Flow, LeavingIsOut
      <3>3. Proceeds(h) /\ Watches(h)
        BY <2>1, <2>3, <3>1, <3>2
        DEF Proceeds, Watches, At, StartSteps, PressSteps, LeaveSteps, MakingSteps
      <3> QED
        BY <2>1, <3>1, <3>3, InPlaceStep DEF At
    <2> QED
      BY <2>1, <2>2, <2>3
  <1>3. CASE RestrictMember(h)
    <2>1. PICK o \in Telegram(CanRestrict(tg)) :
             Execute(o, Restrict(tg)) /\ Goto(h, IF o = "ok" THEN "send" ELSE "undo_ban")
      BY <1>3 DEF RestrictMember
    <2>2. At(h, "restrict") /\ UNCHANGED <<pending, timers, phase, restoring>>
      BY <1>3 DEF RestrictMember, redis, tasks
    <2>3. o # "refused" => tg.member \in Inside
      BY DEF Telegram, Outcomes, CanRestrict
    <2>4. /\ handlers'[h].pc = (IF o = "ok" THEN "send" ELSE "undo_ban")
          /\ handlers'[h].private = handlers[h].private
          /\ \A g \in Handlers \ {h} : handlers'[g] = handlers[g]
      BY <1>0, <2>1, GotoStep DEF HandlerPCs, StartSteps
    <2>5. /\ UNCHANGED updates
          /\ tg'.member \in Inside <=> tg.member \in Inside
          /\ tg'.request = tg.request
      <3>1. Restrict(tg) \in Chats /\ Restrict(tg).member \in Inside
            /\ Restrict(tg).request = tg.request
        BY <1>0 DEF Restrict, Chats, Statuses, Inside
      <3>2. CASE o = "refused"
        BY <2>1, <3>2 DEF Execute
      <3>3. CASE o # "refused"
        BY <1>0, <2>1, <2>3, <3>1, <3>3, CallInPlace
      <3> QED
        BY <3>2, <3>3
    <2>6. o = "ok" => ~Leaving
      BY <2>3 DEF CalmInv, Flow, LeavingIsOut, Inside, Outside
    <2>7. Proceeds(h) /\ Watches(h)
      BY <2>2, <2>3, <2>4, <2>6
      DEF Proceeds, Watches, At, StartSteps, PressSteps, LeaveSteps, MakingSteps
    <2> QED
      BY <2>2, <2>4, <2>5, <2>7, InPlaceStep DEF At
  <1>4. CASE SendChallenge(h)
    <2>1. PICK m \in FreshMessages, o \in Telegram(TRUE) :
             LET c == [id |-> m, private |-> handlers[h].private] IN
             /\ Execute(o, Show(tg, c))
             /\ IF o = "ok" THEN GotoHolding(h, "create", c)
                ELSE Goto(h, IF c.private THEN "undo_decline" ELSE "undo_ban")
      BY <1>4 DEF SendChallenge
    <2> DEFINE c == [id |-> m, private |-> handlers[h].private]
    <2>2. c \in Challenges
      BY <1>0 DEF Challenges, FreshMessages
    <2>3. At(h, "send") /\ UNCHANGED <<pending, timers, phase, restoring>>
      BY <1>4 DEF SendChallenge, redis, tasks
    <2>4. /\ handlers'[h].pc \in {"create", "undo_decline", "undo_ban"}
          /\ handlers'[h].private = handlers[h].private
          /\ \A g \in Handlers \ {h} : handlers'[g] = handlers[g]
      <3>1. CASE o = "ok"
        <4>1. GotoHolding(h, "create", c)
          BY <2>1, <3>1
        <4> QED
          BY <1>0, <2>2, <4>1, GotoHoldingStep DEF HandlerPCs, StartSteps
      <3>2. CASE o # "ok"
        BY <1>0, <2>1, <3>2, GotoStep DEF HandlerPCs, StartSteps
      <3> QED
        BY <3>1, <3>2
    <2>5. /\ UNCHANGED updates
          /\ tg'.member = tg.member /\ tg'.request = tg.request
      <3>1. Show(tg, c) \in Chats /\ Show(tg, c).member = tg.member
            /\ Show(tg, c).request = tg.request
        BY <1>0, <2>2 DEF Show, Chats
      <3>2. Execute(o, Show(tg, c))
        BY <2>1
      <3> QED
        BY <1>0, <3>1, <3>2, CallInPlace
    <2>6. Proceeds(h) /\ Watches(h)
      BY <2>3, <2>4
      DEF Proceeds, Watches, At, StartSteps, PressSteps, LeaveSteps, MakingSteps
    <2> QED
      BY <2>3, <2>4, <2>5, <2>6, InPlaceStep DEF At
  <1>5. CASE CreatePending(h)
    <2>1. /\ At(h, "create") /\ UNCHANGED <<tg, updates, timers, phase, restoring>>
          /\ pending' = [challenge |-> handlers[h].held, age |-> 0] /\ Goto(h, "schedule")
      BY <1>1, <1>5 DEF CreatePending, tasks
    <2>2. /\ handlers'[h].pc = "schedule" /\ handlers'[h].private = handlers[h].private
          /\ \A g \in Handlers \ {h} : handlers'[g] = handlers[g]
      BY <1>0, <2>1, GotoStep DEF HandlerPCs, StartSteps
    <2>3. Proceeds(h)
      BY <2>1, <2>2 DEF Proceeds, At, StartSteps, PressSteps, LeaveSteps, MakingSteps
    <2>4. Proceed
      BY <2>2, <2>3, OneProceeds
    <2>5. (\A u : Queued(u)' <=> Queued(u)) /\ OneQueued'
      BY <2>1, QueueStays DEF CalmInv, Flow, OneStart
    <2>6. Flow'
      BY <1>0, <2>1, <2>4, <2>5, QuietStep DEF CalmInv
    <2>7. /\ \A g \in Handlers : handlers[g].pc \notin LeaveSteps
          /\ \A g \in Handlers \ {h} : handlers[g].pc \notin StartSteps
          /\ phase = "up"
      BY <2>1
      DEF CalmInv, Flow, OneStart, LeavingIsOut, Leaving, MakingSteps, StartSteps, At,
          Watch, RunsOnlyUp
    <2>8. \A b \in BOOLEAN : StartOf(b)' => StartOf(b)
      BY <2>4, <2>5 DEF StartOf, Proceed, Proceeds
    <2>9. RunsOnlyUp' /\ RestoringIsPending'
      BY <2>1, <2>7 DEF CalmInv, Watch, RunsOnlyUp, RestoringIsPending
    <2>10. LeaveHasDeleted' /\ RecordIsOnly'
      BY <2>2, <2>7
      DEF LeaveHasDeleted, RecordIsOnly, At, LeaveSteps, StartSteps, MakingSteps
    <2>11. pending'.age = 0
      BY <2>1
    <2>12. FreshAtSchedule'
      BY <2>11 DEF FreshAtSchedule
    <2>13. pending' # NoRecord
      <3>1. handlers[h].held \in Challenges
        BY <2>1 DEF IInv, HeldIsSent, At
      <3> QED
        BY <2>1, <3>1, NullsAssumption
    <2>14. ActingIsAlone'
      BY <2>1, <2>2, <2>13 DEF CalmInv, Watch, ActingIsAlone, At, MakingSteps
    <2>15. ForgetIsAlone'
      BY <2>1, <2>2, <2>8 DEF CalmInv, Watch, ForgetIsAlone, At, TimerAt, Due
    <2>16. TidyIsReplaced' /\ SleepFits' /\ PendingIsWatched'
      BY <2>2 DEF TidyIsReplaced, SleepFits, PendingIsWatched, At
    <2> QED
      BY <2>6, <2>9, <2>10, <2>12, <2>14, <2>15, <2>16 DEF CalmInv, Watch
  <1>6. CASE UndoMessage(h)
    <2>1. /\ At(h, "undo_message") /\ UNCHANGED <<pending, timers, phase, restoring>>
          /\ HideBestEffort(handlers[h].held)
          /\ Goto(h, IF handlers[h].private THEN "undo_decline" ELSE "undo_ban")
      BY <1>6 DEF UndoMessage, redis, tasks
    <2>2. /\ handlers'[h].pc \in {"undo_decline", "undo_ban"}
          /\ handlers'[h].private = handlers[h].private
          /\ \A g \in Handlers \ {h} : handlers'[g] = handlers[g]
      BY <1>0, <2>1, GotoStep DEF HandlerPCs, StartSteps
    <2>3. Proceeds(h) /\ Watches(h)
      BY <2>1, <2>2
      DEF Proceeds, Watches, At, StartSteps, PressSteps, LeaveSteps, MakingSteps
    <2>4. UNCHANGED updates /\ tg'.member = tg.member /\ tg'.request = tg.request
      BY <1>0, <2>1, HideInPlace
    <2> QED
      BY <2>1, <2>2, <2>3, <2>4, InPlaceStep DEF At
  <1>7. CASE UndoDecline(h)
    <2>1. /\ At(h, "undo_decline") /\ UNCHANGED <<pending, timers, phase, restoring>>
          /\ Return(h)
      BY <1>7 DEF UndoDecline, redis, tasks
    <2>2. /\ handlers'[h].pc = "idle"
          /\ \A g \in Handlers \ {h} : handlers'[g] = handlers[g]
      BY <1>0, <2>1, ReturnStep
    <2>3. Proceeds(h) /\ Watches(h)
      BY <2>1, <2>2
      DEF Proceeds, Watches, At, StartSteps, PressSteps, LeaveSteps, MakingSteps
    <2>4. /\ UNCHANGED updates
          /\ tg'.member = tg.member /\ (tg'.request => tg.request)
      BY <1>0, <1>7, DeclineInPlace DEF UndoDecline
    <2> QED
      BY <2>1, <2>2, <2>3, <2>4, InPlaceStep DEF At
  <1>8. CASE UndoBan(h)
    <2>1. At(h, "undo_ban") /\ Goto(h, "undo_unban")
          /\ UNCHANGED <<pending, timers, phase, restoring>>
      BY <1>8 DEF UndoBan, redis, tasks
    <2>2. /\ handlers'[h].pc = "undo_unban" /\ handlers'[h].private = handlers[h].private
          /\ \A g \in Handlers \ {h} : handlers'[g] = handlers[g]
      BY <1>0, <2>1, GotoStep DEF HandlerPCs, StartSteps
    <2>3. Proceeds(h) /\ Watches(h) /\ handlers'[h].pc \notin MakingSteps
      BY <2>1, <2>2
      DEF Proceeds, Watches, At, StartSteps, PressSteps, LeaveSteps, MakingSteps
    <2>4. PICK o : Execute(o, Ban(tg))
      BY <1>8 DEF UndoBan
    <2> QED
      BY <1>0, <2>1, <2>2, <2>3, <2>4, BanOrUnban, HandlerRemoves DEF At
  <1>9. CASE UndoUnban(h)
    <2>1. At(h, "undo_unban") /\ Return(h)
          /\ UNCHANGED <<pending, timers, phase, restoring>>
      BY <1>9 DEF UndoUnban, redis, tasks
    <2>2. /\ handlers'[h].pc = "idle"
          /\ \A g \in Handlers \ {h} : handlers'[g] = handlers[g]
      BY <1>0, <2>1, ReturnStep
    <2>3. Proceeds(h) /\ Watches(h) /\ handlers'[h].pc \notin MakingSteps
      BY <2>1, <2>2
      DEF Proceeds, Watches, At, StartSteps, PressSteps, LeaveSteps, MakingSteps
    <2>4. PICK o : Execute(o, Unban(tg))
      BY <1>9 DEF UndoUnban
    <2> QED
      BY <1>0, <2>1, <2>2, <2>3, <2>4, BanOrUnban, HandlerRemoves DEF At
  <1> QED
    BY <1>2, <1>3, <1>4, <1>5, <1>6, <1>7, <1>8, <1>9 DEF Start

\* A registered task is the only one alive, and sleeps for its delay.
LEMMA RegisteredAlone ==
    ASSUME timers \in [Timers -> TimerStates], RegistryTracksLiveTimer,
           NEW private, NEW delay, RegisterTimer(private, delay)
    PROVE  \E t \in Timers : /\ timers'[t].pc = "sleep" /\ timers'[t].wait = delay
                             /\ \A s \in Timers \ {t} : ~Live(timers'[s])
  BY NullsAssumption
     DEF RegisterTimer, Cancelled, Live, RegistryTracksLiveTimer, TimerStates

LEMMA CancelledNone ==
    ASSUME timers \in [Timers -> TimerStates], RegistryTracksLiveTimer, CancelTimer
    PROVE  \A t \in Timers : ~Live(timers'[t])
  BY NullsAssumption
     DEF CancelTimer, Cancelled, Live, RegistryTracksLiveTimer, TimerStates

LEMMA CalmSchedule ==
    ASSUME CalmInv, IInv, IInv', NEW h \in Handlers, ScheduleTimer(h)
    PROVE  CalmInv'
  <1>0. /\ tg \in Chats /\ updates \in Seq(Updates) /\ handlers \in [Handlers -> HandlerStates]
        /\ timers \in [Timers -> TimerStates] /\ RegistryTracksLiveTimer
        /\ pending \in Records \cup {NoRecord}
    BY DEF IInv, TypeOK
  <1>1. /\ At(h, "schedule") /\ RegisterTimer(handlers[h].private, Timeout) /\ Return(h)
        /\ UNCHANGED <<tg, updates, pending, phase, restoring>>
    BY DEF ScheduleTimer, redis
  <1>2. /\ handlers'[h].pc = "idle"
        /\ \A g \in Handlers \ {h} : handlers'[g] = handlers[g]
    BY <1>0, <1>1, ReturnStep
  <1>3. Proceeds(h)
    BY <1>1, <1>2 DEF Proceeds, StartSteps, PressSteps, LeaveSteps, MakingSteps
  <1>4. Proceed
    BY <1>2, <1>3, OneProceeds
  <1>5. (\A u : Queued(u)' <=> Queued(u)) /\ OneQueued'
    BY <1>1, QueueStays DEF CalmInv, Flow, OneStart
  <1>6. Flow'
    BY <1>0, <1>1, <1>4, <1>5, QuietStep DEF CalmInv
  <1>7. /\ phase = "up" /\ ~Queued("request") /\ ~Queued("joined")
        /\ \A g \in Handlers : handlers'[g].pc \notin StartSteps
    BY <1>1, <1>2 DEF CalmInv, Watch, RunsOnlyUp, Flow, OneStart, At, StartSteps
  <1>8. ~StartOf(TRUE)' /\ ~StartOf(FALSE)'
    BY <1>5, <1>7 DEF StartOf
  <1>9. PICK t \in Timers : /\ timers'[t].pc = "sleep" /\ timers'[t].wait = Timeout
                            /\ \A s \in Timers \ {t} : ~Live(timers'[s])
    BY <1>0, <1>1, RegisteredAlone
  <1>10. \A s \in Timers : timers'[s].pc \in {"free", "over", "sleep"}
    BY <1>9 DEF Live
  <1>11. RunsOnlyUp' /\ RestoringIsPending'
    BY <1>1, <1>7 DEF CalmInv, Watch, RunsOnlyUp, RestoringIsPending
  <1>12. LeaveHasDeleted' /\ RecordIsOnly' /\ FreshAtSchedule'
    BY <1>1, <1>2, <1>7
    DEF CalmInv, Watch, LeaveHasDeleted, RecordIsOnly, FreshAtSchedule, At, StartSteps,
        MakingSteps
  <1>13. ActingIsAlone' /\ TidyIsReplaced'
    BY <1>10 DEF ActingIsAlone, ActingPCs, TidyIsReplaced, TimerAt
  <1>14. ForgetIsAlone'
    BY <1>8 DEF ForgetIsAlone
  <1>15. SleepFits'
    <2>1. pending # NoRecord => pending.age = 0
      BY <1>1 DEF CalmInv, Watch, FreshAtSchedule
    <2>2. \A s \in Timers : TimerAt(s, "sleep")' => s = t
      BY <1>9 DEF TimerAt, Live
    <2>3. pending # NoRecord => Fits(t)'
      BY <1>1, <1>9, <2>1, ConstantsAssumption DEF Fits
    <2> QED
      BY <1>1, <2>2, <2>3 DEF SleepFits
  <1>16. PendingIsWatched'
    BY <1>9 DEF PendingIsWatched, Live
  <1> QED
    BY <1>6, <1>11, <1>12, <1>13, <1>14, <1>15, <1>16 DEF CalmInv, Watch

\* Once no task is alive and the user lets go of the record, or a press is about
\* to, records and tasks fit again.
LEMMA NoTaskAlive ==
    ASSUME \A t \in Timers : ~Live(timers'[t])
    PROVE  ActingIsAlone' /\ ForgetIsAlone' /\ TidyIsReplaced' /\ SleepFits'
  <1>1. \A t \in Timers : timers'[t].pc \in {"free", "over"}
    BY DEF Live
  <1> QED
    BY <1>1 DEF ActingIsAlone, ActingPCs, ForgetIsAlone, Due, TidyIsReplaced, SleepFits, TimerAt

\* A handler that deletes the record, when nobody is on the way to another one
\* because the user is out or no timeout task is due.
LEMMA DeletionStep ==
    ASSUME CalmInv, IInv, IInv', NEW h \in Handlers,
           \A g \in Handlers \ {h} : handlers'[g] = handlers[g],
           ~At(h, "idle"), ~At(h, "start_get"), handlers'[h].pc \in {"leave_cancel", "tidy"},
           Proceeds(h),
           UNCHANGED <<tg, updates, timers, phase, restoring>>, pending' = NoRecord,
           ~tg.request,
           \/ tg.member \in Outside
           \/ At(h, "forget")
    PROVE  CalmInv'
  <1>0. tg \in Chats /\ tg' \in Chats /\ handlers \in [Handlers -> HandlerStates]
    BY DEF IInv, TypeOK
  <1>1. Proceed
    BY OneProceeds
  <1>2. (\A u : Queued(u)' <=> Queued(u)) /\ OneQueued'
    BY QueueStays DEF CalmInv, Flow, OneStart
  <1>3. Flow'
    BY <1>0, <1>1, <1>2, QuietStep DEF CalmInv
  <1>4. phase = "up"
    BY DEF CalmInv, Watch, RunsOnlyUp
  <1>5. \A b \in BOOLEAN : StartOf(b)' => StartOf(b)
    BY <1>1, <1>2 DEF StartOf, Proceed, Proceeds
  <1>6. RunsOnlyUp' /\ RestoringIsPending' /\ LeaveHasDeleted' /\ RecordIsOnly'
        /\ FreshAtSchedule' /\ TidyIsReplaced' /\ SleepFits' /\ PendingIsWatched'
    BY <1>4
    DEF CalmInv, Watch, RunsOnlyUp, RestoringIsPending, LeaveHasDeleted, RecordIsOnly,
        FreshAtSchedule, TidyIsReplaced, SleepFits, PendingIsWatched
  <1>7. ForgetIsAlone'
    BY <1>5 DEF CalmInv, Watch, ForgetIsAlone, At, TimerAt, Due
  <1>8. ActingIsAlone'
    <2> SUFFICES ASSUME NEW t \in Timers, timers[t].pc \in ActingPCs
                 PROVE  /\ \A g \in Handlers :
                               /\ handlers'[g].pc \in MakingSteps => handlers'[g].private
                               /\ At(g, "restrict")' => tg.member \in Outside
                        /\ Queued("joined")
                           \/ (\E g \in Handlers : At(g, "start_get")' /\ ~handlers'[g].private)
                             => tg.member \in Outside
      BY <1>2 DEF ActingIsAlone
    <2>1. \A g \in Handlers :
               /\ handlers'[g].pc \in MakingSteps => handlers'[g].private
               /\ At(g, "restrict")' => tg.member \in Outside
      BY DEF CalmInv, Watch, ActingIsAlone, At, MakingSteps
    <2>2. CASE tg.member \in Outside
      BY <2>1, <2>2
    <2>3. CASE At(h, "forget")
      <3>1. ~StartOf(FALSE)
        BY <2>3 DEF CalmInv, Watch, ForgetIsAlone, Due
      <3>2. ~StartOf(FALSE)'
        BY <1>5, <3>1
      <3>3. /\ ~Queued("joined")
            /\ \A g \in Handlers : At(g, "start_get")' => handlers'[g].private # FALSE
        BY <1>2, <3>2 DEF StartOf, At, StartSteps
      <3>4. \A g \in Handlers : handlers'[g].private \in BOOLEAN
        BY DEF IInv, TypeOK, HandlerStates
      <3> QED
        BY <2>1, <3>3, <3>4
    <2> QED
      BY <2>2, <2>3
  <1> QED
    BY <1>3, <1>6, <1>7, <1>8 DEF CalmInv, Watch

\* A handler that cancels the timeout task when there is no record, or it will
\* delete the record.
LEMMA CancellationStep ==
    ASSUME CalmInv, IInv, IInv', NEW h \in Handlers,
           \A g \in Handlers \ {h} : handlers'[g] = handlers[g],
           handlers[h].pc \in {"leave_cancel", "mark"}, Proceeds(h),
           pending = NoRecord \/ handlers'[h].pc = "forget",
           handlers'[h].pc \in {"idle", "forget"},
           UNCHANGED <<updates, pending, phase, restoring>>,
           tg'.member = tg.member, tg'.request = tg.request,
           \A t \in Timers : ~Live(timers'[t])
    PROVE  CalmInv'
  <1>0. tg \in Chats /\ tg' \in Chats
    BY DEF IInv, TypeOK
  <1>1. Proceed
    BY OneProceeds
  <1>2. (\A u : Queued(u)' => Queued(u)) /\ OneQueued'
    BY QueueStays DEF CalmInv, Flow, OneStart
  <1>3. Flow'
    BY <1>0, <1>1, <1>2, QuietStep DEF CalmInv
  <1>4. phase = "up"
    BY DEF CalmInv, Watch, RunsOnlyUp, At
  <1>5. RunsOnlyUp' /\ RestoringIsPending' /\ LeaveHasDeleted' /\ RecordIsOnly'
        /\ FreshAtSchedule' /\ PendingIsWatched'
    BY <1>4
    DEF CalmInv, Watch, RunsOnlyUp, RestoringIsPending, LeaveHasDeleted, RecordIsOnly,
        FreshAtSchedule, PendingIsWatched, At, MakingSteps
  <1> QED
    BY <1>3, <1>5, NoTaskAlive DEF CalmInv, Watch

LEMMA CalmLeave ==
    ASSUME ~RedisMayFail, CalmInv, IInv, IInv', NEW h \in Handlers, Leave(h)
    PROVE  CalmInv'
  <1>0. /\ tg \in Chats /\ updates \in Seq(Updates) /\ handlers \in [Handlers -> HandlerStates]
        /\ timers \in [Timers -> TimerStates] /\ RegistryTracksLiveTimer
        /\ pending \in Records \cup {NoRecord}
        /\ pending # NoRecord => pending.challenge \in Challenges
    BY DEF IInv, TypeOK, Records
  <1>1. Redis = {"ok"}
    BY DEF Redis, Outcomes
  <1>2. CASE LeaveGet(h)
    <2>1. /\ At(h, "leave_get") /\ UNCHANGED <<tg, updates, pending, timers, phase, restoring>>
          /\ \/ Return(h)
             \/ pending # NoRecord /\ GotoHolding(h, "leave_delete", pending.challenge)
      BY <1>1, <1>2 DEF LeaveGet, redis, tasks
    <2>2. /\ handlers'[h].pc \in {"idle", "leave_delete"}
          /\ \A g \in Handlers \ {h} : handlers'[g] = handlers[g]
      BY <1>0, <2>1, ReturnStep, GotoHoldingStep DEF HandlerPCs, LeaveSteps
    <2>3. Proceeds(h) /\ Watches(h)
      BY <2>1, <2>2
      DEF Proceeds, Watches, At, StartSteps, PressSteps, LeaveSteps, MakingSteps
    <2> QED
      BY <2>1, <2>2, <2>3, InPlaceStep DEF At
  <1>3. CASE LeaveDelete(h)
    <2>1. /\ At(h, "leave_delete") /\ UNCHANGED <<tg, updates, timers, phase, restoring>>
          /\ pending' = NoRecord /\ Goto(h, "leave_cancel")
      BY <1>1, <1>3 DEF LeaveDelete, tasks
    <2>2. /\ handlers'[h].pc = "leave_cancel" /\ handlers'[h].private = handlers[h].private
          /\ \A g \in Handlers \ {h} : handlers'[g] = handlers[g]
      BY <1>0, <2>1, GotoStep DEF HandlerPCs, LeaveSteps
    <2>3. Proceeds(h)
      BY <2>1, <2>2 DEF Proceeds, At, StartSteps, PressSteps, LeaveSteps, MakingSteps
    <2>4. Leaving
      BY <2>1 DEF Leaving, At, LeaveSteps
    <2>5. tg.member \in Outside /\ ~tg.request
          /\ \A g \in Handlers : handlers[g].pc \notin MakingSteps
      BY <2>4 DEF CalmInv, Flow, LeavingIsOut
    <2> QED
      BY <2>1, <2>2, <2>3, <2>5, DeletionStep DEF At
  <1>4. CASE LeaveCancel(h)
    <2>1. /\ At(h, "leave_cancel") /\ UNCHANGED <<pending, phase, restoring>>
          /\ CancelTimer /\ HideBestEffort(handlers[h].held) /\ Return(h)
      BY <1>4 DEF LeaveCancel, redis
    <2>2. /\ handlers'[h].pc = "idle"
          /\ \A g \in Handlers \ {h} : handlers'[g] = handlers[g]
      BY <1>0, <2>1, ReturnStep
    <2>3. Proceeds(h)
      BY <2>1, <2>2 DEF Proceeds, At, StartSteps, PressSteps, LeaveSteps, MakingSteps
    <2>4. UNCHANGED updates /\ tg'.member = tg.member /\ tg'.request = tg.request
      BY <1>0, <2>1, HideInPlace
    <2>5. pending = NoRecord
      BY <2>1 DEF CalmInv, Watch, LeaveHasDeleted
    <2>6. \A t \in Timers : ~Live(timers'[t])
      BY <1>0, <2>1, CancelledNone
    <2> QED
      BY <2>1, <2>2, <2>3, <2>4, <2>5, <2>6, CancellationStep DEF At
  <1> QED
    BY <1>2, <1>3, <1>4 DEF Leave

LEMMA CalmOpen ==
    ASSUME CalmInv, IInv, IInv', NEW h \in Handlers, OpenAccess(h)
    PROVE  CalmInv'
  <1>0. /\ tg \in Chats /\ updates \in Seq(Updates) /\ handlers \in [Handlers -> HandlerStates]
        /\ tg' \in Chats
    BY DEF IInv, TypeOK
  <1> DEFINE private == handlers[h].private
             new == IF private THEN Approve(tg) ELSE Unrestrict(tg)
  <1>1. PICK o \in Telegram(IF private THEN CanApprove(tg) ELSE CanRestrict(tg)) :
           Execute(o, new) /\ IF o = "ok" THEN Goto(h, "mark") ELSE Return(h)
    BY DEF OpenAccess
  <1>2. At(h, "open") /\ UNCHANGED <<pending, timers, phase, restoring>>
    BY DEF OpenAccess, redis, tasks
  <1>3. /\ handlers'[h].pc \in {"idle", "mark"}
        /\ handlers'[h].pc = "mark" => o = "ok"
        /\ \A g \in Handlers \ {h} : handlers'[g] = handlers[g]
    BY <1>0, <1>1, GotoStep, ReturnStep DEF HandlerPCs, PressSteps
  <1>4. o # "refused" => IF private THEN tg.request ELSE tg.member \in Inside
    BY DEF Telegram, Outcomes, CanApprove, CanRestrict
  <1>5. Watches(h)
    BY <1>2, <1>3 DEF Watches, At, MakingSteps
  <1>6. ASSUME handlers'[h].pc = "mark" => ~tg'.request
        PROVE  Proceeds(h)
    BY <1>2, <1>3, <1>6 DEF Proceeds, At, StartSteps, PressSteps, LeaveSteps, MakingSteps
  <1>7. CASE o = "refused"
    <2>1. UNCHANGED <<tg, updates>>
      BY <1>1, <1>7 DEF Execute
    <2>2. Proceeds(h)
      BY <1>3, <1>6, <1>7
    <2> QED
      BY <1>2, <1>3, <1>5, <2>1, <2>2, InPlaceStep DEF At
  <1>8. CASE o # "refused" /\ ~private
    <2>1. /\ Unrestrict(tg) \in Chats /\ Unrestrict(tg).member \in Inside
          /\ Unrestrict(tg).request = tg.request
      BY <1>0 DEF Unrestrict, Chats, Statuses, Inside
    <2>2. UNCHANGED updates /\ (tg' = tg \/ tg' = Unrestrict(tg))
      BY <1>0, <1>1, <1>4, <1>8, <2>1, CallInPlace
    <2>3. tg.member \in Inside /\ tg'.member \in Inside /\ tg'.request = tg.request
      BY <1>4, <1>8, <2>1, <2>2
    <2>4. Proceeds(h)
      BY <1>6, <2>3 DEF CalmInv, Flow, InsideIsClosed
    <2> QED
      BY <1>2, <1>3, <1>5, <2>2, <2>3, <2>4, InPlaceStep DEF At
  <1>9. CASE o # "refused" /\ private
    <2>1. /\ tg.request /\ tg.member \notin Inside
      BY <1>4, <1>9 DEF CalmInv, Flow, InsideIsClosed
    <2>2. /\ tg' = Approve(tg) /\ updates' = updates \o <<"joined">>
      <3>1. MemberNotice(tg, Approve(tg)) = <<"joined">>
        BY <1>0, <2>1 DEF MemberNotice, Approve, Chats, Statuses, Inside, Outside
      <3> QED
        BY <1>1, <1>9, <3>1 DEF Execute
    <2>3. tg'.member \in Inside /\ ~tg'.request
      BY <1>0, <2>2 DEF Approve, Chats, Inside
    <2>4. Proceed
      BY <1>3, <1>6, <2>3, OneProceeds
    <2>5. Pressing
      BY <1>2 DEF Pressing, At, PressSteps
    <2>6. Flow'
      BY <1>0, <2>1, <2>2, <2>3, <2>4, <2>5, ApprovalStep DEF CalmInv
    <2>7. \A t \in Timers : timers[t].pc \in ActingPCs => pending # NoRecord
      BY <2>1 DEF CalmInv, Watch, ActingIsAlone
    <2>8. \A g \in Handlers : handlers[g].pc # "forget" /\ handlers'[g].pc # "forget"
      BY <1>3, <2>1 DEF CalmInv, Flow, OpenedIsClosed
    <2>9. /\ ActingIsAlone' /\ ForgetIsAlone'
      <3>1. ForgetIsAlone'
        BY <2>8 DEF ForgetIsAlone, At
      <3>2. ActingIsAlone'
        BY <1>2, <1>3, <1>5, <2>7
        DEF CalmInv, Watch, RecordIsOnly, ActingIsAlone, At, Watches, MakingSteps
      <3> QED
        BY <3>1, <3>2
    <2>10. phase = "up"
      BY <1>2 DEF CalmInv, Watch, RunsOnlyUp, At
    <2>11. RunsOnlyUp' /\ RestoringIsPending' /\ LeaveHasDeleted' /\ RecordIsOnly'
           /\ FreshAtSchedule'
      BY <1>2, <1>3, <2>10
      DEF CalmInv, Watch, RunsOnlyUp, RestoringIsPending, LeaveHasDeleted, RecordIsOnly,
          FreshAtSchedule, At, MakingSteps
    <2>12. TidyIsReplaced' /\ SleepFits' /\ PendingIsWatched'
      BY <1>2, <1>3
      DEF CalmInv, Watch, TidyIsReplaced, SleepFits, Fits, PendingIsWatched, At, TimerAt, Live
    <2> QED
      BY <2>6, <2>9, <2>11, <2>12 DEF CalmInv, Watch
  <1> QED
    BY <1>7, <1>8, <1>9

LEMMA CalmPress ==
    ASSUME ~RedisMayFail, CalmInv, IInv, IInv', NEW h \in Handlers, Press(h)
    PROVE  CalmInv'
  <1>0. /\ tg \in Chats /\ updates \in Seq(Updates) /\ handlers \in [Handlers -> HandlerStates]
        /\ timers \in [Timers -> TimerStates] /\ RegistryTracksLiveTimer
        /\ pending \in Records \cup {NoRecord}
        /\ pending # NoRecord => pending.challenge \in Challenges
    BY DEF IInv, TypeOK, Records
  <1>1. Redis = {"ok"}
    BY DEF Redis, Outcomes
  <1>2. CASE PressGet(h)
    <2>1. /\ At(h, "press_get") /\ UNCHANGED <<tg, updates, pending, timers, phase, restoring>>
          /\ Return(h) \/ Goto(h, "press_reget")
      BY <1>1, <1>2 DEF PressGet, redis, tasks
    <2>2. /\ handlers'[h].pc \in {"idle", "press_reget"}
          /\ \A g \in Handlers \ {h} : handlers'[g] = handlers[g]
      BY <1>0, <2>1, ReturnStep, GotoStep DEF HandlerPCs, PressSteps
    <2>3. Proceeds(h) /\ Watches(h)
      BY <2>1, <2>2
      DEF Proceeds, Watches, At, StartSteps, PressSteps, LeaveSteps, MakingSteps
    <2> QED
      BY <2>1, <2>2, <2>3, InPlaceStep DEF At
  <1>3. CASE PressReget(h)
    <2>1. /\ At(h, "press_reget") /\ UNCHANGED <<tg, updates, pending, timers, phase, restoring>>
          /\ \/ Return(h)
             \/ pending # NoRecord /\ GotoHolding(h, "open", pending.challenge)
      BY <1>1, <1>3 DEF PressReget, redis, tasks
    <2>2. /\ handlers'[h].pc \in {"idle", "open"}
          /\ \A g \in Handlers \ {h} : handlers'[g] = handlers[g]
      BY <1>0, <2>1, ReturnStep, GotoHoldingStep DEF HandlerPCs, PressSteps
    <2>3. Proceeds(h) /\ Watches(h)
      BY <2>1, <2>2
      DEF Proceeds, Watches, At, StartSteps, PressSteps, LeaveSteps, MakingSteps
    <2> QED
      BY <2>1, <2>2, <2>3, InPlaceStep DEF At
  <1>4. CASE OpenAccess(h)
    BY <1>4, CalmOpen
  <1>5. CASE MarkVerified(h)
    <2>1. /\ At(h, "mark") /\ UNCHANGED <<tg, updates, pending, phase, restoring>>
          /\ CancelTimer /\ Goto(h, "forget")
      BY <1>5 DEF MarkVerified
    <2>2. /\ handlers'[h].pc = "forget"
          /\ \A g \in Handlers \ {h} : handlers'[g] = handlers[g]
      BY <1>0, <2>1, GotoStep DEF HandlerPCs, PressSteps
    <2>3. Proceeds(h)
      BY <2>1, <2>2 DEF Proceeds, At, StartSteps, PressSteps, LeaveSteps, MakingSteps
    <2>4. \A t \in Timers : ~Live(timers'[t])
      BY <1>0, <2>1, CancelledNone
    <2> QED
      BY <2>1, <2>2, <2>3, <2>4, CancellationStep DEF At
  <1>6. CASE ForgetPending(h)
    <2>1. /\ At(h, "forget") /\ UNCHANGED <<tg, updates, timers, phase, restoring>>
          /\ pending' = NoRecord /\ Goto(h, "tidy")
      BY <1>1, <1>6 DEF ForgetPending, tasks
    <2>2. /\ handlers'[h].pc = "tidy"
          /\ \A g \in Handlers \ {h} : handlers'[g] = handlers[g]
      BY <1>0, <2>1, GotoStep DEF HandlerPCs, PressSteps
    <2>3. Proceeds(h)
      BY <2>1, <2>2 DEF Proceeds, At, StartSteps, PressSteps, LeaveSteps, MakingSteps
    <2>4. ~tg.request
      BY <2>1 DEF CalmInv, Flow, OpenedIsClosed, At
    <2> QED
      BY <2>1, <2>2, <2>3, <2>4, DeletionStep DEF At
  <1>7. CASE TidyChallenge(h)
    <2>1. /\ At(h, "tidy") /\ UNCHANGED <<pending, timers, phase, restoring>>
          /\ HideBestEffort(handlers[h].held) /\ Return(h)
      BY <1>7 DEF TidyChallenge, redis, tasks
    <2>2. /\ handlers'[h].pc = "idle"
          /\ \A g \in Handlers \ {h} : handlers'[g] = handlers[g]
      BY <1>0, <2>1, ReturnStep
    <2>3. Proceeds(h) /\ Watches(h)
      BY <2>1, <2>2
      DEF Proceeds, Watches, At, StartSteps, PressSteps, LeaveSteps, MakingSteps
    <2>4. UNCHANGED updates /\ tg'.member = tg.member /\ tg'.request = tg.request
      BY <1>0, <2>1, HideInPlace
    <2> QED
      BY <2>1, <2>2, <2>3, <2>4, InPlaceStep DEF At
  <1> QED
    BY <1>2, <1>3, <1>4, <1>5, <1>6, <1>7 DEF Press

-----------------------------------------------------------------------------
(* The timeout tasks keep the invariant                                    *)

LEMMA TaskMoves ==
    ASSUME timers \in [Timers -> TimerStates], NEW t \in Timers, NEW pc \in TimerPCs,
           TimerGoto(t, pc)
    PROVE  /\ timers'[t].pc = pc /\ timers'[t].wait = timers[t].wait
           /\ \A s \in Timers \ {t} : timers'[s] = timers[s]
  BY DEF TimerGoto, TimerPCs, TimerStates

\* What a step of a timeout task has to keep, once the flow is kept.
LEMMA TaskStep ==
    ASSUME CalmInv, IInv, Flow', NEW t \in Timers, Live(timers[t]),
           \A s \in Timers \ {t} : timers'[s] = timers[s],
           \A u \in StartUpdates : Queued(u)' => Queued(u),
           tg.member \in Outside => tg'.member \in Outside, tg'.request => tg.request,
           UNCHANGED <<handlers, phase, restoring>>,
           timers'[t].pc # "sleep",
           timers'[t].pc \in {"get"} \cup ActingPCs => Due(t),
           timers'[t].pc \in ActingPCs =>
               /\ UNCHANGED pending
               /\ timers[t].pc \in ActingPCs \/ pending # NoRecord,
           timers'[t].pc = "tidy" => pending' = NoRecord,
           ~Live(timers'[t]) => timers[t].pc = "tidy" \/ pending' = NoRecord,
           UNCHANGED pending \/ pending' = NoRecord
    PROVE  CalmInv'
  <1>1. phase = "up" /\ restoring = NoRecord
    BY DEF CalmInv, Watch, RunsOnlyUp, RestoringIsPending
  <1>2. \A s \in Timers \ {t} : ~Live(timers[s]) /\ ~Live(timers'[s])
    BY DEF IInv, RegistryTracksLiveTimer
  <1>3. \A s \in Timers \ {t} : timers'[s].pc \in {"free", "over"}
    BY <1>2 DEF Live
  <1>4. RunsOnlyUp' /\ LeaveHasDeleted' /\ RecordIsOnly' /\ FreshAtSchedule'
        /\ RestoringIsPending'
    BY <1>1
    DEF CalmInv, Watch, RunsOnlyUp, LeaveHasDeleted, RecordIsOnly, FreshAtSchedule,
        RestoringIsPending, At
  <1>5. ActingIsAlone'
    <2> SUFFICES ASSUME timers'[t].pc \in ActingPCs
                 PROVE  /\ \A h \in Handlers :
                              /\ handlers[h].pc \in MakingSteps => handlers[h].private
                              /\ At(h, "restrict") => tg'.member \in Outside
                        /\ pending = NoRecord =>
                              /\ ~tg'.request
                              /\ Queued("joined")'
                                 \/ (\E h \in Handlers : At(h, "start_get") /\ ~handlers[h].private)
                                     => tg'.member \in Outside
      BY <1>3 DEF ActingIsAlone, ActingPCs, At
    <2>1. CASE timers[t].pc \in ActingPCs
      BY <2>1 DEF CalmInv, Watch, ActingIsAlone, StartUpdates
    <2>2. CASE pending # NoRecord
      BY <2>2 DEF CalmInv, Watch, RecordIsOnly, At
    <2> QED
      BY <2>1, <2>2
  <1>6. ForgetIsAlone'
    <2>1. \A s \in Timers : Due(s)' => s = t /\ Due(t)
      BY <1>3 DEF Due, ActingPCs, TimerAt
    <2>2. \A b \in BOOLEAN : StartOf(b)' => StartOf(b)
      BY DEF StartOf, StartUpdates
    <2> QED
      BY <2>1, <2>2 DEF CalmInv, Watch, ForgetIsAlone, At
  <1>7. TidyIsReplaced'
    BY <1>3 DEF TidyIsReplaced, TimerAt
  <1>8. SleepFits'
    BY <1>3 DEF SleepFits, TimerAt
  <1>9. PendingIsWatched'
    BY DEF CalmInv, Watch, PendingIsWatched, TidyIsReplaced, TimerAt
  <1> QED
    BY <1>4, <1>5, <1>6, <1>7, <1>8, <1>9 DEF CalmInv, Watch

\* The flow is kept when neither handlers nor membership change.
LEMMA FlowStays ==
    ASSUME Flow, tg \in Chats, tg' \in Chats, UNCHANGED <<handlers, updates>>,
           tg'.member = tg.member, tg'.request => tg.request
    PROVE  Flow'
  BY HandlersStay, QueueStays, QuietStep DEF Flow, OneStart

\* A removal by a timeout task that acts.
LEMMA TaskRemoves ==
    ASSUME CalmInv, IInv, NEW t \in Timers, NEW o, NEW new \in Chats, Execute(o, new),
           new.member \in Outside, new.request = tg.request,
           timers[t].pc \in {"ban", "unban"}, timers'[t].pc \in {"unban", "delete"},
           \A s \in Timers \ {t} : timers'[s] = timers[s],
           UNCHANGED <<pending, handlers, phase, restoring>>
    PROVE  CalmInv'
  <1>0. tg \in Chats /\ updates \in Seq(Updates) /\ handlers \in [Handlers -> HandlerStates]
    BY DEF IInv, TypeOK
  <1>1. /\ tg' \in Chats /\ tg'.request = tg.request
        /\ \/ UNCHANGED updates /\ (tg'.member \in Inside <=> tg.member \in Inside)
           \/ /\ updates' = updates \o <<"left">>
              /\ tg.member \in Inside /\ tg'.member \in Outside
    BY <1>0, Removal
  <1>2. tg.member \in Outside => tg'.member \in Outside
    BY <1>0, <1>1 DEF Chats, Statuses, Inside, Outside
  <1>3. Flow' /\ \A u \in StartUpdates : Queued(u)' => Queued(u)
    <2>1. CASE UNCHANGED updates /\ (tg'.member \in Inside <=> tg.member \in Inside)
      BY <1>0, <1>1, <2>1, HandlersStay, QueueStays, QuietStep DEF CalmInv, Flow, OneStart
    <2>2. CASE /\ updates' = updates \o <<"left">>
               /\ tg.member \in Inside /\ tg'.member \in Outside
      <3>1. ~StartOf(TRUE)
        BY <2>2 DEF CalmInv, Flow, RequestIsUndisturbed, Inside, Outside
      <3>2. \A h \in Handlers : handlers[h].pc \in MakingSteps => handlers[h].private
        BY DEF CalmInv, Watch, ActingIsAlone, ActingPCs
      <3>3. \A h \in Handlers : handlers[h].private \in BOOLEAN
        BY <1>0 DEF HandlerStates
      <3>4. \A h \in Handlers : handlers'[h].pc \notin MakingSteps
        BY <3>1, <3>2, <3>3 DEF StartOf, MakingSteps, StartSteps
      <3>5. Flow'
        BY <1>0, <1>1, <2>2, <3>4, HandlersStay, RemovalStep DEF CalmInv
      <3> QED
        BY <1>0, <2>2, <3>5, AppendQueue DEF StartUpdates
    <2> QED
      BY <1>1, <2>1, <2>2
  <1> QED
    BY <1>1, <1>2, <1>3, TaskStep DEF Live, Due, ActingPCs

LEMMA CalmTimer ==
    ASSUME ~RedisMayFail, CalmInv, IInv, IInv', NEW t \in Timers, Timer(t)
    PROVE  CalmInv'
  <1>0. /\ tg \in Chats /\ tg' \in Chats /\ updates \in Seq(Updates)
        /\ handlers \in [Handlers -> HandlerStates]
        /\ timers \in [Timers -> TimerStates] /\ RegistryTracksLiveTimer
        /\ pending \in Records \cup {NoRecord}
    BY DEF IInv, TypeOK
  <1>1. Redis = {"ok"}
    BY DEF Redis, Outcomes
  <1>2. CASE TimerWake(t)
    <2>1. /\ TimerAt(t, "sleep") /\ timers[t].wait = 0 /\ TimerGoto(t, "get")
          /\ UNCHANGED <<tg, updates, pending, handlers, phase, restoring>>
      BY <1>2 DEF TimerWake, redis
    <2>2. timers'[t].pc = "get" /\ \A s \in Timers \ {t} : timers'[s] = timers[s]
      BY <1>0, <2>1, TaskMoves DEF TimerPCs
    <2>3. Flow' /\ \A u \in StartUpdates : Queued(u)' => Queued(u)
      BY <1>0, <2>1, FlowStays, QueueStays DEF CalmInv
    <2> QED
      BY <2>1, <2>2, <2>3, TaskStep DEF TimerAt, Live, Due, ActingPCs
  <1>3. CASE TimerGet(t)
    <2>1. /\ TimerAt(t, "get") /\ UNCHANGED <<tg, updates, pending, handlers, phase, restoring>>
          /\ \A s \in Timers \ {t} : timers'[s] = timers[s]
          /\ \/ pending = NoRecord /\ timers'[t].pc = "over"
             \/ pending # NoRecord /\ timers'[t].pc \in ActingPCs
      <3>1. TimerAt(t, "get") /\ UNCHANGED <<tg, updates, pending, handlers, phase, restoring>>
        BY <1>3 DEF TimerGet, redis
      <3>2. CASE pending = NoRecord /\ TimerGoto(t, "over")
        BY <1>0, <3>1, <3>2, TaskMoves DEF TimerPCs
      <3>3. CASE /\ pending # NoRecord
                 /\ timers' = [timers EXCEPT ![t].pc = AfterGet(timers[t], pending.challenge),
                                            ![t].held = pending.challenge]
        <4>1. AfterGet(timers[t], pending.challenge) \in ActingPCs
          BY DEF AfterGet, ActingPCs
        <4> QED
          BY <1>0, <3>1, <3>3, <4>1 DEF TimerStates
      <3> QED
        BY <1>1, <1>3, <3>2, <3>3 DEF TimerGet
    <2>2. Flow' /\ \A u \in StartUpdates : Queued(u)' => Queued(u)
      BY <1>0, <2>1, FlowStays, QueueStays DEF CalmInv
    <2> QED
      BY <2>1, <2>2, TaskStep DEF TimerAt, Live, Due, ActingPCs
  <1>4. CASE TimerNotify(t)
    <2>1. /\ TimerAt(t, "notify") /\ TimerGoto(t, "decline") /\ HideBestEffort(timers[t].held)
          /\ UNCHANGED <<pending, handlers, phase, restoring>>
      BY <1>4 DEF TimerNotify, redis
    <2>2. timers'[t].pc = "decline" /\ \A s \in Timers \ {t} : timers'[s] = timers[s]
      BY <1>0, <2>1, TaskMoves DEF TimerPCs
    <2>3. UNCHANGED updates /\ tg'.member = tg.member /\ tg'.request = tg.request
      BY <1>0, <2>1, HideInPlace
    <2>4. Flow' /\ \A u \in StartUpdates : Queued(u)' => Queued(u)
      BY <1>0, <2>1, <2>3, FlowStays, QueueStays DEF CalmInv
    <2> QED
      BY <2>1, <2>2, <2>3, <2>4, TaskStep DEF TimerAt, Live, Due, ActingPCs
  <1>5. CASE TimerDecline(t)
    <2>1. /\ TimerAt(t, "decline") /\ TimerGoto(t, "ban")
          /\ UNCHANGED <<pending, handlers, phase, restoring>>
      BY <1>5 DEF TimerDecline, redis
    <2>2. timers'[t].pc = "ban" /\ \A s \in Timers \ {t} : timers'[s] = timers[s]
      BY <1>0, <2>1, TaskMoves DEF TimerPCs
    <2>3. UNCHANGED updates /\ tg'.member = tg.member /\ (tg'.request => tg.request)
      BY <1>0, <1>5, DeclineInPlace DEF TimerDecline
    <2>4. Flow' /\ \A u \in StartUpdates : Queued(u)' => Queued(u)
      BY <1>0, <2>1, <2>3, FlowStays, QueueStays DEF CalmInv
    <2> QED
      BY <2>1, <2>2, <2>3, <2>4, TaskStep DEF TimerAt, Live, Due, ActingPCs
  <1>6. CASE TimerBan(t)
    <2>1. /\ TimerAt(t, "ban") /\ TimerGoto(t, "unban")
          /\ UNCHANGED <<pending, handlers, phase, restoring>>
      BY <1>6 DEF TimerBan, redis
    <2>2. timers'[t].pc = "unban" /\ \A s \in Timers \ {t} : timers'[s] = timers[s]
      BY <1>0, <2>1, TaskMoves DEF TimerPCs
    <2>3. PICK o : Execute(o, Ban(tg))
      BY <1>6 DEF TimerBan
    <2> QED
      BY <1>0, <2>1, <2>2, <2>3, BanOrUnban, TaskRemoves DEF TimerAt
  <1>7. CASE TimerUnban(t)
    <2>1. /\ TimerAt(t, "unban") /\ TimerGoto(t, "delete")
          /\ UNCHANGED <<pending, handlers, phase, restoring>>
      BY <1>7 DEF TimerUnban, redis
    <2>2. timers'[t].pc = "delete" /\ \A s \in Timers \ {t} : timers'[s] = timers[s]
      BY <1>0, <2>1, TaskMoves DEF TimerPCs
    <2>3. PICK o : Execute(o, Unban(tg))
      BY <1>7 DEF TimerUnban
    <2> QED
      BY <1>0, <2>1, <2>2, <2>3, BanOrUnban, TaskRemoves DEF TimerAt
  <1>8. CASE TimerDelete(t)
    <2>1. /\ TimerAt(t, "delete") /\ pending' = NoRecord
          /\ TimerGoto(t, IF ~timers[t].private THEN "tidy" ELSE "over")
          /\ UNCHANGED <<tg, updates, handlers, phase, restoring>>
      BY <1>1, <1>8 DEF TimerDelete
    <2>2. /\ timers'[t].pc \in {"tidy", "over"}
          /\ \A s \in Timers \ {t} : timers'[s] = timers[s]
      BY <1>0, <2>1, TaskMoves DEF TimerPCs
    <2>3. Flow' /\ \A u \in StartUpdates : Queued(u)' => Queued(u)
      BY <1>0, <2>1, FlowStays, QueueStays DEF CalmInv
    <2> QED
      BY <2>1, <2>2, <2>3, TaskStep DEF TimerAt, Live, Due, ActingPCs
  <1>9. CASE TimerTidy(t)
    <2>1. /\ TimerAt(t, "tidy") /\ TimerGoto(t, "over") /\ HideBestEffort(timers[t].held)
          /\ UNCHANGED <<pending, handlers, phase, restoring>>
      BY <1>9 DEF TimerTidy, redis
    <2>2. timers'[t].pc = "over" /\ \A s \in Timers \ {t} : timers'[s] = timers[s]
      BY <1>0, <2>1, TaskMoves DEF TimerPCs
    <2>3. UNCHANGED updates /\ tg'.member = tg.member /\ tg'.request = tg.request
      BY <1>0, <2>1, HideInPlace
    <2>4. Flow' /\ \A u \in StartUpdates : Queued(u)' => Queued(u)
      BY <1>0, <2>1, <2>3, FlowStays, QueueStays DEF CalmInv
    <2> QED
      BY <2>1, <2>2, <2>3, <2>4, TaskStep DEF TimerAt, Live, Due, ActingPCs
  <1>10. CASE TimerDone(t)
    <2>1. /\ TimerAt(t, "over") /\ timers' = [timers EXCEPT ![t] = Free]
          /\ UNCHANGED <<tg, updates, pending, handlers, phase, restoring>>
      BY <1>10 DEF TimerDone, redis
    <2>2. timers'[t].pc = "free" /\ \A s \in Timers \ {t} : timers'[s] = timers[s]
      BY <1>0, <2>1 DEF Free
    <2>3. Flow' /\ \A u : Queued(u)' => Queued(u)
      BY <1>0, <2>1, FlowStays, QueueStays DEF CalmInv
    <2>4. RunsOnlyUp' /\ LeaveHasDeleted' /\ RecordIsOnly' /\ FreshAtSchedule'
          /\ RestoringIsPending' /\ TidyIsReplaced' /\ SleepFits'
      BY <2>1, <2>2
      DEF CalmInv, Watch, RunsOnlyUp, LeaveHasDeleted, RecordIsOnly, FreshAtSchedule,
          RestoringIsPending, TidyIsReplaced, SleepFits, Fits, At, TimerAt, Live
    <2>5. ActingIsAlone' /\ PendingIsWatched'
      BY <2>1, <2>2, <2>3
      DEF CalmInv, Watch, ActingIsAlone, ActingPCs, PendingIsWatched, At, TimerAt, Live
    <2>6. ForgetIsAlone'
      <3>1. \A s \in Timers : Due(s)' => Due(s)
        BY <2>2 DEF Due, ActingPCs, TimerAt
      <3>2. \A b \in BOOLEAN : StartOf(b)' => StartOf(b)
        BY <2>1, <2>3 DEF StartOf
      <3> QED
        BY <2>1, <3>1, <3>2 DEF CalmInv, Watch, ForgetIsAlone, At
    <2> QED
      BY <2>3, <2>4, <2>5, <2>6 DEF CalmInv, Watch
  <1> QED
    BY <1>2, <1>3, <1>4, <1>5, <1>6, <1>7, <1>8, <1>9, <1>10 DEF Timer

-----------------------------------------------------------------------------
(* Restarts, the user and the clock keep the invariant                     *)

\* A step of the restore runs while no handler and no task does.
LEMMA NobodyRuns ==
    ASSUME CalmInv, phase # "up"
    PROVE  /\ \A h \in Handlers : handlers[h].pc = "idle"
           /\ \A t \in Timers : ~Live(timers[t])
  BY DEF CalmInv, Watch, RunsOnlyUp, At

\* What a restore step has to keep that starts no task.
LEMMA RestoreStep ==
    ASSUME CalmInv, IInv, phase # "up", UNCHANGED <<tg, updates, handlers, timers>>,
           restoring' # NoRecord => phase' \notin {"up", "down"} /\ restoring' = pending',
           phase' = "up" => pending' = NoRecord
    PROVE  CalmInv'
  <1>1. /\ \A h \in Handlers : handlers'[h].pc = "idle"
        /\ \A t \in Timers : ~Live(timers'[t])
    BY NobodyRuns
  <1>2. Flow'
    BY FlowStays DEF CalmInv, IInv, TypeOK
  <1>3. RunsOnlyUp' /\ LeaveHasDeleted' /\ RecordIsOnly' /\ FreshAtSchedule'
        /\ PendingIsWatched' /\ RestoringIsPending'
    BY <1>1
    DEF RunsOnlyUp, LeaveHasDeleted, RecordIsOnly, FreshAtSchedule, PendingIsWatched,
        RestoringIsPending, At, MakingSteps
  <1> QED
    BY <1>1, <1>2, <1>3, NoTaskAlive DEF CalmInv, Watch

LEMMA CalmRestore ==
    ASSUME ~RedisMayFail, CalmInv, IInv, IInv', Restore
    PROVE  CalmInv'
  <1>1. Redis = {"ok"}
    BY DEF Redis, Outcomes
  <1>2. restoring # NoRecord => restoring = pending /\ phase # "down"
    BY DEF CalmInv, Watch, RestoringIsPending
  <1>3. CASE Startup
    BY <1>2, <1>3, RestoreStep DEF Startup, redis, tasks
  <1>4. CASE RestoreRead
    BY <1>1, <1>4, RestoreStep DEF RestoreRead, redis, tasks
  <1>5. CASE RestoreVerified
    BY <1>1, <1>2, <1>5, RestoreStep DEF RestoreVerified, DropUnrestorable, tasks
  <1>6. CASE RestoreJoined
    BY <1>1, <1>2, <1>6, RestoreStep DEF RestoreJoined, DropUnrestorable, tasks
  <1>7. CASE RestoreSchedule
    <2>0. /\ timers \in [Timers -> TimerStates] /\ RegistryTracksLiveTimer
          /\ tg \in Chats /\ restoring \in Records
      BY <1>7 DEF IInv, TypeOK, RestoreSchedule, RestoringHasRecord
    <2>1. restoring # NoRecord
      BY <1>7 DEF IInv, RestoreSchedule, RestoringHasRecord
    <2>2. /\ \A h \in Handlers : handlers[h].pc = "idle"
      BY <1>7, NobodyRuns DEF RestoreSchedule
    <2>3. PICK d \in RestoredDelays(restoring) : RegisterTimer(restoring.challenge.private, d)
      BY <1>7 DEF RestoreSchedule
    <2>4. /\ phase' = "up" /\ restoring' = NoRecord
          /\ UNCHANGED <<tg, updates, pending, handlers>>
      BY <1>7 DEF RestoreSchedule, redis
    <2>5. PICK t \in Timers : /\ timers'[t].pc = "sleep" /\ timers'[t].wait = d
                              /\ \A s \in Timers \ {t} : ~Live(timers'[s])
      BY <2>0, <2>3, RegisteredAlone
    <2>6. \A s \in Timers : timers'[s].pc \in {"free", "over", "sleep"}
      BY <2>5 DEF Live
    <2>7. Flow'
      BY <2>0, <2>4, FlowStays DEF CalmInv
    <2>8. RunsOnlyUp' /\ LeaveHasDeleted' /\ RecordIsOnly' /\ FreshAtSchedule'
          /\ RestoringIsPending' /\ ForgetIsAlone'
      BY <2>2, <2>4
      DEF RunsOnlyUp, LeaveHasDeleted, RecordIsOnly, FreshAtSchedule, RestoringIsPending,
          ForgetIsAlone, At, MakingSteps
    <2>9. ActingIsAlone' /\ TidyIsReplaced'
      BY <2>6 DEF ActingIsAlone, ActingPCs, TidyIsReplaced, TimerAt
    <2>10. SleepFits'
      <3>1. \A s \in Timers : TimerAt(s, "sleep")' => s = t
        BY <2>5 DEF TimerAt, Live
      <3>2. pending.age \in Nat /\ pending = restoring
        BY <1>2, <2>0, <2>1, ConstantsAssumption DEF Records, TTL
      <3>3. Fits(t)'
        BY <2>3, <2>4, <2>5, <3>2, ConstantsAssumption DEF Fits, RestoredDelays
      <3> QED
        BY <3>1, <3>3 DEF SleepFits
    <2>11. PendingIsWatched'
      BY <2>5 DEF PendingIsWatched, Live
    <2> QED
      BY <2>7, <2>8, <2>9, <2>10, <2>11 DEF CalmInv, Watch
  <1> QED
    BY <1>3, <1>4, <1>5, <1>6, <1>7 DEF Restore

LEMMA CalmStop ==
    ASSUME CalmInv, IInv, IInv', Stop
    PROVE  CalmInv'
  <1>1. /\ \A h \in Handlers : handlers'[h].pc = "idle"
        /\ \A t \in Timers : ~Live(timers'[t])
        /\ phase' = "down" /\ restoring' = NoRecord
        /\ UNCHANGED <<tg, updates, pending>>
    BY DEF Stop, Idle, Free, Live, redis
  <1>2. Proceed
    BY <1>1 DEF Proceed, Proceeds, StartSteps, PressSteps, LeaveSteps, MakingSteps
  <1>3. (\A u : Queued(u)' => Queued(u)) /\ OneQueued'
    BY <1>1, QueueStays DEF CalmInv, Flow, OneStart
  <1>4. Flow'
    BY <1>1, <1>2, <1>3, QuietStep DEF CalmInv, IInv, TypeOK
  <1>5. RunsOnlyUp' /\ LeaveHasDeleted' /\ RecordIsOnly' /\ FreshAtSchedule'
        /\ PendingIsWatched' /\ RestoringIsPending'
    BY <1>1
    DEF RunsOnlyUp, LeaveHasDeleted, RecordIsOnly, FreshAtSchedule, PendingIsWatched,
        RestoringIsPending, At, MakingSteps
  <1> QED
    BY <1>1, <1>4, <1>5, NoTaskAlive DEF CalmInv, Watch

\* An update taken up by a handler watches no less than the update did.
LEMMA CalmDispatch ==
    ASSUME CalmInv, IInv, IInv', NEW h \in Handlers, Dispatch(h)
    PROVE  CalmInv'
  <1>1. /\ updates \in Seq(Updates) /\ updates # <<>> /\ updates' = Tail(updates)
        /\ Head(updates) \in Updates
        /\ handlers \in [Handlers -> HandlerStates]
        /\ At(h, "idle") /\ phase = "up"
        /\ UNCHANGED <<tg, pending, timers, phase, restoring>>
    BY DEF IInv, TypeOK, Dispatch, redis, tasks
  <1> DEFINE u == Head(updates)
  <1>2. Flow'
    BY DispatchFlow DEF CalmInv, IInv
  <1>3. (\A v : Queued(v)' => Queued(v)) /\ Queued(u)
    BY <1>1, TailQueue
  <1>4. /\ handlers'[h] = Spawned(u)
        /\ \A g \in Handlers \ {h} : handlers'[g] = handlers[g]
    BY <1>1 DEF Dispatch
  <1> HIDE DEF u
  <1>5. /\ handlers'[h].pc \in {"start_get", "leave_get", "press_get"}
        /\ handlers'[h].pc = "start_get" /\ ~handlers'[h].private => u = "joined"
        /\ handlers'[h].pc = "start_get" /\ handlers'[h].private => u = "request"
    <2>1. u \in Updates
      BY <1>1 DEF u
    <2>2. CASE u \in StartUpdates
      <3>1. /\ handlers'[h].pc = "start_get"
            /\ handlers'[h].private = (u = "request")
        BY <1>4, <2>2 DEF StartUpdates, Spawned, FirstStep
      <3> QED
        BY <2>2, <3>1 DEF StartUpdates
    <2>3. CASE u \notin StartUpdates
      BY <1>4, <2>1, <2>3 DEF Updates, StartUpdates, Spawned, FirstStep
    <2> QED
      BY <2>2, <2>3
  <1>6. \A b \in BOOLEAN : StartOf(b)' => StartOf(b)
    <2> SUFFICES ASSUME NEW b \in BOOLEAN, StartOf(b)' PROVE StartOf(b)
      OBVIOUS
    <2>1. CASE handlers'[h].pc = "start_get" /\ handlers'[h].private = b
      BY <1>3, <1>5, <2>1 DEF StartOf
    <2>2. CASE ~(handlers'[h].pc = "start_get" /\ handlers'[h].private = b)
      BY <1>3, <1>4, <1>5, <2>2 DEF StartOf, StartSteps
    <2> QED
      BY <2>1, <2>2
  <1>7. RunsOnlyUp' /\ LeaveHasDeleted' /\ RecordIsOnly' /\ FreshAtSchedule'
        /\ RestoringIsPending'
    BY <1>1, <1>4, <1>5
    DEF CalmInv, Watch, RunsOnlyUp, LeaveHasDeleted, RecordIsOnly, FreshAtSchedule,
        RestoringIsPending, At, MakingSteps
  <1>8. ActingIsAlone'
    BY <1>1, <1>3, <1>4, <1>5 DEF CalmInv, Watch, ActingIsAlone, At, MakingSteps
  <1>9. ForgetIsAlone'
    BY <1>1, <1>4, <1>5, <1>6 DEF CalmInv, Watch, ForgetIsAlone, At, TimerAt, Due
  <1>10. TidyIsReplaced' /\ SleepFits' /\ PendingIsWatched'
    BY <1>1, <1>4, <1>5
    DEF CalmInv, Watch, TidyIsReplaced, SleepFits, Fits, PendingIsWatched, At, TimerAt, Live
  <1> QED
    BY <1>2, <1>7, <1>8, <1>9, <1>10 DEF CalmInv, Watch

\* What a move of the user or of an administrator has to keep: the bot has
\* nothing in flight, and the move brings the update named, or none.
LEMMA MoveStep ==
    ASSUME CalmInv, IInv, Quiet, UNCHANGED <<pending, handlers, timers, phase, restoring>>,
           NEW kind \in {"request", "joined", "left", "none"},
           OneQueued', \A v : Queued(v)' => v = kind,
           tg'.member \in Inside \/ kind \in {"joined", "left"} => ~tg'.request,
           kind \in {"request", "left"} => tg'.member \in Outside
    PROVE  CalmInv'
  <1>1. /\ \A h \in Handlers : handlers[h].pc = "idle" /\ handlers'[h].pc = "idle"
        /\ \A t \in Timers : timers'[t].pc \in {"free", "sleep"}
    BY DEF Quiet, At, AtRest
  <1>2. /\ ~Pressing'
        /\ Leaving' => kind = "left"
        /\ StartOf(TRUE)' => kind = "request"
        /\ StartOf(FALSE)' => kind = "joined"
    BY <1>1 DEF Pressing, Leaving, StartOf, PressSteps, LeaveSteps, StartSteps
  <1>3. Flow'
    BY <1>1, <1>2
    DEF Flow, InsideIsClosed, OpenedIsClosed, OneStart, JoinIsClosed,
        RequestIsUndisturbed, LeavingIsOut, StartSteps, MakingSteps
  <1>4. ActingIsAlone' /\ ForgetIsAlone' /\ TidyIsReplaced'
    BY <1>1 DEF ActingIsAlone, ActingPCs, ForgetIsAlone, TidyIsReplaced, At, TimerAt
  <1>5. RunsOnlyUp' /\ LeaveHasDeleted' /\ RecordIsOnly' /\ FreshAtSchedule'
        /\ SleepFits' /\ PendingIsWatched' /\ RestoringIsPending'
    BY DEF CalmInv, Watch, RunsOnlyUp, LeaveHasDeleted, RecordIsOnly, FreshAtSchedule,
           SleepFits, Fits, PendingIsWatched, RestoringIsPending, At, TimerAt
  <1> QED
    BY <1>3, <1>4, <1>5 DEF CalmInv, Watch

LEMMA CalmEnvironment ==
    ASSUME Calm, CalmInv, IInv, IInv', Environment
    PROVE  CalmInv'
  <1>0. tg \in Chats /\ updates \in Seq(Updates)
    BY DEF IInv, TypeOK
  <1>1. ASSUME NEW new, NEW notice, Move(new, notice)
        PROVE  /\ Quiet /\ UNCHANGED <<pending, handlers, timers, phase, restoring>>
               /\ tg' = new /\ updates = <<>> /\ updates' = updates \o notice
    BY <1>1 DEF Move, CanMove, Quiet, redis, tasks
  <1>2. ASSUME NEW new, NEW s, Move(new, <<s>>)
        PROVE  OneQueued' /\ \A v : Queued(v)' => v = s
    <2>1. updates = <<>> /\ updates' = updates \o <<s>>
      BY <1>1, <1>2
    <2>2. ~Queued("request") /\ ~Queued("joined") /\ OneQueued /\ \A v : ~Queued(v)
      BY <2>1 DEF Queued, OneQueued
    <2> QED
      BY <1>0, <2>1, <2>2, AppendQueue
  <1>3. CASE UserRequests
    <2>1. /\ Move([tg EXCEPT !.request = TRUE], <<"request">>) /\ tg.member = "left"
      BY <1>3 DEF UserRequests
    <2>2. tg'.member \in Outside /\ tg'.member \notin Inside
      BY <1>0, <1>1, <2>1 DEF Chats, Inside, Outside
    <2>3. OneQueued' /\ \A v : Queued(v)' => v = "request"
      BY <1>2, <2>1
    <2>4. Quiet /\ UNCHANGED <<pending, handlers, timers, phase, restoring>>
      BY <1>1, <2>1
    <2> QED
      BY <2>2, <2>3, <2>4, MoveStep
  <1>4. CASE UserJoins
    <2> DEFINE new == [tg EXCEPT !.member = "member", !.request = FALSE]
    <2>1. Move(new, MemberNotice(tg, new)) /\ tg.member = "left"
      BY <1>4 DEF UserJoins
    <2>2. MemberNotice(tg, new) = <<"joined">>
      BY <1>0, <2>1 DEF MemberNotice, Chats, Inside, Outside
    <2>3. tg' = new
      BY <1>1, <2>1
    <2>4. ~tg'.request
      BY <1>0, <2>3 DEF Chats
    <2>5. OneQueued' /\ \A v : Queued(v)' => v = "joined"
      BY <1>2, <2>1, <2>2
    <2>6. Quiet /\ UNCHANGED <<pending, handlers, timers, phase, restoring>>
      BY <1>1, <2>1
    <2> QED
      BY <2>4, <2>5, <2>6, MoveStep
  <1>5. CASE UserLeaves
    <2> DEFINE new == [tg EXCEPT !.member = "left"]
    <2>1. Move(new, MemberNotice(tg, new)) /\ tg.member \in Inside
      BY <1>5 DEF UserLeaves
    <2>2. MemberNotice(tg, new) = <<"left">>
      BY <1>0, <2>1 DEF MemberNotice, Chats, Inside, Outside
    <2>3. tg' = new
      BY <1>1, <2>1
    <2>4. ~tg'.request /\ tg'.member \in Outside
      BY <1>0, <2>1, <2>3 DEF Chats, Outside, CalmInv, Flow, InsideIsClosed
    <2>5. OneQueued' /\ \A v : Queued(v)' => v = "left"
      BY <1>2, <2>1, <2>2
    <2>6. Quiet /\ UNCHANGED <<pending, handlers, timers, phase, restoring>>
      BY <1>1, <2>1
    <2> QED
      BY <2>4, <2>5, <2>6, MoveStep
  <1>6. CASE AdminApproves
    <2>1. Move(Approve(tg), MemberNotice(tg, Approve(tg))) /\ tg.request
      BY <1>6 DEF AdminApproves, CanApprove
    <2>2. MemberNotice(tg, Approve(tg)) = <<"joined">>
      BY <1>0, <2>1
      DEF MemberNotice, Approve, Chats, Statuses, Inside, Outside, CalmInv, Flow, InsideIsClosed
    <2>3. tg' = Approve(tg)
      BY <1>1, <2>1
    <2>4. ~tg'.request
      BY <1>0, <2>3 DEF Chats, Approve
    <2>5. OneQueued' /\ \A v : Queued(v)' => v = "joined"
      BY <1>2, <2>1, <2>2
    <2>6. Quiet /\ UNCHANGED <<pending, handlers, timers, phase, restoring>>
      BY <1>1, <2>1
    <2> QED
      BY <2>4, <2>5, <2>6, MoveStep
  <1>7. CASE RequestDismissed
    <2>1. Move(Decline(tg), <<>>)
      BY <1>7 DEF RequestDismissed
    <2>2. ~tg'.request
      BY <1>0, <1>1, <2>1 DEF Chats, Decline
    <2>3. OneQueued' /\ \A v : Queued(v)' => v = "none"
      <3>1. updates' = <<>>
        BY <1>1, <2>1
      <3> QED
        BY <3>1 DEF OneQueued, Queued
    <2>4. Quiet /\ UNCHANGED <<pending, handlers, timers, phase, restoring>>
      BY <1>1, <2>1
    <2> QED
      BY <2>2, <2>3, <2>4, MoveStep
  <1>8. ASSUME NEW c \in tg.challenges, UserPresses(c)
        PROVE  CalmInv'
    <2>1. PICK s \in {"press_private", "press_chat"} : updates' = updates \o <<s>>
      <3>1. \A s : Append(updates, s) = updates \o <<s>>
        BY <1>0
      <3> QED
        BY <1>8, <3>1 DEF UserPresses
    <2>2. /\ UNCHANGED <<tg, pending, handlers, timers, phase, restoring>>
          /\ ~Queued("request") /\ \A h \in Handlers : handlers[h].pc \notin StartSteps
      BY <1>8 DEF UserPresses, NoneStarting, Queued, redis, tasks
    <2>3. /\ \A v : Queued(v)' <=> Queued(v) \/ v = s
          /\ OneQueued'
      BY <1>0, <2>1, AppendQueue DEF StartUpdates, CalmInv, Flow, OneStart
    <2>4. ~StartOf(TRUE)' /\ (StartOf(FALSE)' => StartOf(FALSE)) /\ (Leaving' => Leaving)
      BY <2>2, <2>3 DEF StartOf, Leaving
    <2>5. Flow'
      BY <2>2, <2>3, <2>4
      DEF CalmInv, Flow, InsideIsClosed, OpenedIsClosed, OneStart, JoinIsClosed,
          RequestIsUndisturbed, LeavingIsOut
    <2>6. Watch'
      <3>1. \A h \in Handlers : Watches(h)
        BY <2>2 DEF Watches
      <3>2. \A u \in StartUpdates : Queued(u)' => Queued(u)
        BY <2>3 DEF StartUpdates
      <3>3. handlers \in [Handlers -> HandlerStates]
        BY DEF IInv, TypeOK
      <3> QED
        BY <2>2, <3>1, <3>2, <3>3, HandlersStay, WatchStep DEF CalmInv
    <2> QED
      BY <2>5, <2>6 DEF CalmInv
  <1> QED
    BY <1>3, <1>4, <1>5, <1>6, <1>7, <1>8 DEF Environment

LEMMA CalmTick ==
    ASSUME Calm, CalmInv, IInv, IInv', Tick
    PROVE  CalmInv'
  <1>0. /\ timers \in [Timers -> TimerStates] /\ tg \in Chats
        /\ pending \in Records \cup {NoRecord}
        /\ UNCHANGED <<tg, updates, handlers, phase>>
        /\ phase \in {"down", "up"}
    BY DEF IInv, TypeOK, Tick
  <1>1. \A t \in Timers : timers'[t].pc = timers[t].pc
    BY <1>0 DEF Tick, TimerStates
  <1>2. Flow'
    BY <1>0, FlowStays DEF CalmInv
  <1>3. RestoringIsPending'
    BY <1>0 DEF CalmInv, Watch, RestoringIsPending, Tick
  <1>4. pending' # NoRecord => pending # NoRecord /\ pending'.age = pending.age + 1
    BY <1>0 DEF Tick, Older, Records
  <1>5. CASE phase = "down"
    <2>1. /\ \A h \in Handlers : handlers'[h].pc = "idle"
          /\ \A t \in Timers : ~Live(timers'[t])
      BY <1>0, <1>1, <1>5, NobodyRuns DEF Live
    <2>2. RunsOnlyUp' /\ LeaveHasDeleted' /\ RecordIsOnly' /\ FreshAtSchedule'
          /\ PendingIsWatched'
      BY <1>0, <1>5, <2>1
      DEF RunsOnlyUp, LeaveHasDeleted, RecordIsOnly, FreshAtSchedule, PendingIsWatched,
          At, MakingSteps
    <2> QED
      BY <1>2, <1>3, <2>1, <2>2, NoTaskAlive DEF CalmInv, Watch
  <1>6. CASE phase = "up"
    <2>1. /\ \A v : ~Queued(v)'
          /\ \A h \in Handlers : handlers'[h].pc \in {"idle"} \cup PressSteps
          /\ \A t \in Timers : timers'[t].pc \in {"free", "sleep"}
      BY <1>0, <1>1, <1>6 DEF Tick, Settled, Queued, AtRest
    <2>2. ~StartOf(TRUE)' /\ ~StartOf(FALSE)'
      BY <2>1 DEF StartOf, StartSteps, PressSteps
    <2>3. RunsOnlyUp' /\ LeaveHasDeleted' /\ RecordIsOnly' /\ FreshAtSchedule'
          /\ ActingIsAlone' /\ ForgetIsAlone' /\ TidyIsReplaced'
      BY <1>0, <1>6, <2>1, <2>2
      DEF RunsOnlyUp, LeaveHasDeleted, RecordIsOnly, FreshAtSchedule, ActingIsAlone,
          ActingPCs, ForgetIsAlone, TidyIsReplaced, At, TimerAt, PressSteps, MakingSteps
    <2>4. PendingIsWatched'
      BY <1>0, <1>1, <1>4 DEF CalmInv, Watch, PendingIsWatched, Live
    <2>5. SleepFits'
      <3> SUFFICES ASSUME NEW t \in Timers, timers'[t].pc = "sleep", pending' # NoRecord
                   PROVE  Fits(t)'
        BY DEF SleepFits, TimerAt
      <3>1. timers[t].pc = "sleep" /\ \A h \in Handlers : ~At(h, "schedule")
        BY <1>0, <1>1, <2>1 DEF At, PressSteps
      <3>2. Fits(t)
        BY <1>4, <3>1 DEF CalmInv, Watch, SleepFits, TimerAt
      <3>3. /\ timers[t].wait \in Nat /\ timers[t].wait > 0
            /\ timers'[t].wait = timers[t].wait - 1
        BY <1>0, <3>1, ConstantsAssumption DEF Tick, TimerAt, TimerStates, TTL
      <3>4. pending.age \in Nat
        BY <1>0, <1>4, ConstantsAssumption DEF Records, TTL
      <3> QED
        BY <1>4, <3>2, <3>3, <3>4, ConstantsAssumption DEF Fits
    <2> QED
      BY <1>2, <1>3, <2>3, <2>4, <2>5 DEF CalmInv, Watch
  <1> QED
    BY <1>0, <1>5, <1>6

-----------------------------------------------------------------------------
(* The theorems                                                            *)

LEMMA CalmInit == Init => CalmInv
  <1> SUFFICES ASSUME Init PROVE CalmInv
    OBVIOUS
  <1>1. /\ \A h \in Handlers : handlers[h].pc = "idle"
        /\ \A t \in Timers : timers[t].pc = "free"
    BY DEF Init, Idle, Free
  <1>2. (\A v : ~Queued(v)) /\ OneQueued
    BY DEF Init, Queued, OneQueued
  <1>3. Flow
    BY <1>1, <1>2
    DEF Init, EmptyChat, Flow, InsideIsClosed, OpenedIsClosed, OneStart, JoinIsClosed,
        RequestIsUndisturbed, LeavingIsOut, StartOf, Leaving, StartSteps, LeaveSteps
  <1>4. Watch
    BY <1>1
    DEF Init, Watch, RunsOnlyUp, LeaveHasDeleted, RecordIsOnly, FreshAtSchedule, ActingIsAlone,
        ActingPCs, ForgetIsAlone, TidyIsReplaced, SleepFits, PendingIsWatched,
        RestoringIsPending, At, TimerAt, Live
  <1> QED
    BY <1>3, <1>4 DEF CalmInv

LEMMA CalmNext ==
    ASSUME Calm, ~RedisMayFail
    PROVE  CalmInv /\ IInv /\ IInv' /\ [Next]_vars => CalmInv'
  <1> SUFFICES ASSUME CalmInv, IInv, IInv', [Next]_vars PROVE CalmInv'
    OBVIOUS
  <1>1. ASSUME NEW h \in Handlers, Dispatch(h) \/ Handler(h)
        PROVE  CalmInv'
    BY <1>1, CalmDispatch, CalmStart, CalmSchedule, CalmLeave, CalmPress DEF Handler
  <1>2. ASSUME NEW t \in Timers, Timer(t)
        PROVE  CalmInv'
    BY <1>2, CalmTimer
  <1>3. CASE UNCHANGED vars
    <2>1. Flow'
      BY <1>3, FlowStays DEF vars, CalmInv, IInv, TypeOK
    <2>2. \A h \in Handlers : Watches(h)
      BY <1>3 DEF vars, Watches
    <2>3. Proceed
      BY <1>3, HandlersStay DEF vars
    <2>4. \A u \in StartUpdates : Queued(u)' => Queued(u)
      BY <1>3, QueueStays DEF vars
    <2>5. Watch'
      BY <1>3, <2>2, <2>3, <2>4, WatchStep DEF vars, CalmInv, IInv, TypeOK
    <2> QED
      BY <2>1, <2>5 DEF CalmInv
  <1> QED
    BY <1>1, <1>2, <1>3, CalmRestore, CalmStop, CalmEnvironment, CalmTick DEF Next

LEMMA CalmInvariant ==
    ASSUME Calm, ~RedisMayFail
    PROVE  Spec => []CalmInv
  <1>1. CalmInv /\ IInv /\ IInv' /\ [Next]_vars => CalmInv'
    BY CalmNext
  <1> QED
    BY <1>1, CalmInit, InvariantHolds, PTL DEF Spec

\* While the bot polls, a pending record always has a watcher: whichever calls
\* Telegram refuses and wherever the process stops and starts again, as long as
\* Redis answers and the user is not quicker than the bot.
THEOREM RecordsAreWatched ==
    ASSUME Calm, ~RedisMayFail
    PROVE  Spec => []PendingIsWatched
  BY CalmInvariant, PTL DEF CalmInv, Watch

\* Under the same premises the task of a pending record sleeps until the record
\* is Timeout old, whatever became of the tasks before it.
THEOREM TimersAreTimely ==
    ASSUME Calm, ~RedisMayFail
    PROVE  Spec => []TimerIsTimely
  <1>1. CalmInv /\ IInv => TimerIsTimely
    <2> SUFFICES ASSUME CalmInv, IInv, phase = "up", Quiet, pending # NoRecord
                 PROVE  \E t \in Timers :
                            /\ TimerAt(t, "sleep") /\ registry = t
                            /\ Fits(t)
      BY DEF TimerIsTimely, Fits
    <2>1. /\ \A h \in Handlers : handlers[h].pc = "idle"
          /\ \A t \in Timers : timers[t].pc \in {"free", "sleep"}
      BY DEF Quiet, At, AtRest
    <2>2. PICK t \in Timers : Live(timers[t])
      BY <2>1 DEF CalmInv, Watch, PendingIsWatched
    <2>3. TimerAt(t, "sleep") /\ registry = t
      BY <2>1, <2>2 DEF IInv, RegistryTracksLiveTimer, Live, TimerAt
    <2>4. Fits(t)
      BY <2>1, <2>3 DEF CalmInv, Watch, SleepFits, At
    <2> QED
      BY <2>3, <2>4
  <1> QED
    BY <1>1, CalmInvariant, InvariantHolds, PTL
=============================================================================
