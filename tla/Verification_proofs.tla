------------------------- MODULE Verification_proofs -------------------------
(***************************************************************************)
(* Proofs about Verification for every set of handlers, timer slots and    *)
(* message ids, every timeout, and every choice of what may fail.          *)
(***************************************************************************)
EXTENDS Verification, TLAPS

-----------------------------------------------------------------------------
(* The inductive invariant                                                 *)

\* A handler about to store or to take back a challenge has sent one.
HeldIsSent ==
    \A h \in Handlers :
        handlers[h].pc \in {"create", "undo_message"} => handlers[h].held \in Challenges

\* A handler about to write the verified marker has opened the chat.
MarkFollowsOpen == \A h \in Handlers : handlers[h].pc = "mark" => earned

\* The restore steps after the read work on a record.
RestoringHasRecord ==
    phase \in {"restore_verified", "restore_joined", "restore_schedule"}
        => restoring # NoRecord

IInv ==
    /\ TypeOK
    /\ RegistryTracksLiveTimer
    /\ MarkerIsEarned
    /\ HeldIsSent
    /\ MarkFollowsOpen
    /\ RestoringHasRecord

HandlerPCs == {"idle"} \cup StartSteps \cup LeaveSteps \cup PressSteps
TimerPCs == {"free", "sleep", "get", "notify", "decline", "ban", "unban",
             "delete", "tidy", "over"}

-----------------------------------------------------------------------------
(* Telegram                                                                *)

\* Every call Telegram executes for the bot leaves a well-formed chat.
LEMMA ChatOperations ==
    ASSUME NEW chat \in Chats, NEW c
    PROVE  /\ Restrict(chat) \in Chats /\ Unrestrict(chat) \in Chats
           /\ Approve(chat) \in Chats /\ Decline(chat) \in Chats
           /\ Ban(chat) \in Chats /\ Unban(chat) \in Chats
           /\ Hide(chat, c) \in Chats
           /\ c \in Challenges => Show(chat, c) \in Chats
  BY DEF Chats, Restrict, Unrestrict, Approve, Decline, Ban, Unban, Hide, Show,
         Statuses, Inside, Outside

\* The notice of a membership change is at most one update the bot knows.
LEMMA NoticeType ==
    ASSUME NEW old, NEW new PROVE MemberNotice(old, new) \in Seq(Updates)
  <1>1. "joined" \in Updates /\ "left" \in Updates
    BY DEF Updates
  <1>2. <<"joined">> \in Seq(Updates) /\ <<"left">> \in Seq(Updates) /\ <<>> \in Seq(Updates)
    BY <1>1
  <1> QED
    BY <1>2, Zenon DEF MemberNotice

\* Executing a call, or having it refused, keeps chat and queue well formed.
LEMMA ExecuteType ==
    ASSUME tg \in Chats, updates \in Seq(Updates), NEW o, NEW new \in Chats,
           Execute(o, new)
    PROVE  tg' \in Chats /\ updates' \in Seq(Updates)
  <1>1. MemberNotice(tg, new) \in Seq(Updates)
    BY NoticeType
  <1>2. updates \o MemberNotice(tg, new) \in Seq(Updates)
    BY <1>1
  <1> QED
    BY <1>2 DEF Execute

LEMMA HideType ==
    ASSUME tg \in Chats, updates \in Seq(Updates), NEW c, HideBestEffort(c)
    PROVE  tg' \in Chats /\ updates' \in Seq(Updates)
  <1>1. Hide(tg, c) \in Chats
    BY ChatOperations
  <1> QED
    BY <1>1, ExecuteType DEF HideBestEffort

-----------------------------------------------------------------------------
(* Handlers and timers                                                     *)

\* Moving a handler touches no other handler and keeps what it holds
\* and which kind of chat it is about.
LEMMA GotoStep ==
    ASSUME handlers \in [Handlers -> HandlerStates], NEW h \in Handlers,
           NEW pc \in HandlerPCs, Goto(h, pc)
    PROVE  /\ handlers' \in [Handlers -> HandlerStates]
           /\ handlers'[h].pc = pc /\ handlers'[h].held = handlers[h].held
           /\ handlers'[h].private = handlers[h].private
           /\ \A g \in Handlers \ {h} : handlers'[g] = handlers[g]
  BY DEF Goto, HandlerStates, HandlerPCs

LEMMA GotoHoldingStep ==
    ASSUME handlers \in [Handlers -> HandlerStates], NEW h \in Handlers,
           NEW pc \in HandlerPCs, NEW c \in Challenges, GotoHolding(h, pc, c)
    PROVE  /\ handlers' \in [Handlers -> HandlerStates]
           /\ handlers'[h].pc = pc /\ handlers'[h].held = c
           /\ handlers'[h].private = handlers[h].private
           /\ \A g \in Handlers \ {h} : handlers'[g] = handlers[g]
  BY DEF GotoHolding, HandlerStates, HandlerPCs

LEMMA ReturnStep ==
    ASSUME handlers \in [Handlers -> HandlerStates], NEW h \in Handlers, Return(h)
    PROVE  /\ handlers' \in [Handlers -> HandlerStates]
           /\ handlers'[h].pc = "idle"
           /\ \A g \in Handlers \ {h} : handlers'[g] = handlers[g]
  BY DEF Return, Idle, HandlerStates, HandlerPCs

\* Cancelling the registered task leaves no live task and no registration.
LEMMA CancelTimerStep ==
    ASSUME timers \in [Timers -> TimerStates], registry \in Timers \cup {NoTimer},
           RegistryTracksLiveTimer, CancelTimer
    PROVE  /\ timers' \in [Timers -> TimerStates]
           /\ registry' \in Timers \cup {NoTimer}
           /\ RegistryTracksLiveTimer'
  BY NullsAssumption DEF CancelTimer, Cancelled, Live, RegistryTracksLiveTimer, TimerStates

\* Registering a task cancels the one it replaces: one live task remains.
LEMMA RegisterTimerStep ==
    ASSUME timers \in [Timers -> TimerStates], registry \in Timers \cup {NoTimer},
           RegistryTracksLiveTimer, NEW private \in BOOLEAN, NEW delay \in 0..TTL,
           RegisterTimer(private, delay)
    PROVE  /\ timers' \in [Timers -> TimerStates]
           /\ registry' \in Timers \cup {NoTimer}
           /\ RegistryTracksLiveTimer'
  BY NullsAssumption
     DEF RegisterTimer, Cancelled, Live, RegistryTracksLiveTimer, TimerStates

\* A timeout task that moves on, or ends, needs no change of the registry.
LEMMA TimerGotoStep ==
    ASSUME timers \in [Timers -> TimerStates], RegistryTracksLiveTimer,
           NEW t \in Timers, NEW pc \in TimerPCs, Live(timers[t]),
           TimerGoto(t, pc), UNCHANGED registry
    PROVE  /\ timers' \in [Timers -> TimerStates]
           /\ RegistryTracksLiveTimer'
  BY DEF TimerGoto, TimerPCs, Live, RegistryTracksLiveTimer, TimerStates

-----------------------------------------------------------------------------
(* The invariant is inductive                                              *)

\* A handler that moves on keeps the handler invariants when the place it
\* moves to does.
LEMMA HandlerInvariants ==
    ASSUME HeldIsSent, MarkFollowsOpen, earned => earned', NEW h \in Handlers,
           \A g \in Handlers \ {h} : handlers'[g] = handlers[g],
           handlers'[h].pc \in {"create", "undo_message"}
               => handlers'[h].held \in Challenges,
           handlers'[h].pc = "mark" => earned'
    PROVE  HeldIsSent' /\ MarkFollowsOpen'
  BY DEF HeldIsSent, MarkFollowsOpen

\* What remains to be shown when tasks, phase and markers stay as they are.
LEMMA OnlyHandlerMoves ==
    ASSUME IInv, UNCHANGED <<verified, tasks, phase, restoring, history>>,
           tg' \in Chats, updates' \in Seq(Updates),
           pending' \in Records \cup {NoRecord},
           handlers' \in [Handlers -> HandlerStates],
           HeldIsSent', MarkFollowsOpen'
    PROVE  IInv'
  BY DEF IInv, TypeOK, tasks, history, RegistryTracksLiveTimer, MarkerIsEarned,
         RestoringHasRecord

LEMMA StartInvariant ==
    ASSUME IInv, NEW h \in Handlers, Start(h)
    PROVE  IInv'
  <1> USE DEF IInv
  <1>t. TypeOK
    OBVIOUS
  <1>0. tg \in Chats /\ updates \in Seq(Updates) /\ handlers \in [Handlers -> HandlerStates]
        /\ pending \in Records \cup {NoRecord}
    BY <1>t DEF TypeOK
  <1>1. CASE StartGet(h)
    <2>1. /\ handlers' \in [Handlers -> HandlerStates]
          /\ handlers'[h].pc \in {"idle", "send", "restrict"}
          /\ \A g \in Handlers \ {h} : handlers'[g] = handlers[g]
      BY <1>0, <1>1, GotoStep, ReturnStep DEF StartGet, HandlerPCs, StartSteps
    <2>2. HeldIsSent' /\ MarkFollowsOpen'
      BY <1>1, <2>1, HandlerInvariants DEF StartGet, history
    <2> QED
      BY <1>0, <1>1, <2>1, <2>2, OnlyHandlerMoves DEF StartGet, redis
  <1>2. CASE RestrictMember(h)
    <2>1. /\ handlers' \in [Handlers -> HandlerStates]
          /\ handlers'[h].pc \in {"send", "undo_ban"}
          /\ \A g \in Handlers \ {h} : handlers'[g] = handlers[g]
      BY <1>0, <1>2, GotoStep DEF RestrictMember, HandlerPCs, StartSteps
    <2>2. HeldIsSent' /\ MarkFollowsOpen'
      BY <1>2, <2>1, HandlerInvariants DEF RestrictMember, history
    <2>3. tg' \in Chats /\ updates' \in Seq(Updates)
      BY <1>0, <1>2, ChatOperations, ExecuteType DEF RestrictMember
    <2> QED
      BY <1>0, <1>2, <2>1, <2>2, <2>3, OnlyHandlerMoves DEF RestrictMember, redis
  <1>3. CASE SendChallenge(h)
    <2>1. PICK m \in FreshMessages, o \in Telegram(TRUE) :
             LET c == [id |-> m, private |-> handlers[h].private] IN
             /\ Execute(o, Show(tg, c))
             /\ IF o = "ok" THEN GotoHolding(h, "create", c)
                ELSE Goto(h, IF c.private THEN "undo_decline" ELSE "undo_ban")
      BY <1>3 DEF SendChallenge
    <2> DEFINE c == [id |-> m, private |-> handlers[h].private]
    <2>2. c \in Challenges
      BY <1>0 DEF Challenges, FreshMessages, HandlerStates
    <2>3. tg' \in Chats /\ updates' \in Seq(Updates)
      BY <1>0, <2>1, <2>2, ChatOperations, ExecuteType
    <2>4. CASE o = "ok"
      <3>1. GotoHolding(h, "create", c)
        BY <2>1, <2>4
      <3>2. /\ handlers' \in [Handlers -> HandlerStates]
            /\ handlers'[h].pc = "create" /\ handlers'[h].held \in Challenges
            /\ \A g \in Handlers \ {h} : handlers'[g] = handlers[g]
        BY <1>0, <2>2, <3>1, GotoHoldingStep DEF HandlerPCs, StartSteps
      <3>3. HeldIsSent' /\ MarkFollowsOpen'
        BY <1>3, <3>2, HandlerInvariants DEF SendChallenge, history
      <3> QED
        BY <1>0, <1>3, <2>3, <3>2, <3>3, OnlyHandlerMoves DEF SendChallenge, redis
    <2>5. CASE o # "ok"
      <3>1. /\ handlers' \in [Handlers -> HandlerStates]
            /\ handlers'[h].pc \in {"undo_decline", "undo_ban"}
            /\ \A g \in Handlers \ {h} : handlers'[g] = handlers[g]
        BY <1>0, <2>1, <2>5, GotoStep DEF HandlerPCs, StartSteps
      <3>2. HeldIsSent' /\ MarkFollowsOpen'
        BY <1>3, <3>1, HandlerInvariants DEF SendChallenge, history
      <3> QED
        BY <1>0, <1>3, <2>3, <3>1, <3>2, OnlyHandlerMoves DEF SendChallenge, redis
    <2> QED
      BY <2>4, <2>5
  <1>4. CASE CreatePending(h)
    <2>1. handlers[h].held \in Challenges
      BY <1>4 DEF CreatePending, At, HeldIsSent
    <2>2. /\ handlers' \in [Handlers -> HandlerStates]
          /\ handlers'[h].pc \in {"schedule", "undo_message"}
          /\ handlers'[h].held = handlers[h].held
          /\ \A g \in Handlers \ {h} : handlers'[g] = handlers[g]
      BY <1>0, <1>4, GotoStep DEF CreatePending, HandlerPCs, StartSteps
    <2>3. HeldIsSent' /\ MarkFollowsOpen'
      BY <1>4, <2>1, <2>2, HandlerInvariants DEF CreatePending, history
    <2>4. [challenge |-> handlers[h].held, age |-> 0] \in Records
      BY <2>1, ConstantsAssumption DEF Records, TTL
    <2>5. pending' \in Records \cup {NoRecord}
      BY <1>0, <1>4, <2>4 DEF CreatePending
    <2> QED
      BY <1>0, <1>4, <2>2, <2>3, <2>5, OnlyHandlerMoves DEF CreatePending
  <1>5. CASE ScheduleTimer(h)
    <2>1. handlers[h].private \in BOOLEAN /\ Timeout \in 0..TTL
      BY <1>0, ConstantsAssumption DEF HandlerStates, TTL
    <2>2. /\ timers' \in [Timers -> TimerStates]
          /\ registry' \in Timers \cup {NoTimer}
          /\ RegistryTracksLiveTimer'
      BY <1>5, <2>1, RegisterTimerStep DEF ScheduleTimer, TypeOK
    <2>3. /\ handlers' \in [Handlers -> HandlerStates]
          /\ handlers'[h].pc = "idle"
          /\ \A g \in Handlers \ {h} : handlers'[g] = handlers[g]
      BY <1>0, <1>5, ReturnStep DEF ScheduleTimer
    <2>4. HeldIsSent' /\ MarkFollowsOpen'
      BY <1>5, <2>3, HandlerInvariants DEF ScheduleTimer, history
    <2> QED
      BY <1>5, <2>2, <2>3, <2>4
      DEF ScheduleTimer, TypeOK, redis, history, MarkerIsEarned, RestoringHasRecord
  <1>6. CASE UndoMessage(h)
    <2>1. /\ handlers' \in [Handlers -> HandlerStates]
          /\ handlers'[h].pc \in {"undo_decline", "undo_ban"}
          /\ \A g \in Handlers \ {h} : handlers'[g] = handlers[g]
      BY <1>0, <1>6, GotoStep DEF UndoMessage, HandlerPCs, StartSteps
    <2>2. HeldIsSent' /\ MarkFollowsOpen'
      BY <1>6, <2>1, HandlerInvariants DEF UndoMessage, history
    <2>3. tg' \in Chats /\ updates' \in Seq(Updates)
      BY <1>0, <1>6, HideType DEF UndoMessage
    <2> QED
      BY <1>0, <1>6, <2>1, <2>2, <2>3, OnlyHandlerMoves DEF UndoMessage, redis
  <1>7. CASE UndoDecline(h)
    <2>1. /\ handlers' \in [Handlers -> HandlerStates]
          /\ handlers'[h].pc = "idle"
          /\ \A g \in Handlers \ {h} : handlers'[g] = handlers[g]
      BY <1>0, <1>7, ReturnStep DEF UndoDecline
    <2>2. HeldIsSent' /\ MarkFollowsOpen'
      BY <1>7, <2>1, HandlerInvariants DEF UndoDecline, history
    <2>3. tg' \in Chats /\ updates' \in Seq(Updates)
      BY <1>0, <1>7, ChatOperations, ExecuteType DEF UndoDecline
    <2> QED
      BY <1>0, <1>7, <2>1, <2>2, <2>3, OnlyHandlerMoves DEF UndoDecline, redis
  <1>8. CASE UndoBan(h)
    <2>1. /\ handlers' \in [Handlers -> HandlerStates]
          /\ handlers'[h].pc = "undo_unban"
          /\ \A g \in Handlers \ {h} : handlers'[g] = handlers[g]
      BY <1>0, <1>8, GotoStep DEF UndoBan, HandlerPCs, StartSteps
    <2>2. HeldIsSent' /\ MarkFollowsOpen'
      BY <1>8, <2>1, HandlerInvariants DEF UndoBan, history
    <2>3. tg' \in Chats /\ updates' \in Seq(Updates)
      BY <1>0, <1>8, ChatOperations, ExecuteType DEF UndoBan
    <2> QED
      BY <1>0, <1>8, <2>1, <2>2, <2>3, OnlyHandlerMoves DEF UndoBan, redis
  <1>9. CASE UndoUnban(h)
    <2>1. /\ handlers' \in [Handlers -> HandlerStates]
          /\ handlers'[h].pc = "idle"
          /\ \A g \in Handlers \ {h} : handlers'[g] = handlers[g]
      BY <1>0, <1>9, ReturnStep DEF UndoUnban
    <2>2. HeldIsSent' /\ MarkFollowsOpen'
      BY <1>9, <2>1, HandlerInvariants DEF UndoUnban, history
    <2>3. tg' \in Chats /\ updates' \in Seq(Updates)
      BY <1>0, <1>9, ChatOperations, ExecuteType DEF UndoUnban
    <2> QED
      BY <1>0, <1>9, <2>1, <2>2, <2>3, OnlyHandlerMoves DEF UndoUnban, redis
  <1> QED
    BY <1>1, <1>2, <1>3, <1>4, <1>5, <1>6, <1>7, <1>8, <1>9 DEF Start

LEMMA LeaveInvariant ==
    ASSUME IInv, NEW h \in Handlers, Leave(h)
    PROVE  IInv'
  <1> USE DEF IInv
  <1>0. /\ TypeOK /\ tg \in Chats /\ updates \in Seq(Updates)
        /\ handlers \in [Handlers -> HandlerStates]
        /\ timers \in [Timers -> TimerStates] /\ registry \in Timers \cup {NoTimer}
        /\ pending \in Records \cup {NoRecord}
        /\ pending # NoRecord => pending.challenge \in Challenges
    BY DEF TypeOK, Records
  <1>1. CASE LeaveGet(h)
    <2>1. /\ handlers' \in [Handlers -> HandlerStates]
          /\ handlers'[h].pc \in {"idle", "leave_delete"}
          /\ \A g \in Handlers \ {h} : handlers'[g] = handlers[g]
      BY <1>0, <1>1, GotoHoldingStep, ReturnStep DEF LeaveGet, HandlerPCs, LeaveSteps
    <2>2. HeldIsSent' /\ MarkFollowsOpen'
      BY <1>1, <2>1, HandlerInvariants DEF LeaveGet, history
    <2> QED
      BY <1>0, <1>1, <2>1, <2>2, OnlyHandlerMoves DEF LeaveGet, redis
  <1>2. CASE LeaveDelete(h)
    <2>1. /\ handlers' \in [Handlers -> HandlerStates]
          /\ handlers'[h].pc \in {"idle", "leave_cancel"}
          /\ \A g \in Handlers \ {h} : handlers'[g] = handlers[g]
      BY <1>0, <1>2, GotoStep, ReturnStep DEF LeaveDelete, HandlerPCs, LeaveSteps
    <2>2. HeldIsSent' /\ MarkFollowsOpen'
      BY <1>2, <2>1, HandlerInvariants DEF LeaveDelete, history
    <2>3. pending' \in Records \cup {NoRecord}
      BY <1>0, <1>2 DEF LeaveDelete
    <2> QED
      BY <1>0, <1>2, <2>1, <2>2, <2>3, OnlyHandlerMoves DEF LeaveDelete
  <1>3. CASE LeaveCancel(h)
    <2>1. /\ handlers' \in [Handlers -> HandlerStates]
          /\ handlers'[h].pc = "idle"
          /\ \A g \in Handlers \ {h} : handlers'[g] = handlers[g]
      BY <1>0, <1>3, ReturnStep DEF LeaveCancel
    <2>2. HeldIsSent' /\ MarkFollowsOpen'
      BY <1>3, <2>1, HandlerInvariants DEF LeaveCancel, history
    <2>3. /\ timers' \in [Timers -> TimerStates]
          /\ registry' \in Timers \cup {NoTimer}
          /\ RegistryTracksLiveTimer'
      BY <1>0, <1>3, CancelTimerStep DEF LeaveCancel
    <2>4. tg' \in Chats /\ updates' \in Seq(Updates)
      BY <1>0, <1>3, HideType DEF LeaveCancel
    <2> QED
      BY <1>3, <2>1, <2>2, <2>3, <2>4
      DEF LeaveCancel, TypeOK, redis, history, MarkerIsEarned, RestoringHasRecord
  <1> QED
    BY <1>1, <1>2, <1>3 DEF Leave

LEMMA PressInvariant ==
    ASSUME IInv, NEW h \in Handlers, Press(h)
    PROVE  IInv'
  <1> USE DEF IInv
  <1>0. /\ TypeOK /\ tg \in Chats /\ updates \in Seq(Updates)
        /\ handlers \in [Handlers -> HandlerStates]
        /\ timers \in [Timers -> TimerStates] /\ registry \in Timers \cup {NoTimer}
        /\ pending \in Records \cup {NoRecord}
        /\ pending # NoRecord => pending.challenge \in Challenges
    BY DEF TypeOK, Records
  <1>1. CASE PressGet(h)
    <2>1. /\ handlers' \in [Handlers -> HandlerStates]
          /\ handlers'[h].pc \in {"idle", "press_reget"}
          /\ \A g \in Handlers \ {h} : handlers'[g] = handlers[g]
      BY <1>0, <1>1, GotoStep, ReturnStep DEF PressGet, HandlerPCs, PressSteps
    <2>2. HeldIsSent' /\ MarkFollowsOpen'
      BY <1>1, <2>1, HandlerInvariants DEF PressGet, history
    <2> QED
      BY <1>0, <1>1, <2>1, <2>2, OnlyHandlerMoves DEF PressGet, redis
  <1>2. CASE PressReget(h)
    <2>1. /\ handlers' \in [Handlers -> HandlerStates]
          /\ handlers'[h].pc \in {"idle", "open"}
          /\ \A g \in Handlers \ {h} : handlers'[g] = handlers[g]
      BY <1>0, <1>2, GotoHoldingStep, ReturnStep DEF PressReget, HandlerPCs, PressSteps
    <2>2. HeldIsSent' /\ MarkFollowsOpen'
      BY <1>2, <2>1, HandlerInvariants DEF PressReget, history
    <2> QED
      BY <1>0, <1>2, <2>1, <2>2, OnlyHandlerMoves DEF PressReget, redis
  <1>3. CASE OpenAccess(h)
    <2> DEFINE private == handlers[h].private
               new == IF private THEN Approve(tg) ELSE Unrestrict(tg)
    <2>1. PICK o \in {"ok", "refused", "lost"} :
             /\ Execute(o, new)
             /\ earned' = (earned \/ o # "refused")
             /\ grant' = IF o = "refused" THEN grant ELSE "callback"
             /\ IF o = "ok" THEN Goto(h, "mark") ELSE Return(h)
      BY <1>3 DEF OpenAccess, Telegram, Outcomes
    <2>2. new \in Chats
      BY <1>0, ChatOperations
    <2>3. tg' \in Chats /\ updates' \in Seq(Updates)
      BY <1>0, <2>1, <2>2, ExecuteType
    <2>4. /\ handlers' \in [Handlers -> HandlerStates]
          /\ handlers'[h].pc \in {"idle", "mark"}
          /\ handlers'[h].pc = "mark" => o = "ok"
          /\ \A g \in Handlers \ {h} : handlers'[g] = handlers[g]
      BY <1>0, <2>1, GotoStep, ReturnStep DEF HandlerPCs, PressSteps
    <2>5. (earned => earned') /\ (o = "ok" => earned') /\ earned' \in BOOLEAN
      <3>1. (o # "refused") \in BOOLEAN /\ earned \in BOOLEAN
        BY <1>0 DEF TypeOK
      <3> QED
        BY <2>1, <3>1, Zenon
    <2>6. HeldIsSent' /\ MarkFollowsOpen'
      BY <2>4, <2>5, HandlerInvariants
    <2>7. grant' \in {"none", "callback", "admin"}
      BY <1>0, <2>1 DEF TypeOK
    <2> QED
      BY <1>3, <2>3, <2>4, <2>5, <2>6, <2>7
      DEF OpenAccess, TypeOK, redis, tasks, MarkerIsEarned, RestoringHasRecord,
          RegistryTracksLiveTimer
  <1>4. CASE MarkVerified(h)
    <2>1. /\ handlers' \in [Handlers -> HandlerStates]
          /\ handlers'[h].pc = "forget"
          /\ \A g \in Handlers \ {h} : handlers'[g] = handlers[g]
      BY <1>0, <1>4, GotoStep DEF MarkVerified, HandlerPCs, PressSteps
    <2>2. HeldIsSent' /\ MarkFollowsOpen'
      BY <1>4, <2>1, HandlerInvariants DEF MarkVerified, history
    <2>3. /\ timers' \in [Timers -> TimerStates]
          /\ registry' \in Timers \cup {NoTimer}
          /\ RegistryTracksLiveTimer'
      BY <1>0, <1>4, CancelTimerStep DEF MarkVerified
    <2>4. earned /\ earned' = earned
      BY <1>4 DEF MarkVerified, At, MarkFollowsOpen, history
    <2>5. verified' \in BOOLEAN
      BY <1>0, <1>4 DEF MarkVerified, TypeOK
    <2>6. MarkerIsEarned'
      BY <2>4 DEF MarkerIsEarned
    <2> QED
      BY <1>4, <2>1, <2>2, <2>3, <2>5, <2>6
      DEF MarkVerified, TypeOK, history, RestoringHasRecord
  <1>5. CASE ForgetPending(h)
    <2>1. /\ handlers' \in [Handlers -> HandlerStates]
          /\ handlers'[h].pc = "tidy"
          /\ \A g \in Handlers \ {h} : handlers'[g] = handlers[g]
      BY <1>0, <1>5, GotoStep DEF ForgetPending, HandlerPCs, PressSteps
    <2>2. HeldIsSent' /\ MarkFollowsOpen'
      BY <1>5, <2>1, HandlerInvariants DEF ForgetPending, history
    <2>3. pending' \in Records \cup {NoRecord}
      BY <1>0, <1>5 DEF ForgetPending
    <2> QED
      BY <1>0, <1>5, <2>1, <2>2, <2>3, OnlyHandlerMoves DEF ForgetPending
  <1>6. CASE TidyChallenge(h)
    <2>1. /\ handlers' \in [Handlers -> HandlerStates]
          /\ handlers'[h].pc = "idle"
          /\ \A g \in Handlers \ {h} : handlers'[g] = handlers[g]
      BY <1>0, <1>6, ReturnStep DEF TidyChallenge
    <2>2. HeldIsSent' /\ MarkFollowsOpen'
      BY <1>6, <2>1, HandlerInvariants DEF TidyChallenge, history
    <2>3. tg' \in Chats /\ updates' \in Seq(Updates)
      BY <1>0, <1>6, HideType DEF TidyChallenge
    <2> QED
      BY <1>0, <1>6, <2>1, <2>2, <2>3, OnlyHandlerMoves DEF TidyChallenge, redis
  <1> QED
    BY <1>1, <1>2, <1>3, <1>4, <1>5, <1>6 DEF Press

\* What remains to be shown when handlers, phase and markers stay as they are.
LEMMA OnlyTimerMoves ==
    ASSUME IInv, UNCHANGED <<verified, handlers, phase, restoring, history>>,
           registry' \in Timers \cup {NoTimer},
           tg' \in Chats, updates' \in Seq(Updates),
           pending' \in Records \cup {NoRecord},
           timers' \in [Timers -> TimerStates], RegistryTracksLiveTimer'
    PROVE  IInv'
  BY DEF IInv, TypeOK, history, MarkerIsEarned, HeldIsSent, MarkFollowsOpen,
         RestoringHasRecord

LEMMA TimerInvariant ==
    ASSUME IInv, NEW t \in Timers, Timer(t)
    PROVE  IInv'
  <1> USE DEF IInv
  <1>0. /\ TypeOK /\ tg \in Chats /\ updates \in Seq(Updates)
        /\ handlers \in [Handlers -> HandlerStates]
        /\ timers \in [Timers -> TimerStates] /\ registry \in Timers \cup {NoTimer}
        /\ pending \in Records \cup {NoRecord}
        /\ pending # NoRecord => pending.challenge \in Challenges
    BY DEF TypeOK, Records
  <1>1. CASE TimerWake(t)
    <2>1. Live(timers[t])
      BY <1>1 DEF TimerWake, TimerAt, Live
    <2>2. timers' \in [Timers -> TimerStates] /\ RegistryTracksLiveTimer'
      BY <1>0, <1>1, <2>1, TimerGotoStep DEF TimerWake, TimerPCs
    <2> QED
      BY <1>0, <1>1, <2>2, OnlyTimerMoves DEF TimerWake, redis
  <1>2. CASE TimerGet(t)
    <2>1. Live(timers[t])
      BY <1>2 DEF TimerGet, TimerAt, Live
    <2>2. CASE TimerGoto(t, "over")
      <3>1. timers' \in [Timers -> TimerStates] /\ RegistryTracksLiveTimer'
        BY <1>0, <1>2, <2>1, <2>2, TimerGotoStep DEF TimerGet, TimerPCs
      <3> QED
        BY <1>0, <1>2, <3>1, OnlyTimerMoves DEF TimerGet, redis
    <2>3. CASE /\ pending # NoRecord
               /\ timers' = [timers EXCEPT ![t].pc = AfterGet(timers[t], pending.challenge),
                                          ![t].held = pending.challenge]
      <3>1. AfterGet(timers[t], pending.challenge) \in {"ban", "notify", "decline"}
        BY DEF AfterGet
      <3>2. timers' \in [Timers -> TimerStates]
        BY <1>0, <2>3, <3>1 DEF TimerStates
      <3>3. RegistryTracksLiveTimer'
        BY <1>0, <1>2, <2>1, <2>3 DEF TimerGet, RegistryTracksLiveTimer, Live, TimerStates
      <3> QED
        BY <1>0, <1>2, <3>2, <3>3, OnlyTimerMoves DEF TimerGet, redis
    <2> QED
      BY <1>2, <2>2, <2>3 DEF TimerGet
  <1>3. CASE TimerNotify(t)
    <2>1. Live(timers[t])
      BY <1>3 DEF TimerNotify, TimerAt, Live
    <2>2. timers' \in [Timers -> TimerStates] /\ RegistryTracksLiveTimer'
      BY <1>0, <1>3, <2>1, TimerGotoStep DEF TimerNotify, TimerPCs
    <2>3. tg' \in Chats /\ updates' \in Seq(Updates)
      BY <1>0, <1>3, HideType DEF TimerNotify
    <2> QED
      BY <1>0, <1>3, <2>2, <2>3, OnlyTimerMoves DEF TimerNotify, redis
  <1>4. CASE TimerDecline(t)
    <2>1. Live(timers[t])
      BY <1>4 DEF TimerDecline, TimerAt, Live
    <2>2. timers' \in [Timers -> TimerStates] /\ RegistryTracksLiveTimer'
      BY <1>0, <1>4, <2>1, TimerGotoStep DEF TimerDecline, TimerPCs
    <2>3. tg' \in Chats /\ updates' \in Seq(Updates)
      BY <1>0, <1>4, ChatOperations, ExecuteType DEF TimerDecline
    <2> QED
      BY <1>0, <1>4, <2>2, <2>3, OnlyTimerMoves DEF TimerDecline, redis
  <1>5. CASE TimerBan(t)
    <2>1. Live(timers[t])
      BY <1>5 DEF TimerBan, TimerAt, Live
    <2>2. timers' \in [Timers -> TimerStates] /\ RegistryTracksLiveTimer'
      BY <1>0, <1>5, <2>1, TimerGotoStep DEF TimerBan, TimerPCs
    <2>3. tg' \in Chats /\ updates' \in Seq(Updates)
      BY <1>0, <1>5, ChatOperations, ExecuteType DEF TimerBan
    <2> QED
      BY <1>0, <1>5, <2>2, <2>3, OnlyTimerMoves DEF TimerBan, redis
  <1>6. CASE TimerUnban(t)
    <2>1. Live(timers[t])
      BY <1>6 DEF TimerUnban, TimerAt, Live
    <2>2. timers' \in [Timers -> TimerStates] /\ RegistryTracksLiveTimer'
      BY <1>0, <1>6, <2>1, TimerGotoStep DEF TimerUnban, TimerPCs
    <2>3. tg' \in Chats /\ updates' \in Seq(Updates)
      BY <1>0, <1>6, ChatOperations, ExecuteType DEF TimerUnban
    <2> QED
      BY <1>0, <1>6, <2>2, <2>3, OnlyTimerMoves DEF TimerUnban, redis
  <1>7. CASE TimerDelete(t)
    <2>1. Live(timers[t])
      BY <1>7 DEF TimerDelete, TimerAt, Live
    <2>2. timers' \in [Timers -> TimerStates] /\ RegistryTracksLiveTimer'
      BY <1>0, <1>7, <2>1, TimerGotoStep DEF TimerDelete, TimerPCs
    <2>3. pending' \in Records \cup {NoRecord}
      BY <1>0, <1>7 DEF TimerDelete
    <2> QED
      BY <1>0, <1>7, <2>2, <2>3, OnlyTimerMoves DEF TimerDelete
  <1>8. CASE TimerTidy(t)
    <2>1. Live(timers[t])
      BY <1>8 DEF TimerTidy, TimerAt, Live
    <2>2. timers' \in [Timers -> TimerStates] /\ RegistryTracksLiveTimer'
      BY <1>0, <1>8, <2>1, TimerGotoStep DEF TimerTidy, TimerPCs
    <2>3. tg' \in Chats /\ updates' \in Seq(Updates)
      BY <1>0, <1>8, HideType DEF TimerTidy
    <2> QED
      BY <1>0, <1>8, <2>2, <2>3, OnlyTimerMoves DEF TimerTidy, redis
  <1>9. CASE TimerDone(t)
    <2>1. timers' \in [Timers -> TimerStates] /\ registry' \in Timers \cup {NoTimer}
      BY <1>0, <1>9, ConstantsAssumption DEF TimerDone, TimerStates, Free, TTL
    <2>2. RegistryTracksLiveTimer'
      BY <1>0, <1>9, NullsAssumption
      DEF TimerDone, TimerAt, RegistryTracksLiveTimer, Live, Free, TimerStates
    <2> QED
      BY <1>0, <1>9, <2>1, <2>2, OnlyTimerMoves DEF TimerDone, redis
  <1> QED
    BY <1>1, <1>2, <1>3, <1>4, <1>5, <1>6, <1>7, <1>8, <1>9 DEF Timer

\* Deleting the record that cannot be restored ends the restore.
LEMMA DropStep ==
    ASSUME pending \in Records \cup {NoRecord}, DropUnrestorable
    PROVE  /\ pending' \in Records \cup {NoRecord}
           /\ phase' \in {"up", "down"} /\ restoring' = NoRecord
  BY DEF DropUnrestorable

\* What remains to be shown for a restore step that starts no task.
LEMMA OnlyPhaseMoves ==
    ASSUME IInv, UNCHANGED <<tg, updates, verified, handlers, tasks, history>>,
           pending' \in Records \cup {NoRecord},
           restoring' \in Records \cup {NoRecord}, phase' \in Phases,
           RestoringHasRecord'
    PROVE  IInv'
  BY DEF IInv, TypeOK, tasks, history, RegistryTracksLiveTimer, MarkerIsEarned,
         HeldIsSent, MarkFollowsOpen

LEMMA RestoreInvariant ==
    ASSUME IInv, Restore
    PROVE  IInv'
  <1> USE DEF IInv
  <1>0. /\ TypeOK /\ tg \in Chats /\ updates \in Seq(Updates)
        /\ handlers \in [Handlers -> HandlerStates]
        /\ timers \in [Timers -> TimerStates] /\ registry \in Timers \cup {NoTimer}
        /\ pending \in Records \cup {NoRecord}
        /\ pending # NoRecord => pending.challenge \in Challenges
    BY DEF TypeOK, Records
  <1>10. restoring \in Records \cup {NoRecord}
    BY <1>0 DEF TypeOK
  <1>1. CASE Startup
    BY <1>0, <1>1, <1>10, OnlyPhaseMoves DEF Startup, redis, Phases, RestoringHasRecord
  <1>2. CASE RestoreRead
    BY <1>0, <1>2, <1>10, OnlyPhaseMoves DEF RestoreRead, redis, Phases, RestoringHasRecord
  <1>3. CASE RestoreVerified
    <2>1. restoring # NoRecord
      BY <1>3 DEF RestoreVerified, RestoringHasRecord
    <2>2. CASE DropUnrestorable
      <3>1. /\ pending' \in Records \cup {NoRecord} /\ restoring' = NoRecord
            /\ phase' \in {"up", "down"}
        BY <1>0, <2>2, DropStep
      <3> QED
        BY <1>0, <1>3, <3>1, OnlyPhaseMoves DEF RestoreVerified, Phases, RestoringHasRecord
    <2>3. CASE /\ phase' \in {"restore_joined", "restore_schedule"}
               /\ UNCHANGED <<pending, restoring>>
      BY <1>0, <1>3, <1>10, <2>1, <2>3, OnlyPhaseMoves
      DEF RestoreVerified, Phases, RestoringHasRecord
    <2> QED
      BY <1>3, <2>2, <2>3 DEF RestoreVerified
  <1>4. CASE RestoreJoined
    <2>1. restoring # NoRecord
      BY <1>4 DEF RestoreJoined, RestoringHasRecord
    <2>2. CASE DropUnrestorable
      <3>1. /\ pending' \in Records \cup {NoRecord} /\ restoring' = NoRecord
            /\ phase' \in {"up", "down"}
        BY <1>0, <2>2, DropStep
      <3> QED
        BY <1>0, <1>4, <3>1, OnlyPhaseMoves DEF RestoreJoined, Phases, RestoringHasRecord
    <2>3. CASE phase' = "restore_schedule" /\ UNCHANGED <<pending, restoring>>
      BY <1>0, <1>4, <1>10, <2>1, <2>3, OnlyPhaseMoves
      DEF RestoreJoined, Phases, RestoringHasRecord
    <2> QED
      BY <1>4, <2>2, <2>3 DEF RestoreJoined
  <1>5. CASE RestoreSchedule
    <2>1. restoring \in Records
      BY <1>5, <1>10 DEF RestoreSchedule, RestoringHasRecord
    <2>2. restoring.challenge.private \in BOOLEAN
      BY <2>1 DEF Records, Challenges
    <2>3. RestoredDelays(restoring) \subseteq 0..TTL
      BY <2>1, ConstantsAssumption DEF RestoredDelays, Records, TTL
    <2>4. /\ timers' \in [Timers -> TimerStates] /\ registry' \in Timers \cup {NoTimer}
          /\ RegistryTracksLiveTimer'
      BY <1>0, <1>5, <2>2, <2>3, RegisterTimerStep DEF RestoreSchedule
    <2> QED
      BY <1>0, <1>5, <2>4
      DEF RestoreSchedule, TypeOK, Phases, redis, history, MarkerIsEarned, HeldIsSent,
          MarkFollowsOpen, RestoringHasRecord
  <1> QED
    BY <1>1, <1>2, <1>3, <1>4, <1>5 DEF Restore

LEMMA StopInvariant ==
    ASSUME IInv, Stop
    PROVE  IInv'
  <1> USE DEF IInv
  <1>1. handlers' \in [Handlers -> HandlerStates] /\ timers' \in [Timers -> TimerStates]
    BY ConstantsAssumption
    DEF Stop, Idle, Free, HandlerStates, TimerStates, TTL
  <1>2. RegistryTracksLiveTimer' /\ HeldIsSent' /\ MarkFollowsOpen'
    BY DEF Stop, Idle, Free, Live, RegistryTracksLiveTimer, HeldIsSent, MarkFollowsOpen
  <1> QED
    BY <1>1, <1>2 DEF Stop, TypeOK, Phases, redis, history, MarkerIsEarned, RestoringHasRecord

\* What remains to be shown when only the chat and the queue change.
LEMMA OnlyChatMoves ==
    ASSUME IInv, UNCHANGED <<redis, handlers, tasks, phase, restoring, earned>>,
           tg' \in Chats, updates' \in Seq(Updates),
           grant' \in {"none", "callback", "admin"}
    PROVE  IInv'
  BY DEF IInv, TypeOK, redis, tasks, RegistryTracksLiveTimer, MarkerIsEarned,
         HeldIsSent, MarkFollowsOpen, RestoringHasRecord

LEMMA MoveInvariant ==
    ASSUME IInv, NEW new \in Chats, NEW notice \in Seq(Updates), Move(new, notice),
           grant' \in {"none", "callback", "admin"}
    PROVE  IInv'
  <1>1. updates' \in Seq(Updates)
    BY DEF Move, IInv, TypeOK
  <1> QED
    BY <1>1, OnlyChatMoves DEF Move

LEMMA EnvironmentInvariant ==
    ASSUME IInv, Environment
    PROVE  IInv'
  <1>0. /\ tg \in Chats /\ updates \in Seq(Updates)
        /\ grant \in {"none", "callback", "admin"}
    BY DEF IInv, TypeOK
  <1>1. CASE UserRequests
    <2>1. [tg EXCEPT !.request = TRUE] \in Chats
      BY <1>0 DEF Chats
    <2>2. "request" \in Updates
      BY DEF Updates
    <2>3. <<"request">> \in Seq(Updates)
      BY <2>2
    <2> QED
      BY <1>1, <2>1, <2>3, MoveInvariant DEF UserRequests
  <1>2. CASE UserJoins
    <2>1. [tg EXCEPT !.member = "member", !.request = FALSE] \in Chats
      BY <1>0 DEF Chats, Statuses, Inside
    <2>2. MemberNotice(tg, [tg EXCEPT !.member = "member", !.request = FALSE]) \in Seq(Updates)
      BY NoticeType
    <2> QED
      BY <1>2, <2>1, <2>2, MoveInvariant DEF UserJoins
  <1>3. CASE UserLeaves
    <2>1. [tg EXCEPT !.member = "left"] \in Chats
      BY <1>0 DEF Chats, Statuses, Outside
    <2>2. MemberNotice(tg, [tg EXCEPT !.member = "left"]) \in Seq(Updates)
      BY NoticeType
    <2> QED
      BY <1>3, <2>1, <2>2, MoveInvariant DEF UserLeaves
  <1>4. CASE AdminApproves
    <2>1. Approve(tg) \in Chats /\ MemberNotice(tg, Approve(tg)) \in Seq(Updates)
      BY <1>0, ChatOperations, NoticeType
    <2> QED
      BY <1>4, <2>1, MoveInvariant DEF AdminApproves
  <1>5. CASE RequestDismissed
    <2>1. Decline(tg) \in Chats /\ <<>> \in Seq(Updates)
      BY <1>0, ChatOperations
    <2> QED
      BY <1>0, <1>5, <2>1, MoveInvariant DEF RequestDismissed
  <1>6. ASSUME NEW c \in tg.challenges, UserPresses(c)
        PROVE  IInv'
    <2>1. "press_private" \in Updates /\ "press_chat" \in Updates
      BY DEF Updates
    <2>2. updates' \in Seq(Updates)
      BY <1>0, <1>6, <2>1 DEF UserPresses
    <2> QED
      BY <1>0, <1>6, <2>2, OnlyChatMoves DEF UserPresses, history
  <1> QED
    BY <1>1, <1>2, <1>3, <1>4, <1>5, <1>6 DEF Environment

\* A record only gets older, up to its TTL.
LEMMA OlderType ==
    ASSUME NEW record \in Records \cup {NoRecord}
    PROVE  Older(record) \in Records \cup {NoRecord}
  BY ConstantsAssumption DEF Older, Records, TTL

LEMMA TickInvariant ==
    ASSUME IInv, Tick
    PROVE  IInv'
  <1> USE DEF IInv
  <1>0. /\ timers \in [Timers -> TimerStates]
        /\ pending \in Records \cup {NoRecord} /\ restoring \in Records \cup {NoRecord}
    BY DEF TypeOK
  <1>1. pending' \in Records \cup {NoRecord}
    BY <1>0, OlderType DEF Tick
  <1>2. /\ restoring' \in Records \cup {NoRecord}
        /\ restoring # NoRecord => restoring' # NoRecord
    <2>1. CASE restoring # NoRecord /\ restoring.age < TTL
      <3>1. restoring' = [restoring EXCEPT !.age = @ + 1]
        BY <1>0, <2>1, ConstantsAssumption DEF Tick, Older, Records, TTL
      <3>2. restoring' \in Records
        BY <1>0, <2>1, <3>1, ConstantsAssumption DEF Records, TTL
      <3>3. NoRecord \notin Records
        BY NullsAssumption, ConstantsAssumption DEF Records, TTL
      <3> QED
        BY <3>2, <3>3
    <2>2. CASE ~(restoring # NoRecord /\ restoring.age < TTL)
      BY <1>0, <2>2 DEF Tick
    <2> QED
      BY <2>1, <2>2
  <1>3. timers' \in [Timers -> TimerStates]
    <2>1. ASSUME NEW t \in Timers, TimerAt(t, "sleep")
          PROVE  [timers[t] EXCEPT !.wait = @ - 1] \in TimerStates
      BY <1>0, <2>1, ConstantsAssumption DEF Tick, TimerStates, TTL
    <2> QED
      BY <1>0, <2>1 DEF Tick
  <1>4. RegistryTracksLiveTimer'
    <2>1. \A t \in Timers : timers'[t].pc = timers[t].pc
      BY <1>0 DEF Tick, TimerStates
    <2> QED
      BY <2>1 DEF Tick, RegistryTracksLiveTimer, Live
  <1> QED
    BY <1>1, <1>2, <1>3, <1>4
    DEF Tick, TypeOK, history, MarkerIsEarned, HeldIsSent, MarkFollowsOpen, RestoringHasRecord

LEMMA DispatchInvariant ==
    ASSUME IInv, NEW h \in Handlers, Dispatch(h)
    PROVE  IInv'
  <1> USE DEF IInv
  <1>0. updates \in Seq(Updates) /\ updates # <<>> /\ handlers \in [Handlers -> HandlerStates]
    BY DEF TypeOK, Dispatch
  <1>1. Head(updates) \in Updates /\ Tail(updates) \in Seq(Updates)
    BY <1>0
  <1>2. ASSUME NEW u \in Updates
        PROVE  /\ Spawned(u) \in HandlerStates
               /\ Spawned(u).pc \in {"start_get", "leave_get", "press_get"}
    BY DEF Spawned, FirstStep, HandlerStates, StartSteps, LeaveSteps, PressSteps
  <1>3. /\ handlers' \in [Handlers -> HandlerStates]
        /\ handlers'[h].pc \in {"start_get", "leave_get", "press_get"}
        /\ \A g \in Handlers \ {h} : handlers'[g] = handlers[g]
    BY <1>0, <1>1, <1>2 DEF Dispatch
  <1>4. HeldIsSent' /\ MarkFollowsOpen'
    BY <1>3, HandlerInvariants DEF Dispatch, history
  <1>5. updates' \in Seq(Updates)
    BY <1>1 DEF Dispatch
  <1> QED
    BY <1>3, <1>4, <1>5, OnlyHandlerMoves DEF Dispatch, redis, TypeOK

-----------------------------------------------------------------------------
(* The theorems                                                            *)

LEMMA InitInvariant == Init => IInv
  <1> SUFFICES ASSUME Init PROVE IInv
    OBVIOUS
  <1>1. tg \in Chats /\ updates \in Seq(Updates)
    BY DEF Init, EmptyChat, Chats, Statuses, Outside
  <1>2. handlers \in [Handlers -> HandlerStates] /\ timers \in [Timers -> TimerStates]
    BY ConstantsAssumption DEF Init, Idle, Free, HandlerStates, TimerStates, TTL
  <1> QED
    BY <1>1, <1>2
    DEF Init, IInv, TypeOK, Phases, Idle, Free, Live, RegistryTracksLiveTimer, MarkerIsEarned,
        HeldIsSent, MarkFollowsOpen, RestoringHasRecord

LEMMA NextInvariant == IInv /\ [Next]_vars => IInv'
  <1> SUFFICES ASSUME IInv, [Next]_vars PROVE IInv'
    OBVIOUS
  <1>1. ASSUME NEW h \in Handlers, Dispatch(h) \/ Handler(h)
        PROVE  IInv'
    BY <1>1, DispatchInvariant, StartInvariant, LeaveInvariant, PressInvariant DEF Handler
  <1>2. ASSUME NEW t \in Timers, Timer(t)
        PROVE  IInv'
    BY <1>2, TimerInvariant
  <1>3. CASE UNCHANGED vars
    BY <1>3
    DEF vars, IInv, TypeOK, RegistryTracksLiveTimer, MarkerIsEarned, HeldIsSent,
        MarkFollowsOpen, RestoringHasRecord
  <1> QED
    BY <1>1, <1>2, <1>3, RestoreInvariant, StopInvariant, EnvironmentInvariant, TickInvariant
    DEF Next

LEMMA InvariantHolds == Spec => []IInv
  BY InitInvariant, NextInvariant, PTL DEF Spec

\* Types are kept: in particular no record outlives its TTL and no timer waits
\* longer than one, whatever fails and whenever the process stops.
THEOREM TypesAreKept == Spec => []TypeOK
  BY InvariantHolds, PTL DEF IInv

\* At any time the only timeout task alive for a user is the one the registry
\* names, however update handlers, timeouts, failures and restarts interleave.
THEOREM OneTimerAlive == Spec => []RegistryTracksLiveTimer
  BY InvariantHolds, PTL DEF IInv

\* Nobody carries the verified marker whom no press of a button let in.
THEOREM MarkersAreEarned == Spec => []MarkerIsEarned
  BY InvariantHolds, PTL DEF IInv
=============================================================================
