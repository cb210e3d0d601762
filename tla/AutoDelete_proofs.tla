-------------------------- MODULE AutoDelete_proofs --------------------------
(***************************************************************************)
(* Proofs about AutoDelete for every set of messages, every delay and      *)
(* grace period, and every choice of what may fail: the safety of the      *)
(* schedule, and that it implements DurableJobs.                           *)
(***************************************************************************)
EXTENDS AutoDelete, TLAPS

-----------------------------------------------------------------------------
(* The inductive invariant                                                 *)

\* Only what has been promised is stored or listed, and ages.
StoredIsPromised ==
    /\ records \subseteq promised
    /\ listed \subseteq promised
    /\ \A m \in Messages \ promised : age[m] = 0

\* A handler promises once, before it registers the task, and then is over.
SendersInOrder ==
    \A m \in Messages :
        /\ senders[m] \in {"none", "create"} => m \notin promised
        /\ senders[m] = "register" => m \in promised
        /\ tasks[m].pc # "none" => senders[m] = "over"

\* A task removes the message when its time has come, and only then forgets.
TasksOnTime ==
    \A m \in Messages :
        /\ m \in promised /\ tasks[m].pc = "sleep"  => age[m] + tasks[m].wait >= Delay
        /\ m \in promised /\ tasks[m].pc = "delete" => age[m] >= Delay
        /\ tasks[m].pc = "forget" => m \in tried

\* What has not been tried is still stored, unless it has expired.
UntriedIsStored ==
    \A m \in promised : m \in tried \/ m \in records \/ age[m] = TTL

\* Nothing runs before the bot is up, and nothing is listed after.
PhasesInOrder ==
    /\ phase # "up" =>
         \A m \in Messages : tasks[m] = NoTask /\ senders[m] \in {"none", "over"}
    /\ phase # "listing" => unread = {} /\ listed = {}
    /\ phase = "listing" => records \subseteq unread \cup listed

\* A removal is tried by a task only, so after the handler is over.
TriedIsOver == \A m \in tried : senders[m] = "over"

IInv ==
    /\ TypeOK
    /\ StoredIsPromised
    /\ TriedIsOver
    /\ SendersInOrder
    /\ TasksOnTime
    /\ UntriedIsStored
    /\ PhasesInOrder
    /\ RecordHasTask

-----------------------------------------------------------------------------
(* The invariant is inductive                                              *)

LEMMA InitInvariant == Init => IInv
  BY ConstantsAssumption
  DEF Init, IInv, TypeOK, SenderStates, TaskStates, NoTask, TTL, StoredIsPromised, TriedIsOver,
      SendersInOrder, TasksOnTime, UntriedIsStored, PhasesInOrder, RecordHasTask

\* Sending a warning, writing its record and scheduling its task.
LEMMA SenderInvariant ==
    ASSUME IInv, NEW m \in Messages, Sender(m)
    PROVE  IInv'
  <1> USE ConstantsAssumption DEF IInv, listing
  <1>1. phase = "up"
    BY DEF Sender, SendWarning, CreateRecord, ScheduleTask, PhasesInOrder
  <1>2. CASE SendWarning(m)
    BY <1>1, <1>2
    DEF SendWarning, TypeOK, SenderStates, StoredIsPromised, TriedIsOver, SendersInOrder, TasksOnTime,
        UntriedIsStored, PhasesInOrder, RecordHasTask, Held
  <1>3. CASE CreateRecord(m)
    <2>1. PICK o \in Redis :
            /\ records' = IF o = "refused" THEN records ELSE records \cup {m}
            /\ promised' = IF o = "refused" THEN promised ELSE promised \cup {m}
            /\ senders' = [senders EXCEPT ![m] =
                   IF o = "ok" THEN "register" ELSE "fallback"]
      BY <1>3 DEF CreateRecord
    <2>2. m \notin promised /\ tasks[m].pc = "none" /\ age[m] = 0
      BY <1>3 DEF CreateRecord, SendersInOrder, StoredIsPromised
    <2> QED
      BY <1>1, <1>3, <2>1, <2>2
      DEF CreateRecord, TypeOK, SenderStates, StoredIsPromised, TriedIsOver, SendersInOrder, TasksOnTime,
          UntriedIsStored, PhasesInOrder, RecordHasTask, Held
  <1>4. CASE ScheduleTask(m)
    BY <1>1, <1>4
    DEF ScheduleTask, TypeOK, SenderStates, TaskStates, StoredIsPromised, TriedIsOver, SendersInOrder,
        TasksOnTime, UntriedIsStored, PhasesInOrder, RecordHasTask, Held, TTL
  <1> QED
    BY <1>2, <1>3, <1>4 DEF Sender

\* A task wakes, removes the message, forgets the record.
LEMMA TaskInvariant ==
    ASSUME IInv, NEW m \in Messages, Task(m)
    PROVE  IInv'
  <1> USE ConstantsAssumption DEF IInv, listing
  <1>1. phase = "up"
    BY DEF Task, TaskWake, TaskDelete, TaskForget, PhasesInOrder, NoTask
  <1>2. CASE TaskWake(m)
    BY <1>1, <1>2
    DEF TaskWake, TypeOK, TaskStates, StoredIsPromised, TriedIsOver, SendersInOrder, TasksOnTime,
        UntriedIsStored, PhasesInOrder, RecordHasTask, Held
  <1>3. CASE TaskDelete(m)
    BY <1>1, <1>3
    DEF TaskDelete, TypeOK, TaskStates, NoTask, StoredIsPromised, TriedIsOver, SendersInOrder, TasksOnTime,
        UntriedIsStored, PhasesInOrder, RecordHasTask, Held
  <1>4. CASE TaskForget(m)
    BY <1>1, <1>4
    DEF TaskForget, TypeOK, TaskStates, NoTask, StoredIsPromised, TriedIsOver, SendersInOrder, TasksOnTime,
        UntriedIsStored, PhasesInOrder, RecordHasTask, Held
  <1> QED
    BY <1>2, <1>3, <1>4 DEF Task

\* The listing at startup and the registration of what it found.
LEMMA RestoreInvariant ==
    ASSUME IInv, Restore
    PROVE  IInv'
  <1> USE ConstantsAssumption DEF IInv
  <1>1. CASE StartListing
    BY <1>1
    DEF StartListing, TypeOK, StoredIsPromised, TriedIsOver, SendersInOrder, TasksOnTime,
        UntriedIsStored, PhasesInOrder, RecordHasTask
  <1>2. ASSUME NEW m \in Messages, ReadRecord(m)
        PROVE  IInv'
    BY <1>2
    DEF ReadRecord, TypeOK, StoredIsPromised, TriedIsOver, SendersInOrder, TasksOnTime,
        UntriedIsStored, PhasesInOrder, RecordHasTask
  <1>3. CASE RegisterListed
    BY <1>3
    DEF RegisterListed, DelayUntil, TypeOK, TaskStates, NoTask, StoredIsPromised, TriedIsOver, SendersInOrder,
        TasksOnTime, UntriedIsStored, PhasesInOrder, RecordHasTask, Held
  <1> QED
    BY <1>1, <1>2, <1>3 DEF Restore

LEMMA StopInvariant ==
    ASSUME IInv, Stop
    PROVE  IInv'
  BY ConstantsAssumption
  DEF Stop, IInv, TypeOK, SenderStates, TaskStates, NoTask, StoredIsPromised, TriedIsOver, SendersInOrder,
      TasksOnTime, UntriedIsStored, PhasesInOrder, RecordHasTask

LEMMA TickInvariant ==
    ASSUME IInv, Tick
    PROVE  IInv'
  <1> USE ConstantsAssumption DEF IInv, listing
  <1>1. /\ TTL \in Nat
        /\ \A m \in Messages : age[m] \in 0..TTL
        /\ \A m \in Messages : tasks[m] \in TaskStates
    BY DEF TTL, TypeOK
  <1>2. \A m \in Messages :
          /\ age'[m] \in 0..TTL
          /\ age'[m] >= age[m]
          /\ m \in promised /\ age[m] < TTL => age'[m] = age[m] + 1
          /\ m \notin promised \/ age[m] = TTL => age'[m] = age[m]
    BY <1>1 DEF Tick
  <1>3. \A m \in Messages :
          /\ tasks'[m] \in TaskStates
          /\ tasks'[m].pc = tasks[m].pc
          /\ tasks[m].pc = "sleep" => tasks'[m].wait = tasks[m].wait - 1
          /\ tasks[m].pc # "sleep" => tasks'[m] = tasks[m]
    BY <1>1 DEF Tick, TaskStates
  <1>4. \A m \in Messages : m \in records /\ m \notin records' => age'[m] = TTL
    <2>1. \A m \in records :
            m \in records' <=> (IF m \in promised /\ age[m] < TTL THEN age[m] + 1 ELSE age[m]) < TTL
      BY DEF Tick
    <2> QED
      BY <1>1, <1>2, <2>1 DEF TypeOK
  <1>5. records' \subseteq records
    BY DEF Tick
  <1>6. TypeOK'
    BY <1>2, <1>3, <1>5 DEF Tick, TypeOK
  <1>7. StoredIsPromised' /\ TriedIsOver' /\ UntriedIsStored'
    BY <1>1, <1>2, <1>4, <1>5 DEF Tick, TypeOK, StoredIsPromised, TriedIsOver, UntriedIsStored, TTL
  <1>8. SendersInOrder' /\ PhasesInOrder' /\ RecordHasTask'
    <2>1. /\ senders' = senders /\ promised' = promised /\ tried' = tried
          /\ phase' = phase /\ unread' = unread /\ listed' = listed
      BY DEF Tick
    <2>2. SendersInOrder'
      BY <1>3, <2>1 DEF SendersInOrder
    <2>3. PhasesInOrder'
      BY <1>3, <1>5, <2>1 DEF PhasesInOrder, NoTask
    <2>4. RecordHasTask'
      BY <1>3, <1>5, <2>1 DEF TypeOK, RecordHasTask, Held
    <2> QED
      BY <2>2, <2>3, <2>4
  <1>9. TasksOnTime'
    BY <1>1, <1>2, <1>3 DEF Tick, TasksOnTime, TaskStates, TTL
  <1> QED
    BY <1>6, <1>7, <1>8, <1>9

LEMMA NextInvariant == IInv /\ [Next]_vars => IInv'
  <1> SUFFICES ASSUME IInv, [Next]_vars PROVE IInv'
    OBVIOUS
  <1>1. CASE UNCHANGED vars
    BY <1>1
    DEF vars, listing, IInv, TypeOK, StoredIsPromised, TriedIsOver, SendersInOrder, TasksOnTime,
        UntriedIsStored, PhasesInOrder, RecordHasTask, Held
  <1> QED
    BY <1>1, SenderInvariant, TaskInvariant, RestoreInvariant, StopInvariant, TickInvariant
    DEF Next

LEMMA InvariantHolds == Spec => []IInv
  BY InitInvariant, NextInvariant, PTL DEF Spec

\* Types are kept; in particular no restored task waits longer than the delay
\* of the schedule or less than nothing.
THEOREM TypesAreKept == Spec => []TypeOK
  BY InvariantHolds, PTL DEF IInv

\* Whatever fails and wherever the bot restarts, no removal that was written
\* and not tried is without somebody in the running bot who will try it.
THEOREM RecordsHaveTasks == Spec => []RecordHasTask
  BY InvariantHolds, PTL DEF IInv

-----------------------------------------------------------------------------
(* Records have tasks while Redis answers                                  *)

\* Every record has its task or the handler about to register one, also when
\* the removal has been tried: then the task still has to forget the record.
RecordIsForgotten ==
    phase = "up" =>
        \A m \in records : tasks[m].pc # "none" \/ senders[m] = "register"

\* Then no handler falls back to a task without a record, and a task that has
\* tried is still there to forget.
RecordsAreOwned ==
    /\ RecordIsForgotten
    /\ \A m \in Messages :
         /\ senders[m] # "fallback"
         /\ tasks[m].pc # "none" => tasks[m].durable

LEMMA RecordsAreOwnedStep ==
    ASSUME ~RedisMayFail, IInv, RecordsAreOwned, [Next]_vars
    PROVE  RecordsAreOwned'
  <1> USE DEF IInv
  <1>0. \A o \in Redis : o = "ok"
    BY DEF Redis, Outcomes
  <1>1. ASSUME NEW m \in Messages, Sender(m)
        PROVE  RecordsAreOwned'
    <2>1. CASE SendWarning(m)
      BY <2>1 DEF SendWarning, RecordsAreOwned, RecordIsForgotten, TypeOK
    <2>2. CASE CreateRecord(m)
      BY <1>0, <2>2 DEF CreateRecord, RecordsAreOwned, RecordIsForgotten, TypeOK
    <2>3. CASE ScheduleTask(m)
      BY <2>3 DEF ScheduleTask, RecordsAreOwned, RecordIsForgotten, TypeOK
    <2> QED
      BY <1>1, <2>1, <2>2, <2>3 DEF Sender
  <1>2. ASSUME NEW m \in Messages, Task(m)
        PROVE  RecordsAreOwned'
    <2>1. CASE TaskWake(m)
      BY <2>1 DEF TaskWake, RecordsAreOwned, RecordIsForgotten, TypeOK, TaskStates
    <2>2. CASE TaskDelete(m)
      BY <2>2 DEF TaskDelete, RecordsAreOwned, RecordIsForgotten, TypeOK, TaskStates
    <2>3. CASE TaskForget(m)
      BY <1>0, <2>3 DEF TaskForget, RecordsAreOwned, RecordIsForgotten, TypeOK, NoTask
    <2> QED
      BY <1>2, <2>1, <2>2, <2>3 DEF Task
  <1>3. CASE Restore
    <2>1. CASE StartListing
      BY <2>1 DEF StartListing, RecordsAreOwned, RecordIsForgotten
    <2>2. ASSUME NEW m \in Messages, ReadRecord(m)
          PROVE  RecordsAreOwned'
      BY <2>2 DEF ReadRecord, RecordsAreOwned, RecordIsForgotten
    <2>3. CASE RegisterListed
      BY <2>3 DEF RegisterListed, RecordsAreOwned, RecordIsForgotten, PhasesInOrder, TypeOK
    <2> QED
      BY <1>3, <2>1, <2>2, <2>3 DEF Restore
  <1>4. CASE Stop
    BY <1>4 DEF Stop, RecordsAreOwned, RecordIsForgotten, NoTask, TypeOK, SenderStates
  <1>5. CASE Tick
    <2>1. \A m \in Messages : /\ tasks'[m].pc = tasks[m].pc
                              /\ tasks'[m].durable = tasks[m].durable
      BY <1>5 DEF Tick, TypeOK, TaskStates
    <2>2. records' \subseteq records /\ phase' = phase /\ senders' = senders
      BY <1>5 DEF Tick
    <2> QED
      BY <2>1, <2>2 DEF RecordsAreOwned, RecordIsForgotten, TypeOK
  <1>6. CASE UNCHANGED vars
    BY <1>6 DEF vars, RecordsAreOwned, RecordIsForgotten
  <1> QED
    BY <1>1, <1>2, <1>3, <1>4, <1>5, <1>6 DEF Next

\* While Redis answers, no record of the running bot is without somebody who
\* will carry it out, whatever Telegram refuses and whenever the bot restarts.
THEOREM RecordsAreForgotten ==
    ASSUME ~RedisMayFail
    PROVE  Spec => []RecordIsForgotten
  <1>1. Init => RecordsAreOwned
    BY DEF Init, RecordsAreOwned, RecordIsForgotten, NoTask
  <1>2. IInv /\ RecordsAreOwned /\ [Next]_vars => RecordsAreOwned'
    BY RecordsAreOwnedStep
  <1>3. RecordsAreOwned => RecordIsForgotten
    BY DEF RecordsAreOwned
  <1> QED
    BY <1>1, <1>2, <1>3, InvariantHolds, PTL DEF Spec

-----------------------------------------------------------------------------
(* The schedule implements DurableJobs                                     *)

\* A step that promises nothing and tries nothing new, keeps what is lost lost,
\* and loses a job only while the bot is not up, is time passing.
LEMMA PassStep ==
    ASSUME IInv, IInv',
           \A m \in Messages : m \in promised' <=> m \in promised,
           \A m \in promised : m \in tried' <=> m \in tried,
           \A m \in Messages : age'[m] \in {age[m], age[m] + 1},
           \A m \in Messages : Lost(m) => Lost(m)',
           phase' = "up" => \A m \in Messages : Lost(m)' => Lost(m)
    PROVE  Jobs!Next
  <1> DEFINE S == {m \in Messages : Lost(m)' /\ ~Lost(m)}
  <1>1. Jobs!Older
    <2>1. age' \in [Messages -> 0..TTL]
      BY DEF IInv, TypeOK
    <2>2. ASSUME NEW m \in Messages, Job[m] = "none" PROVE age'[m] = age[m]
      <3>1. m \notin promised
        BY <2>2 DEF Job
      <3> QED
        BY <3>1 DEF IInv, StoredIsPromised
    <2> QED
      BY <2>1, <2>2 DEF Jobs!Older, Jobs!TTL, TTL
  <1>2. \A m \in S : Job[m] = "promised" /\ age'[m] = TTL /\ phase' # "up"
    <2> TAKE m \in S
    <2>1. m \in promised /\ m \notin tried /\ ~Lost(m)
      BY DEF Lost
    <2>2. age'[m] = TTL
      BY DEF Lost, IInv, UntriedIsStored
    <2> QED
      BY <2>1, <2>2 DEF Job
  <1>3. Job' = [m \in Messages |-> IF m \in S THEN "lost" ELSE Job[m]]
    <2>1. ASSUME NEW m \in Messages
          PROVE  Job'[m] = IF m \in S THEN "lost" ELSE Job[m]
      BY DEF Job, Lost
    <2> QED
      BY <2>1 DEF Job
  <1>4. Jobs!Pass(S)
    BY <1>1, <1>2, <1>3 DEF Jobs!Pass, Jobs!TTL, TTL
  <1> QED
    BY <1>4 DEF Jobs!Next

\* Writing the record is the promise, removing the message the attempt.
LEMMA SenderImplements ==
    ASSUME IInv, IInv', NEW m \in Messages, Sender(m)
    PROVE  Jobs!Next
  <1> USE DEF IInv
  <1>1. /\ age' = age /\ phase' = phase /\ listed' = listed /\ tried' = tried
    BY DEF Sender, SendWarning, CreateRecord, ScheduleTask, listing
  <1>2. CASE SendWarning(m)
    BY <1>1, <1>2, PassStep DEF SendWarning, SendersInOrder, Lost, Held, TypeOK
  <1>3. CASE CreateRecord(m)
    <2>1. m \notin promised
      BY <1>3 DEF CreateRecord, SendersInOrder
    <2>2. CASE promised' = promised
      <3>1. \A n \in Messages : Lost(n)' <=> Lost(n)
        BY <1>1, <1>3, <2>1, <2>2 DEF CreateRecord, Lost, Held, TypeOK, SendersInOrder
      <3> QED
        BY <1>1, <2>2, <3>1, PassStep
    <2>3. CASE promised' = promised \cup {m}
      <3>1. Held(m)' /\ (\A n \in Messages \ {m} : Lost(n)' <=> Lost(n))
        BY <1>1, <1>3, <2>3 DEF CreateRecord, Lost, Held, TypeOK
      <3>2. m \notin tried
        BY <1>3, <2>1 DEF CreateRecord, TriedIsOver
      <3>3. Job' = [Job EXCEPT ![m] = "promised"] /\ Job[m] = "none"
        BY <1>1, <2>1, <2>3, <3>1, <3>2 DEF Job, Lost
      <3>4. Jobs!Promise(m)
        BY <1>1, <3>3 DEF Jobs!Promise
      <3> QED
        BY <3>4 DEF Jobs!Next
    <2> QED
      BY <1>3, <2>2, <2>3 DEF CreateRecord
  <1>4. CASE ScheduleTask(m)
    BY <1>1, <1>4, PassStep DEF ScheduleTask, Lost, Held, TypeOK
  <1> QED
    BY <1>2, <1>3, <1>4 DEF Sender

LEMMA TaskImplements ==
    ASSUME IInv, IInv', NEW m \in Messages, Task(m)
    PROVE  Jobs!Next
  <1> USE DEF IInv
  <1>1. /\ age' = age /\ phase' = phase /\ listed' = listed /\ promised' = promised
        /\ senders' = senders
        /\ \A n \in Messages \ {m} : tasks'[n] = tasks[n]
    <2>1. tasks \in [Messages -> TaskStates]
      BY DEF TypeOK
    <2> QED
      BY <2>1 DEF Task, TaskWake, TaskDelete, TaskForget, listing
  <1>2. CASE TaskWake(m)
    BY <1>1, <1>2, PassStep DEF TaskWake, Lost, Held, TypeOK, TaskStates
  <1>3. CASE TaskDelete(m)
    <2>1. /\ tasks[m].pc = "delete" /\ tried' = tried \cup {m} /\ records' = records
      BY <1>3 DEF TaskDelete
    <2>2. \A n \in Messages \ {m} : Lost(n)' <=> Lost(n)
      BY <1>1, <2>1 DEF Lost, Held
    <2>3. ~Lost(m) /\ ~Lost(m)'
      BY <2>1 DEF Lost, Held
    <2>4. CASE m \notin promised \/ m \in tried
      BY <1>1, <2>1, <2>2, <2>3, <2>4, PassStep
    <2>5. CASE m \in promised /\ m \notin tried
      <3>1. Job' = [Job EXCEPT ![m] = "done"] /\ Job[m] = "promised"
        BY <1>1, <2>1, <2>2, <2>3, <2>5 DEF Job
      <3>2. age[m] >= Delay
        BY <2>1, <2>5 DEF TasksOnTime
      <3>3. Jobs!Attempt(m)
        BY <1>1, <3>1, <3>2 DEF Jobs!Attempt
      <3> QED
        BY <3>3 DEF Jobs!Next
    <2> QED
      BY <2>4, <2>5
  <1>4. CASE TaskForget(m)
    BY <1>1, <1>4, PassStep DEF TaskForget, TasksOnTime, Lost, Held, TypeOK
  <1> QED
    BY <1>2, <1>3, <1>4 DEF Task

\* A restart, or the end of the process, is time passing for the jobs.
LEMMA RestartImplements ==
    ASSUME IInv, IInv', Restore \/ Stop
    PROVE  Jobs!Next
  <1> USE DEF IInv
  <1>1. /\ age' = age /\ promised' = promised /\ tried' = tried /\ records' = records
    BY DEF Restore, StartListing, ReadRecord, RegisterListed, Stop
  <1>2. CASE StartListing
    BY <1>1, <1>2, PassStep DEF StartListing, Lost, Held, PhasesInOrder
  <1>3. ASSUME NEW m \in Messages, ReadRecord(m)
        PROVE  Jobs!Next
    <2>1. \A n \in Messages : Lost(n) => Lost(n)'
      BY <1>1, <1>3 DEF ReadRecord, Lost, Held
    <2>2. phase' # "up"
      BY <1>3 DEF ReadRecord
    <2> QED
      BY <1>1, <2>1, <2>2, PassStep
  <1>4. CASE RegisterListed
    <2>1. \A n \in Messages : Lost(n)' <=> Lost(n)
      BY <1>1, <1>4 DEF RegisterListed, Lost, Held, PhasesInOrder, NoTask
    <2> QED
      BY <1>1, <2>1, PassStep
  <1>5. CASE Stop
    <2>1. \A n \in Messages : Lost(n) => Lost(n)'
      BY <1>1, <1>5 DEF Stop, Lost, Held, NoTask
    <2>2. phase' # "up"
      BY <1>5 DEF Stop
    <2> QED
      BY <1>1, <2>1, <2>2, PassStep
  <1> QED
    BY <1>2, <1>3, <1>4, <1>5 DEF Restore

LEMMA TickImplements ==
    ASSUME IInv, IInv', Tick
    PROVE  Jobs!Next
  <1> USE DEF IInv
  <1>1. /\ promised' = promised /\ tried' = tried /\ records' \subseteq records
        /\ senders' = senders /\ listed' = listed /\ phase' = phase
    BY DEF Tick, listing
  <1>2. \A n \in Messages : tasks'[n].pc = tasks[n].pc
    BY DEF Tick, TypeOK, TaskStates
  <1>3. \A n \in Messages : age'[n] \in {age[n], age[n] + 1}
    BY DEF Tick, TypeOK
  <1>4. \A n \in Messages : Lost(n) => Lost(n)'
    BY <1>1, <1>2 DEF Lost, Held
  <1>5. ASSUME phase' = "up", NEW n \in Messages, Lost(n)'
        PROVE  Lost(n)
    BY <1>1, <1>2, <1>5 DEF RecordHasTask, Lost, Held
  <1> QED
    BY <1>1, <1>3, <1>4, <1>5, PassStep

LEMMA StepImplements == IInv /\ IInv' /\ [Next]_vars => [Jobs!Next]_Jobs!vars
  <1> SUFFICES ASSUME IInv, IInv', [Next]_vars PROVE [Jobs!Next]_Jobs!vars
    OBVIOUS
  <1>1. CASE UNCHANGED vars
    <2>1. Job' = Job
      BY <1>1 DEF vars, listing, Job, Lost, Held
    <2> QED
      BY <1>1, <2>1 DEF vars, Jobs!vars
  <1> QED
    BY <1>1, SenderImplements, TaskImplements, RestartImplements, TickImplements DEF Next

LEMMA InitImplements == Init => Jobs!Init
  BY DEF Init, Job, Jobs!Init

\* The schedule in Redis, the tasks and the restore together implement durable
\* jobs: no crash, restart, lost call or refusal makes the bot forget a removal
\* it promised, carry it out early, or give it up while it is up.
THEOREM ScheduleIsDurable == Spec => JobsAreDurable
  BY InvariantHolds, InitImplements, StepImplements, PTL
  DEF Spec, JobsAreDurable, Jobs!Spec
=============================================================================
