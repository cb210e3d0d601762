----------------------- MODULE RuntimeSettings_proofs -----------------------
(***************************************************************************)
(* Proofs about RuntimeSettings for any number of chats and of handlers,   *)
(* every environment and every choice of failures.                         *)
(***************************************************************************)
EXTENDS RuntimeSettings, TLAPS

-----------------------------------------------------------------------------
(* The inductive invariant                                                 *)

\* A task writes what it was asked to write.
Fits(task) ==
    /\ task.pc \in {"write", "write_everywhere"} => task.request \in Changes
    /\ task.pc = "write_target" => task.request \in Notifies

\* What a reader is about to find, if it finds something, it has seen in force.
Witnessed(task, keys) ==
    /\ task.pc = "read" => InForceBy(keys, task.request.scope) \in task.seen
    /\ task.pc = "read_everywhere" /\ task.steady => Resolved(keys[Everywhere]) \in task.seen
    /\ task.pc = "discard" /\ task.steady => Default \in task.seen
    /\ task.pc = "apply" /\ task.steady => task.found \in task.seen

\* A promise rests on a key of the chat nobody is about to change, or on there
\* being no key and nobody about to set the one of all chats.
Kept(c) ==
    promise[c] # None =>
        /\ \A u \in Tasks : ~Changing(u, c)
        /\ \/ mode[c] = promise[c]
           \/ /\ mode[c] = None /\ promise[c] = Default
              /\ Resolved(mode[Everywhere]) = Default
              /\ \A u \in Tasks : ~ChangingAll(u)

IInv ==
    /\ TypeOK
    /\ \A t \in Tasks : Fits(tasks[t]) /\ Witnessed(tasks[t], mode)
    /\ \A c \in Chats : Kept(c)

-----------------------------------------------------------------------------
(* What the helpers do to the tasks                                        *)

LEMMA ResolvedMode == \A raw : Resolved(raw) \in Modes
  BY ConstantsAssumption DEF Resolved

LEMMA InForceMode == \A keys, s : InForceBy(keys, s) \in Modes
  BY ResolvedMode DEF InForceBy

LEMMA ScopeTyped ==
    ASSUME NEW task \in TaskStates
    PROVE  task.request \in Requests /\ task.request.scope \in Scopes
  BY DEF TaskStates, Requests, Changes, Notifies, Readings, Scopes

LEMMA Moving ==
    ASSUME tasks \in [Tasks -> TaskStates], NEW t \in Tasks, NEW pc \in Steps
    PROVE  /\ Moved(t, pc) \in [Tasks -> TaskStates]
           /\ Moved(t, pc)[t].pc = pc
           /\ Moved(t, pc)[t].request = tasks[t].request
           /\ Moved(t, pc)[t].seen = tasks[t].seen
           /\ Moved(t, pc)[t].steady = tasks[t].steady
           /\ \A u \in Tasks : u # t => Moved(t, pc)[u] = tasks[u]
  BY DEF Moved, TaskStates

LEMMA Finding ==
    ASSUME tasks \in [Tasks -> TaskStates], NEW t \in Tasks, NEW m \in Modes
    PROVE  /\ Found(t, m) \in [Tasks -> TaskStates]
           /\ Found(t, m)[t].pc = "apply"
           /\ Found(t, m)[t].found = m
           /\ Found(t, m)[t].seen = tasks[t].seen
           /\ Found(t, m)[t].steady = tasks[t].steady
           /\ \A u \in Tasks : u # t => Found(t, m)[u] = tasks[u]
  BY DEF Found, TaskStates, Steps

LEMMA Discarding ==
    ASSUME TypeOK, NEW t \in Tasks, NEW s \in Scopes, mode[s] \notin Modes
    PROVE  /\ Decoded(t, s) \in [Tasks -> TaskStates]
           /\ Decoded(t, s)[t].pc = "discard"
           /\ Decoded(t, s)[t].key = s
           /\ Decoded(t, s)[t].seen = tasks[t].seen
           /\ Decoded(t, s)[t].steady = tasks[t].steady
           /\ \A u \in Tasks : u # t => Decoded(t, s)[u] = tasks[u]
  <1>1. tasks \in [Tasks -> TaskStates]
    BY DEF TypeOK
  <1>2. "discard" \in Steps
    BY DEF Steps, ReadSteps
  <1> QED
    BY <1>1, <1>2 DEF Decoded, TaskStates

LEMMA IdleTyped == Idle \in TaskStates /\ Idle.pc = "idle"
  <1>1. [kind |-> "mode", scope |-> Everywhere, value |-> None] \in Requests
    BY DEF Requests, Changes, Scopes
  <1>2. "idle" \in Steps /\ Everywhere \in Scopes /\ Default \in Modes
    BY ConstantsAssumption DEF Steps, Scopes
  <1> QED
    BY <1>1, <1>2 DEF Idle, TaskStates

LEMMA Returning ==
    ASSUME tasks \in [Tasks -> TaskStates], NEW t \in Tasks
    PROVE  /\ Returned(t) \in [Tasks -> TaskStates]
           /\ Returned(t)[t].pc = "idle"
           /\ \A u \in Tasks : u # t => Returned(t)[u] = tasks[u]
  BY IdleTyped DEF Returned

LEMMA ReadingTyped ==
    ASSUME NEW task \in TaskStates
    PROVE  /\ Reading(task) \in TaskStates
           /\ Reading(task).pc = "read"
           /\ Reading(task).request = task.request
           /\ Reading(task).seen = {InForce(task.request.scope)}
  <1>1. InForce(task.request.scope) \in Modes
    BY InForceMode DEF InForce
  <1>2. "read" \in Steps
    BY DEF Steps, ReadSteps
  <1> QED
    BY <1>1, <1>2 DEF Reading, TaskStates

LEMMA Watching ==
    ASSUME NEW task \in TaskStates, NEW keys
    PROVE  /\ Watched(task, keys) \in TaskStates
           /\ Watched(task, keys).pc = task.pc
           /\ Watched(task, keys).request = task.request
           /\ Watched(task, keys).key = task.key
           /\ task.pc \notin ReadSteps => Watched(task, keys) = task
           /\ task.pc \in ReadSteps =>
                /\ Watched(task, keys).seen
                     = task.seen \cup {InForceBy(keys, task.request.scope)}
                /\ Watched(task, keys).steady =>
                     task.steady /\ keys[Everywhere] = mode[Everywhere]
  <1>1. InForceBy(keys, task.request.scope) \in Modes
    BY InForceMode
  <1> QED
    BY <1>1 DEF Watched, TaskStates

-----------------------------------------------------------------------------
(* Steps that write the mode keys                                          *)

\* A task that is not reading, and has found only what it has seen.
Settled(task) ==
    /\ task.pc \notin ReadSteps
    /\ task.pc = "apply" /\ task.steady => task.found \in task.seen

LEMMA Storing ==
    ASSUME IInv, NEW t \in Tasks, NEW keys \in Keys, NEW after \in [Tasks -> TaskStates],
           Store(keys, after), Fits(after[t]), Settled(after[t]),
           \A u \in Tasks : u # t => after[u] = tasks[u]
    PROVE  /\ mode' \in Keys /\ tasks' \in [Tasks -> TaskStates]
           /\ \A u \in Tasks : Fits(tasks[u])' /\ Witnessed(tasks[u], mode)'
           /\ \A u \in Tasks : /\ tasks'[u].pc = after[u].pc
                               /\ tasks'[u].request = after[u].request
                               /\ tasks'[u].key = after[u].key
  <1>1. mode' = keys /\ \A u \in Tasks : tasks'[u] = Watched(after[u], keys)
    BY DEF Store
  <1>2. tasks' = [u \in Tasks |-> Watched(after[u], keys)]
    BY DEF Store
  <1>3. \A u \in Tasks : after[u] \in TaskStates
    OBVIOUS
  <1>4. tasks' \in [Tasks -> TaskStates]
    BY <1>2, <1>3, Watching
  <1>5. \A u \in Tasks : /\ tasks'[u].pc = after[u].pc
                         /\ tasks'[u].request = after[u].request
                         /\ tasks'[u].key = after[u].key
    <2>1. ASSUME NEW u \in Tasks
          PROVE  /\ tasks'[u].pc = after[u].pc
                 /\ tasks'[u].request = after[u].request
                 /\ tasks'[u].key = after[u].key
      <3>1. after[u] \in TaskStates /\ tasks'[u] = Watched(after[u], keys)
        BY <1>1, <1>3
      <3>2. /\ Watched(after[u], keys).pc = after[u].pc
            /\ Watched(after[u], keys).request = after[u].request
            /\ Watched(after[u], keys).key = after[u].key
        BY <3>1, Watching
      <3> QED
        BY <3>1, <3>2
    <2> QED
      BY <2>1
  <1>6. ASSUME NEW u \in Tasks
        PROVE  Fits(tasks[u])'
    BY <1>5 DEF Fits, IInv
  <1>7. ASSUME NEW u \in Tasks
        PROVE  Witnessed(tasks[u], mode)'
    <2>1. CASE after[u].pc \notin ReadSteps
      <3>1. tasks'[u] = after[u]
        BY <1>1, <1>3, <2>1, Watching
      <3>2. Settled(after[u])
        BY <2>1 DEF IInv, Witnessed, Settled
      <3> QED
        BY <3>1, <3>2 DEF Witnessed, Settled, ReadSteps
    <2>2. CASE after[u].pc \in ReadSteps
      <3>1. u # t /\ after[u] = tasks[u] /\ Witnessed(tasks[u], mode)
        BY <2>2 DEF Settled, IInv
      <3>2. /\ tasks'[u].pc = tasks[u].pc /\ tasks'[u].request = tasks[u].request
            /\ tasks'[u].seen = tasks[u].seen \cup {InForceBy(keys, tasks[u].request.scope)}
            /\ tasks'[u].steady => tasks[u].steady /\ keys[Everywhere] = mode[Everywhere]
        <4>1. tasks[u] \in TaskStates /\ tasks'[u] = Watched(tasks[u], keys)
          BY <1>1, <1>3, <3>1
        <4>2. tasks[u].pc \in ReadSteps
          BY <2>2, <3>1
        <4>3. /\ Watched(tasks[u], keys).pc = tasks[u].pc
              /\ Watched(tasks[u], keys).request = tasks[u].request
              /\ Watched(tasks[u], keys).seen
                   = tasks[u].seen \cup {InForceBy(keys, tasks[u].request.scope)}
              /\ Watched(tasks[u], keys).steady =>
                   tasks[u].steady /\ keys[Everywhere] = mode[Everywhere]
          BY <4>1, <4>2, Watching
        <4> QED
          BY <4>1, <4>3
      <3>3. tasks'[u].pc # "apply"
        BY <2>2, <3>1, <3>2 DEF ReadSteps
      <3> QED
        BY <1>1, <3>1, <3>2, <3>3 DEF Witnessed
    <2> QED
      BY <2>1, <2>2
  <1> QED
    BY <1>1, <1>4, <1>5, <1>6, <1>7

\* The changes a task is about to make depend on its step, request and key.
LEMMA ChangingByFields ==
    ASSUME NEW u \in Tasks,
           tasks'[u].pc = tasks[u].pc, tasks'[u].request = tasks[u].request,
           tasks'[u].key = tasks[u].key
    PROVE  /\ \A c \in Chats : Changing(u, c)' = Changing(u, c)
           /\ ChangingAll(u)' = ChangingAll(u)
  BY DEF Changing, ChangingAll, At, Scope, Value

LEMMA ToldKept ==
    ASSUME IInv, NEW t \in Tasks, NEW s \in Scopes, NEW m \in Modes, Told(t, s, m)
    PROVE  /\ promise' \in [Chats -> Modes \cup {None}]
           /\ \A c \in Chats :
                \/ promise'[c] = promise[c]
                \/ /\ c = s /\ promise'[c] = m
                   /\ \A u \in Tasks \ {t} : ~Changing(u, c)
  <1>1. promise \in [Chats -> Modes \cup {None}]
    BY DEF IInv, TypeOK
  <1>2. CASE s = Everywhere \/ \E u \in Tasks \ {t} : Changing(u, s)
    BY <1>1, <1>2 DEF Told
  <1>3. CASE ~(s = Everywhere \/ \E u \in Tasks \ {t} : Changing(u, s))
    <2>1. s \in Chats /\ promise' = [promise EXCEPT ![s] = m]
      BY <1>3 DEF Told, Scopes
    <2> QED
      BY <1>1, <1>3, <2>1
  <1> QED
    BY <1>2, <1>3

LEMMA WriteKeeps ==
    ASSUME IInv, NEW t \in Tasks, Write(t)
    PROVE  IInv'
  <1> DEFINE s == Scope(t)
             v == Value(t)
  <1>1. tasks[t].request \in Changes /\ s \in Scopes /\ v \in Modes \cup {None} /\ At(t, "write")
    BY DEF Write, At, IInv, Fits, Changes, Scope, Value
  <1>2. PICK o \in Redis :
          /\ Store(Written(o, mode, [mode EXCEPT ![s] = v]),
                   IF o = "ok" /\ v = None /\ s # Everywhere
                   THEN Moved(t, "write_everywhere") ELSE Returned(t))
          /\ IF o = "ok" /\ v # None THEN Told(t, s, v) ELSE UNCHANGED promise
    BY DEF Write
  <1>3. target' = target
    BY DEF Write
  <1>4. t \in Tasks /\ (v # None => (Changing(t, s) /\ (s = Everywhere => ChangingAll(t))))
    BY <1>1 DEF Changing, ChangingAll, At
  <1>5. \A c \in Chats : s = c => Changing(t, c)
    BY <1>1 DEF Changing
  <1> HIDE DEF s, v
  <1> DEFINE after == IF o = "ok" /\ v = None /\ s # Everywhere
                      THEN Moved(t, "write_everywhere") ELSE Returned(t)
             keys == Written(o, mode, [mode EXCEPT ![s] = v])
  <1>6. mode \in Keys /\ tasks \in [Tasks -> TaskStates]
    BY DEF IInv, TypeOK
  <1>7. keys \in Keys /\ keys \in {mode, [mode EXCEPT ![s] = v]}
    BY <1>1, <1>6 DEF Written, Keys
  <1>8. /\ after \in [Tasks -> TaskStates]
        /\ \A u \in Tasks : u # t => after[u] = tasks[u]
        /\ after[t].pc = "idle" \/ (after[t].pc = "write_everywhere"
                                    /\ after[t].request = tasks[t].request)
    BY <1>6, Moving, Returning DEF Steps
  <1>9. Fits(after[t]) /\ Settled(after[t])
    BY <1>1, <1>8 DEF Fits, Settled, ReadSteps
  <1>10. Store(keys, after)
    BY <1>2
  <1> HIDE DEF after
  <1>11. /\ mode' = keys /\ tasks' \in [Tasks -> TaskStates]
         /\ \A u \in Tasks : Fits(tasks[u])' /\ Witnessed(tasks[u], mode)'
         /\ \A u \in Tasks : /\ tasks'[u].pc = after[u].pc
                             /\ tasks'[u].request = after[u].request
                             /\ tasks'[u].key = after[u].key
    BY <1>7, <1>8, <1>9, <1>10, Storing DEF Store
  <1>12. \A u \in Tasks : u # t => /\ \A c \in Chats : Changing(u, c)' = Changing(u, c)
                                   /\ ChangingAll(u)' = ChangingAll(u)
    BY <1>8, <1>11, ChangingByFields
  <1>13. /\ \A c \in Chats : ~Changing(t, c)'
         /\ ~ChangingAll(t)'
    BY <1>8, <1>11 DEF Changing, ChangingAll, At
  <1>14. /\ promise' \in [Chats -> Modes \cup {None}]
         /\ \A c \in Chats :
              \/ promise'[c] = promise[c]
              \/ /\ c = s /\ promise'[c] = v /\ o = "ok"
                 /\ \A u \in Tasks \ {t} : ~Changing(u, c)
    <2>1. promise \in [Chats -> Modes \cup {None}]
      BY DEF IInv, TypeOK
    <2> QED
      BY <1>1, <1>2, <2>1, ToldKept
  <1>15. ASSUME NEW c \in Chats, promise'[c] # None
         PROVE  Kept(c)'
    <2>1. c \in Scopes /\ c # Everywhere /\ Everywhere \in Scopes
      BY ConstantsAssumption DEF Scopes
    <2>2. CASE promise'[c] = promise[c]
      <3>1. /\ \A u \in Tasks : ~Changing(u, c)
            /\ \/ mode[c] = promise[c]
               \/ /\ mode[c] = None /\ promise[c] = Default
                  /\ Resolved(mode[Everywhere]) = Default
                  /\ \A u \in Tasks : ~ChangingAll(u)
        BY <1>15, <2>2 DEF IInv, Kept
      <3>2. s # c
        BY <1>5, <3>1
      <3>3. keys[c] = mode[c]
        BY <1>6, <1>7, <2>1, <3>2 DEF Keys
      <3>4. CASE mode[c] = promise[c]
        BY <1>11, <1>12, <1>13, <2>2, <3>1, <3>3, <3>4 DEF Kept
      <3>5. CASE mode[c] # promise[c]
        <4>1. ~(s = Everywhere /\ v # None)
          BY <1>4, <3>1, <3>5
        <4>2. keys[Everywhere] \in {mode[Everywhere], None}
          BY <1>6, <1>7, <2>1, <4>1 DEF Keys
        <4>3. Resolved(keys[Everywhere]) = Default
          BY <3>1, <3>5, <4>2, ConstantsAssumption DEF Resolved
        <4> QED
          BY <1>11, <1>12, <1>13, <2>2, <3>1, <3>3, <3>5, <4>3 DEF Kept
      <3> QED
        BY <3>4, <3>5
    <2>3. CASE /\ c = s /\ promise'[c] = v /\ o = "ok"
               /\ \A u \in Tasks \ {t} : ~Changing(u, c)
      <3>1. keys[c] = v
        BY <1>6, <2>1, <2>3 DEF Written, Keys
      <3> QED
        BY <1>11, <1>12, <1>13, <2>3, <3>1 DEF Kept
    <2> QED
      BY <1>14, <2>2, <2>3
  <1>16. TypeOK'
    BY <1>3, <1>7, <1>11, <1>14 DEF TypeOK, IInv
  <1> QED
    BY <1>11, <1>15, <1>16 DEF IInv, Kept

LEMMA WriteEverywhereKeeps ==
    ASSUME IInv, NEW t \in Tasks, WriteEverywhere(t)
    PROVE  IInv'
  <1> DEFINE s == Scope(t)
             after == Returned(t)
  <1>1. At(t, "write_everywhere") /\ target' = target
    BY DEF WriteEverywhere
  <1>2. PICK o \in Redis :
          /\ Store(Written(o, mode, [mode EXCEPT ![Everywhere] = None]), after)
          /\ IF o = "ok" /\ mode[s] = None /\ \A u \in Tasks : ~ChangingAll(u)
             THEN Told(t, s, Default) ELSE UNCHANGED promise
    BY DEF WriteEverywhere
  <1> DEFINE keys == Written(o, mode, [mode EXCEPT ![Everywhere] = None])
  <1>3. mode \in Keys /\ tasks \in [Tasks -> TaskStates]
    BY DEF IInv, TypeOK
  <1>4. s \in Scopes /\ Everywhere \in Scopes /\ Default \in Modes
    BY <1>1, ConstantsAssumption DEF IInv, Fits, Changes, Scope, At, Scopes
  <1>5. /\ keys \in Keys /\ \A c \in Chats : keys[c] = mode[c]
        /\ keys[Everywhere] \in {mode[Everywhere], None}
        /\ o = "ok" => keys[Everywhere] = None
    BY <1>3, <1>4, ConstantsAssumption DEF Written, Keys, Scopes
  <1>6. /\ after \in [Tasks -> TaskStates]
        /\ \A u \in Tasks : u # t => after[u] = tasks[u]
        /\ after[t].pc = "idle"
    BY <1>3, Returning
  <1>7. Fits(after[t]) /\ Settled(after[t])
    BY <1>6 DEF Fits, Settled, ReadSteps
  <1> HIDE DEF after, s, keys
  <1>8. Store(keys, after)
    BY <1>2 DEF keys
  <1>9. /\ mode' = keys /\ tasks' \in [Tasks -> TaskStates]
        /\ \A u \in Tasks : Fits(tasks[u])' /\ Witnessed(tasks[u], mode)'
        /\ \A u \in Tasks : /\ tasks'[u].pc = after[u].pc
                            /\ tasks'[u].request = after[u].request
                            /\ tasks'[u].key = after[u].key
    BY <1>5, <1>6, <1>7, <1>8, Storing DEF Store
  <1>10. \A u \in Tasks : u # t => /\ \A c \in Chats : Changing(u, c)' = Changing(u, c)
                                   /\ ChangingAll(u)' = ChangingAll(u)
    BY <1>6, <1>9, ChangingByFields
  <1>11. (\A c \in Chats : ~Changing(t, c)') /\ ~ChangingAll(t)'
    BY <1>6, <1>9 DEF Changing, ChangingAll, At
  <1>12. /\ promise' \in [Chats -> Modes \cup {None}]
         /\ \A c \in Chats :
              \/ promise'[c] = promise[c]
              \/ /\ c = s /\ promise'[c] = Default /\ o = "ok" /\ mode[c] = None
                 /\ \A u \in Tasks : ~ChangingAll(u)
                 /\ \A u \in Tasks \ {t} : ~Changing(u, c)
    <2>1. promise \in [Chats -> Modes \cup {None}]
      BY DEF IInv, TypeOK
    <2> QED
      BY <1>2, <1>4, <2>1, ToldKept
  <1>13. Resolved(None) = Default
    BY ConstantsAssumption DEF Resolved
  <1>14. ASSUME NEW c \in Chats, promise'[c] # None
         PROVE  Kept(c)'
    <2>1. CASE promise'[c] = promise[c]
      <3>1. /\ \A u \in Tasks : ~Changing(u, c)
            /\ \/ mode[c] = promise[c]
               \/ /\ mode[c] = None /\ promise[c] = Default
                  /\ Resolved(mode[Everywhere]) = Default
                  /\ \A u \in Tasks : ~ChangingAll(u)
        BY <1>14, <2>1 DEF IInv, Kept
      <3>2. Resolved(mode[Everywhere]) = Default => Resolved(keys[Everywhere]) = Default
        BY <1>5, <1>13
      <3> QED
        BY <1>5, <1>9, <1>10, <1>11, <2>1, <3>1, <3>2 DEF Kept
    <2>2. CASE promise'[c] # promise[c]
      <3>1. /\ promise'[c] = Default /\ mode[c] = None /\ keys[Everywhere] = None
            /\ \A u \in Tasks : ~ChangingAll(u)
            /\ \A u \in Tasks \ {t} : ~Changing(u, c)
        BY <1>5, <1>12, <2>2
      <3> QED
        BY <1>5, <1>9, <1>10, <1>11, <1>13, <3>1 DEF Kept
    <2> QED
      BY <2>1, <2>2
  <1>15. TypeOK'
    BY <1>1, <1>5, <1>9, <1>12 DEF TypeOK, IInv
  <1> QED
    BY <1>9, <1>14, <1>15 DEF IInv, Kept

LEMMA DiscardKeeps ==
    ASSUME IInv, NEW t \in Tasks, Discard(t)
    PROVE  IInv'
  <1> DEFINE s == tasks[t].key
  <1>1. At(t, "discard") /\ target' = target /\ promise' = promise
    BY DEF Discard
  <1>2. PICK o \in Redis :
          Store(Written(o, mode, [mode EXCEPT ![s] = None]),
                IF o = "ok" THEN Found(t, Default) ELSE Returned(t))
    BY DEF Discard
  <1> DEFINE after == IF o = "ok" THEN Found(t, Default) ELSE Returned(t)
             keys == Written(o, mode, [mode EXCEPT ![s] = None])
  <1>3. mode \in Keys /\ tasks \in [Tasks -> TaskStates]
    BY DEF IInv, TypeOK
  <1>4. s \in Scopes /\ Default \in Modes /\ Everywhere \in Scopes
    BY <1>3, ConstantsAssumption DEF TaskStates, Scopes
  <1>5. /\ keys \in Keys
        /\ \A x \in Scopes : x # s => keys[x] = mode[x]
        /\ keys[s] \in {mode[s], None}
    BY <1>3, <1>4 DEF Written, Keys
  <1>6. /\ after \in [Tasks -> TaskStates]
        /\ \A u \in Tasks : u # t => after[u] = tasks[u]
        /\ \/ after[t].pc = "idle"
           \/ /\ after[t].pc = "apply" /\ after[t].found = Default
              /\ after[t].seen = tasks[t].seen /\ after[t].steady = tasks[t].steady
    BY <1>3, <1>4, Returning, Finding
  <1>7. tasks[t].steady => Default \in tasks[t].seen
    BY <1>1 DEF At, IInv, Witnessed
  <1>8. \A c \in Chats : s = c => Changing(t, c)
    BY <1>1 DEF Changing
  <1> HIDE DEF after, s, keys
  <1>9. Fits(after[t]) /\ Settled(after[t])
    BY <1>6, <1>7 DEF Fits, Settled, ReadSteps
  <1>10. Store(keys, after)
    BY <1>2 DEF keys, after
  <1>11. /\ mode' = keys /\ tasks' \in [Tasks -> TaskStates]
         /\ \A u \in Tasks : Fits(tasks[u])' /\ Witnessed(tasks[u], mode)'
         /\ \A u \in Tasks : /\ tasks'[u].pc = after[u].pc
                             /\ tasks'[u].request = after[u].request
                             /\ tasks'[u].key = after[u].key
    BY <1>5, <1>6, <1>9, <1>10, Storing DEF Store
  <1>12. \A u \in Tasks : u # t => /\ \A c \in Chats : Changing(u, c)' = Changing(u, c)
                                   /\ ChangingAll(u)' = ChangingAll(u)
    BY <1>6, <1>11, ChangingByFields
  <1>13. (\A c \in Chats : ~Changing(t, c)') /\ ~ChangingAll(t)'
    BY <1>6, <1>11 DEF Changing, ChangingAll, At
  <1>14. Resolved(None) = Default
    BY ConstantsAssumption DEF Resolved
  <1>15. ASSUME NEW c \in Chats, promise'[c] # None
         PROVE  Kept(c)'
    <2>1. /\ \A u \in Tasks : ~Changing(u, c)
          /\ \/ mode[c] = promise[c]
             \/ /\ mode[c] = None /\ promise[c] = Default
                /\ Resolved(mode[Everywhere]) = Default
                /\ \A u \in Tasks : ~ChangingAll(u)
      BY <1>1, <1>15 DEF IInv, Kept
    <2>2. c \in Scopes /\ s # c
      BY <1>8, <2>1 DEF Scopes
    <2>3. keys[c] = mode[c]
      BY <1>5, <2>2
    <2>4. Resolved(mode[Everywhere]) = Default => Resolved(keys[Everywhere]) = Default
      BY <1>4, <1>5, <1>14
    <2> QED
      BY <1>1, <1>11, <1>12, <1>13, <2>1, <2>3, <2>4 DEF Kept
  <1>16. TypeOK'
    BY <1>1, <1>5, <1>11 DEF TypeOK, IInv
  <1> QED
    BY <1>11, <1>15, <1>16 DEF IInv, Kept

-----------------------------------------------------------------------------
(* Steps that leave the mode keys as they are                              *)

LEMMA ElseKeeps ==
    ASSUME IInv, NEW t \in Tasks, UNCHANGED mode,
           target' \in [Chats -> Targets \cup {None}],
           promise' \in [Chats -> Modes \cup {None}],
           tasks' \in [Tasks -> TaskStates],
           \A u \in Tasks : u # t => tasks'[u] = tasks[u],
           Fits(tasks[t])', Witnessed(tasks[t], mode)',
           \A c \in Chats : promise'[c] # None =>
             promise'[c] = promise[c] /\ ~Changing(t, c)' /\ (ChangingAll(t)' => mode[c] # None)
    PROVE  IInv'
  <1>1. ASSUME NEW u \in Tasks \ {t}
        PROVE  /\ Fits(tasks[u])' /\ Witnessed(tasks[u], mode)'
               /\ \A c \in Chats : Changing(u, c)' = Changing(u, c)
               /\ ChangingAll(u)' = ChangingAll(u)
    BY ChangingByFields DEF IInv, Fits, Witnessed
  <1>2. TypeOK'
    BY DEF IInv, TypeOK
  <1>3. ASSUME NEW c \in Chats, promise'[c] # None
        PROVE  Kept(c)'
    <2>1. Kept(c) /\ promise[c] # None
      BY <1>3 DEF IInv
    <2> QED
      BY <1>1, <1>3, <2>1 DEF Kept
  <1> QED
    BY <1>1, <1>2, <1>3 DEF IInv, Kept

\* A step that leaves its task where no promise and no reading is at stake.
LEMMA ReturnKeeps ==
    ASSUME IInv, NEW t \in Tasks, tasks' = Returned(t), UNCHANGED <<mode, promise>>,
           target' \in [Chats -> Targets \cup {None}]
    PROVE  IInv'
  <1>1. promise \in [Chats -> Modes \cup {None}] /\ tasks \in [Tasks -> TaskStates]
    BY DEF IInv, TypeOK
  <1>2. /\ tasks' \in [Tasks -> TaskStates] /\ tasks'[t].pc = "idle"
        /\ \A u \in Tasks : u # t => tasks'[u] = tasks[u]
    BY <1>1, Returning
  <1>3. Fits(tasks[t])' /\ Witnessed(tasks[t], mode)'
    BY <1>2 DEF Fits, Witnessed
  <1>4. (\A c \in Chats : ~Changing(t, c)') /\ ~ChangingAll(t)'
    BY <1>2 DEF Changing, ChangingAll, At
  <1> QED
    BY <1>1, <1>2, <1>3, <1>4, ElseKeeps

\* A step of a task, which then is at pc; pc is not "write".
LEMMA MoveKeeps ==
    ASSUME IInv, NEW t \in Tasks, UNCHANGED <<mode, promise, target>>,
           tasks' \in [Tasks -> TaskStates],
           \A u \in Tasks : u # t => tasks'[u] = tasks[u],
           Fits(tasks[t])', Witnessed(tasks[t], mode)', tasks'[t].pc # "write",
           tasks'[t].pc = "discard" => mode[tasks'[t].key] \notin Modes \cup {None}
    PROVE  IInv'
  <1>1. /\ promise \in [Chats -> Modes \cup {None}]
        /\ target \in [Chats -> Targets \cup {None}]
    BY DEF IInv, TypeOK
  <1>2. ~ChangingAll(t)'
    BY DEF ChangingAll, At
  <1>3. ASSUME NEW c \in Chats, promise'[c] # None
        PROVE  ~Changing(t, c)'
    <2>1. mode[c] \in Modes \cup {None}
      BY <1>1, <1>3 DEF IInv, Kept
    <2> QED
      BY <2>1 DEF Changing, At
  <1> QED
    BY <1>1, <1>2, <1>3, ElseKeeps

LEMMA BeginKeeps ==
    ASSUME IInv, NEW t \in Tasks, Begin(t)
    PROVE  IInv'
  <1>1. tasks \in [Tasks -> TaskStates]
    BY DEF IInv, TypeOK
  <1>2. PICK r \in Requests :
          tasks' = [tasks EXCEPT ![t] =
                      IF r.kind = "spam" THEN Reading([Idle EXCEPT !.request = r])
                      ELSE [[Idle EXCEPT !.request = r] EXCEPT !.pc = "authorise"]]
    BY DEF Begin
  <1>3. UNCHANGED <<mode, promise, target>>
    BY DEF Begin
  <1> DEFINE begun == [Idle EXCEPT !.request = r]
             started == [begun EXCEPT !.pc = "authorise"]
  <1>4. begun \in TaskStates
    BY IdleTyped DEF TaskStates
  <1>5. started \in TaskStates /\ started.pc = "authorise"
    BY <1>4 DEF TaskStates, Steps
  <1>6. tasks' = [tasks EXCEPT ![t] = IF r.kind = "spam" THEN Reading(begun) ELSE started]
    BY <1>2
  <1> HIDE DEF begun, started
  <1>7. \/ tasks' = [tasks EXCEPT ![t] = Reading(begun)]
        \/ tasks' = [tasks EXCEPT ![t] = started]
    BY <1>6
  <1>8. CASE tasks' = [tasks EXCEPT ![t] = Reading(begun)]
    <2>1. /\ Reading(begun) \in TaskStates /\ Reading(begun).pc = "read"
          /\ InForce(Reading(begun).request.scope) \in Reading(begun).seen
      BY <1>4, ReadingTyped
    <2>2. /\ tasks' \in [Tasks -> TaskStates] /\ tasks'[t] = Reading(begun)
          /\ \A u \in Tasks : u # t => tasks'[u] = tasks[u]
      BY <1>1, <1>8, <2>1
    <2>3. Fits(tasks[t])' /\ Witnessed(tasks[t], mode)'
      BY <1>3, <2>1, <2>2 DEF Fits, Witnessed, InForce
    <2> QED
      BY <1>3, <2>1, <2>2, <2>3, MoveKeeps
  <1>9. CASE tasks' = [tasks EXCEPT ![t] = started]
    <2>1. /\ tasks' \in [Tasks -> TaskStates] /\ tasks'[t].pc = "authorise"
          /\ \A u \in Tasks : u # t => tasks'[u] = tasks[u]
      BY <1>1, <1>5, <1>9
    <2>2. Fits(tasks[t])' /\ Witnessed(tasks[t], mode)'
      BY <2>1 DEF Fits, Witnessed
    <2> QED
      BY <1>3, <2>1, <2>2, MoveKeeps
  <1> QED
    BY <1>7, <1>8, <1>9

LEMMA AuthoriseKeeps ==
    ASSUME IInv, NEW t \in Tasks, Authorise(t)
    PROVE  IInv'
  <1>1. /\ tasks \in [Tasks -> TaskStates] /\ UNCHANGED <<mode, target>>
        /\ promise \in [Chats -> Modes \cup {None}]
        /\ target \in [Chats -> Targets \cup {None}]
    BY DEF IInv, TypeOK, Authorise
  <1>2. tasks[t].request \in Requests /\ tasks[t] \in TaskStates
    BY <1>1, ScopeTyped
  <1>3. CASE tasks' = Returned(t) /\ UNCHANGED promise
    BY <1>1, <1>3, ReturnKeeps
  <1>4. CASE /\ tasks[t].request.kind = "mode"
             /\ tasks' = Moved(t, "write")
             /\ promise' = [c \in Chats |->
                   IF \/ Scope(t) = c
                      \/ Scope(t) = Everywhere /\ Value(t) # None /\ mode[c] = None
                   THEN None ELSE promise[c]]
    <2>1. tasks[t].request \in Changes
      BY <1>2, <1>4 DEF Requests, Notifies, Readings
    <2>2. /\ tasks' \in [Tasks -> TaskStates] /\ tasks'[t].pc = "write"
          /\ tasks'[t].request = tasks[t].request
          /\ \A u \in Tasks : u # t => tasks'[u] = tasks[u]
      BY <1>1, <1>4, Moving DEF Steps
    <2>3. Fits(tasks[t])' /\ Witnessed(tasks[t], mode)'
      BY <2>1, <2>2 DEF Fits, Witnessed
    <2>4. promise' \in [Chats -> Modes \cup {None}]
      BY <1>1, <1>4
    <2>5. ASSUME NEW c \in Chats, promise'[c] # None
          PROVE  /\ promise'[c] = promise[c] /\ ~Changing(t, c)'
                 /\ ChangingAll(t)' => mode[c] # None
      <3>1. /\ promise'[c] = promise[c] /\ Scope(t) # c
            /\ ~(Scope(t) = Everywhere /\ Value(t) # None /\ mode[c] = None)
        BY <1>4, <2>5
      <3> QED
        BY <2>2, <3>1 DEF Changing, ChangingAll, At, Scope, Value
    <2> QED
      BY <1>1, <2>2, <2>3, <2>4, <2>5, ElseKeeps
  <1>5. CASE /\ tasks[t].request.kind = "notify"
             /\ tasks' = Moved(t, "write_target") /\ UNCHANGED promise
    <2>1. tasks[t].request \in Notifies
      BY <1>2, <1>5 DEF Requests, Changes, Readings
    <2>2. /\ tasks' \in [Tasks -> TaskStates] /\ tasks'[t].pc = "write_target"
          /\ tasks'[t].request = tasks[t].request
          /\ \A u \in Tasks : u # t => tasks'[u] = tasks[u]
      BY <1>1, <1>5, Moving DEF Steps
    <2>3. Fits(tasks[t])' /\ Witnessed(tasks[t], mode)'
      BY <2>1, <2>2 DEF Fits, Witnessed
    <2> QED
      BY <1>1, <1>5, <2>2, <2>3, MoveKeeps
  <1>6. CASE tasks' = [tasks EXCEPT ![t] = Reading(@)] /\ UNCHANGED promise
    <2>1. /\ Reading(tasks[t]) \in TaskStates /\ Reading(tasks[t]).pc = "read"
          /\ InForce(Reading(tasks[t]).request.scope) \in Reading(tasks[t]).seen
      BY <1>2, ReadingTyped
    <2>2. /\ tasks' \in [Tasks -> TaskStates] /\ tasks'[t] = Reading(tasks[t])
          /\ \A u \in Tasks : u # t => tasks'[u] = tasks[u]
      BY <1>1, <1>6, <2>1
    <2>3. Fits(tasks[t])' /\ Witnessed(tasks[t], mode)'
      BY <1>1, <2>1, <2>2 DEF Fits, Witnessed, InForce
    <2> QED
      BY <1>1, <1>6, <2>1, <2>2, <2>3, MoveKeeps
  <1> QED
    BY <1>3, <1>4, <1>5, <1>6 DEF Authorise

\* A value that is found has been seen in force, and one that is no mode stands
\* for Default.
LEMMA DecodeKeeps ==
    ASSUME IInv, NEW t \in Tasks, NEW s \in Scopes, UNCHANGED <<mode, promise, target>>,
           tasks' = Decoded(t, s), mode[s] # None,
           tasks[t].steady => Resolved(mode[s]) \in tasks[t].seen
    PROVE  IInv'
  <1>1. tasks \in [Tasks -> TaskStates]
    BY DEF IInv, TypeOK
  <1>2. CASE mode[s] \in Modes
    <2>1. Decoded(t, s) = Found(t, mode[s]) /\ Resolved(mode[s]) = mode[s]
      BY <1>2 DEF Decoded, Resolved
    <2>2. /\ tasks' \in [Tasks -> TaskStates] /\ tasks'[t].pc = "apply"
          /\ tasks'[t].found = mode[s] /\ tasks'[t].seen = tasks[t].seen
          /\ tasks'[t].steady = tasks[t].steady
          /\ \A u \in Tasks : u # t => tasks'[u] = tasks[u]
      BY <1>1, <1>2, <2>1, Finding
    <2>3. Fits(tasks[t])' /\ Witnessed(tasks[t], mode)'
      BY <2>1, <2>2 DEF Fits, Witnessed
    <2> QED
      BY <2>2, <2>3, MoveKeeps
  <1>3. CASE mode[s] \notin Modes
    <2>1. /\ tasks' \in [Tasks -> TaskStates] /\ tasks'[t].pc = "discard"
          /\ tasks'[t].key = s /\ tasks'[t].seen = tasks[t].seen
          /\ tasks'[t].steady = tasks[t].steady
          /\ \A u \in Tasks : u # t => tasks'[u] = tasks[u]
      BY <1>3, Discarding DEF IInv
    <2>2. Resolved(mode[s]) = Default
      BY <1>3 DEF Resolved
    <2>3. Fits(tasks[t])' /\ Witnessed(tasks[t], mode)'
      BY <2>1, <2>2 DEF Fits, Witnessed
    <2> QED
      BY <1>3, <2>1, <2>3, MoveKeeps
  <1> QED
    BY <1>2, <1>3

LEMMA ReadKeeps ==
    ASSUME IInv, NEW t \in Tasks, ReadChat(t) \/ ReadEverywhere(t)
    PROVE  IInv'
  <1>1. /\ tasks \in [Tasks -> TaskStates] /\ UNCHANGED <<mode, promise, target>>
        /\ target \in [Chats -> Targets \cup {None}]
    BY DEF IInv, TypeOK, ReadChat, ReadEverywhere
  <1>2. Scope(t) \in Scopes /\ Everywhere \in Scopes /\ Default \in Modes
    BY <1>1, ScopeTyped, ConstantsAssumption DEF Scope, Scopes
  <1>3. CASE tasks' = Returned(t)
    BY <1>1, <1>3, ReturnKeeps
  <1>4. CASE At(t, "read") /\ mode[Scope(t)] # None /\ tasks' = Decoded(t, Scope(t))
    <2>1. Resolved(mode[Scope(t)]) \in tasks[t].seen
      BY <1>4 DEF IInv, Witnessed, At, InForceBy, Scope
    <2> QED
      BY <1>1, <1>2, <1>4, <2>1, DecodeKeeps
  <1>5. CASE At(t, "read") /\ mode[Scope(t)] = None /\ tasks' = Moved(t, "read_everywhere")
    <2>1. Resolved(mode[Everywhere]) \in tasks[t].seen
      BY <1>5 DEF IInv, Witnessed, At, InForceBy, Scope
    <2>2. /\ tasks' \in [Tasks -> TaskStates] /\ tasks'[t].pc = "read_everywhere"
          /\ tasks'[t].seen = tasks[t].seen
          /\ \A u \in Tasks : u # t => tasks'[u] = tasks[u]
      BY <1>1, <1>5, Moving DEF Steps, ReadSteps
    <2>3. Fits(tasks[t])' /\ Witnessed(tasks[t], mode)'
      BY <1>1, <2>1, <2>2 DEF Fits, Witnessed
    <2> QED
      BY <1>1, <2>2, <2>3, MoveKeeps
  <1>6. CASE At(t, "read_everywhere") /\ mode[Everywhere] # None /\ tasks' = Decoded(t, Everywhere)
    <2>1. tasks[t].steady => Resolved(mode[Everywhere]) \in tasks[t].seen
      BY <1>6 DEF IInv, Witnessed, At
    <2> QED
      BY <1>1, <1>2, <1>6, <2>1, DecodeKeeps
  <1>7. CASE At(t, "read_everywhere") /\ mode[Everywhere] = None /\ tasks' = Found(t, Default)
    <2>1. tasks[t].steady => Default \in tasks[t].seen
      BY <1>7, ConstantsAssumption DEF IInv, Witnessed, At, Resolved
    <2>2. /\ tasks' \in [Tasks -> TaskStates] /\ tasks'[t].pc = "apply"
          /\ tasks'[t].found = Default /\ tasks'[t].seen = tasks[t].seen
          /\ tasks'[t].steady = tasks[t].steady
          /\ \A u \in Tasks : u # t => tasks'[u] = tasks[u]
      BY <1>1, <1>2, <1>7, Finding
    <2>3. Fits(tasks[t])' /\ Witnessed(tasks[t], mode)'
      BY <2>1, <2>2 DEF Fits, Witnessed
    <2> QED
      BY <1>1, <2>2, <2>3, MoveKeeps
  <1> QED
    BY <1>3, <1>4, <1>5, <1>6, <1>7 DEF ReadChat, ReadEverywhere

LEMMA RestartKeeps ==
    ASSUME IInv, Restart
    PROVE  IInv'
  <1>1. UNCHANGED <<mode, target, promise>> /\ tasks' = [t \in Tasks |-> Idle]
    BY DEF Restart
  <1>2. tasks' \in [Tasks -> TaskStates] /\ \A t \in Tasks : tasks'[t].pc = "idle"
    BY <1>1, IdleTyped
  <1>3. \A t \in Tasks : Fits(tasks[t])' /\ Witnessed(tasks[t], mode)'
    BY <1>2 DEF Fits, Witnessed
  <1>4. \A t \in Tasks : (\A c \in Chats : ~Changing(t, c)') /\ ~ChangingAll(t)'
    BY <1>2 DEF Changing, ChangingAll, At
  <1>5. \A c \in Chats : Kept(c)'
    BY <1>1, <1>4 DEF Kept, IInv
  <1> QED
    BY <1>1, <1>2, <1>3, <1>5 DEF IInv, TypeOK

LEMMA IInvIsInductive ==
    ASSUME IInv, [Next]_vars
    PROVE  IInv'
  <1>1. ASSUME NEW t \in Tasks, WriteTarget(t)
        PROVE  IInv'
    <2>1. At(t, "write_target") /\ tasks' = Returned(t) /\ UNCHANGED <<mode, promise>>
      BY <1>1 DEF WriteTarget
    <2>2. Scope(t) \in Chats /\ Value(t) \in Targets \cup {None}
      BY <2>1 DEF IInv, Fits, At, Notifies, Scope, Value
    <2>3. target' \in [Chats -> Targets \cup {None}]
      BY <1>1, <2>2 DEF WriteTarget, Written, IInv, TypeOK
    <2> QED
      BY <2>1, <2>3, ReturnKeeps
  <1>2. ASSUME NEW t \in Tasks, Apply(t)
        PROVE  IInv'
    <2>1. tasks' = Returned(t) /\ UNCHANGED <<mode, promise, target>>
      BY <1>2 DEF Apply
    <2>2. target \in [Chats -> Targets \cup {None}]
      BY DEF IInv, TypeOK
    <2> QED
      BY <2>1, <2>2, ReturnKeeps
  <1>3. CASE UNCHANGED vars
    <2>1. UNCHANGED <<mode, target, tasks, promise>>
      BY <1>3 DEF vars
    <2> QED
      BY <2>1 DEF IInv, TypeOK, Fits, Witnessed, Kept, Changing, ChangingAll, At, Scope, Value
  <1> QED
    BY <1>1, <1>2, <1>3, BeginKeeps, AuthoriseKeeps, WriteKeeps, WriteEverywhereKeeps,
       ReadKeeps, DiscardKeeps, RestartKeeps DEF Next, Handle

LEMMA InvariantHolds == Spec => []IInv
  <1>1. Init => IInv
    <2> SUFFICES ASSUME Init
                 PROVE  IInv
      OBVIOUS
    <2>1. tasks \in [Tasks -> TaskStates] /\ \A t \in Tasks : tasks[t].pc = "idle"
      BY IdleTyped DEF Init
    <2>2. TypeOK
      BY <2>1 DEF Init, TypeOK
    <2>3. \A t \in Tasks : Fits(tasks[t]) /\ Witnessed(tasks[t], mode)
      BY <2>1 DEF Fits, Witnessed
    <2>4. \A c \in Chats : Kept(c)
      BY DEF Init, Kept
    <2> QED
      BY <2>2, <2>3, <2>4 DEF IInv
  <1>2. IInv /\ [Next]_vars => IInv'
    BY IInvIsInductive
  <1> QED
    BY <1>1, <1>2, PTL DEF Spec

-----------------------------------------------------------------------------
(* Theorems                                                                *)

\* The keys hold what they may hold, whatever is written concurrently.
THEOREM TypesAreKept == Spec => []TypeOK
  <1>1. IInv => TypeOK
    BY DEF IInv
  <1> QED
    BY <1>1, InvariantHolds, PTL

\* What a chat was told stays in force until another change of it begins,
\* whatever happens to other chats (runtime_setting.py:49-63).
THEOREM PromisesStand == Spec => []PromiseStands
  <1>1. ASSUME IInv, NEW c \in Chats, promise[c] # None
        PROVE  InForce(c) = promise[c]
    <2>1. promise[c] \in Modes /\ Kept(c)
      BY <1>1 DEF IInv, TypeOK
    <2>2. CASE mode[c] = promise[c]
      BY <1>1, <2>1, <2>2 DEF InForce, InForceBy, Resolved
    <2>3. CASE /\ mode[c] = None /\ promise[c] = Default
               /\ Resolved(mode[Everywhere]) = Default
      BY <2>3 DEF InForce, InForceBy
    <2> QED
      BY <1>1, <2>1, <2>2, <2>3 DEF Kept
  <1>2. IInv => PromiseStands
    BY <1>1 DEF PromiseStands
  <1> QED
    BY <1>2, InvariantHolds, PTL

\* A mode that is acted on was in force while it was looked up
\* (runtime_setting.py:25-47).
THEOREM ReadsWereInForce == Spec => []ReadWasInForce
  <1>1. IInv => ReadWasInForce
    BY DEF IInv, Witnessed, ReadWasInForce, At
  <1> QED
    BY <1>1, InvariantHolds, PTL
=============================================================================
