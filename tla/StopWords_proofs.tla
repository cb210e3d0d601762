-------------------------- MODULE StopWords_proofs --------------------------
(***************************************************************************)
(* Proofs about StopWords for any number of handlers, texts and messages,  *)
(* every TTL and every choice of failures.                                 *)
(***************************************************************************)
EXTENDS StopWords, TLAPS

-----------------------------------------------------------------------------
(* The inductive invariant                                                 *)

Busy(h) == ~At(h, "idle")
Own(h) == handlers[h].post

\* A handler has judged its message, or has not.
Unjudged == {"exempt", "flood", "lookup", "ask", "fill"}
Marking(h) == handlers[h].pc \in {"delete_warn", "warn", "rollback"}
Kicking(h) == handlers[h].pc \in {"delete_kick", "ban"}

\* Handlers hold different messages, each of those dispatched so far, and only
\* those have a verdict.
HandlersInOrder ==
    /\ \A h \in Handlers :
         Busy(h) => /\ Own(h) \in Posts /\ Own(h) < next
                    /\ posts[Own(h)].verdict =
                         IF handlers[h].pc \in Unjudged THEN "none" ELSE "spam"
    /\ \A g, h \in Handlers : Busy(g) /\ Busy(h) /\ g # h => Own(g) # Own(h)
    /\ \A p \in Posts : posts[p].verdict # "none" => p < next

Spam(p) == p \in Posts /\ posts[p].verdict = "spam"

\* A mark, and a kick that it led to, come from another message than the one a
\* handler has yet to mark or is kicking for.
MarkIsEarned ==
    /\ mark # None =>
         \E p \in Posts : /\ Spam(p)
                          /\ \A h \in Handlers :
                               At(h, "mode") \/ At(h, "mark") => Own(h) # p
    /\ \A h \in Handlers : Kicking(h) => \E p \in Posts \ {Own(h)} : Spam(p)

IInv == TypeOK /\ HandlersInOrder /\ MarkIsEarned

-----------------------------------------------------------------------------
(* Types                                                                   *)

\* The components of the state a step of a handler leaves in their types.
HandlersTyped ==
    /\ handlers \in [Handlers -> HandlerStates]
    /\ \A h \in Handlers : Busy(h) => Own(h) \in Posts

LEMMA HandlerMoves ==
    ASSUME TypeOK, NEW h \in Handlers, Busy(h), Len(posts') = Len(posts),
           \/ Return(h)
           \/ \E pc \in Steps : Goto(h, pc)
           \/ \E a \in Answers : Hold(h, a)
    PROVE  /\ HandlersTyped'
           /\ \A g \in Handlers \ {h} : handlers'[g] = handlers[g]
           /\ handlers'[h] = Idle \/ handlers'[h].post = handlers[h].post

  <1> USE ConstantsAssumption
  <1>1. Posts' = Posts
    BY DEF Posts
  <1>2. CASE Return(h)
    <2>1. Idle \in HandlerStates /\ Idle.pc = "idle"
      BY DEF Idle, HandlerStates, Steps, Answers
    <2>2. /\ handlers' \in [Handlers -> HandlerStates] /\ handlers'[h] = Idle
          /\ \A g \in Handlers \ {h} : handlers'[g] = handlers[g]
      BY <1>2, <2>1 DEF Return, TypeOK
    <2> QED
      BY <1>1, <2>1, <2>2 DEF HandlersTyped, Busy, At, Own, TypeOK
  <1>3. handlers \in [Handlers -> HandlerStates]
    BY DEF TypeOK
  <1>4. ASSUME \/ \E pc \in Steps : Goto(h, pc)
               \/ \E a \in Answers : Hold(h, a)
        PROVE  /\ handlers' \in [Handlers -> HandlerStates]
               /\ handlers'[h].post = handlers[h].post
               /\ \A g \in Handlers \ {h} : handlers'[g] = handlers[g]
    <2>1. ASSUME NEW pc \in Steps, Goto(h, pc)
          PROVE  /\ handlers' \in [Handlers -> HandlerStates]
                 /\ handlers'[h].post = handlers[h].post
                 /\ \A g \in Handlers \ {h} : handlers'[g] = handlers[g]
      BY <1>3, <2>1 DEF Goto, HandlerStates
    <2>2. ASSUME NEW a \in Answers, Hold(h, a)
          PROVE  /\ handlers' \in [Handlers -> HandlerStates]
                 /\ handlers'[h].post = handlers[h].post
                 /\ \A g \in Handlers \ {h} : handlers'[g] = handlers[g]
      <3>1. "fill" \in Steps
        BY DEF Steps
      <3> QED
        BY <1>3, <2>2, <3>1 DEF Hold, HandlerStates
    <2> QED
      BY <1>4, <2>1, <2>2
  <1>5. CASE ~Return(h)
    BY <1>1, <1>4, <1>5 DEF HandlersTyped, Busy, At, Own, TypeOK
  <1> QED
    BY <1>2, <1>5

\* A message is judged, deleted or reported and the others stay as they are.
LEMMA PostUpdated ==
    ASSUME TypeOK, NEW i \in Posts, NEW new \in Messages, posts' = [posts EXCEPT ![i] = new]
    PROVE  /\ posts' \in Seq(Messages) /\ Len(posts') = Len(posts) /\ Posts' = Posts
           /\ posts'[i] = new
           /\ \A p \in Posts : p # i => posts'[p] = posts[p]
  <1>1. posts \in Seq(Messages) /\ i \in 1..Len(posts)
    BY DEF TypeOK, Posts
  <1>2. posts' \in Seq(Messages) /\ Len(posts') = Len(posts)
    BY <1>1
  <1> QED
    BY <1>1, <1>2 DEF Posts

LEMMA MessageUpdated ==
    ASSUME TypeOK, NEW i \in Posts
    PROVE  /\ \A v \in {"series", "spam", "not_spam"} :
                /\ [posts[i] EXCEPT !.verdict = v] \in Messages
                /\ [posts[i] EXCEPT !.verdict = v].verdict = v
                /\ [posts EXCEPT ![i].verdict = v]
                     = [posts EXCEPT ![i] = [posts[i] EXCEPT !.verdict = v]]
           /\ \A b \in BOOLEAN :
                /\ [posts[i] EXCEPT !.gone = b] \in Messages
                /\ [posts[i] EXCEPT !.gone = b].verdict = posts[i].verdict
                /\ [posts EXCEPT ![i].gone = b]
                     = [posts EXCEPT ![i] = [posts[i] EXCEPT !.gone = b]]
                /\ [posts[i] EXCEPT !.reported = b] \in Messages
                /\ [posts[i] EXCEPT !.reported = b].verdict = posts[i].verdict
                /\ [posts EXCEPT ![i].reported = b]
                     = [posts EXCEPT ![i] = [posts[i] EXCEPT !.reported = b]]
  <1>1. posts \in Seq(Messages) /\ posts[i] \in Messages
    BY DEF TypeOK, Posts
  <1>2. ASSUME NEW v \in {"series", "spam", "not_spam"}
        PROVE  /\ [posts[i] EXCEPT !.verdict = v] \in Messages
               /\ [posts[i] EXCEPT !.verdict = v].verdict = v
    BY <1>1 DEF Messages
  <1>3. ASSUME NEW b \in BOOLEAN
        PROVE  /\ [posts[i] EXCEPT !.gone = b] \in Messages
               /\ [posts[i] EXCEPT !.gone = b].verdict = posts[i].verdict
               /\ [posts[i] EXCEPT !.reported = b] \in Messages
               /\ [posts[i] EXCEPT !.reported = b].verdict = posts[i].verdict
    BY <1>1 DEF Messages
  <1> QED
    BY <1>2, <1>3

\* What becomes of a message leaves the verdicts as they are.
LEMMA VerdictsStay ==
    ASSUME TypeOK, NEW i \in Posts, NEW b \in BOOLEAN,
           \/ posts' = [posts EXCEPT ![i].gone = b]
           \/ posts' = [posts EXCEPT ![i].reported = b]
    PROVE  /\ posts' \in Seq(Messages) /\ Len(posts') = Len(posts)
           /\ \A p \in Posts : posts'[p].verdict = posts[p].verdict
  <1>1. PICK new \in Messages : /\ posts' = [posts EXCEPT ![i] = new]
                                /\ new.verdict = posts[i].verdict
    <2>1. CASE posts' = [posts EXCEPT ![i].gone = b]
      <3> DEFINE new == [posts[i] EXCEPT !.gone = b]
      <3>1. new \in Messages /\ new.verdict = posts[i].verdict
        BY MessageUpdated
      <3>2. posts' = [posts EXCEPT ![i] = new]
        BY <2>1, MessageUpdated
      <3> HIDE DEF new
      <3> QED
        BY <3>1, <3>2
    <2>2. CASE posts' = [posts EXCEPT ![i].reported = b]
      <3> DEFINE new == [posts[i] EXCEPT !.reported = b]
      <3>1. new \in Messages /\ new.verdict = posts[i].verdict
        BY MessageUpdated
      <3>2. posts' = [posts EXCEPT ![i] = new]
        BY <2>2, MessageUpdated
      <3> HIDE DEF new
      <3> QED
        BY <3>1, <3>2
    <2> QED
      BY <2>1, <2>2
  <1>2. /\ posts' \in Seq(Messages) /\ Len(posts') = Len(posts)
        /\ posts'[i] = new
        /\ \A p \in Posts : p # i => posts'[p] = posts[p]
    BY <1>1, PostUpdated
  <1>3. ASSUME NEW p \in Posts PROVE posts'[p].verdict = posts[p].verdict
    <2>1. CASE p = i
      BY <1>1, <1>2, <2>1
    <2>2. CASE p # i
      BY <1>2, <2>2
    <2> QED
      BY <2>1, <2>2
  <1> QED
    BY <1>2, <1>3

-----------------------------------------------------------------------------
(* A step of a handler                                                     *)

SameVerdict(p) == posts'[p].verdict = posts[p].verdict

\* What a step of a handler does to its message and where it goes: verdicts are
\* given by handlers that have not judged yet, and lead to "mode" if to anywhere.
Step(h) ==
    /\ Busy(h)
    /\ posts' \in Seq(Messages) /\ Len(posts') = Len(posts) /\ next' = next
    /\ \A p \in Posts : p # Own(h) => SameVerdict(p)
    /\ \/ Return(h) /\ (handlers[h].pc \in Unjudged \/ SameVerdict(Own(h)))
       \/ /\ handlers[h].pc \in Unjudged /\ SameVerdict(Own(h))
          /\ \/ \E pc \in Unjudged : Goto(h, pc)
             \/ \E a \in Answers : Hold(h, a)
       \/ /\ handlers[h].pc \in Unjudged /\ posts'[Own(h)].verdict = "spam"
          /\ Goto(h, "mode")
       \/ /\ handlers[h].pc \notin Unjudged /\ SameVerdict(Own(h))
          /\ \E pc \in Steps \ (Unjudged \cup {"idle", "mode"}) : Goto(h, pc)

LEMMA JudgeIsStep ==
    ASSUME TypeOK, NEW h \in Handlers, handlers[h].pc \in Unjudged, next' = next,
           NEW a \in Answers, Judge(h, a)
    PROVE  Step(h)
  <1> DEFINE i == Own(h)
             v == IF IsSpam(a) THEN "spam" ELSE "not_spam"
  <1>1. i \in Posts /\ Busy(h)
    BY DEF TypeOK, Busy, At, Unjudged, Own
  <1>2. v \in {"series", "spam", "not_spam"}
    OBVIOUS
  <1>3. posts' = [posts EXCEPT ![i].verdict = v] /\ GotoIf(IsSpam(a), h, "mode")
    BY DEF Judge, Own
  <1>4. IsSpam(a) => v = "spam"
    OBVIOUS
  <1> HIDE DEF i, v
  <1>5. /\ posts' \in Seq(Messages) /\ Len(posts') = Len(posts) /\ posts'[i].verdict = v
        /\ \A p \in Posts : p # i => posts'[p] = posts[p]
    BY <1>1, <1>2, <1>3, MessageUpdated, PostUpdated
  <1>6. CASE IsSpam(a)
    BY <1>1, <1>3, <1>4, <1>5, <1>6 DEF Step, SameVerdict, GotoIf, i
  <1>7. CASE ~IsSpam(a)
    BY <1>1, <1>3, <1>5, <1>7 DEF Step, SameVerdict, GotoIf, i
  <1> QED
    BY <1>6, <1>7

LEMMA HandleIsStep ==
    ASSUME TypeOK, NEW h \in Handlers, Handle(h)
    PROVE  Step(h)
  <1>1. Busy(h) /\ Own(h) \in Posts
    <2>1. Busy(h)
      BY DEF Handle, Detect, Moderate, CheckExempt, CheckFlood, LookupAnswer, Ask, FillCache,
             GetMode, MarkWarned, ClearMark, GetTarget, DeleteSpam, Warn, BanSpammer,
             UnbanSpammer, NotifyAdmin, Busy, At
    <2> QED
      BY <2>1 DEF TypeOK, Busy, At, Own
  <1>2. /\ posts \in Seq(Messages)
        /\ posts[Own(h)] \in Messages
    BY <1>1 DEF TypeOK, Posts
  <1>3. CASE CheckExempt(h)
    BY <1>1, <1>2, <1>3
    DEF CheckExempt, GotoIf, At, Step, SameVerdict, Unjudged, user
  <1>4. CASE CheckFlood(h)
    <2>1. CASE posts' = [posts EXCEPT ![Own(h)].verdict = "series"]
      <3>1. /\ posts' \in Seq(Messages) /\ Len(posts') = Len(posts)
            /\ \A p \in Posts : p # Own(h) => posts'[p] = posts[p]
        BY <1>1, <2>1, MessageUpdated, PostUpdated
      <3>2. next' = next /\ At(h, "flood")
        BY <1>4 DEF CheckFlood
      <3>3. Return(h) \/ (UNCHANGED posts /\ Goto(h, "lookup"))
        BY <1>4 DEF CheckFlood
      <3> QED
        BY <1>1, <3>1, <3>2, <3>3 DEF At, Step, SameVerdict, Unjudged
    <2>2. CASE UNCHANGED posts
      BY <1>1, <1>2, <1>4, <2>2 DEF CheckFlood, At, Step, SameVerdict, Unjudged
    <2> QED
      BY <1>4, <2>1, <2>2 DEF CheckFlood, Own
  <1>5. CASE LookupAnswer(h)
    <2> DEFINE entry == cache[Message(h).text]
    <2>1. handlers[h].pc \in Unjudged /\ next' = next
      BY <1>5 DEF LookupAnswer, At, Unjudged, user
    <2>2. entry # None => entry.answer \in Answers
      <3>1. Message(h).text \in Texts
        BY <1>2 DEF Message, Messages, Own
      <3> QED
        BY <3>1 DEF TypeOK
    <2>3. (entry # None /\ Judge(h, entry.answer)) \/ (Goto(h, "ask") /\ UNCHANGED posts)
      BY <1>5 DEF LookupAnswer
    <2> HIDE DEF entry
    <2> QED
      BY <1>1, <1>2, <2>1, <2>2, <2>3, JudgeIsStep DEF Step, SameVerdict, Unjudged
  <1>6. CASE Ask(h)
    <2>1. handlers[h].pc \in Unjudged /\ next' = next /\ "unknown" \in Answers
      BY <1>6 DEF Ask, At, Unjudged, user, Answers
    <2>2. CASE Judge(h, "unknown")
      BY <2>1, <2>2, JudgeIsStep
    <2>3. CASE UNCHANGED posts /\ \E a \in Answers : Hold(h, a)
      BY <1>1, <1>2, <2>1, <2>3 DEF Step, SameVerdict
    <2> QED
      BY <1>6, <2>2, <2>3 DEF Ask
  <1>7. CASE FillCache(h)
    <2>1. /\ handlers[h].pc \in Unjudged /\ next' = next
          /\ handlers[h].answer \in Answers /\ Judge(h, handlers[h].answer)
      BY <1>7 DEF FillCache, At, Unjudged, user, TypeOK, HandlerStates
    <2> QED
      BY <2>1, JudgeIsStep
  <1>8. CASE GetMode(h) \/ MarkWarned(h) \/ ClearMark(h) \/ GetTarget(h) \/ Warn(h)
              \/ BanSpammer(h) \/ UnbanSpammer(h)
    BY <1>1, <1>2, <1>8
    DEF GetMode, MarkWarned, ClearMark, GetTarget, Warn, BanSpammer, UnbanSpammer,
        GotoIf, At, Step, SameVerdict, Unjudged, Steps, user
  <1>9. CASE DeleteSpam(h)
    <2>1. /\ At(h, "delete_warn") \/ At(h, "delete_kick")
          /\ next' = next
          /\ \/ Return(h)
             \/ \E pc \in {"warn", "rollback", "ban"} : Goto(h, pc)
      BY <1>9 DEF DeleteSpam, GotoIf, user
    <2>2. PICK b \in BOOLEAN : posts' = [posts EXCEPT ![Own(h)].gone = b]
      BY <1>2, <1>9 DEF DeleteSpam, Delete, Written, Own, Messages
    <2>3. /\ posts' \in Seq(Messages) /\ Len(posts') = Len(posts)
          /\ \A p \in Posts : posts'[p].verdict = posts[p].verdict
      BY <1>1, <2>2, VerdictsStay
    <2> QED
      BY <1>1, <2>1, <2>3 DEF Step, SameVerdict, Unjudged, At, Steps
  <1>10. CASE NotifyAdmin(h)
    <2>1. At(h, "notify") /\ next' = next /\ Return(h)
      BY <1>10 DEF NotifyAdmin, user
    <2>2. PICK b \in BOOLEAN : posts' = [posts EXCEPT ![Own(h)].reported = b]
      BY <1>2, <1>10 DEF NotifyAdmin, Written, Own, Messages
    <2>3. /\ posts' \in Seq(Messages) /\ Len(posts') = Len(posts)
          /\ \A p \in Posts : posts'[p].verdict = posts[p].verdict
      BY <1>1, <2>2, VerdictsStay
    <2> QED
      BY <1>1, <2>1, <2>3 DEF Step, SameVerdict, Unjudged
  <1> QED
    BY <1>3, <1>4, <1>5, <1>6, <1>7, <1>8, <1>9, <1>10 DEF Handle, Detect, Moderate

\* Where a step leaves the handler.
LEMMA StepMoves ==
    ASSUME TypeOK, NEW h \in Handlers, Step(h)
    PROVE  /\ HandlersTyped' /\ Posts' = Posts
           /\ \A g \in Handlers \ {h} : handlers'[g] = handlers[g]
           /\ \/ handlers'[h] = Idle
              \/ /\ Own(h)' = Own(h) /\ Busy(h)'
                 /\ posts'[Own(h)].verdict =
                      IF handlers'[h].pc \in Unjudged THEN posts[Own(h)].verdict
                      ELSE IF handlers[h].pc \in Unjudged THEN "spam"
                      ELSE posts[Own(h)].verdict
                 /\ handlers'[h].pc \in Unjudged => handlers[h].pc \in Unjudged
                 /\ handlers'[h].pc = "mode" => handlers[h].pc \in Unjudged
  <1>1. Posts' = Posts
    BY DEF Step, Posts
  <1>2. /\ HandlersTyped'
        /\ \A g \in Handlers \ {h} : handlers'[g] = handlers[g]
        /\ handlers'[h] = Idle \/ handlers'[h].post = handlers[h].post
    BY HandlerMoves DEF Step, Unjudged, Steps
  <1>3. CASE Return(h)
    BY <1>1, <1>2, <1>3 DEF Return, TypeOK
  <1>4. ASSUME NEW pc \in Steps \ {"idle"}, Goto(h, pc)
        PROVE  handlers'[h].pc = pc /\ Busy(h)' /\ Own(h)' = Own(h)
    <2>1. handlers \in [Handlers -> HandlerStates]
      BY DEF TypeOK
    <2> QED
      BY <1>4, <2>1 DEF Goto, Busy, At, Own, HandlerStates
  <1>5. ASSUME NEW a \in Answers, Hold(h, a)
        PROVE  handlers'[h].pc = "fill" /\ Busy(h)' /\ Own(h)' = Own(h)
    <2>1. handlers \in [Handlers -> HandlerStates]
      BY DEF TypeOK
    <2> QED
      BY <1>5, <2>1 DEF Hold, Busy, At, Own, HandlerStates
  <1>6. CASE \/ \E pc \in Unjudged : Goto(h, pc)
             \/ \E a \in Answers : Hold(h, a)
    <2>1. Unjudged \subseteq Steps \ {"idle"} /\ "fill" \in Unjudged
      BY DEF Unjudged, Steps
    <2>2. handlers'[h].pc \in Unjudged /\ Busy(h)' /\ Own(h)' = Own(h)
      BY <1>4, <1>5, <1>6, <2>1
    <2>3. CASE handlers[h].pc \in Unjudged /\ SameVerdict(Own(h))
      BY <1>1, <1>2, <2>2, <2>3 DEF SameVerdict, Unjudged
    <2>4. CASE Return(h)
      BY <1>3, <2>4
    <2>5. CASE Goto(h, "mode")
      <3>1. handlers'[h].pc = "mode"
        BY <1>4, <2>5 DEF Steps
      <3> QED
        BY <2>2, <3>1 DEF Unjudged
    <2>6. CASE \E pc \in Steps \ (Unjudged \cup {"idle", "mode"}) : Goto(h, pc)
      BY <1>4, <2>2, <2>6
    <2> QED
      BY <2>3, <2>4, <2>5, <2>6 DEF Step
  <1>7. CASE handlers[h].pc \in Unjudged /\ posts'[Own(h)].verdict = "spam" /\ Goto(h, "mode")
    <2>1. handlers'[h].pc = "mode" /\ Busy(h)' /\ Own(h)' = Own(h)
      BY <1>4, <1>7 DEF Steps
    <2> QED
      BY <1>1, <1>2, <1>7, <2>1 DEF Unjudged
  <1>8. CASE /\ handlers[h].pc \notin Unjudged /\ SameVerdict(Own(h))
             /\ \E pc \in Steps \ (Unjudged \cup {"idle", "mode"}) : Goto(h, pc)
    <2>1. /\ handlers'[h].pc \notin Unjudged \cup {"mode"} /\ Busy(h)'
          /\ Own(h)' = Own(h)
      BY <1>4, <1>8
    <2> QED
      BY <1>1, <1>2, <1>8, <2>1 DEF SameVerdict
  <1> QED
    BY <1>3, <1>6, <1>7, <1>8 DEF Step

LEMMA OrderByStep ==
    ASSUME TypeOK, HandlersInOrder, NEW h \in Handlers, Step(h)
    PROVE  HandlersInOrder'
  <1>1. /\ Posts' = Posts /\ next' = next /\ Own(h) \in Posts /\ Own(h) < next /\ Busy(h)
        /\ \A p \in Posts : p # Own(h) => posts'[p].verdict = posts[p].verdict
    BY StepMoves DEF Step, SameVerdict, HandlersInOrder
  <1>2. ASSUME NEW g \in Handlers \ {h}
        PROVE  Own(g)' = Own(g) /\ Busy(g)' = Busy(g) /\ handlers'[g].pc = handlers[g].pc
    BY StepMoves DEF Own, Busy, At
  <1>3. Busy(h)' => Own(h)' = Own(h)
    BY StepMoves DEF Idle, Busy, At
  <1>4. ASSUME NEW g \in Handlers, Busy(g)'
        PROVE  /\ Own(g)' \in Posts' /\ Own(g)' < next'
               /\ posts'[Own(g)'].verdict =
                    IF handlers'[g].pc \in Unjudged THEN "none" ELSE "spam"
    <2>1. CASE g = h
      <3>1. handlers'[h] # Idle
        BY <1>4, <2>1 DEF Busy, At, Idle
      <3>2. /\ posts[Own(h)].verdict = IF handlers[h].pc \in Unjudged THEN "none" ELSE "spam"
        BY <1>1 DEF HandlersInOrder
      <3> QED
        BY <1>1, <1>3, <1>4, <2>1, <3>1, <3>2, StepMoves
    <2>2. CASE g # h
      <3>1. /\ Busy(g) /\ Own(g) \in Posts /\ Own(g) < next /\ Own(g) # Own(h)
            /\ posts[Own(g)].verdict = IF handlers[g].pc \in Unjudged THEN "none" ELSE "spam"
        BY <1>1, <1>2, <1>4, <2>2 DEF HandlersInOrder
      <3> QED
        BY <1>1, <1>2, <2>2, <3>1
    <2> QED
      BY <2>1, <2>2
  <1>5. ASSUME NEW g \in Handlers, NEW k \in Handlers, Busy(g)', Busy(k)', g # k
        PROVE  Own(g)' # Own(k)'
    BY <1>1, <1>2, <1>3, <1>5 DEF HandlersInOrder
  <1>6. \A p \in Posts' : posts'[p].verdict # "none" => p < next'
    BY <1>1 DEF HandlersInOrder
  <1> QED
    BY <1>4, <1>5, <1>6 DEF HandlersInOrder

\* The mark: who sets it has just been at "mark" with a message that is spam.
LEMMA MarkByHandle ==
    ASSUME NEW h \in Handlers, Handle(h), mark = None, mark' # None
    PROVE  At(h, "mark") /\ (Goto(h, "delete_warn") \/ Return(h))
  <1>1. MarkWarned(h)
    BY DEF Handle, Detect, Moderate, CheckExempt, CheckFlood, LookupAnswer, Ask, FillCache,
           GetMode, ClearMark, GetTarget, DeleteSpam, Warn, BanSpammer, UnbanSpammer,
           NotifyAdmin, Written, user
  <1> QED
    BY <1>1 DEF MarkWarned, GotoIf

\* The kick: who decides on it has found a mark, or goes on with one.
LEMMA KickByHandle ==
    ASSUME TypeOK, NEW h \in Handlers, Handle(h), Kicking(h)'
    PROVE  Kicking(h) \/ (At(h, "mark") /\ mark # None)
  <1>1. handlers \in [Handlers -> HandlerStates]
    BY DEF TypeOK
  <1>2. \A pc \in Steps : Goto(h, pc) => handlers'[h].pc = pc
    BY <1>1 DEF Goto, HandlerStates
  <1>3. Return(h) => handlers'[h].pc = "idle"
    BY <1>1 DEF Return, Idle
  <1>4. \A a \in Answers : Hold(h, a) => handlers'[h].pc = "fill"
    BY <1>1 DEF Hold
  <1>5. \E pc \in {"delete_kick", "ban"} : Goto(h, pc)
    <2>1. Step(h)
      BY HandleIsStep
    <2>2. Unjudged \cap {"delete_kick", "ban"} = {} /\ Unjudged \subseteq Steps /\ "mode" \in Steps
      BY DEF Unjudged, Steps
    <2>3. ~Return(h) /\ \A a \in Answers : ~Hold(h, a)
      BY <1>3, <1>4 DEF Kicking
    <2>4. \A pc \in Steps : Goto(h, pc) => pc \in {"delete_kick", "ban"}
      BY <1>2 DEF Kicking
    <2> QED
      BY <2>1, <2>2, <2>3, <2>4 DEF Step
  <1>6. CASE Kicking(h)
    BY <1>6
  <1>7. CASE ~Kicking(h)
    <2>1. (At(h, "mark") /\ Goto(h, "delete_kick")) \/ MarkWarned(h)
      <3>1. \A pc \in Steps : Goto(h, pc) => pc \in {"delete_kick", "ban"}
        BY <1>2 DEF Kicking
      <3>2. ~Return(h) /\ \A a \in Answers : ~Hold(h, a)
        BY <1>3, <1>4 DEF Kicking
      <3>3. /\ ~Goto(h, "flood") /\ ~Goto(h, "lookup") /\ ~Goto(h, "ask") /\ ~Goto(h, "mode")
            /\ ~Goto(h, "mark") /\ ~Goto(h, "target") /\ ~Goto(h, "notify")
            /\ ~Goto(h, "warn") /\ ~Goto(h, "rollback") /\ ~Goto(h, "unban")
        BY <3>1 DEF Steps
      <3> QED
        BY <1>7, <3>2, <3>3
        DEF Handle, Detect, Moderate, CheckExempt, CheckFlood, LookupAnswer, Ask, FillCache, Judge,
            GetMode, ClearMark, GetTarget, DeleteSpam, Warn, BanSpammer, UnbanSpammer,
            NotifyAdmin, GotoIf, Kicking, At, Answers
    <2>2. ~At(h, "mark") => ~MarkWarned(h)
      BY DEF MarkWarned
    <2>3. MarkWarned(h)
      BY <1>3, <1>7, <2>1, <2>2
      DEF Handle, Detect, Moderate, CheckExempt, CheckFlood, LookupAnswer, Ask, FillCache,
          GetMode, ClearMark, GetTarget, DeleteSpam, Warn, BanSpammer, UnbanSpammer,
          NotifyAdmin, At
    <2>4. mark = None => Goto(h, "delete_warn") \/ Return(h)
      BY <2>3 DEF MarkWarned, GotoIf
    <2>5. ~Goto(h, "delete_warn") /\ ~Return(h)
      BY <1>2, <1>3 DEF Kicking, Steps
    <2> QED
      BY <2>3, <2>4, <2>5 DEF MarkWarned
  <1> QED
    BY <1>6, <1>7

LEMMA MarkIsReached ==
    ASSUME TypeOK, NEW h \in Handlers, Handle(h), At(h, "mark")'
    PROVE  At(h, "mode")
  <1>1. handlers \in [Handlers -> HandlerStates]
    BY DEF TypeOK
  <1>2. \A pc \in Steps : Goto(h, pc) => pc = "mark"
    BY <1>1 DEF Goto, HandlerStates, At
  <1>3. ~Return(h) /\ \A a \in Answers : ~Hold(h, a)
    BY <1>1 DEF Return, Idle, Hold, At
  <1>4. /\ ~Goto(h, "flood") /\ ~Goto(h, "lookup") /\ ~Goto(h, "ask") /\ ~Goto(h, "mode")
        /\ ~Goto(h, "delete_warn") /\ ~Goto(h, "delete_kick") /\ ~Goto(h, "notify")
        /\ ~Goto(h, "warn") /\ ~Goto(h, "rollback") /\ ~Goto(h, "ban") /\ ~Goto(h, "unban")
    BY <1>2 DEF Steps
  <1> QED
    BY <1>3, <1>4
    DEF Handle, Detect, Moderate, CheckExempt, CheckFlood, LookupAnswer, Ask, FillCache, Judge,
        GetMode, MarkWarned, ClearMark, GetTarget, DeleteSpam, Warn, BanSpammer, UnbanSpammer,
        NotifyAdmin, GotoIf, At

LEMMA EarnedByHandle ==
    ASSUME IInv, NEW h \in Handlers, Handle(h)
    PROVE  MarkIsEarned'
  <1> USE DEF IInv
  <1>1. Step(h)
    BY HandleIsStep
  <1>2. /\ Posts' = Posts /\ Own(h) \in Posts /\ Busy(h)
        /\ \A p \in Posts : p # Own(h) => posts'[p].verdict = posts[p].verdict
        /\ \A g \in Handlers \ {h} : handlers'[g] = handlers[g]
    BY <1>1, StepMoves DEF Step, SameVerdict, HandlersInOrder
  <1>3. ASSUME NEW p \in Posts, Spam(p)
        PROVE  Spam(p)'
    <2>1. CASE p # Own(h)
      BY <1>2, <1>3, <2>1 DEF Spam
    <2>2. CASE p = Own(h)
      <3>1. handlers[h].pc \notin Unjudged
        BY <1>2, <1>3, <2>2 DEF Spam, HandlersInOrder
      <3>2. SameVerdict(Own(h))
        BY <1>1, <3>1 DEF Step
      <3> QED
        BY <1>2, <1>3, <2>2, <3>2 DEF Spam, SameVerdict
    <2> QED
      BY <2>1, <2>2
  <1>4. ASSUME mark' # None
        PROVE  \E p \in Posts' : /\ Spam(p)'
                                 /\ \A g \in Handlers :
                                      At(g, "mode")' \/ At(g, "mark")' => Own(g)' # p
    <2>1. CASE mark = None
      <3>1. At(h, "mark") /\ (Goto(h, "delete_warn") \/ Return(h))
        BY <1>4, <2>1, MarkByHandle
      <3>2. Spam(Own(h))
        BY <1>2, <3>1 DEF HandlersInOrder, Unjudged, At, Spam
      <3>3. ~At(h, "mode")' /\ ~At(h, "mark")'
        BY <3>1 DEF Goto, Return, Idle, At, TypeOK, HandlerStates
      <3>4. \A g \in Handlers \ {h} : Busy(g)' => Own(g)' # Own(h)
        BY <1>2 DEF HandlersInOrder, Busy, At, Own
      <3> QED
        BY <1>2, <1>3, <3>2, <3>3, <3>4 DEF At, Busy
    <2>2. CASE mark # None
      <3>1. PICK p \in Posts : /\ Spam(p)
                               /\ \A g \in Handlers :
                                    At(g, "mode") \/ At(g, "mark") => Own(g) # p
        BY <2>2 DEF MarkIsEarned
      <3>2. ASSUME At(h, "mode")' \/ At(h, "mark")'
            PROVE  Own(h)' # p
        <4>1. Own(h)' = Own(h)
          BY <1>1, <3>2, StepMoves DEF At, Idle
        <4>2. CASE handlers[h].pc \in Unjudged
          <5>1. ~Spam(Own(h))
            BY <1>2, <4>2 DEF HandlersInOrder, Spam
          <5> QED
            BY <3>1, <4>1, <5>1
        <4>3. CASE At(h, "mode") \/ At(h, "mark")
          BY <3>1, <4>1, <4>3
        <4>4. CASE handlers[h].pc \notin Unjudged /\ ~At(h, "mode") /\ ~At(h, "mark")
          <5>1. ~At(h, "mark")'
            BY <4>4, MarkIsReached
          <5>2. ~At(h, "mode")'
            BY <1>1, <4>4, StepMoves DEF At, Idle
          <5> QED
            BY <3>2, <5>1, <5>2
        <4> QED
          BY <4>2, <4>3, <4>4
      <3>3. \A g \in Handlers \ {h} : At(g, "mode")' \/ At(g, "mark")' => Own(g)' # p
        BY <1>2, <3>1 DEF At, Own
      <3> QED
        BY <1>2, <1>3, <3>1, <3>2, <3>3
    <2> QED
      BY <2>1, <2>2
  <1>5. ASSUME NEW g \in Handlers, Kicking(g)'
        PROVE  \E p \in Posts' \ {Own(g)'} : Spam(p)'
    <2>1. CASE g = h
      <3>1. Own(h)' = Own(h)
        BY <1>1, <1>5, <2>1, StepMoves DEF Kicking, Idle
      <3>2. \E p \in Posts \ {Own(h)} : Spam(p)
        BY <1>5, <2>1, KickByHandle DEF MarkIsEarned
      <3> QED
        BY <1>2, <1>3, <2>1, <3>1, <3>2
    <2>2. CASE g # h
      <3>1. Kicking(g) /\ Own(g)' = Own(g)
        BY <1>2, <1>5, <2>2 DEF Kicking, Own
      <3> QED
        BY <1>2, <1>3, <3>1 DEF MarkIsEarned
    <2> QED
      BY <2>1, <2>2
  <1> QED
    BY <1>4, <1>5 DEF MarkIsEarned

\* The keys and histories a step of a handler writes keep their types.
KeysTyped ==
    /\ member \in {"in", "out", "banned"}
    /\ mark \in {None} \cup 0..(MarkTTL - 1)
    /\ cache \in [Texts -> {None} \cup [answer : Answers, age : 0..(CacheTTL - 1)]]
    /\ delivered \in BOOLEAN
    /\ trouble \subseteq {"telegram", "redis", "restart", "overlap", "flood"}

LEMMA KeysByHandle ==
    ASSUME TypeOK, NEW h \in Handlers, Handle(h)
    PROVE  KeysTyped' /\ admin' = admin /\ mode' = mode
  <1> USE ConstantsAssumption
  <1>1. KeysTyped
    BY DEF TypeOK, KeysTyped
  <1>2. CASE \/ CheckExempt(h) \/ LookupAnswer(h) \/ Ask(h)
             \/ GetMode(h) \/ GetTarget(h) \/ DeleteSpam(h) \/ NotifyAdmin(h)
    BY <1>1, <1>2 DEF CheckExempt, LookupAnswer, Ask, GetMode, GetTarget, DeleteSpam,
                      NotifyAdmin, Blame, KeysTyped, user
  <1>3. CASE CheckFlood(h)
    BY <1>1, <1>3 DEF CheckFlood, KeysTyped
  <1>4. CASE FillCache(h)
    <2> DEFINE text == Message(h).text
               new  == [answer |-> handlers[h].answer, age |-> 0]
    <2>1. UNCHANGED <<member, mark, delivered, trouble, admin, mode>>
      BY <1>4 DEF FillCache, user
    <2>2. text \in Texts
      <3>1. handlers[h].post \in Posts
        BY <1>4 DEF FillCache, At, TypeOK
      <3>2. posts[handlers[h].post] \in Messages
        BY <3>1 DEF TypeOK, Posts
      <3> QED
        BY <3>2 DEF Message, Messages
    <2>3. new \in [answer : Answers, age : 0..(CacheTTL - 1)]
      BY DEF TypeOK, HandlerStates
    <2>4. PICK o : cache' = [cache EXCEPT ![text] = Written(o, @, new)]
      BY <1>4 DEF FillCache
    <2> HIDE DEF text, new
    <2>5. cache' \in [Texts -> {None} \cup [answer : Answers, age : 0..(CacheTTL - 1)]]
      BY <1>1, <2>2, <2>3, <2>4 DEF KeysTyped, Written
    <2> QED
      BY <1>1, <2>1, <2>5 DEF KeysTyped
  <1>5. CASE MarkWarned(h)
    BY <1>1, <1>5 DEF MarkWarned, Written, Blame, KeysTyped, user
  <1>6. CASE Warn(h) \/ ClearMark(h)
    BY <1>1, <1>6 DEF Warn, ClearMark, Written, Blame, KeysTyped, user
  <1>7. CASE BanSpammer(h) \/ UnbanSpammer(h)
    BY <1>1, <1>7 DEF BanSpammer, UnbanSpammer, Written, Blame, KeysTyped
  <1> QED
    BY <1>2, <1>3, <1>4, <1>5, <1>6, <1>7 DEF Handle, Detect, Moderate

LEMMA HandleInvariant ==
    ASSUME IInv, NEW h \in Handlers, Handle(h)
    PROVE  IInv'
  <1> USE DEF IInv
  <1>1. Step(h)
    BY HandleIsStep
  <1>2. /\ HandlersTyped' /\ posts' \in Seq(Messages) /\ Len(posts') = Len(posts)
        /\ next' = next
    BY <1>1, StepMoves DEF Step
  <1>3. KeysTyped' /\ admin' = admin /\ mode' = mode
    BY KeysByHandle
  <1>4. TypeOK'
    BY <1>2, <1>3 DEF TypeOK, HandlersTyped, KeysTyped, Busy, At, Own
  <1> QED
    BY <1>1, <1>4, OrderByStep, EarnedByHandle

-----------------------------------------------------------------------------
(* The dispatcher, the user, the process and the clock                     *)

\* What the handlers hold and the mark depend on nothing else.
LEMMA UnchangedParts ==
    ASSUME HandlersInOrder, MarkIsEarned, UNCHANGED <<next, handlers>>,
           Posts' = Posts, \A p \in Posts : posts'[p].verdict = posts[p].verdict,
           mark' # None => mark # None
    PROVE  HandlersInOrder' /\ MarkIsEarned'
  <1>1. HandlersInOrder'
    BY DEF HandlersInOrder, Busy, At, Own
  <1>2. MarkIsEarned'
    BY DEF MarkIsEarned, Spam, Kicking, At, Own
  <1> QED
    BY <1>1, <1>2

LEMMA DispatchInvariant ==
    ASSUME IInv, NEW h \in Handlers, Dispatch(h)
    PROVE  IInv'
  <1> USE DEF IInv
  <1> DEFINE new == [pc |-> "exempt", post |-> next, answer |-> "unknown"]
  <1>1. /\ At(h, "idle") /\ next \in Posts /\ next' = next + 1
        /\ handlers' = [handlers EXCEPT ![h] = new]
        /\ UNCHANGED <<posts, member, admin, mode, mark, cache, delivered>>
        /\ trouble' \in {trouble, trouble \cup {"overlap"}}
    BY DEF Dispatch, TypeOK, Posts
  <1>2. next \in 0..MaxPosts
    BY <1>1, ConstantsAssumption DEF TypeOK, Posts
  <1>3. new \in HandlerStates /\ new.pc = "exempt" /\ new.post = next
    BY <1>2 DEF HandlerStates, Steps, Answers
  <1> HIDE DEF new
  <1>4. /\ handlers' \in [Handlers -> HandlerStates] /\ handlers'[h] = new
        /\ \A g \in Handlers \ {h} : handlers'[g] = handlers[g]
        /\ Posts' = Posts /\ next \in Nat
    BY <1>1, <1>3 DEF TypeOK, Posts
  <1>5. TypeOK'
    BY <1>1, <1>3, <1>4 DEF TypeOK, Posts
  <1>6. posts[next].verdict = "none"
    BY <1>1, <1>4 DEF HandlersInOrder
  <1>7. /\ Busy(h)' /\ Own(h)' = next /\ handlers'[h].pc \in Unjudged
        /\ \A g \in Handlers \ {h} : Busy(g)' = Busy(g) /\ Own(g)' = Own(g)
    BY <1>3, <1>4 DEF Busy, At, Own, Unjudged
  <1>8. \A p \in Posts : p \in Nat
    BY DEF Posts
  <1>9. HandlersInOrder'
    <2>1. ASSUME NEW g \in Handlers, Busy(g)'
          PROVE  /\ Own(g)' \in Posts' /\ Own(g)' < next'
                 /\ posts'[Own(g)'].verdict =
                      IF handlers'[g].pc \in Unjudged THEN "none" ELSE "spam"
      <3>1. CASE g = h
        BY <1>1, <1>4, <1>6, <1>7, <3>1
      <3>2. CASE g # h
        <4>1. /\ Own(g) \in Posts /\ Own(g) < next
              /\ posts[Own(g)].verdict = IF handlers[g].pc \in Unjudged THEN "none" ELSE "spam"
          BY <1>7, <2>1, <3>2 DEF HandlersInOrder
        <4>2. Own(g)' = Own(g) /\ handlers'[g].pc = handlers[g].pc
          BY <1>4, <1>7, <3>2
        <4>3. posts'[Own(g)'] = posts[Own(g)]
          BY <1>1, <4>2
        <4>4. Own(g) \in Nat /\ next \in Nat /\ next' = next + 1
          BY <1>1, <1>4, <1>8, <4>1
        <4>5. Own(g) < next'
          BY <4>1, <4>4
        <4> QED
          BY <1>4, <4>1, <4>2, <4>3, <4>5
      <3> QED
        BY <3>1, <3>2
    <2>2. ASSUME NEW g \in Handlers, NEW k \in Handlers, Busy(g)', Busy(k)', g # k
          PROVE  Own(g)' # Own(k)'
      <3>1. \A i \in Handlers \ {h} : Busy(i) => Own(i) # next
        BY <1>4, <1>8 DEF HandlersInOrder
      <3> QED
        BY <1>7, <2>2, <3>1 DEF HandlersInOrder
    <2>3. \A p \in Posts' : posts'[p].verdict # "none" => p < next'
      BY <1>1, <1>4, <1>8 DEF HandlersInOrder
    <2> QED
      BY <2>1, <2>2, <2>3 DEF HandlersInOrder
  <1>10. MarkIsEarned'
    <2>1. ~At(h, "mode")' /\ ~At(h, "mark")' /\ ~Kicking(h)'
      BY <1>7 DEF At, Kicking, Unjudged
    <2>2. \A p \in Posts : Spam(p)' = Spam(p)
      BY <1>1, <1>4 DEF Spam
    <2> QED
      BY <1>1, <1>4, <1>7, <2>1, <2>2 DEF MarkIsEarned, At, Kicking
  <1> QED
    BY <1>5, <1>9, <1>10

LEMMA PostInvariant ==
    ASSUME IInv, NEW text \in Texts, Post(text)
    PROVE  IInv'
  <1> USE DEF IInv
  <1> DEFINE new == [text |-> text, verdict |-> "none", gone |-> FALSE, reported |-> FALSE]
             n   == Len(posts) + 1
  <1>1. /\ Len(posts) < MaxPosts /\ posts' = Append(posts, new)
        /\ UNCHANGED <<next, member, admin, mode, mark, cache, handlers, delivered, trouble>>
    BY DEF Post, user
  <1>2. new \in Messages /\ new.verdict = "none"
    BY DEF Messages
  <1> HIDE DEF new
  <1>3. /\ posts' \in Seq(Messages) /\ Len(posts') = n /\ n \in Nat
        /\ \A p \in Posts : posts'[p] = posts[p]
        /\ posts'[n] = new
    BY <1>1, <1>2 DEF TypeOK, Posts
  <1>4. Posts' = Posts \cup {n}
    BY <1>3 DEF Posts, TypeOK
  <1>5. TypeOK'
    BY <1>1, <1>3, <1>4, ConstantsAssumption DEF TypeOK, Posts
  <1>6. HandlersInOrder'
    BY <1>1, <1>2, <1>3, <1>4 DEF HandlersInOrder, Busy, At, Own
  <1>7. \A p \in Posts : Spam(p) => Spam(p)'
    BY <1>3, <1>4 DEF Spam
  <1>8. MarkIsEarned'
    BY <1>1, <1>4, <1>7 DEF MarkIsEarned, Kicking, At, Own
  <1> QED
    BY <1>5, <1>6, <1>8

LEMMA RestartInvariant ==
    ASSUME IInv, Restart
    PROVE  IInv'
  <1> USE DEF IInv
  <1>1. /\ UNCHANGED <<posts, next, member, admin, mode, mark, cache, delivered>>
        /\ trouble' = trouble \cup {"restart"}
        /\ handlers' = [h \in Handlers |-> Idle]
    BY DEF Restart, user
  <1>2. Idle \in HandlerStates /\ Idle.pc = "idle"
    BY ConstantsAssumption DEF Idle, HandlerStates, Steps, Answers
  <1>3. \A h \in Handlers : handlers'[h].pc = "idle"
    BY <1>1, <1>2
  <1>4. TypeOK'
    BY <1>1, <1>2, <1>3 DEF TypeOK, Posts
  <1>5. HandlersInOrder'
    BY <1>1, <1>3 DEF HandlersInOrder, Busy, At, Posts
  <1>6. MarkIsEarned'
    BY <1>1, <1>3 DEF MarkIsEarned, Kicking, At, Spam, Posts
  <1> QED
    BY <1>4, <1>5, <1>6

LEMMA TickInvariant ==
    ASSUME IInv, Tick
    PROVE  IInv'
  <1> USE ConstantsAssumption DEF IInv
  <1>1. /\ UNCHANGED <<posts, next, member, admin, mode, handlers, delivered, trouble>>
        /\ mark' = IF mark = None \/ mark = MarkTTL - 1 THEN None ELSE mark + 1
        /\ cache' = [x \in Texts |->
                       IF cache[x] = None \/ cache[x].age = CacheTTL - 1 THEN None
                       ELSE [cache[x] EXCEPT !.age = @ + 1]]
    BY DEF Tick, user
  <1>2. mark' \in {None} \cup 0..(MarkTTL - 1)
    BY <1>1 DEF TypeOK
  <1>3. ASSUME NEW x \in Texts, cache[x] # None, cache[x].age # CacheTTL - 1
        PROVE  [cache[x] EXCEPT !.age = @ + 1] \in [answer : Answers, age : 0..(CacheTTL - 1)]
    <2>1. cache[x] \in [answer : Answers, age : 0..(CacheTTL - 1)]
      BY <1>3 DEF TypeOK
    <2> QED
      BY <1>3, <2>1
  <1>4. cache' \in [Texts -> {None} \cup [answer : Answers, age : 0..(CacheTTL - 1)]]
    BY <1>1, <1>3
  <1>5. Posts' = Posts
    BY <1>1 DEF Posts
  <1>6. TypeOK'
    BY <1>1, <1>2, <1>4, <1>5 DEF TypeOK
  <1> QED
    BY <1>1, <1>5, <1>6, UnchangedParts

LEMMA IInvIsInductive ==
    ASSUME IInv, [Next]_vars
    PROVE  IInv'
  <1> USE DEF IInv
  <1>1. ASSUME NEW p \in Posts, DeletedElsewhere(p)
        PROVE  IInv'
    <2>1. /\ UNCHANGED <<next, member, admin, mode, mark, cache, handlers, delivered, trouble>>
          /\ posts' = [posts EXCEPT ![p].gone = TRUE]
      BY <1>1 DEF DeletedElsewhere, user
    <2>2. /\ posts' \in Seq(Messages) /\ Len(posts') = Len(posts) /\ Posts' = Posts
          /\ \A q \in Posts : posts'[q].verdict = posts[q].verdict
      BY <2>1, MessageUpdated, PostUpdated
    <2>3. TypeOK'
      BY <2>1, <2>2 DEF TypeOK
    <2> QED
      BY <2>1, <2>2, <2>3, UnchangedParts
  <1>2. CASE Rejoin \/ SwitchMode \/ UNCHANGED vars
    <2>1. /\ UNCHANGED <<posts, next, admin, mark, cache, handlers, delivered, trouble>>
          /\ member' \in {"in", "out", "banned"} /\ mode' \in Modes
      BY <1>2 DEF Rejoin, SwitchMode, vars, TypeOK
    <2>2. Posts' = Posts
      BY <2>1 DEF Posts
    <2>3. TypeOK'
      BY <2>1, <2>2 DEF TypeOK
    <2> QED
      BY <2>1, <2>2, <2>3, UnchangedParts
  <1> QED
    BY <1>1, <1>2, DispatchInvariant, HandleInvariant, PostInvariant, RestartInvariant,
       TickInvariant DEF Next

LEMMA InitInvariant ==
    ASSUME Init
    PROVE  IInv
  <1> USE ConstantsAssumption
  <1>1. posts \in Seq(Messages) /\ Len(posts) = 0 /\ Posts = {}
    BY DEF Posts, Init
  <1>2. Idle \in HandlerStates /\ Idle.pc = "idle"
    BY DEF Idle, HandlerStates, Steps, Answers
  <1>3. /\ handlers \in [Handlers -> HandlerStates]
        /\ \A h \in Handlers : handlers[h].pc = "idle"
    BY <1>2 DEF Init
  <1>4. cache \in [Texts -> {None} \cup [answer : Answers, age : 0..(CacheTTL - 1)]]
    BY DEF Init
  <1>5. TypeOK
    <2>1. /\ next = 1 /\ member = "in" /\ admin \in BOOLEAN /\ mode \in Modes
          /\ mark = None /\ delivered = FALSE /\ trouble = {}
      BY DEF Init
    <2>2. Len(posts) <= MaxPosts /\ next \in 1..(Len(posts) + 1)
      BY <1>1, <2>1
    <2>3. \A h \in Handlers : handlers[h].pc # "idle" => handlers[h].post \in Posts
      BY <1>3
    <2>4. trouble \subseteq {"telegram", "redis", "restart", "overlap", "flood"}
      BY <2>1
    <2> QED
      BY <1>1, <1>3, <1>4, <2>1, <2>2, <2>3, <2>4 DEF TypeOK
  <1>6. HandlersInOrder /\ MarkIsEarned
    BY <1>1, <1>3 DEF HandlersInOrder, MarkIsEarned, Busy, Kicking, At, Init
  <1> QED
    BY <1>5, <1>6 DEF IInv

LEMMA InvariantHolds == Spec => []IInv
  BY InitInvariant, IInvIsInductive, PTL DEF Spec

\* Types are kept whatever fails; every handler that works holds a message
\* that was posted.
THEOREM TypesAreKept == Spec => []TypeOK
  <1>1. IInv => TypeOK
    BY DEF IInv
  <1> QED
    BY <1>1, InvariantHolds, PTL

\* A handler that goes on to the ban has found a mark, and no mark is set for
\* the message it holds.
THEOREM KicksAreRepeated == Spec => KickIsRepeat
  <1>1. ASSUME IInv, IInv', [Next]_vars, NEW h \in Handlers,
               At(h, "ban"), handlers'[h].pc = "unban"
        PROVE  \E p \in Posts \ {handlers[h].post} : posts[p].verdict = "spam"
    BY <1>1 DEF IInv, MarkIsEarned, Kicking, At, Spam, Own
  <1>2. IInv /\ IInv' /\ [Next]_vars =>
          [\A h \in Handlers :
             At(h, "ban") /\ handlers'[h].pc = "unban" =>
               \E p \in Posts \ {handlers[h].post} : posts[p].verdict = "spam"]_vars
    BY <1>1
  <1> QED
    BY <1>2, InvariantHolds, PTL DEF Spec, KickIsRepeat

-----------------------------------------------------------------------------
(* What holds until something goes wrong                                   *)

OneAtATime ==
    "overlap" \notin trouble => \A g, h \in Handlers : Busy(g) /\ Busy(h) => g = h

\* A mark stands for a warning that was displayed, or its handler is still busy
\* with it.
MarkIsAttended ==
    mark # None /\ trouble \subseteq {"telegram", "overlap", "flood"} =>
        delivered \/ \E h \in Handlers : Marking(h)

\* A user is banned only until the handler lifts it.
BanIsAttended ==
    member = "banned" /\ trouble \subseteq {"redis", "overlap"} =>
        \E h \in Handlers : At(h, "unban")

Attended == OneAtATime /\ MarkIsAttended /\ BanIsAttended

LEMMA TroubleStays ==
    ASSUME [Next]_vars
    PROVE  trouble \subseteq trouble'
  <1>1. ASSUME NEW h \in Handlers, Handle(h)
        PROVE  trouble \subseteq trouble'
    BY <1>1 DEF Handle, Detect, Moderate, CheckExempt, CheckFlood, LookupAnswer, Ask, FillCache,
        GetMode, MarkWarned, ClearMark, GetTarget, DeleteSpam, Warn, BanSpammer,
        UnbanSpammer, NotifyAdmin, Blame
  <1>2. ASSUME NEW h \in Handlers, Dispatch(h)
        PROVE  trouble \subseteq trouble'
    BY <1>2 DEF Dispatch
  <1>3. CASE \/ \E text \in Texts : Post(text)
             \/ \E p \in Posts : DeletedElsewhere(p)
             \/ Rejoin \/ SwitchMode \/ Restart \/ Tick \/ UNCHANGED vars
    BY <1>3 DEF Post, DeletedElsewhere, Rejoin, SwitchMode, Restart, Tick, vars
  <1> QED
    BY <1>1, <1>2, <1>3 DEF Next

\* Where the step of a handler leaves it.
LEMMA Lands ==
    ASSUME TypeOK, NEW h \in Handlers
    PROVE  /\ \A pc \in Steps : Goto(h, pc) => handlers'[h].pc = pc
           /\ Return(h) => handlers'[h].pc = "idle"
  <1>1. handlers \in [Handlers -> HandlerStates]
    BY DEF TypeOK
  <1> QED
    BY <1>1 DEF Goto, Return, Idle, HandlerStates

LEMMA OneByHandle ==
    ASSUME TypeOK, OneAtATime, NEW h \in Handlers, Handle(h), trouble \subseteq trouble'
    PROVE  OneAtATime'
  <1>1. Step(h)
    BY HandleIsStep
  <1>2. Busy(h) /\ \A g \in Handlers \ {h} : Busy(g)' = Busy(g)
    BY <1>1, StepMoves DEF Step, Busy, At
  <1> QED
    BY <1>2 DEF OneAtATime

LEMMA MarkAttendedByHandle ==
    ASSUME TypeOK, MarkIsAttended, NEW h \in Handlers, Handle(h), trouble \subseteq trouble'
    PROVE  MarkIsAttended'
  <1>1. Step(h)
    BY HandleIsStep
  <1>2. \A g \in Handlers \ {h} : Marking(g) => Marking(g)'
    BY <1>1, StepMoves DEF Marking
  <1>3. /\ \A pc \in Steps : Goto(h, pc) => handlers'[h].pc = pc
        /\ Return(h) => handlers'[h].pc = "idle"
    BY Lands
  <1>4. SUFFICES ASSUME mark' # None, trouble' \subseteq {"telegram", "overlap", "flood"},
                        ~delivered'
                 PROVE  \E g \in Handlers : Marking(g)'
    BY DEF MarkIsAttended
  <1>5. mark # None => delivered \/ \E g \in Handlers : Marking(g)
    BY <1>4 DEF MarkIsAttended
  <1>6. {"delete_warn", "warn", "rollback"} \subseteq Steps
    BY DEF Steps
  <1>7. CASE MarkWarned(h)
    <2>1. PICK o \in Redis :
            /\ mark' = IF mark # None THEN mark ELSE Written(o, None, 0)
            /\ delivered' = (delivered /\ mark' = mark)
            /\ GotoIf(o = "ok", h, IF mark # None THEN "delete_kick" ELSE "delete_warn")
            /\ Blame(o, TRUE, "redis")
      BY <1>7 DEF MarkWarned
    <2>2. o = "ok"
      BY <1>4, <2>1 DEF Blame
    <2>3. CASE mark = None
      BY <1>3, <1>6, <2>1, <2>2, <2>3 DEF GotoIf, Marking
    <2>4. CASE mark # None
      <3>1. ~Marking(h) /\ ~delivered
        BY <1>4, <1>7, <2>1, <2>4 DEF MarkWarned, Marking, At
      <3> QED
        BY <1>2, <1>5, <2>4, <3>1
    <2> QED
      BY <2>3, <2>4
  <1>8. CASE DeleteSpam(h)
    <2>1. UNCHANGED <<mark, delivered>>
      BY <1>8 DEF DeleteSpam
    <2>2. At(h, "delete_warn") => Goto(h, "warn") \/ Goto(h, "rollback")
      BY <1>8 DEF DeleteSpam
    <2>3. Marking(h) => At(h, "delete_warn")
      BY <1>8 DEF DeleteSpam, Marking, At
    <2>4. Marking(h) => Marking(h)'
      BY <1>3, <1>6, <2>2, <2>3 DEF Marking
    <2> QED
      BY <1>2, <1>4, <1>5, <2>1, <2>4
  <1>9. CASE Warn(h)
    <2>1. PICK o \in Telegram(TRUE) :
            /\ delivered' = Written(o, delivered, TRUE)
            /\ GotoIf(o # "ok", h, "rollback")
      BY <1>9 DEF Warn
    <2>2. o = "refused"
      BY <1>4, <2>1 DEF Written
    <2> QED
      BY <1>3, <1>6, <2>1, <2>2 DEF GotoIf, Marking
  <1>10. CASE ClearMark(h)
    BY <1>4, <1>10 DEF ClearMark, Blame, Written
  <1>11. CASE \/ CheckExempt(h) \/ CheckFlood(h) \/ Detect(h) \/ GetMode(h) \/ GetTarget(h)
              \/ BanSpammer(h) \/ UnbanSpammer(h) \/ NotifyAdmin(h)
    <2>1. ~Marking(h) /\ UNCHANGED <<mark, delivered>>
      BY <1>11 DEF CheckExempt, CheckFlood, Detect, LookupAnswer, Ask, FillCache, GetMode,
                   GetTarget, BanSpammer, UnbanSpammer, NotifyAdmin, Marking, At
    <2> QED
      BY <1>2, <1>4, <1>5, <2>1
  <1> QED
    BY <1>7, <1>8, <1>9, <1>10, <1>11 DEF Handle, Moderate

LEMMA BanAttendedByHandle ==
    ASSUME TypeOK, BanIsAttended, NEW h \in Handlers, Handle(h), trouble \subseteq trouble'
    PROVE  BanIsAttended'
  <1>1. Step(h)
    BY HandleIsStep
  <1>2. \A g \in Handlers \ {h} : At(g, "unban") => At(g, "unban")'
    BY <1>1, StepMoves DEF At
  <1>3. \A pc \in Steps : Goto(h, pc) => handlers'[h].pc = pc
    BY Lands
  <1>4. SUFFICES ASSUME member' = "banned", trouble' \subseteq {"redis", "overlap"}
                 PROVE  \E g \in Handlers : At(g, "unban")'
    BY DEF BanIsAttended
  <1>5. member = "banned" => \E g \in Handlers : At(g, "unban")
    BY <1>4 DEF BanIsAttended
  <1>6. CASE BanSpammer(h)
    <2>1. PICK o \in Telegram(~admin) :
            /\ member' = Written(o, member, "banned")
            /\ GotoIf(o = "ok", h, "unban")
            /\ Blame(o, ~admin, "telegram")
      BY <1>6 DEF BanSpammer
    <2>2. CASE o = "ok"
      BY <1>3, <2>1, <2>2 DEF GotoIf, At, Steps
    <2>3. CASE o # "ok"
      <3>1. admin
        BY <1>4, <2>1, <2>3 DEF Blame
      <3>2. o = "refused"
        BY <2>1, <3>1 DEF Telegram, Outcomes
      <3>3. member = "banned" /\ ~At(h, "unban")
        BY <1>4, <1>6, <2>1, <3>2 DEF Written, BanSpammer, At
      <3> QED
        BY <1>2, <1>5, <3>3
    <2> QED
      BY <2>2, <2>3
  <1>7. CASE UnbanSpammer(h)
    BY <1>4, <1>7 DEF UnbanSpammer, Blame, Written
  <1>8. CASE CheckFlood(h)
    <2>1. "flood" \notin trouble'
      BY <1>4
    <2>2. member' \in {member, "out"} /\ ~At(h, "unban")
      BY <1>8, <2>1 DEF CheckFlood, At
    <2> QED
      BY <1>2, <1>4, <1>5, <2>2
  <1>9. CASE \/ CheckExempt(h) \/ Detect(h) \/ GetMode(h) \/ MarkWarned(h) \/ ClearMark(h)
             \/ GetTarget(h) \/ DeleteSpam(h) \/ Warn(h) \/ NotifyAdmin(h)
    <2>1. ~At(h, "unban") /\ UNCHANGED member
      BY <1>9 DEF CheckExempt, Detect, LookupAnswer, Ask, FillCache, GetMode, MarkWarned,
                  ClearMark, GetTarget, DeleteSpam, Warn, NotifyAdmin, At, user
    <2> QED
      BY <1>2, <1>4, <1>5, <2>1
  <1> QED
    BY <1>6, <1>7, <1>8, <1>9 DEF Handle, Moderate

LEMMA AttendedIsKept ==
    ASSUME TypeOK, Attended, [Next]_vars
    PROVE  Attended'
  <1> USE DEF Attended
  <1>1. trouble \subseteq trouble'
    BY TroubleStays
  <1>2. ASSUME NEW h \in Handlers, Handle(h)
        PROVE  Attended'
    BY <1>1, <1>2, OneByHandle, MarkAttendedByHandle, BanAttendedByHandle
  <1>3. ASSUME NEW h \in Handlers, Dispatch(h)
        PROVE  Attended'
    <2>1. /\ At(h, "idle") /\ UNCHANGED <<member, mark, delivered>>
          /\ (\E g \in Handlers : Busy(g)) => "overlap" \in trouble'
      BY <1>3 DEF Dispatch, Busy
    <2>2. \A g \in Handlers \ {h} : handlers'[g] = handlers[g]
      BY <1>3 DEF Dispatch, TypeOK
    <2>3. \A g \in Handlers : /\ Marking(g) => Marking(g)'
                              /\ At(g, "unban") => At(g, "unban")'
      BY <2>1, <2>2 DEF Marking, At
    <2>4. OneAtATime'
      BY <2>1, <2>2 DEF OneAtATime, Busy, At
    <2> QED
      BY <1>1, <2>1, <2>3, <2>4 DEF MarkIsAttended, BanIsAttended
  <1>4. CASE Restart
    <2>1. "restart" \in trouble' /\ \A h \in Handlers : handlers'[h].pc = "idle"
      BY <1>4 DEF Restart, Idle
    <2> QED
      BY <2>1 DEF OneAtATime, MarkIsAttended, BanIsAttended, Busy, At
  <1>5. CASE \/ \E text \in Texts : Post(text)
             \/ \E p \in Posts : DeletedElsewhere(p)
             \/ Rejoin \/ SwitchMode \/ Tick \/ UNCHANGED vars
    <2>1. /\ UNCHANGED <<handlers, delivered, trouble>>
          /\ member' = "banned" => member = "banned"
          /\ mark' # None => mark # None
      BY <1>5 DEF Post, DeletedElsewhere, Rejoin, SwitchMode, Tick, vars, user
    <2> QED
      BY <2>1 DEF OneAtATime, MarkIsAttended, BanIsAttended, Marking, Busy, At
  <1> QED
    BY <1>2, <1>3, <1>4, <1>5 DEF Next

LEMMA AttendedHolds == Spec => []Attended
  <1>1. Init => Attended
    BY DEF Init, Attended, OneAtATime, MarkIsAttended, BanIsAttended, Busy, At, Idle
  <1>2. TypeOK /\ Attended /\ [Next]_vars => Attended'
    BY AttendedIsKept
  <1> QED
    BY <1>1, <1>2, TypesAreKept, PTL DEF Spec

\* A mark outlives the handlers only for a warning that was displayed.
THEOREM MarksAreDelivered == Spec => []MarkIsDelivered
  <1>1. Attended => MarkIsDelivered
    BY DEF Attended, MarkIsAttended, MarkIsDelivered, Quiet, Marking, At
  <1> QED
    BY <1>1, AttendedHolds, PTL

\* With one handler at a time, the mark a kick follows is nobody's work in
\* progress: its warning was displayed.
THEOREM KicksAreWarned == Spec => KickIsWarned
  <1>1. ASSUME TypeOK, Attended, [Next]_vars, NEW h \in Handlers,
               At(h, "mark"), handlers'[h].pc = "delete_kick",
               trouble' \subseteq {"telegram", "flood"}
        PROVE  delivered
    <2>1. trouble \subseteq {"telegram", "flood"}
      BY <1>1, TroubleStays
    <2>2. Handle(h)
      <3>1. ASSUME NEW g \in Handlers, Handle(g), g # h
            PROVE  FALSE
        BY <1>1, <3>1, HandleIsStep, StepMoves DEF At
      <3>2. ASSUME NEW g \in Handlers, Dispatch(g)
            PROVE  FALSE
        BY <1>1, <3>2 DEF Dispatch, At, TypeOK
      <3>3. UNCHANGED handlers => FALSE
        BY <1>1 DEF At
      <3>4. Restart => FALSE
        BY <1>1 DEF Restart, Idle
      <3> QED
        BY <1>1, <3>1, <3>2, <3>3, <3>4
        DEF Next, Post, DeletedElsewhere, Rejoin, SwitchMode, Tick, vars
    <2>3. mark # None
      BY <1>1, <2>2, KickByHandle DEF Kicking, At
    <2>4. \A g \in Handlers : ~Marking(g)
      BY <1>1, <2>1 DEF Attended, OneAtATime, Busy, Marking, At
    <2> QED
      BY <1>1, <2>1, <2>3, <2>4 DEF Attended, MarkIsAttended
  <1>2. TypeOK /\ Attended /\ [Next]_vars =>
          [\A h \in Handlers :
             At(h, "mark") /\ handlers'[h].pc = "delete_kick"
                /\ trouble' \subseteq {"telegram", "flood"} => delivered]_vars
    BY <1>1
  <1> QED
    BY <1>2, TypesAreKept, AttendedHolds, PTL DEF Spec, KickIsWarned

\* Nobody stays banned after a kick while Telegram answers and the process lives.
THEOREM KicksAreNotBans == Spec => []KickIsNotABan
  <1>1. Attended => KickIsNotABan
    BY DEF Attended, BanIsAttended, KickIsNotABan, Quiet, At
  <1> QED
    BY <1>1, AttendedHolds, PTL

=============================================================================
