----------------------------- MODULE StopWords -----------------------------
(***************************************************************************)
(* Messages with a stop word: the detector of spam_detector.py with its    *)
(* LLM and the answers it keeps in Redis, and what                         *)
(* app/bot/controller/v1/moderation/action.py does about spam, for one     *)
(* user of one chat.  The first spam message is a warning, the next a      *)
(* kick, or the administrator is notified, by the action mode of the chat  *)
(* (module RuntimeSettings has its keys).  Before, the handler lets module *)
(* DuplicateFlood have the message; here that is one step that goes either *)
(* way.                                                                    *)
(*                                                                         *)
(* Handlers of several messages run concurrently; an action is what a      *)
(* handler does from one await to the next.                                *)
(***************************************************************************)
EXTENDS Integers, Sequences, FiniteSets, Calls

CONSTANTS
    Handlers,        \* tasks aiogram can run at once for messages of the user
    Texts,           \* what a message with a stop word can say
    MaxPosts,        \* bound on the messages the user posts
    MarkTTL,         \* STOP_WORD_WARNING_TTL_SECONDS, in ticks
    CacheTTL,        \* LLM_CACHE_TTL_SECONDS
    None,            \* an absent key
    Faults           \* what may fail: "telegram", "redis", "llm", "restart"

ASSUME ConstantsAssumption ==
    /\ MaxPosts \in Nat /\ MarkTTL \in Nat \ {0} /\ CacheTTL \in Nat \ {0}
    /\ Faults \subseteq {"telegram", "redis", "llm", "restart"}

VARIABLES
    posts,      \* the messages of the user
    next,       \* the first message no handler has taken yet
    member,     \* of the chat: "in", "out" or "banned"
    admin,      \* the user is an administrator of the chat
    mode,       \* the action mode in force in the chat
    mark,       \* Redis: age of stop_word_warning:{chat}:{user}
    cache,      \* Redis: llm:{digest}, by text
    handlers,   \* the running handlers
    delivered,  \* history: a warning was displayed since the mark was last set
    trouble     \* history: what has gone wrong so far

vars == <<posts, next, member, admin, mode, mark, cache, handlers, delivered, trouble>>

user == <<next, member, admin, mode>>

Modes == {"delete", "notify_admin"}

\* What the LLM can say: yes, no, or something else.
Answers == {"spam", "not_spam", "unknown"}

ASSUME NullAssumption == None \notin Nat /\ None \notin [answer : Answers, age : Nat]

\* A message, whether it was judged, deleted, and reported to the administrator.
Messages == [text : Texts, verdict : {"none", "series", "spam", "not_spam"},
             gone : BOOLEAN, reported : BOOLEAN]

\* Where a handler stands: the call it makes next.
Steps == {"idle", "exempt", "flood", "lookup", "ask", "fill", "mode", "mark", "delete_warn",
          "warn", "rollback", "delete_kick", "ban", "unban", "target", "notify"}

HandlerStates == [pc : Steps, post : 0..MaxPosts, answer : Answers]

Idle == [pc |-> "idle", post |-> 0, answer |-> "unknown"]

Posts == 1..Len(posts)

TypeOK ==
    /\ posts \in Seq(Messages) /\ Len(posts) <= MaxPosts
    /\ next \in 1..(Len(posts) + 1)
    /\ member \in {"in", "out", "banned"} /\ admin \in BOOLEAN /\ mode \in Modes
    /\ mark \in {None} \cup 0..(MarkTTL - 1)
    /\ cache \in [Texts -> {None} \cup [answer : Answers, age : 0..(CacheTTL - 1)]]
    /\ handlers \in [Handlers -> HandlerStates]
    /\ \A h \in Handlers : handlers[h].pc # "idle" => handlers[h].post \in Posts
    /\ delivered \in BOOLEAN
    /\ trouble \subseteq {"telegram", "redis", "restart", "overlap", "flood"}

Telegram(possible) == Outcomes(possible, "telegram" \in Faults)
Redis == Outcomes(TRUE, "redis" \in Faults)
Written(o, old, new) == IF o = "refused" THEN old ELSE new

\* A call that could have succeeded and did not is remembered as trouble.
Blame(o, possible, who) ==
    trouble' = IF possible /\ o # "ok" THEN trouble \cup {who} ELSE trouble

-----------------------------------------------------------------------------
(* Stepping a handler                                                      *)

At(h, pc) == handlers[h].pc = pc
Goto(h, pc) == handlers' = [handlers EXCEPT ![h].pc = pc]
Return(h) == handlers' = [handlers EXCEPT ![h] = Idle]

\* An exception leaves the handler; aiogram logs it.
GotoIf(ok, h, pc) == IF ok THEN Goto(h, pc) ELSE Return(h)

Message(h) == posts[handlers[h].post]

Dispatch(h) ==
    /\ At(h, "idle") /\ next <= Len(posts)
    /\ handlers' = [handlers EXCEPT ![h] =
                      [pc |-> "exempt", post |-> next, answer |-> "unknown"]]
    /\ next' = next + 1
    /\ trouble' = IF \E g \in Handlers : ~At(g, "idle") THEN trouble \cup {"overlap"}
                  ELSE trouble
    /\ UNCHANGED <<posts, member, admin, mode, mark, cache, delivered>>

\* is_exempt_sender: asked once; a lookup that fails counts as "no administrator".
CheckExempt(h) ==
    /\ At(h, "exempt")
    /\ \E o \in Telegram(TRUE) : GotoIf(~(o = "ok" /\ admin), h, "flood")
    /\ UNCHANGED <<posts, user, mark, cache, delivered, trouble>>

\* handle_duplicate_flood: the message is none of a series, or it is and the
\* user may be kicked for it, or a call fails, at worst between ban and unban.
\* Telegram bans no administrator.
CheckFlood(h) ==
    /\ At(h, "flood")
    /\ \/ Goto(h, "lookup") /\ UNCHANGED <<posts, member, trouble>>
       \/ /\ posts' = [posts EXCEPT ![handlers[h].post].verdict = "series"]
          /\ member' \in {member} \cup (IF admin THEN {} ELSE {"out"})
          /\ Return(h) /\ UNCHANGED trouble
       \/ /\ Faults \cap {"telegram", "redis"} # {}
          /\ \/ UNCHANGED member
             \/ "telegram" \in Faults /\ ~admin /\ member' = "banned"
          /\ trouble' = trouble \cup {"flood"}
          /\ Return(h) /\ UNCHANGED posts
    /\ UNCHANGED <<next, admin, mode, mark, cache, delivered>>

-----------------------------------------------------------------------------
(* The detector                                                            *)

\* A message with a stop word is spam unless the LLM clearly denies it.
IsSpam(answer) == answer # "not_spam"

\* Variant: what the LLM said is the verdict, clear or not.
JudgeAsAnswered(h, answer) ==
    /\ posts' = [posts EXCEPT ![handlers[h].post].verdict = answer]
    /\ GotoIf(IsSpam(answer), h, "mode")

Judge(h, answer) ==
    /\ posts' = [posts EXCEPT ![handlers[h].post].verdict =
                   IF IsSpam(answer) THEN "spam" ELSE "not_spam"]
    /\ GotoIf(IsSpam(answer), h, "mode")

\* A cache that fails is a cache without the answer.
LookupAnswer(h) ==
    LET entry == cache[Message(h).text] IN
    /\ At(h, "lookup")
    /\ \E o \in Redis :
         IF o = "ok" /\ entry # None THEN Judge(h, entry.answer)
         ELSE Goto(h, "ask") /\ UNCHANGED posts
    /\ UNCHANGED <<user, mark, cache, delivered, trouble>>

\* The answer is in hand and not yet in the cache.
Hold(h, answer) ==
    handlers' = [handlers EXCEPT ![h] =
                   [pc |-> "fill", post |-> handlers[h].post, answer |-> answer]]

\* Variant: the error of the LLM leaves the handler.
AskWithoutFallback(h) ==
    /\ At(h, "ask")
    /\ \/ \E answer \in Answers : Hold(h, answer)
       \/ "llm" \in Faults /\ Return(h)
    /\ UNCHANGED <<posts, user, mark, cache, delivered, trouble>>

\* A timeout or an error of the LLM leaves the stop word to decide.
Ask(h) ==
    /\ At(h, "ask")
    /\ \/ /\ \E answer \in Answers : Hold(h, answer)
          /\ UNCHANGED posts
       \/ "llm" \in Faults /\ Judge(h, "unknown")
    /\ UNCHANGED <<user, mark, cache, delivered, trouble>>

\* Every answer is kept, a clear one or not.
FillCache(h) ==
    LET text == Message(h).text IN
    /\ At(h, "fill")
    /\ \E o \in Redis :
         cache' = [cache EXCEPT ![text] =
                     Written(o, @, [answer |-> handlers[h].answer, age |-> 0])]
    /\ Judge(h, handlers[h].answer)
    /\ UNCHANGED <<user, mark, delivered, trouble>>

-----------------------------------------------------------------------------
(* What is done about spam                                                 *)

GetMode(h) ==
    /\ At(h, "mode")
    /\ \E o \in Redis :
         /\ GotoIf(o = "ok", h, IF mode = "delete" THEN "mark" ELSE "target")
         /\ Blame(o, TRUE, "redis")
    /\ UNCHANGED <<posts, user, mark, cache, delivered>>

\* Variant: a write of the mark that failed is taken for a mark that was there.
MarkOrKick(h) ==
    /\ At(h, "mark")
    /\ \E o \in Redis :
         /\ mark' = IF mark # None THEN mark ELSE Written(o, None, 0)
         /\ delivered' = (delivered /\ mark' = mark)
         /\ Goto(h, IF o # "ok" \/ mark # None THEN "delete_kick" ELSE "delete_warn")
         /\ Blame(o, TRUE, "redis")
    /\ UNCHANGED <<posts, user, cache>>

\* mark_warned_once: SET NX.
MarkWarned(h) ==
    /\ At(h, "mark")
    /\ \E o \in Redis :
         /\ mark' = IF mark # None THEN mark ELSE Written(o, None, 0)
         /\ delivered' = (delivered /\ mark' = mark)
         /\ GotoIf(o = "ok", h, IF mark # None THEN "delete_kick" ELSE "delete_warn")
         /\ Blame(o, TRUE, "redis")
    /\ UNCHANGED <<posts, user, cache>>

\* Telegram deletes no message twice.
Delete(h, o) ==
    posts' = [posts EXCEPT ![handlers[h].post].gone = Written(o, @, TRUE)]

\* The first calls of warn_stop_word_spam and of delete_spam_message.
DeleteSpam(h) ==
    /\ At(h, "delete_warn") \/ At(h, "delete_kick")
    /\ \E o \in Telegram(~Message(h).gone) :
         /\ Delete(h, o)
         /\ IF At(h, "delete_warn") THEN Goto(h, IF o = "ok" THEN "warn" ELSE "rollback")
            ELSE GotoIf(o = "ok", h, "ban")
         /\ Blame(o, ~Message(h).gone, "telegram")
    /\ UNCHANGED <<user, mark, cache, delivered>>

\* Variant: an exception of the warning leaves the mark.
WarnWithoutRollback(h) ==
    /\ At(h, "warn")
    /\ \E o \in Telegram(TRUE) :
         /\ delivered' = Written(o, delivered, TRUE)
         /\ Blame(o, TRUE, "telegram")
    /\ Return(h)
    /\ UNCHANGED <<posts, user, mark, cache>>

\* send_stop_word_warning.  The scheduled removal of the warning (AutoDelete)
\* swallows its failures.
Warn(h) ==
    /\ At(h, "warn")
    /\ \E o \in Telegram(TRUE) :
         /\ delivered' = Written(o, delivered, TRUE)
         /\ GotoIf(o # "ok", h, "rollback")
         /\ Blame(o, TRUE, "telegram")
    /\ UNCHANGED <<posts, user, mark, cache>>

\* clear, after a warning that failed.
ClearMark(h) ==
    /\ At(h, "rollback")
    /\ \E o \in Redis :
         /\ mark' = Written(o, mark, None)
         /\ Blame(o, TRUE, "redis")
    /\ Return(h)
    /\ UNCHANGED <<posts, user, cache, delivered>>

BanSpammer(h) ==
    /\ At(h, "ban")
    /\ \E o \in Telegram(~admin) :
         /\ member' = Written(o, member, "banned")
         /\ GotoIf(o = "ok", h, "unban")
         /\ Blame(o, ~admin, "telegram")
    /\ UNCHANGED <<posts, next, admin, mode, mark, cache, delivered>>

\* Variant: the kick ends with the ban.
KeepBanned(h) ==
    /\ At(h, "unban")
    /\ Return(h)
    /\ UNCHANGED <<posts, user, mark, cache, delivered, trouble>>

UnbanSpammer(h) ==
    /\ At(h, "unban")
    /\ \E o \in Telegram(TRUE) :
         /\ member' = Written(o, member, "out")
         /\ Blame(o, TRUE, "telegram")
    /\ Return(h)
    /\ UNCHANGED <<posts, next, admin, mode, mark, cache, delivered>>

\* Variant: without a target of its own nobody is told of the chat's spam.
GetTargetOrReturn(h) ==
    /\ At(h, "target")
    /\ \E o \in Redis, chosen \in BOOLEAN :
         GotoIf(o = "ok" /\ chosen, h, "notify") /\ Blame(o, TRUE, "redis")
    /\ UNCHANGED <<posts, user, mark, cache, delivered>>

GetTarget(h) ==
    /\ At(h, "target")
    /\ \E o \in Redis : GotoIf(o = "ok", h, "notify") /\ Blame(o, TRUE, "redis")
    /\ UNCHANGED <<posts, user, mark, cache, delivered>>

NotifyAdmin(h) ==
    /\ At(h, "notify")
    /\ \E o \in Telegram(TRUE) :
         /\ posts' = [posts EXCEPT ![handlers[h].post].reported = Written(o, @, TRUE)]
         /\ Blame(o, TRUE, "telegram")
    /\ Return(h)
    /\ UNCHANGED <<user, mark, cache, delivered>>

Detect(h) == LookupAnswer(h) \/ Ask(h) \/ FillCache(h)

Moderate(h) ==
    \/ DeleteSpam(h) \/ Warn(h) \/ BanSpammer(h) \/ UnbanSpammer(h) \/ NotifyAdmin(h)

Handle(h) ==
    \/ CheckExempt(h) \/ CheckFlood(h) \/ Detect(h)
    \/ GetMode(h) \/ MarkWarned(h) \/ ClearMark(h) \/ GetTarget(h) \/ Moderate(h)

-----------------------------------------------------------------------------
(* The user, the administrators, the process and the clock                 *)

Quiet == next > Len(posts) /\ \A h \in Handlers : At(h, "idle")

Post(text) ==
    /\ member = "in" /\ Len(posts) < MaxPosts
    /\ posts' = Append(posts, [text |-> text, verdict |-> "none",
                               gone |-> FALSE, reported |-> FALSE])
    /\ UNCHANGED <<user, mark, cache, handlers, delivered, trouble>>

Rejoin ==
    /\ member = "out"
    /\ member' = "in"
    /\ UNCHANGED <<posts, next, admin, mode, mark, cache, handlers, delivered, trouble>>

\* An administrator, or the handler of a series, deletes a message meanwhile.
DeletedElsewhere(p) ==
    /\ ~posts[p].gone
    /\ posts' = [posts EXCEPT ![p].gone = TRUE]
    /\ UNCHANGED <<user, mark, cache, handlers, delivered, trouble>>

SwitchMode ==
    /\ mode' \in Modes \ {mode}
    /\ UNCHANGED <<posts, next, member, admin, mark, cache, handlers, delivered, trouble>>

Restart ==
    /\ "restart" \in Faults /\ \E h \in Handlers : ~At(h, "idle")
    /\ handlers' = [h \in Handlers |-> Idle]
    /\ trouble' = trouble \cup {"restart"}
    /\ UNCHANGED <<posts, user, mark, cache, delivered>>

Tick ==
    /\ mark' = IF mark = None \/ mark = MarkTTL - 1 THEN None ELSE mark + 1
    /\ cache' = [x \in Texts |->
                   IF cache[x] = None \/ cache[x].age = CacheTTL - 1 THEN None
                   ELSE [cache[x] EXCEPT !.age = @ + 1]]
    /\ UNCHANGED <<posts, user, handlers, delivered, trouble>>

-----------------------------------------------------------------------------
(* Specification                                                           *)

Init ==
    /\ posts = <<>> /\ next = 1 /\ member = "in"
    /\ admin \in BOOLEAN /\ mode \in Modes
    /\ mark = None /\ cache = [x \in Texts |-> None]
    /\ handlers = [h \in Handlers |-> Idle]
    /\ delivered = FALSE /\ trouble = {}

Next ==
    \/ \E h \in Handlers : Dispatch(h) \/ Handle(h)
    \/ \E text \in Texts : Post(text)
    \/ \E p \in Posts : DeletedElsewhere(p)
    \/ Rejoin \/ SwitchMode \/ Restart \/ Tick

Spec == Init /\ [][Next]_vars

\* aiogram takes every update, and every call a handler awaits ends, at the
\* latest by its timeout.
FairSpec ==
    Spec /\ \A h \in Handlers : WF_vars(Dispatch(h)) /\ WF_vars(Handle(h))

-----------------------------------------------------------------------------
(* Properties                                                              *)

\* Nobody is kicked for a first offence: another message of the user was judged
\* spam before, whatever fails, overlaps or restarts (action.py:46-69,
\* stop_word_warning.py:39-52).
KickIsRepeat ==
    [][\A h \in Handlers :
         At(h, "ban") /\ handlers'[h].pc = "unban" =>
           \E p \in Posts \ {handlers[h].post} : posts[p].verdict = "spam"]_vars

\* A handler that decides to kick has found the mark of a warning that was
\* displayed, as long as messages are handled one at a time, Redis answers and
\* the process lives (action.py:46-69; README.md:141).
KickIsWarned ==
    [][\A h \in Handlers :
         At(h, "mark") /\ handlers'[h].pc = "delete_kick" /\ trouble' \subseteq {"telegram", "flood"}
         => delivered]_vars

\* Once the handlers are through, a mark stands only for a warning that was
\* displayed, also when several handlers set and clear it, while Redis answers
\* and the process lives (action.py:54-68).
MarkIsDelivered ==
    Quiet /\ mark # None /\ trouble \subseteq {"telegram", "overlap", "flood"} => delivered

\* A kick leaves nobody banned, unless Telegram refused a call, the process
\* stopped or the handler of series failed (spam_action.py:102-117).
KickIsNotABan ==
    Quiet /\ trouble \subseteq {"redis", "overlap"} => member # "banned"

Judged(p) == p \in Posts /\ posts[p].verdict # "none"
Answered(p) == p \in Posts /\ (posts[p].gone \/ posts[p].reported)

\* Every message of a user who is no administrator is judged, whatever the LLM,
\* its cache, Telegram and the settings do, unless the process stops or the
\* handler of series fails on the way (router.py:71-93, spam_detector.py:107-172;
\* README.md:141).
PostIsJudged ==
    \A p \in 1..MaxPosts :
        p \in Posts /\ ~admin ~> Judged(p) \/ trouble \cap {"restart", "flood"} # {}

\* What is judged spam is deleted or reported, if Redis and Telegram answer and
\* the process lives (action.py:71-136).
SpamIsAnswered ==
    \A p \in 1..MaxPosts :
        Judged(p) /\ posts[p].verdict = "spam"
        ~> Answered(p) \/ trouble \cap {"redis", "telegram", "restart"} # {}
=============================================================================
