------------------------ MODULE DuplicateFlood_proofs ------------------------
(***************************************************************************)
(* Proofs about DuplicateFlood for any number of handlers and contents and *)
(* every threshold, limit, window, TTL and grace period.                   *)
(***************************************************************************)
EXTENDS DuplicateFlood, TLAPS, FiniteSetTheorems

-----------------------------------------------------------------------------
(* The inductive invariant                                                 *)

Alike(ids) == \A m, n \in ids : posts[m] = posts[n]

\* A handler holds messages of one content, and enough of them once it has
\* looked at their number.
HandlersInOrder ==
    \A h \in Handlers :
        /\ handlers[h].pc # "idle" => handlers[h].post \in Posts
        /\ handlers[h].ids \subseteq Posts
        /\ Alike(handlers[h].ids)
        /\ handlers[h].pc \notin {"idle", "record", "lookup"} => IsFlood(handlers[h].ids)
        /\ At(h, "mark_grace") => Grace > 0

\* The stored series lists messages of the content its digest stands for.
SeriesInOrder ==
    series # None =>
        /\ series \in [digest : Contents, ids : Seq(Posts), age : 0..(Window - 1)]
        /\ Len(series.ids) \in 1..MaxTracked
        /\ \A i \in DOMAIN series.ids : posts[series.ids[i]] = series.digest

IInv ==
    /\ TypeOK
    /\ HandlersInOrder
    /\ SeriesInOrder
    /\ OnlySeriesDeleted

-----------------------------------------------------------------------------
(* Operators                                                               *)

\* What the script stores is a series of the message it was called with, no
\* longer than the limit.
LEMMA ExtendedSeries ==
    ASSUME IInv, NEW post \in Posts
    PROVE  /\ Extended(post) \in Seq(Posts)
           /\ Len(Extended(post)) \in 1..MaxTracked
           /\ \A i \in DOMAIN Extended(post) : posts[Extended(post)[i]] = posts[post]
  <1> USE ConstantsAssumption
  <1> DEFINE all == IF Continues(post) THEN Append(series.ids, post) ELSE <<post>>
  <1>1. /\ all \in Seq(Posts) /\ Len(all) >= 1
        /\ \A i \in 1..Len(all) : posts[all[i]] = posts[post]
    <2>1. CASE Continues(post)
      <3>1. /\ series.ids \in Seq(Posts)
            /\ \A i \in 1..Len(series.ids) : posts[series.ids[i]] = posts[post]
        BY <2>1 DEF Continues, IInv, SeriesInOrder
      <3> QED
        BY <2>1, <3>1
    <2>2. CASE ~Continues(post)
      BY <2>2
    <2> QED
      BY <2>1, <2>2
  <1> HIDE DEF all
  <1>2. CASE Len(all) > MaxTracked
    <2> DEFINE first == Len(all) - MaxTracked + 1
               last  == SubSeq(all, first, Len(all))
    <2>1. first \in Nat /\ first >= 1 /\ first <= Len(all)
      BY <1>1, <1>2
    <2>2. \A i \in 1..MaxTracked : first + i - 1 \in 1..Len(all)
      BY <1>1, <2>1
    <2>3. Len(all) - first + 1 = MaxTracked
      BY <1>1
    <2> HIDE DEF first
    <2>4. /\ last \in Seq(Posts) /\ Len(last) = MaxTracked
          /\ \A i \in 1..MaxTracked : last[i] = all[first + i - 1]
      BY <1>1, <2>1, <2>3
    <2>5. Extended(post) = last
      BY <1>2 DEF Extended, all, first
    <2> HIDE DEF last
    <2>6. \A i \in 1..MaxTracked : posts[last[i]] = posts[post]
      BY <1>1, <2>2, <2>4
    <2> QED
      BY <2>4, <2>5, <2>6
  <1>3. CASE ~(Len(all) > MaxTracked)
    <2>1. Extended(post) = all
      BY <1>3 DEF Extended, all
    <2> QED
      BY <1>1, <1>3, <2>1
  <1> QED
    BY <1>2, <1>3

\* Enough equal messages in a set of posts are enough equal posts.
LEMMA FloodIsSeries ==
    ASSUME TypeOK, NEW ids \in SUBSET Posts, Alike(ids), IsFlood(ids), NEW m \in ids
    PROVE  Cardinality({n \in Posts : posts[n] = posts[m]}) >= Threshold
  <1> DEFINE same == {n \in Posts : posts[n] = posts[m]}
  <1>1. IsFiniteSet(Posts)
    BY FS_Interval DEF TypeOK, Posts
  <1>2. IsFiniteSet(same)
    BY <1>1, FS_Subset
  <1>3. ids \in SUBSET same
    BY DEF Alike
  <1>4. Cardinality(ids) <= Cardinality(same)
    BY <1>2, <1>3, FS_Subset
  <1>5. Cardinality(ids) \in Nat /\ Cardinality(same) \in Nat
    BY <1>2, <1>3, FS_Subset, FS_CardinalityType
  <1> QED
    BY <1>4, <1>5, ConstantsAssumption DEF IsFlood

-----------------------------------------------------------------------------
(* Stepping one handler                                                    *)

\* A handler that is past the test may go anywhere, any handler may return.
LEMMA HandlerMoves ==
    ASSUME TypeOK, HandlersInOrder, NEW h \in Handlers, posts' = posts,
           \/ Return(h)
           \/ IsFlood(handlers[h].ids) /\ ~At(h, "idle") /\ \E pc \in Steps : Goto(h, pc) /\ (pc = "mark_grace" => Grace > 0)
    PROVE  HandlersInOrder' /\ handlers' \in [Handlers -> HandlerStates]
  <1>1. CASE Return(h)
    <2>1. Idle \in HandlerStates
      BY ConstantsAssumption DEF Idle, HandlerStates
    <2>2. /\ handlers' \in [Handlers -> HandlerStates]
          /\ handlers'[h] = Idle
          /\ \A g \in Handlers \ {h} : handlers'[g] = handlers[g]
      BY <1>1, <2>1 DEF Return, TypeOK
    <2> QED
      BY <2>2 DEF At, Idle, HandlersInOrder, Alike, Posts, IsFlood
  <1>2. ASSUME IsFlood(handlers[h].ids), ~At(h, "idle"), NEW pc \in Steps, Goto(h, pc),
               pc = "mark_grace" => Grace > 0
        PROVE  HandlersInOrder' /\ handlers' \in [Handlers -> HandlerStates]
    <2>1. /\ handlers' \in [Handlers -> HandlerStates]
          /\ \A g \in Handlers : /\ handlers'[g].post = handlers[g].post
                                 /\ handlers'[g].ids = handlers[g].ids
          /\ \A g \in Handlers \ {h} : handlers'[g] = handlers[g]
      BY <1>2 DEF Goto, TypeOK, HandlerStates
    <2>2. handlers'[h].pc = pc
      BY <1>2 DEF Goto, TypeOK, HandlerStates
    <2>3. Posts' = Posts
      BY DEF Posts
    <2>4. ASSUME NEW g \in Handlers
          PROVE  /\ handlers'[g].pc # "idle" => handlers'[g].post \in Posts
                 /\ handlers'[g].ids \subseteq Posts
                 /\ Alike(handlers'[g].ids)
                 /\ handlers'[g].pc \notin {"idle", "record", "lookup"} => IsFlood(handlers'[g].ids)
                 /\ handlers'[g].pc = "mark_grace" => Grace > 0
      <3>1. CASE g = h
        BY <1>2, <2>1, <2>2, <3>1 DEF At, HandlersInOrder
      <3>2. CASE g # h
        BY <2>1, <3>2 DEF At, HandlersInOrder
      <3> QED
        BY <3>1, <3>2
    <2> QED
      BY <2>1, <2>3, <2>4 DEF HandlersInOrder, At, Alike, IsFlood
  <1> QED
    BY <1>1, <1>2

\* What the handlers hold, the series and the deletions depend on nothing else.
LEMMA UnchangedParts ==
    ASSUME UNCHANGED posts
    PROVE  /\ HandlersInOrder /\ UNCHANGED handlers => HandlersInOrder'
           /\ SeriesInOrder /\ UNCHANGED series => SeriesInOrder'
           /\ OnlySeriesDeleted /\ UNCHANGED deleted => OnlySeriesDeleted'
  <1>1. Posts' = Posts
    BY DEF Posts
  <1>2. HandlersInOrder /\ UNCHANGED handlers => HandlersInOrder'
    BY <1>1 DEF HandlersInOrder, At, Alike, IsFlood
  <1>3. SeriesInOrder /\ UNCHANGED series => SeriesInOrder'
    BY <1>1 DEF SeriesInOrder
  <1>4. OnlySeriesDeleted /\ UNCHANGED deleted => OnlySeriesDeleted'
    BY <1>1 DEF OnlySeriesDeleted
  <1> QED
    BY <1>2, <1>3, <1>4

\* Steps that neither write the series nor delete messages.
LEMMA OnlyHandlerMoves ==
    ASSUME IInv, NEW h \in Handlers,
           UNCHANGED <<posts, next, deleted, admin, series>>,
           member' \in {"in", "out", "banned"}, streak' = streak,
           warning' \in {None} \cup 0..(WarningTTL - 1),
           grace' \in {None} \cup 0..(Grace - 1),
           warned' \in {None} \cup 0..WarningTTL,
           HandlersInOrder' /\ handlers' \in [Handlers -> HandlerStates]
    PROVE  IInv'
  BY DEF IInv, TypeOK, Posts, SeriesInOrder, OnlySeriesDeleted

-----------------------------------------------------------------------------
(* One lemma per group of steps                                            *)

LEMMA RecordInvariant ==
    ASSUME IInv, NEW h \in Handlers, Record(h)
    PROVE  IInv'
  <1> USE ConstantsAssumption DEF IInv
  <1> DEFINE post == handlers[h].post
             ids  == Extended(post)
             held == {ids[i] : i \in DOMAIN ids}
             new  == [digest |-> posts[post], ids |-> ids, age |-> 0]
  <1>1. post \in Posts /\ posts[post] \in Contents /\ At(h, "record")
    BY DEF Record, At, HandlersInOrder, TypeOK, Posts
  <1>2. /\ ids \in Seq(Posts) /\ Len(ids) \in 1..MaxTracked
        /\ \A i \in DOMAIN ids : posts[ids[i]] = posts[post]
    BY <1>1, ExtendedSeries
  <1>3. /\ new \in [digest : Contents, ids : Seq(Posts), age : 0..(Window - 1)]
        /\ held \subseteq Posts /\ Alike(held)
    BY <1>1, <1>2 DEF Alike
  <1>4. /\ UNCHANGED <<chat, warning, grace, warned>>
        /\ series' \in {series, new} /\ streak' \in Nat
        /\ \/ handlers' = [handlers EXCEPT ![h].pc = "lookup", ![h].ids = held]
           \/ Return(h)
    BY DEF Record, Written, TypeOK
  <1> HIDE DEF post, ids, held
  <1>5. Posts' = Posts
    BY <1>4 DEF Posts, chat
  <1>6. handlers' \in [Handlers -> HandlerStates]
    <2>1. CASE Return(h)
      <3>1. Idle \in HandlerStates
        BY DEF Idle, HandlerStates
      <3> QED
        BY <2>1, <3>1 DEF Return, TypeOK
    <2>2. CASE handlers' = [handlers EXCEPT ![h].pc = "lookup", ![h].ids = held]
      <3>1. held \in SUBSET (1..MaxPosts)
        BY <1>3 DEF TypeOK, Posts
      <3> QED
        BY <2>2, <3>1 DEF TypeOK, HandlerStates, Steps
    <2> QED
      BY <1>4, <2>1, <2>2
  <1>7. SeriesInOrder' /\ (series' # None =>
          /\ series'.digest \in Contents /\ series'.age \in 0..(Window - 1)
          /\ series'.ids \in Seq(Posts) /\ Len(series'.ids) \in 1..MaxTracked)
    <2>1. CASE series' = series
      BY <1>5, <2>1, <1>4, UnchangedParts DEF TypeOK, chat
    <2>2. CASE series' = new
      <3>1. new.ids = ids /\ new.digest = posts[post]
        OBVIOUS
      <3> HIDE DEF new
      <3>2. UNCHANGED posts
        BY <1>4 DEF chat
      <3> QED
        BY <1>2, <1>3, <1>5, <2>2, <3>1, <3>2 DEF SeriesInOrder
    <2> QED
      BY <1>4, <2>1, <2>2
  <1>8. HandlersInOrder'
    <2>1. CASE Return(h)
      BY <1>4, <2>1, HandlerMoves DEF chat
    <2>2. CASE handlers' = [handlers EXCEPT ![h].pc = "lookup", ![h].ids = held]
      <3>1. /\ \A g \in Handlers \ {h} : handlers'[g] = handlers[g]
            /\ handlers'[h].pc = "lookup" /\ handlers'[h].ids = held
            /\ handlers'[h].post = handlers[h].post
        BY <2>2 DEF TypeOK, HandlerStates
      <3>2. UNCHANGED posts
        BY <1>4 DEF chat
      <3>3. ASSUME NEW g \in Handlers
            PROVE  /\ handlers'[g].pc # "idle" => handlers'[g].post \in Posts
                   /\ handlers'[g].ids \subseteq Posts
                   /\ Alike(handlers'[g].ids)
                   /\ handlers'[g].pc \notin {"idle", "record", "lookup"} => IsFlood(handlers'[g].ids)
                   /\ handlers'[g].pc = "mark_grace" => Grace > 0
        <4>1. CASE g = h
          BY <1>1, <1>3, <3>1, <4>1 DEF post
        <4>2. CASE g # h
          BY <3>1, <4>2 DEF HandlersInOrder, At
        <4> QED
          BY <4>1, <4>2
      <3> QED
        BY <1>5, <3>2, <3>3 DEF HandlersInOrder, At, Alike, IsFlood
    <2> QED
      BY <1>4, <2>1, <2>2
  <1>9. OnlySeriesDeleted'
    BY <1>4, UnchangedParts DEF chat
  <1>10. TypeOK'
    BY <1>4, <1>5, <1>6, <1>7 DEF TypeOK, chat
  <1> QED
    BY <1>8, <1>9, <1>7, <1>10

\* Steps that read keys, write or clear the mark, warn, ban and unban.
LEMMA CallInvariant ==
    ASSUME IInv, NEW h \in Handlers,
           \/ Lookup(h) \/ CheckExempt(h) \/ MarkWarned(h) \/ MarkGrace(h) \/ Warn(h)
           \/ Relookup(h) \/ CheckGrace(h) \/ BanFlooder(h) \/ UnbanFlooder(h)
           \/ ClearWarning(h) \/ ClearGrace(h)
    PROVE  IInv'
  <1> USE ConstantsAssumption DEF IInv
  <1> DEFINE Moves == \/ Return(h)
                      \/ /\ IsFlood(handlers[h].ids) /\ ~At(h, "idle")
                         /\ \E pc \in Steps : Goto(h, pc) /\ (pc = "mark_grace" => Grace > 0)
  <1>1. Moves
    <2>1. CASE Lookup(h)
      BY <2>1 DEF Lookup, At, Steps
    <2>2. CASE ~Lookup(h)
      <3>1. IsFlood(handlers[h].ids) /\ ~At(h, "idle")
        BY <2>2 DEF CheckExempt, MarkWarned, MarkGrace, Warn, Relookup, CheckGrace, BanFlooder,
                    UnbanFlooder, ClearWarning, ClearGrace, At, HandlersInOrder
      <3> QED
        BY <2>2, <3>1
        DEF CheckExempt, MarkWarned, MarkGrace, Warn, Relookup, CheckGrace, BanFlooder,
            UnbanFlooder, ClearWarning, ClearGrace, GotoIf, Steps
    <2> QED
      BY <2>1, <2>2
  <1>2. /\ UNCHANGED <<posts, next, deleted, admin, series, streak>>
        /\ member' \in {"in", "out", "banned"}
        /\ warning' \in {None} \cup 0..(WarningTTL - 1)
        /\ warned' \in {None} \cup 0..WarningTTL
    <2>1. CASE MarkWarned(h) \/ ClearWarning(h)
      BY <2>1 DEF MarkWarned, ClearWarning, Written, TypeOK, chat
    <2>2. CASE Warn(h)
      BY <2>2 DEF Warn, Written, TypeOK, chat, redis
    <2>3. CASE BanFlooder(h) \/ UnbanFlooder(h)
      BY <2>3 DEF BanFlooder, UnbanFlooder, Written, TypeOK, redis
    <2>4. CASE Lookup(h) \/ CheckExempt(h) \/ MarkGrace(h) \/ Relookup(h) \/ CheckGrace(h)
               \/ ClearGrace(h)
      BY <2>4 DEF Lookup, CheckExempt, MarkGrace, Relookup, CheckGrace, ClearGrace, TypeOK,
                  chat, redis
    <2> QED
      BY <2>1, <2>2, <2>3, <2>4
  <1>3. grace' \in {None} \cup 0..(Grace - 1)
    <2>1. CASE MarkGrace(h)
      BY <2>1 DEF MarkGrace, Written, TypeOK, HandlersInOrder
    <2>2. CASE ~MarkGrace(h)
      BY <2>2 DEF Lookup, CheckExempt, MarkWarned, Warn, Relookup, CheckGrace, BanFlooder,
                  UnbanFlooder, ClearWarning, ClearGrace, Written, TypeOK, redis
    <2> QED
      BY <2>1, <2>2
  <1> HIDE DEF Moves
  <1>4. HandlersInOrder' /\ handlers' \in [Handlers -> HandlerStates]
    BY <1>1, <1>2, HandlerMoves DEF Moves
  <1> QED
    BY <1>2, <1>3, <1>4, OnlyHandlerMoves

LEMMA DeleteInvariant ==
    ASSUME IInv, NEW h \in Handlers, DeleteSeries(h)
    PROVE  IInv'
  <1> USE DEF IInv
  <1>1. /\ IsFlood(handlers[h].ids) /\ ~At(h, "idle")
        /\ handlers[h].ids \in SUBSET Posts /\ Alike(handlers[h].ids)
    BY DEF DeleteSeries, At, HandlersInOrder
  <1>2. PICK gone \in SUBSET handlers[h].ids : deleted' = deleted \cup gone
    BY DEF DeleteSeries
  <1>3. UNCHANGED <<posts, next, member, admin, redis, streak, warned>>
    BY DEF DeleteSeries
  <1>4. HandlersInOrder' /\ handlers' \in [Handlers -> HandlerStates]
    <2>1. \E pc \in Steps : Goto(h, pc) /\ pc # "mark_grace"
      BY DEF DeleteSeries, At, Steps
    <2> QED
      BY <1>1, <1>3, <2>1, HandlerMoves
  <1>5. OnlySeriesDeleted'
    BY <1>1, <1>2, <1>3, FloodIsSeries DEF OnlySeriesDeleted, Posts
  <1> QED
    BY <1>1, <1>2, <1>3, <1>4, <1>5 DEF TypeOK, SeriesInOrder, Posts, redis

LEMMA ClearInvariant ==
    ASSUME IInv, NEW h \in Handlers, ClearSeries(h)
    PROVE  IInv'
  <1> USE ConstantsAssumption DEF IInv
  <1>1. IsFlood(handlers[h].ids) /\ ~At(h, "idle")
    BY DEF ClearSeries, At, HandlersInOrder
  <1>2. /\ UNCHANGED <<chat, warning, grace, warned>>
        /\ series' \in {series, None} /\ streak' \in Nat
    BY DEF ClearSeries, Written, TypeOK
  <1>3. HandlersInOrder' /\ handlers' \in [Handlers -> HandlerStates]
    <2>1. Return(h) \/ Goto(h, "rollback")
      BY DEF ClearSeries, GotoIf
    <2> QED
      BY <1>1, <1>2, <2>1, HandlerMoves DEF chat, Steps
  <1> QED
    BY <1>2, <1>3 DEF TypeOK, SeriesInOrder, OnlySeriesDeleted, Posts, chat

LEMMA DispatchInvariant ==
    ASSUME IInv, NEW h \in Handlers, Dispatch(h)
    PROVE  IInv'
  <1> USE ConstantsAssumption DEF IInv
  <1>1. next \in Posts /\ next' = next + 1 /\ next \in 0..MaxPosts
    BY DEF Dispatch, TypeOK, Posts
  <1>2. UNCHANGED <<posts, deleted, member, admin, redis, streak, warned>>
    BY DEF Dispatch
  <1> DEFINE new == [pc |-> "record", post |-> next, ids |-> {}]
  <1>3. handlers' = [handlers EXCEPT ![h] = new]
    BY DEF Dispatch
  <1>4. new \in HandlerStates
    BY <1>1 DEF HandlerStates, Steps
  <1>5. /\ handlers' \in [Handlers -> HandlerStates]
        /\ handlers'[h] = new
        /\ \A g \in Handlers \ {h} : handlers'[g] = handlers[g]
    BY <1>3, <1>4 DEF TypeOK
  <1>6. HandlersInOrder'
    BY <1>1, <1>2, <1>5 DEF HandlersInOrder, At, Alike, Posts, IsFlood
  <1>7. OnlySeriesDeleted' /\ SeriesInOrder'
    BY <1>2, UnchangedParts DEF redis
  <1> QED
    BY <1>1, <1>2, <1>5, <1>6, <1>7 DEF TypeOK, Posts, redis

\* More posts keep what is known of those there are.
LEMMA PostInvariant ==
    ASSUME IInv, NEW c \in Contents, Post(c)
    PROVE  IInv'
  <1> USE ConstantsAssumption DEF IInv
  <1>1. /\ posts' \in Seq(Contents) /\ Len(posts') = Len(posts) + 1
        /\ Len(posts') <= MaxPosts
        /\ \A n \in Posts : posts'[n] = posts[n]
    BY DEF Post, TypeOK, Posts
  <1>2. UNCHANGED <<next, deleted, member, admin, redis, handlers, streak, warned>>
    BY DEF Post
  <1>3. Posts \subseteq Posts'
    BY <1>1 DEF Posts, TypeOK
  <1>4. HandlersInOrder'
    BY <1>1, <1>2, <1>3 DEF HandlersInOrder, At, Alike, IsFlood
  <1>5. SeriesInOrder'
    <2> SUFFICES ASSUME series # None PROVE SeriesInOrder'
      BY <1>2 DEF SeriesInOrder, redis
    <2>1. /\ series.ids \in Seq(Posts) /\ series.ids \in Seq(Posts')
          /\ \A i \in DOMAIN series.ids : series.ids[i] \in Posts
      BY <1>3 DEF SeriesInOrder
    <2> QED
      BY <1>1, <1>2, <2>1 DEF SeriesInOrder, redis
  <1>6. OnlySeriesDeleted'
    <2> SUFFICES ASSUME NEW m \in deleted
                 PROVE  Cardinality({n \in Posts' : posts'[n] = posts'[m]}) >= Threshold
      BY <1>2 DEF OnlySeriesDeleted
    <2> DEFINE same == {n \in Posts : posts[n] = posts[m]}
               more == {n \in Posts' : posts'[n] = posts'[m]}
    <2>1. same \in SUBSET more
      BY <1>1, <1>3 DEF TypeOK
    <2>2. IsFiniteSet(more)
      <3>1. IsFiniteSet(Posts')
        BY <1>1, FS_Interval DEF Posts
      <3> QED
        BY <3>1, FS_Subset
    <2>3. Cardinality(same) <= Cardinality(more)
      BY <2>1, <2>2, FS_Subset
    <2>4. Cardinality(same) \in Nat /\ Cardinality(more) \in Nat
      BY <2>1, <2>2, FS_Subset, FS_CardinalityType
    <2>5. Cardinality(same) >= Threshold
      BY DEF OnlySeriesDeleted
    <2> QED
      BY <2>3, <2>4, <2>5
  <1>7. TypeOK'
    <2>1. series' # None => series'.ids \in Seq(Posts')
      BY <1>2, <1>3, <1>5 DEF SeriesInOrder
    <2> QED
      BY <1>1, <1>2, <1>3, <2>1 DEF TypeOK, Posts, redis
  <1> QED
    BY <1>4, <1>5, <1>6, <1>7

LEMMA TickInvariant ==
    ASSUME IInv, Tick
    PROVE  IInv'
  <1> USE ConstantsAssumption DEF IInv
  <1>1. UNCHANGED <<chat, handlers>> /\ streak' \in Nat
    BY DEF Tick, TypeOK
  <1>2. /\ warning' \in {None} \cup 0..(WarningTTL - 1)
        /\ grace' \in {None} \cup 0..(Grace - 1)
        /\ warned' \in {None} \cup 0..WarningTTL
    <2>1. ASSUME NEW ttl \in Nat, NEW key \in {None} \cup 0..(ttl - 1)
          PROVE  Aged(key, ttl) \in {None} \cup 0..(ttl - 1)
      BY DEF Aged
    <2>2. WarningTTL + 1 \in Nat /\ WarningTTL + 1 - 1 = WarningTTL
      OBVIOUS
    <2> QED
      BY <2>1, <2>2 DEF Tick, TypeOK
  <1>3. \/ series' = None
        \/ /\ series # None /\ series.age # Window - 1
           /\ series' = [series EXCEPT !.age = series.age + 1]
    BY DEF Tick
  <1>4. series' # None =>
          /\ series' \in [digest : Contents, ids : Seq(Posts), age : 0..(Window - 1)]
          /\ series'.ids = series.ids /\ series'.digest = series.digest /\ series # None
    BY <1>3 DEF SeriesInOrder
  <1> QED
    <2>1. Posts' = Posts /\ UNCHANGED <<posts, next, deleted, member, admin, handlers>>
      BY <1>1 DEF Posts, chat
    <2>2. HandlersInOrder' /\ OnlySeriesDeleted'
      BY <2>1, UnchangedParts
    <2>3. SeriesInOrder'
      BY <1>4, <2>1 DEF SeriesInOrder
    <2>4. TypeOK'
      BY <1>1, <1>2, <2>1, <2>3 DEF TypeOK, SeriesInOrder
    <2> QED
      BY <2>2, <2>3, <2>4

LEMMA RestInvariant ==
    ASSUME IInv, Rejoin \/ Restart \/ UNCHANGED vars
    PROVE  IInv'
  <1> USE ConstantsAssumption DEF IInv
  <1>1. CASE Rejoin \/ UNCHANGED vars
    <2>1. /\ UNCHANGED <<posts, next, deleted, admin, redis, handlers, streak, warned>>
          /\ member' \in {member, "in"}
      BY <1>1 DEF Rejoin, vars, redis
    <2>2. Posts' = Posts
      BY <2>1 DEF Posts
    <2> QED
      BY <2>1, <2>2, UnchangedParts DEF TypeOK, redis
  <1>2. CASE Restart
    <2>1. UNCHANGED <<chat, redis, streak, warned>> /\ handlers' = [h \in Handlers |-> Idle]
      BY <1>2 DEF Restart
    <2>2. Idle \in HandlerStates
      BY DEF Idle, HandlerStates
    <2>3. HandlersInOrder'
      BY <2>1 DEF HandlersInOrder, At, Idle, Alike, Posts, IsFlood
    <2> QED
      BY <2>1, <2>2, <2>3, UnchangedParts DEF TypeOK, Posts, chat, redis
  <1> QED
    BY <1>1, <1>2

LEMMA InitInvariant == Init => IInv
  BY ConstantsAssumption
  DEF Init, IInv, TypeOK, HandlersInOrder, At, SeriesInOrder, OnlySeriesDeleted, Alike, Posts, Idle,
      HandlerStates, IsFlood

LEMMA NextInvariant == IInv /\ [Next]_vars => IInv'
  <1> SUFFICES ASSUME IInv, [Next]_vars PROVE IInv'
    OBVIOUS
  <1>1. ASSUME NEW h \in Handlers, Handle(h)
        PROVE  IInv'
    BY <1>1, RecordInvariant, CallInvariant, DeleteInvariant, ClearInvariant DEF Handle
  <1> QED
    BY <1>1, DispatchInvariant, PostInvariant, TickInvariant, RestInvariant DEF Next

LEMMA InvariantHolds == Spec => []IInv
  BY InitInvariant, NextInvariant, PTL DEF Spec

\* Types are kept whatever fails; in particular the script keeps the list of
\* ids within its limit.
THEOREM TypesAreKept == Spec => []TypeOK
  BY InvariantHolds, PTL DEF IInv

\* However many handlers overlap and whatever fails, only messages are deleted
\* of which the user posted at least Threshold with the same content.
THEOREM SeriesAreDeleted == Spec => []OnlySeriesDeleted
  BY InvariantHolds, PTL DEF IInv
-----------------------------------------------------------------------------
(* The mark of a warning that was not delivered is taken back              *)

Shown == warned # None /\ warned <= warning

\* Steps of the handler that has set the mark, or is about to clear it.
Marking(h) == handlers[h].pc \in {"mark_grace", "delete_warn", "warn", "rollback"}

MarkIsShownOrMarking ==
    warning # None => Shown \/ \E h \in Handlers : Marking(h)

\* A step of one handler keeps the others where they are.
LEMMA OthersStay ==
    ASSUME TypeOK, NEW h \in Handlers, NEW pc, NEW g \in Handlers, g # h,
           Goto(h, pc) \/ Return(h)
    PROVE  handlers'[g].pc = handlers[g].pc
  BY DEF TypeOK, Goto, Return

LEMMA Arrives ==
    ASSUME TypeOK, NEW h \in Handlers, NEW pc, Goto(h, pc)
    PROVE  handlers'[h].pc = pc
  BY DEF TypeOK, Goto, HandlerStates

\* Handlers that do not touch the mark and were not marking.
LEMMA MarkKept ==
    ASSUME MarkIsShownOrMarking, UNCHANGED <<warning, warned>>,
           \A g \in Handlers : Marking(g) => Marking(g)'
    PROVE  MarkIsShownOrMarking'
  BY DEF MarkIsShownOrMarking, Shown

LEMMA MarkByHandler ==
    ASSUME IInv, MarkIsShownOrMarking, ~RedisMayFail, NEW h \in Handlers, Handle(h)
    PROVE  MarkIsShownOrMarking'
  <1> USE ConstantsAssumption DEF IInv
  <1>1. Redis = {"ok"}
    BY DEF Redis, Outcomes
  <1>2. CASE MarkWarned(h)
    <2>1. CASE warning # None
      <3>1. UNCHANGED <<warning, warned>> /\ Goto(h, "relookup") /\ At(h, "mark")
        BY <1>1, <1>2, <2>1 DEF MarkWarned, GotoIf
      <3>2. \A g \in Handlers : Marking(g) => Marking(g)'
        BY <3>1, OthersStay DEF Marking, At
      <3> QED
        BY <3>1, <3>2, MarkKept
    <2>2. CASE warning = None
      <3>1. Goto(h, "mark_grace") \/ Goto(h, "delete_warn")
        BY <1>1, <1>2, <2>2 DEF MarkWarned, GotoIf
      <3>2. Marking(h)'
        BY <3>1, Arrives DEF Marking
      <3> QED
        BY <3>2 DEF MarkIsShownOrMarking
    <2> QED
      BY <2>1, <2>2
  <1>3. CASE MarkGrace(h)
    <2>1. Goto(h, "delete_warn")
      BY <1>1, <1>3 DEF MarkGrace, GotoIf
    <2>2. Marking(h)'
      BY <2>1, Arrives DEF Marking
    <2> QED
      BY <2>2 DEF MarkIsShownOrMarking
  <1>4. CASE Warn(h)
    <2>1. PICK o \in Telegram(TRUE) :
            /\ warned' = Written(o, warned, 0)
            /\ Goto(h, IF o = "ok" THEN "clear" ELSE "rollback")
      BY <1>4 DEF Warn
    <2>2. UNCHANGED warning
      BY <1>4 DEF Warn, redis
    <2>3. CASE o = "ok"
      <3>1. warned' = 0
        BY <2>1, <2>3 DEF Written
      <3>2. warning' # None => warning' \in Nat
        BY <2>2 DEF TypeOK
      <3> QED
        BY <3>1, <3>2 DEF MarkIsShownOrMarking, Shown
    <2>4. CASE o # "ok"
      <3>1. Marking(h)'
        BY <2>1, <2>4, Arrives DEF Marking
      <3> QED
        BY <3>1 DEF MarkIsShownOrMarking
    <2> QED
      BY <2>3, <2>4
  <1>5. CASE ClearWarning(h)
    <2>1. warning' = None
      BY <1>1, <1>5 DEF ClearWarning, Written
    <2> QED
      BY <2>1 DEF MarkIsShownOrMarking
  <1>6. CASE DeleteSeries(h)
    <2>1. UNCHANGED <<warning, warned>>
      BY <1>6 DEF DeleteSeries, redis
    <2>2. CASE At(h, "delete_warn")
      <3>1. Goto(h, "warn")
        BY <1>6, <2>2 DEF DeleteSeries, At
      <3>2. Marking(h)'
        BY <3>1, Arrives DEF Marking
      <3> QED
        BY <3>2 DEF MarkIsShownOrMarking
    <2>3. CASE ~At(h, "delete_warn")
      <3>1. ~Marking(h) /\ \E pc \in Steps : Goto(h, pc)
        BY <1>6, <2>3 DEF DeleteSeries, Marking, At, Steps
      <3>2. \A g \in Handlers : Marking(g) => Marking(g)'
        BY <3>1, OthersStay DEF Marking
      <3> QED
        BY <2>1, <3>2, MarkKept
    <2> QED
      BY <2>2, <2>3
  <1>7. CASE Record(h)
    <2>1. UNCHANGED <<warning, warned>> /\ ~Marking(h)
      BY <1>7 DEF Record, Marking, At
    <2>2. \A g \in Handlers \ {h} : handlers'[g] = handlers[g]
      BY <1>7 DEF Record, Return, TypeOK
    <2> QED
      BY <2>1, <2>2, MarkKept DEF Marking
  <1>8. CASE \/ Lookup(h) \/ CheckExempt(h) \/ Relookup(h) \/ CheckGrace(h)
             \/ BanFlooder(h) \/ UnbanFlooder(h) \/ ClearSeries(h) \/ ClearGrace(h)
    <2>1. UNCHANGED <<warning, warned>> /\ ~Marking(h)
      BY <1>8 DEF Lookup, CheckExempt, Relookup, CheckGrace, BanFlooder, UnbanFlooder,
                  ClearSeries, ClearGrace, Marking, At, redis
    <2>2. Return(h) \/ \E pc \in Steps : Goto(h, pc)
      BY <1>8 DEF Lookup, CheckExempt, Relookup, CheckGrace, BanFlooder, UnbanFlooder,
                  ClearSeries, ClearGrace, GotoIf, Steps
    <2>3. \A g \in Handlers : Marking(g) => Marking(g)'
      BY <2>1, <2>2, OthersStay DEF Marking
    <2> QED
      BY <2>1, <2>3, MarkKept
  <1> QED
    BY <1>2, <1>3, <1>4, <1>5, <1>6, <1>7, <1>8 DEF Handle

LEMMA MarkByNext ==
    ASSUME IInv, MarkIsShownOrMarking, ~RedisMayFail, ~MayCrash, [Next]_vars
    PROVE  MarkIsShownOrMarking'
  <1> USE ConstantsAssumption
  <1>1. ASSUME NEW h \in Handlers, Dispatch(h)
        PROVE  MarkIsShownOrMarking'
    <2>1. UNCHANGED <<warning, warned>> /\ ~Marking(h)
      BY <1>1 DEF Dispatch, Marking, At, redis
    <2>2. \A g \in Handlers \ {h} : handlers'[g] = handlers[g]
      BY <1>1 DEF Dispatch, IInv, TypeOK
    <2> QED
      BY <2>1, <2>2, MarkKept DEF Marking
  <1>2. CASE Rejoin \/ (\E c \in Contents : Post(c)) \/ UNCHANGED vars
    <2>1. UNCHANGED <<warning, warned, handlers>>
      BY <1>2 DEF Rejoin, Post, vars, redis
    <2> QED
      BY <2>1, MarkKept DEF Marking
  <1>3. CASE Tick
    <2>1. UNCHANGED handlers /\ warning' = Aged(warning, WarningTTL)
          /\ warned' = Aged(warned, WarningTTL + 1)
      BY <1>3 DEF Tick
    <2>2. CASE \E h \in Handlers : Marking(h)
      BY <2>1, <2>2 DEF MarkIsShownOrMarking, Marking
    <2>3. CASE warning # None /\ Shown
      <3>1. warning \in 0..(WarningTTL - 1) /\ warned \in 0..WarningTTL
        BY <2>3 DEF IInv, TypeOK, Shown
      <3>2. warning' # None => /\ warning # WarningTTL - 1 /\ warning' = warning + 1
                               /\ warned' = warned + 1
        BY <2>1, <2>3, <3>1 DEF Aged, Shown
      <3>3. warned + 1 # None
        BY <3>1
      <3> QED
        BY <2>3, <3>1, <3>2, <3>3 DEF MarkIsShownOrMarking, Shown
    <2>4. CASE warning = None
      BY <2>1, <2>4 DEF Aged, MarkIsShownOrMarking
    <2> QED
      BY <2>2, <2>3, <2>4 DEF MarkIsShownOrMarking
  <1> QED
    BY <1>1, <1>2, <1>3, MarkByHandler DEF Next, Restart

\* While Redis answers and the process lives, no mark outlives the handlers
\* without a warning that was on display since it was set, however many of
\* them overlap: a refused warning is taken back by the handler that sent it.
THEOREM MarksAreDelivered ==
    ASSUME ~RedisMayFail, ~MayCrash
    PROVE  Spec => []MarkIsDelivered
  <1>1. Init => MarkIsShownOrMarking
    BY DEF Init, MarkIsShownOrMarking
  <1>2. IInv /\ MarkIsShownOrMarking /\ [Next]_vars => MarkIsShownOrMarking'
    BY MarkByNext
  <1>3. MarkIsShownOrMarking => MarkIsDelivered
    BY DEF MarkIsShownOrMarking, MarkIsDelivered, Shown, Marking, Quiet, At
  <1> QED
    BY <1>1, <1>2, <1>3, InvariantHolds, PTL DEF Spec
-----------------------------------------------------------------------------
(* A kick waits for the grace period to end                                *)

\* The mark is younger than nothing it promises: the warning was displayed
\* after it was set, and the grace key went with or after it.
Settled ==
    warning # None =>
        /\ Shown
        /\ warned >= Grace \/ (grace # None /\ grace <= warned)

\* What a handler that runs alone, message by message, knows at each step.
KickInOrder(h) ==
    /\ ~Marking(h) => Settled
    /\ At(h, "rollback_grace") => warning = None
    /\ handlers[h].pc \in {"delete_warn", "warn"} => Grace = 0 \/ grace = 0
    /\ handlers[h].pc \in {"exempt_again", "check_grace"} => warning # None
    /\ handlers[h].pc \in {"delete_kick", "ban"} => warned # None /\ warned >= Grace

LEMMA SettledWithTime ==
    ASSUME TypeOK, Settled, Tick
    PROVE  Settled'
  <1> USE ConstantsAssumption
  <1> SUFFICES ASSUME warning' # None PROVE Shown' /\ (warned' >= Grace \/ (grace' # None /\ grace' <= warned'))
    BY DEF Settled
  <1>1. /\ warning' = Aged(warning, WarningTTL) /\ grace' = Aged(grace, Grace)
        /\ warned' = Aged(warned, WarningTTL + 1)
    BY DEF Tick
  <1>2. /\ warning # None /\ warning # WarningTTL - 1 /\ warning' = warning + 1
    BY <1>1 DEF Aged
  <1>3. Shown /\ (warned >= Grace \/ (grace # None /\ grace <= warned))
    BY <1>2 DEF Settled
  <1>4. warning \in 0..(WarningTTL - 1) /\ warned \in 0..WarningTTL
    BY <1>2, <1>3 DEF TypeOK, Shown
  <1>5. warned' = warned + 1 /\ warned' \in Nat
    BY <1>1, <1>2, <1>3, <1>4 DEF Aged, Shown
  <1>6. Shown'
    BY <1>2, <1>3, <1>4, <1>5 DEF Shown
  <1>7. warned' >= Grace \/ (grace' # None /\ grace' <= warned')
    <2>1. CASE warned >= Grace
      BY <1>4, <1>5, <2>1
    <2>2. CASE grace # None /\ grace <= warned
      <3>1. grace \in 0..(Grace - 1)
        BY <2>2 DEF TypeOK
      <3>2. CASE grace = Grace - 1
        BY <1>4, <1>5, <2>2, <3>1, <3>2
      <3>3. CASE grace # Grace - 1
        <4>1. grace' = grace + 1 /\ grace' \in Nat
          BY <1>1, <2>2, <3>1, <3>3 DEF Aged
        <4> QED
          BY <1>4, <1>5, <2>2, <3>1, <4>1
      <3> QED
        BY <3>2, <3>3
    <2> QED
      BY <1>3, <2>1, <2>2
  <1> QED
    BY <1>6, <1>7

\* A step from outside the marking steps that leaves the keys alone.
LEMMA SettledKept ==
    ASSUME Settled, UNCHANGED <<warning, grace, warned>>
    PROVE  Settled'
  BY DEF Settled, Shown

LEMMA KickByHandler ==
    ASSUME IInv, ~RedisMayFail, NEW h \in Handlers, KickInOrder(h), Handle(h)
    PROVE  KickInOrder(h)'
  <1> USE ConstantsAssumption DEF IInv
  <1>1. Redis = {"ok"}
    BY DEF Redis, Outcomes
  <1>2. ASSUME NEW pc, Goto(h, pc) PROVE handlers'[h].pc = pc
    BY <1>2, Arrives
  <1>3. Return(h) => handlers'[h].pc = "idle"
    BY DEF Return, Idle, TypeOK
  <1>4. CASE MarkWarned(h)
    <2>1. CASE warning # None
      <3>1. UNCHANGED <<warning, grace, warned>> /\ handlers'[h].pc = "relookup"
        BY <1>1, <1>2, <1>4, <2>1 DEF MarkWarned, GotoIf
      <3>2. Settled'
        BY <1>4, <3>1, SettledKept DEF MarkWarned, KickInOrder, Marking, At
      <3> QED
        BY <3>1, <3>2 DEF KickInOrder, Marking, At
    <2>2. CASE warning = None
      <3>1. handlers'[h].pc = IF Grace > 0 THEN "mark_grace" ELSE "delete_warn"
        BY <1>1, <1>2, <1>4, <2>2 DEF MarkWarned, GotoIf
      <3>2. Grace > 0 \/ Grace = 0
        OBVIOUS
      <3> QED
        BY <3>1, <3>2 DEF KickInOrder, Marking, At
    <2> QED
      BY <2>1, <2>2
  <1>5. CASE MarkGrace(h)
    <2>1. handlers'[h].pc = "delete_warn" /\ grace' = 0
      BY <1>1, <1>2, <1>5 DEF MarkGrace, GotoIf, Written
    <2> QED
      BY <2>1 DEF KickInOrder, Marking, At
  <1>6. CASE Warn(h)
    <2>1. PICK o \in Telegram(TRUE) :
            /\ warned' = Written(o, warned, 0)
            /\ Goto(h, IF o = "ok" THEN "clear" ELSE "rollback")
      BY <1>6 DEF Warn
    <2>2. UNCHANGED <<warning, grace>> /\ (Grace = 0 \/ grace = 0)
      BY <1>6 DEF Warn, redis, KickInOrder, At
    <2>3. CASE o = "ok"
      <3>1. warned' = 0 /\ handlers'[h].pc = "clear"
        BY <1>2, <2>1, <2>3 DEF Written
      <3>2. Settled'
        <4>1. warning' # None => warning' \in Nat
          BY <2>2 DEF TypeOK
        <4>2. warned' # None
          BY <3>1
        <4>3. warned' >= Grace \/ (grace' # None /\ grace' <= warned')
          BY <2>2, <3>1
        <4> QED
          BY <3>1, <4>1, <4>2, <4>3 DEF Settled, Shown
      <3> QED
        BY <3>1, <3>2 DEF KickInOrder, At
    <2>4. CASE o # "ok"
      <3>1. handlers'[h].pc = "rollback"
        BY <1>2, <2>1, <2>4
      <3> QED
        BY <3>1 DEF KickInOrder, Marking, At
    <2> QED
      BY <2>3, <2>4
  <1>7. CASE ClearWarning(h)
    <2>1. warning' = None /\ handlers'[h].pc = "rollback_grace"
      BY <1>1, <1>2, <1>7 DEF ClearWarning, GotoIf, Written
    <2> QED
      BY <2>1 DEF KickInOrder, Settled, At
  <1>8. CASE ClearGrace(h)
    <2>1. warning' = None /\ handlers'[h].pc = "idle"
      BY <1>3, <1>8 DEF ClearGrace, KickInOrder
    <2> QED
      BY <2>1 DEF KickInOrder, Settled, At
  <1>9. CASE DeleteSeries(h)
    <2>1. UNCHANGED <<warning, grace, warned>>
      BY <1>9 DEF DeleteSeries, redis
    <2>2. CASE At(h, "delete_warn")
      <3>1. handlers'[h].pc = "warn" /\ (Grace = 0 \/ grace = 0)
        BY <1>2, <1>9, <2>2 DEF DeleteSeries, KickInOrder, At
      <3> QED
        BY <2>1, <3>1 DEF KickInOrder, Marking, At
    <2>3. CASE At(h, "delete_grace")
      <3>1. handlers'[h].pc = "clear"
        BY <1>2, <1>9, <2>3 DEF DeleteSeries, At
      <3>2. Settled'
        BY <2>1, <2>3, SettledKept DEF KickInOrder, Marking, At
      <3> QED
        BY <3>1, <3>2 DEF KickInOrder, At
    <2>4. CASE At(h, "delete_kick")
      <3>1. handlers'[h].pc = "ban" /\ warned # None /\ warned >= Grace
        BY <1>2, <1>9, <2>4 DEF DeleteSeries, KickInOrder, At
      <3>2. Settled'
        BY <2>1, <2>4, SettledKept DEF KickInOrder, Marking, At
      <3> QED
        BY <2>1, <3>1, <3>2 DEF KickInOrder, At
    <2> QED
      BY <1>9, <2>2, <2>3, <2>4 DEF DeleteSeries, At
  <1>10. CASE CheckGrace(h)
    <2>1. UNCHANGED <<warning, grace, warned>> /\ Settled /\ warning # None
      BY <1>10 DEF CheckGrace, redis, KickInOrder, Marking, At
    <2>2. handlers'[h].pc = IF grace # None THEN "delete_grace" ELSE "delete_kick"
      BY <1>1, <1>2, <1>10 DEF CheckGrace, GotoIf
    <2>3. grace = None => warned # None /\ warned >= Grace
      BY <2>1 DEF Settled, Shown
    <2>4. Settled'
      BY <2>1, SettledKept
    <2> QED
      BY <2>1, <2>2, <2>3, <2>4 DEF KickInOrder, At
  <1>11. CASE Lookup(h) \/ CheckExempt(h) \/ Relookup(h)
    <2>1. UNCHANGED <<warning, grace, warned>> /\ Settled
      BY <1>11 DEF Lookup, CheckExempt, Relookup, redis, KickInOrder, Marking, At
    <2>2. Settled'
      BY <2>1, SettledKept
    <2>3. CASE Lookup(h)
      <3>1. \/ handlers'[h].pc \in {"idle", "exempt_first"}
            \/ handlers'[h].pc = "exempt_again" /\ warning # None
        BY <1>2, <1>3, <2>3 DEF Lookup
      <3> QED
        BY <2>1, <2>2, <3>1 DEF KickInOrder, At
    <2>4. CASE CheckExempt(h)
      <3>1. \/ handlers'[h].pc \in {"clear_all", "mark"}
            \/ handlers'[h].pc = "check_grace" /\ warning # None
        BY <1>2, <2>4 DEF CheckExempt, KickInOrder, At
      <3> QED
        BY <2>1, <2>2, <3>1 DEF KickInOrder, At
    <2>5. CASE Relookup(h)
      <3>1. handlers'[h].pc = "idle" \/ (handlers'[h].pc = "check_grace" /\ warning # None)
        BY <1>2, <1>3, <2>5 DEF Relookup, GotoIf
      <3> QED
        BY <2>1, <2>2, <3>1 DEF KickInOrder, At
    <2> QED
      BY <1>11, <2>3, <2>4, <2>5
  <1>12. CASE Record(h) \/ BanFlooder(h) \/ UnbanFlooder(h) \/ ClearSeries(h)
    <2>1. UNCHANGED <<warning, grace, warned>> /\ Settled
      BY <1>12 DEF Record, BanFlooder, UnbanFlooder, ClearSeries, redis, KickInOrder, Marking, At
    <2>2. Settled'
      BY <2>1, SettledKept
    <2>3. handlers'[h].pc \in {"idle", "lookup", "unban", "clear_all", "rollback"}
      <3>1. CASE Record(h)
        BY <1>3, <3>1 DEF Record, TypeOK, HandlerStates
      <3>2. CASE BanFlooder(h) \/ UnbanFlooder(h) \/ ClearSeries(h)
        BY <1>2, <1>3, <3>2 DEF BanFlooder, UnbanFlooder, ClearSeries, GotoIf
      <3> QED
        BY <1>12, <3>1, <3>2
    <2> QED
      BY <2>2, <2>3 DEF KickInOrder, At
  <1> QED
    BY <1>4, <1>5, <1>6, <1>7, <1>8, <1>9, <1>10, <1>11, <1>12 DEF Handle

LEMMA KickByNext ==
    ASSUME NEW h, Handlers = {h}, Calm, ~MayCrash, ~RedisMayFail,
           IInv, KickInOrder(h), [Next]_vars
    PROVE  KickInOrder(h)'
  <1> USE ConstantsAssumption
  <1>1. CASE Dispatch(h)
    <2>1. UNCHANGED <<warning, grace, warned>> /\ Settled
      BY <1>1 DEF Dispatch, redis, KickInOrder, Marking, At
    <2>2. handlers'[h].pc = "record"
      BY <1>1 DEF Dispatch, IInv, TypeOK
    <2> QED
      BY <2>1, <2>2, SettledKept DEF KickInOrder, At
  <1>2. CASE Rejoin \/ (\E c \in Contents : Post(c)) \/ UNCHANGED vars
    <2>1. UNCHANGED <<warning, grace, warned, handlers>>
      BY <1>2 DEF Rejoin, Post, vars, redis
    <2> QED
      BY <2>1 DEF KickInOrder, Settled, Shown, Marking, At
  <1>3. CASE Tick
    <2>1. At(h, "idle") /\ UNCHANGED handlers
      BY <1>3 DEF Tick, Quiet
    <2>2. Settled'
      BY <1>3, <2>1, SettledWithTime DEF KickInOrder, Marking, At, IInv
    <2> QED
      BY <2>1, <2>2 DEF KickInOrder, At
  <1> QED
    BY <1>1, <1>2, <1>3, KickByHandler DEF Next, Restart

\* Only the ban of a handler that kicks bans, and that handler knows of a
\* warning of which the grace period is over.
LEMMA BanIsInOrder ==
    ASSUME NEW h, Handlers = {h}, IInv, KickInOrder(h), [Next]_vars,
           member' = "banned", member # "banned"
    PROVE  warned # None /\ warned >= Grace
  <1>1. BanFlooder(h)
    BY DEF Next, Handle, Dispatch, Post, Rejoin, Restart, Tick, vars, chat, Record, Lookup,
           CheckExempt, MarkWarned, MarkGrace, Warn, Relookup, CheckGrace, DeleteSeries,
           UnbanFlooder, ClearSeries, ClearWarning, ClearGrace, Written
  <1> QED
    BY <1>1 DEF BanFlooder, KickInOrder, At

\* Where the messages of a user are handled one at a time, in less time than a
\* tick, by a process that lives and a Redis that answers, nobody is kicked
\* within the grace period after the warning, whatever Telegram refuses.
THEOREM KicksComeAfterGrace ==
    ASSUME NEW h, Handlers = {h}, Calm, ~MayCrash, ~RedisMayFail
    PROVE  Spec => KickAfterGrace
  <1>1. Init => KickInOrder(h)
    BY DEF Init, KickInOrder, Settled, At, Idle
  <1>2. IInv /\ KickInOrder(h) /\ [Next]_vars => KickInOrder(h)'
    BY KickByNext
  <1>3. IInv /\ KickInOrder(h) /\ [Next]_vars
          => [member' = "banned" /\ member # "banned" => warned # None /\ warned >= Grace]_vars
    BY BanIsInOrder
  <1> QED
    BY <1>1, <1>2, <1>3, InvariantHolds, PTL DEF Spec, KickAfterGrace

\* Under the same premises nobody is kicked who has not been warned, whatever
\* the TTLs are and however long ago the warning was.
THEOREM KicksAreWarned ==
    ASSUME NEW h, Handlers = {h}, Calm, ~MayCrash, ~RedisMayFail
    PROVE  Spec => KickIsWarned
  <1>1. Init => KickInOrder(h)
    BY DEF Init, KickInOrder, Settled, At, Idle
  <1>2. IInv /\ KickInOrder(h) /\ [Next]_vars => KickInOrder(h)'
    BY KickByNext
  <1>3. IInv /\ KickInOrder(h) /\ [Next]_vars
          => [member' = "banned" /\ member # "banned" => warned # None]_vars
    BY BanIsInOrder
  <1> QED
    BY <1>1, <1>2, <1>3, InvariantHolds, PTL DEF Spec, KickIsWarned

-----------------------------------------------------------------------------
(* A series at the threshold is answered                                   *)

Distinct(ids) == \A i, j \in DOMAIN ids : ids[i] = ids[j] => i = j

\* What a series of the given number of messages keeps of their ids.
Tracked(length) == IF length < MaxTracked THEN length ELSE MaxTracked

\* The stored series has an id of its own for each of the last equal messages,
\* none of them a message that is yet to be recorded.
SeriesIsCounted ==
    /\ series = None => streak = 0
    /\ series # None =>
         /\ Distinct(series.ids) /\ Len(series.ids) = Tracked(streak)
         /\ \A i \in DOMAIN series.ids :
                /\ series.ids[i] < next
                /\ \A h \in Handlers : At(h, "record") => series.ids[i] # handlers[h].post

\* Handlers about to record a message have taken different ones.
PostsAreTaken ==
    /\ \A h \in Handlers : At(h, "record") => handlers[h].post < next
    /\ \A g, h \in Handlers :
           At(g, "record") /\ At(h, "record") /\ handlers[g].post = handlers[h].post => g = h

CountInOrder == SeriesIsCounted /\ PostsAreTaken

\* With one handler the streak is still the one that handler has counted.
LookupInOrder(h) == At(h, "lookup") => streak < Threshold \/ IsFlood(handlers[h].ids)

\* A sequence without repetitions has as many values as it is long.
LEMMA DistinctCount ==
    ASSUME NEW S, NEW ids \in Seq(S), Distinct(ids)
    PROVE  Cardinality({ids[i] : i \in DOMAIN ids}) = Len(ids)
  <1> DEFINE held == {ids[i] : i \in DOMAIN ids}
  <1>1. Len(ids) \in Nat /\ DOMAIN ids = 1..Len(ids)
    OBVIOUS
  <1>2. ids \in Surjection(1..Len(ids), held)
    <2>1. ids \in [1..Len(ids) -> held]
      BY <1>1
    <2> QED
      BY <1>1, <2>1 DEF Surjection
  <1>3. ids \in Injection(1..Len(ids), held)
    BY <1>1, <1>2 DEF Surjection, Injection, IsInjective, Distinct
  <1>4. IsFiniteSet(1..Len(ids)) /\ Cardinality(1..Len(ids)) = Len(ids)
    BY <1>1, FS_Interval
  <1> HIDE DEF held
  <1>5. Cardinality(held) = Len(ids)
    BY <1>2, <1>3, <1>4, FS_Surjection
  <1> QED
    BY <1>5 DEF held

\* The script keeps the ids distinct and their number that of the streak.
LEMMA ExtendedCount ==
    ASSUME IInv, NEW h \in Handlers, SeriesIsCounted, At(h, "record")
    PROVE  LET post == handlers[h].post
               ids  == Extended(post)
           IN  /\ Distinct(ids)
               /\ Len(ids) = Tracked(IF Continues(post) THEN streak + 1 ELSE 1)
               /\ \A i \in DOMAIN ids :
                      \/ ids[i] = post
                      \/ series # None /\ \E k \in DOMAIN series.ids : ids[i] = series.ids[k]
  <1> USE ConstantsAssumption
  <1> DEFINE post == handlers[h].post
             all  == IF Continues(post) THEN Append(series.ids, post) ELSE <<post>>
             long == IF Continues(post) THEN streak + 1 ELSE 1
             Known(n) == \/ n = post
                         \/ series # None /\ \E k \in DOMAIN series.ids : n = series.ids[k]
  <1>1. post \in Posts /\ post \in Nat /\ streak \in Nat /\ Posts \subseteq Nat
    BY DEF IInv, HandlersInOrder, TypeOK, At, Posts
  <1>2. /\ all \in Seq(Posts) /\ Distinct(all) /\ Len(all) \in Nat \ {0}
        /\ \A i \in DOMAIN all : Known(all[i])
        /\ Len(all) = IF Continues(post) THEN Tracked(streak) + 1 ELSE 1
    <2>1. CASE Continues(post)
      <3>1. /\ series.ids \in Seq(Posts) /\ Distinct(series.ids)
            /\ Len(series.ids) = Tracked(streak) /\ Len(series.ids) \in Nat
            /\ DOMAIN series.ids = 1..Len(series.ids)
            /\ \A i \in DOMAIN series.ids : series.ids[i] # post
            /\ series # None
        <4>1. series # None /\ series.ids \in Seq(Posts)
          BY <2>1 DEF Continues, IInv, SeriesInOrder
        <4>2. /\ Distinct(series.ids) /\ Len(series.ids) = Tracked(streak)
              /\ \A i \in DOMAIN series.ids : series.ids[i] # post
          BY <4>1 DEF SeriesIsCounted
        <4>3. Len(series.ids) \in Nat /\ DOMAIN series.ids = 1..Len(series.ids)
          BY <4>1
        <4> QED
          BY <4>1, <4>2, <4>3
      <3>2. /\ all = Append(series.ids, post) /\ DOMAIN all = 1..(Len(series.ids) + 1)
            /\ all \in Seq(Posts) /\ Len(all) = Len(series.ids) + 1
            /\ \A i \in 1..Len(series.ids) : all[i] = series.ids[i]
            /\ all[Len(series.ids) + 1] = post
        BY <1>1, <2>1, <3>1
      <3> HIDE DEF all
      <3>3. \A i \in DOMAIN all :
                \/ i \in 1..Len(series.ids) /\ all[i] = series.ids[i] /\ all[i] # post
                \/ i = Len(series.ids) + 1 /\ all[i] = post
        BY <3>1, <3>2
      <3>4. Distinct(all)
        BY <1>1, <3>1, <3>3 DEF Distinct
      <3>5. \A i \in DOMAIN all : Known(all[i])
        BY <3>1, <3>3
      <3> QED
        BY <1>1, <2>1, <3>1, <3>2, <3>4, <3>5
    <2>2. CASE ~Continues(post)
      BY <1>1, <2>2 DEF Distinct
    <2> QED
      BY <2>1, <2>2
  <1>3. Len(all) > MaxTracked => Tracked(long) = MaxTracked
    BY <1>1, <1>2 DEF Tracked
  <1>4. ~(Len(all) > MaxTracked) => Tracked(long) = Len(all)
    BY <1>1, <1>2 DEF Tracked
  <1> HIDE DEF all, long
  <1>5. CASE Len(all) > MaxTracked
    <2> DEFINE first == Len(all) - MaxTracked + 1
               last  == SubSeq(all, first, Len(all))
    <2>1. first \in Nat /\ first >= 1 /\ first <= Len(all) /\ Len(all) - first + 1 = MaxTracked
      BY <1>2, <1>5
    <2>2. \A i \in 1..MaxTracked : first + i - 1 \in DOMAIN all
      BY <1>2, <2>1
    <2>3. Extended(post) = last
      BY <1>5 DEF Extended, all
    <2> HIDE DEF first
    <2>4. /\ Len(last) = MaxTracked /\ DOMAIN last = 1..MaxTracked
          /\ \A i \in 1..MaxTracked : last[i] = all[first + i - 1]
      BY <1>2, <2>1
    <2> HIDE DEF last
    <2>5. Distinct(last)
      <3> SUFFICES ASSUME NEW i \in 1..MaxTracked, NEW j \in 1..MaxTracked, last[i] = last[j]
                   PROVE  i = j
        BY <2>4 DEF Distinct
      <3>1. first + i - 1 = first + j - 1
        BY <1>2, <2>2, <2>4 DEF Distinct
      <3> QED
        BY <2>1, <3>1
    <2>6. \A i \in 1..MaxTracked : Known(last[i])
      BY <1>2, <2>2, <2>4
    <2> QED
      BY <1>3, <1>5, <2>3, <2>4, <2>5, <2>6 DEF long
  <1>6. CASE ~(Len(all) > MaxTracked)
    <2>1. Extended(post) = all
      BY <1>6 DEF Extended, all
    <2> QED
      BY <1>2, <1>4, <1>6, <2>1 DEF long
  <1> QED
    BY <1>5, <1>6

\* What a handler gets back when it records its message, whatever the others do.
LEMMA RecordCounts ==
    ASSUME IInv, CountInOrder, NEW h \in Handlers, Record(h)
    PROVE  /\ CountInOrder'
           /\ streak' \in Nat
           /\ handlers'[h].pc = "lookup"
                  => Cardinality(handlers'[h].ids) = Tracked(streak')
  <1> USE ConstantsAssumption
  <1> DEFINE post == handlers[h].post
             ids  == Extended(post)
             held == {ids[i] : i \in DOMAIN ids}
             long == IF Continues(post) THEN streak + 1 ELSE 1
  <1>1. /\ At(h, "record") /\ post \in Posts /\ post < next /\ streak \in Nat
        /\ handlers \in [Handlers -> HandlerStates]
    BY DEF Record, At, CountInOrder, PostsAreTaken, IInv, HandlersInOrder, TypeOK
  <1>2. /\ \/ series' = series /\ streak' = streak
           \/ series' = [digest |-> posts[post], ids |-> ids, age |-> 0] /\ streak' = long
        /\ \/ Return(h)
           \/ /\ handlers' = [handlers EXCEPT ![h].pc = "lookup", ![h].ids = held]
              /\ streak' = long
        /\ next' = next
    BY DEF Record, Written, chat
  <1>3. /\ ids \in Seq(Posts) /\ Distinct(ids) /\ Len(ids) = Tracked(long)
        /\ \A i \in DOMAIN ids :
               \/ ids[i] = post
               \/ series # None /\ \E k \in DOMAIN series.ids : ids[i] = series.ids[k]
    BY <1>1, ExtendedSeries, ExtendedCount DEF CountInOrder
  <1>4. Cardinality(held) = Tracked(long)
    BY <1>3, DistinctCount
  <1>5. long \in Nat /\ next \in Nat /\ post \in Nat /\ Posts \subseteq Nat
        /\ posts[post] \in Contents
    BY <1>1 DEF IInv, TypeOK, Posts
  <1>6. /\ handlers'[h].pc \in {"idle", "lookup"}
        /\ handlers'[h].pc = "lookup" => handlers'[h].ids = held /\ streak' = long
        /\ \A g \in Handlers \ {h} : handlers'[g] = handlers[g]
    BY <1>1, <1>2 DEF Return, Idle, HandlerStates
  <1>7. PostsAreTaken'
    BY <1>2, <1>6 DEF CountInOrder, PostsAreTaken, At
  \* No other handler is about to record one of the ids.
  <1>8. /\ \A i \in DOMAIN ids : ids[i] < next
        /\ \A i \in DOMAIN ids, g \in Handlers \ {h} : At(g, "record") => ids[i] # handlers[g].post
    BY <1>1, <1>3 DEF CountInOrder, SeriesIsCounted, PostsAreTaken
  <1> HIDE DEF post, ids, held, long
  <1>9. SeriesIsCounted'
    <2>1. CASE series' = series /\ streak' = streak
      BY <1>2, <1>6, <2>1 DEF CountInOrder, SeriesIsCounted, At, Tracked, Distinct
    <2>2. CASE series' = [digest |-> posts[post], ids |-> ids, age |-> 0] /\ streak' = long
      <3>1. series' \in [digest : Contents, ids : Seq(Nat), age : Nat]
        <4>1. ids \in Seq(Nat)
          BY <1>3 DEF Posts
        <4> QED
          BY <1>5, <2>2, <4>1
      <3>2. series' # None /\ series'.ids = ids
        BY <2>2, <3>1
      <3> QED
        BY <1>2, <1>3, <1>6, <1>8, <2>2, <3>2 DEF SeriesIsCounted, At, Tracked, Distinct
    <2> QED
      BY <1>2, <2>1, <2>2
  <1> QED
    BY <1>1, <1>2, <1>4, <1>5, <1>6, <1>7, <1>9 DEF CountInOrder, Tracked

LEMMA OneMoves ==
    ASSUME NEW h \in Handlers, Handle(h), ~Record(h)
    PROVE  Return(h) \/ \E pc \in Steps \ {"record", "lookup"} : Goto(h, pc)
  BY DEF Handle, Lookup, CheckExempt, MarkWarned, MarkGrace, Warn, Relookup, CheckGrace,
         DeleteSeries, BanFlooder, UnbanFlooder, ClearSeries, ClearWarning, ClearGrace,
         GotoIf, Steps, At

\* The other steps of a handler leave the count alone or clear it with the series.
LEMMA OthersKeepCount ==
    ASSUME IInv, CountInOrder, NEW h \in Handlers, Handle(h), ~Record(h)
    PROVE  /\ CountInOrder'
           /\ handlers'[h].pc \notin {"record", "lookup"}
           /\ streak' \in {0, streak}
  <1>1. next' = next
    BY DEF Handle, Lookup, CheckExempt, MarkWarned, MarkGrace, Warn, Relookup, CheckGrace,
           DeleteSeries, BanFlooder, UnbanFlooder, ClearSeries, ClearWarning, ClearGrace, chat
  <1>2. \/ UNCHANGED <<series, streak>>
        \/ series' = None /\ streak' = 0
    BY DEF Handle, Lookup, CheckExempt, MarkWarned, MarkGrace, Warn, Relookup, CheckGrace,
           DeleteSeries, BanFlooder, UnbanFlooder, ClearSeries, ClearWarning, ClearGrace, redis,
           Written
  <1>3. Return(h) \/ \E pc \in Steps \ {"record", "lookup"} : Goto(h, pc)
    BY OneMoves
  <1>4. handlers'[h].pc \notin {"record", "lookup"}
    <2>1. Return(h) => handlers'[h].pc = "idle"
      BY DEF Return, Idle, IInv, TypeOK
    <2> QED
      BY <1>3, <2>1, Arrives DEF IInv
  <1>5. \A g \in Handlers \ {h} : handlers'[g] = handlers[g]
    BY <1>3 DEF Return, Goto, IInv, TypeOK
  <1> QED
    BY <1>1, <1>2, <1>4, <1>5
    DEF CountInOrder, SeriesIsCounted, PostsAreTaken, At, Tracked, Distinct

LEMMA DispatchKeepsCount ==
    ASSUME IInv, CountInOrder, NEW h \in Handlers, Dispatch(h)
    PROVE  /\ CountInOrder'
           /\ handlers'[h].pc = "record"
  <1>1. /\ UNCHANGED <<series, streak>> /\ next \in Nat /\ next' = next + 1
        /\ handlers'[h].pc = "record" /\ handlers'[h].post = next
        /\ \A g \in Handlers \ {h} : handlers'[g] = handlers[g]
    BY DEF Dispatch, redis, IInv, TypeOK
  <1>2. series # None => \A i \in DOMAIN series.ids : series.ids[i] \in Nat
    BY DEF IInv, SeriesInOrder, Posts
  <1>3. \A g \in Handlers : handlers[g].post \in Nat
    BY DEF IInv, TypeOK, HandlerStates
  <1>4. SeriesIsCounted'
    BY <1>1, <1>2 DEF CountInOrder, SeriesIsCounted, At, Tracked, Distinct
  <1>5. PostsAreTaken'
    BY <1>1, <1>3 DEF CountInOrder, PostsAreTaken, At
  <1> QED
    BY <1>1, <1>4, <1>5 DEF CountInOrder

LEMMA TickKeepsCount ==
    ASSUME IInv, CountInOrder, Tick
    PROVE  CountInOrder' /\ streak' \in {0, streak} /\ UNCHANGED handlers
  <1>1. UNCHANGED <<next, handlers>>
    BY DEF Tick, chat
  <1>2. \/ series' = None /\ streak' = 0
        \/ /\ series # None /\ series' # None /\ series'.ids = series.ids /\ streak' = streak
    BY DEF Tick, IInv, SeriesInOrder
  <1> QED
    BY <1>1, <1>2 DEF CountInOrder, SeriesIsCounted, PostsAreTaken, At, Tracked, Distinct

LEMMA RestKeepsCount ==
    ASSUME CountInOrder, Rejoin \/ Restart \/ (\E c \in Contents : Post(c)) \/ UNCHANGED vars
    PROVE  CountInOrder'
  <1>1. UNCHANGED <<series, streak, next>>
    BY DEF Rejoin, Restart, Post, vars, redis, chat
  <1>2. UNCHANGED handlers \/ \A g \in Handlers : handlers'[g].pc = "idle"
    BY DEF Rejoin, Restart, Post, vars, Idle
  <1> QED
    BY <1>1, <1>2 DEF CountInOrder, SeriesIsCounted, PostsAreTaken, At, Tracked, Distinct

\* Only the recording of its message makes a handler look at the number of ids.
LEMMA OnlyRecordLooks ==
    ASSUME IInv, CountInOrder, Next, NEW h \in Handlers, At(h, "record"),
           handlers'[h].pc = "lookup"
    PROVE  Record(h)
  <1>1. ASSUME NEW g \in Handlers, Dispatch(g) PROVE FALSE
    BY <1>1 DEF Dispatch, At, IInv, TypeOK
  <1>2. ASSUME NEW g \in Handlers, Handle(g), g # h PROVE FALSE
    <2>1. handlers'[h] = handlers[h]
      <3>1. CASE Record(g)
        BY <1>2, <3>1 DEF Record, Return, IInv, TypeOK
      <3>2. CASE ~Record(g)
        <4>1. Return(g) \/ \E pc \in Steps : Goto(g, pc)
          BY <1>2, <3>2, OneMoves
        <4> QED
          BY <1>2, <4>1 DEF Return, Goto, IInv, TypeOK
      <3> QED
        BY <3>1, <3>2
    <2> QED
      BY <2>1 DEF At
  <1>3. ASSUME Handle(h), ~Record(h) PROVE FALSE
    BY <1>3, OthersKeepCount
  <1>4. Rejoin \/ Restart \/ Tick \/ (\E c \in Contents : Post(c)) => FALSE
    BY DEF Rejoin, Restart, Tick, Post, At, Idle
  <1> QED
    BY <1>1, <1>2, <1>3, <1>4 DEF Next

LEMMA CountInvariant == Spec => []CountInOrder
  <1>1. Init => CountInOrder
    BY DEF Init, CountInOrder, SeriesIsCounted, PostsAreTaken, At, Idle
  <1>2. IInv /\ CountInOrder /\ [Next]_vars => CountInOrder'
    BY RecordCounts, OthersKeepCount, DispatchKeepsCount, TickKeepsCount, RestKeepsCount
    DEF Next
  <1> QED
    BY <1>1, <1>2, InvariantHolds, PTL DEF Spec

\* If the threshold is within the tracked ids, a handler that has recorded a
\* message at the threshold is given enough ids to see it: however many handlers
\* overlap, in whatever order they record their messages, and whatever fails.
THEOREM SeriesAreSeen ==
    ASSUME Threshold <= MaxTracked
    PROVE  Spec => [][\A h \in Handlers :
                         At(h, "record") /\ handlers'[h].pc = "lookup" /\ streak' >= Threshold
                         => IsFlood(handlers'[h].ids)]_vars
  <1>1. IInv /\ CountInOrder /\ [Next]_vars
          => [\A h \in Handlers :
                 At(h, "record") /\ handlers'[h].pc = "lookup" /\ streak' >= Threshold
                 => IsFlood(handlers'[h].ids)]_vars
    <2> SUFFICES ASSUME IInv, CountInOrder, Next, NEW h \in Handlers, At(h, "record"),
                        handlers'[h].pc = "lookup", streak' >= Threshold
                 PROVE  IsFlood(handlers'[h].ids)
      OBVIOUS
    <2>1. Record(h)
      BY OnlyRecordLooks
    <2>2. Cardinality(handlers'[h].ids) = Tracked(streak') /\ streak' \in Nat
      BY <2>1, RecordCounts
    <2> QED
      BY <2>2, ConstantsAssumption DEF Tracked, IsFlood
  <1> QED
    BY <1>1, CountInvariant, InvariantHolds, PTL DEF Spec

LEMMA LookupByNext ==
    ASSUME NEW one, Handlers = {one}, Threshold <= MaxTracked,
           IInv, CountInOrder, LookupInOrder(one), [Next]_vars
    PROVE  LookupInOrder(one)'
  <1> USE ConstantsAssumption
  <1>1. CASE Record(one)
    BY <1>1, RecordCounts DEF LookupInOrder, At, Tracked, IsFlood
  <1>2. CASE Dispatch(one) \/ (Handle(one) /\ ~Record(one))
    BY <1>2, DispatchKeepsCount, OthersKeepCount DEF LookupInOrder, At
  <1>3. CASE Tick
    BY <1>3, TickKeepsCount DEF LookupInOrder, At, IsFlood
  <1>4. CASE Rejoin \/ (\E c \in Contents : Post(c)) \/ UNCHANGED vars
    <2>1. UNCHANGED <<streak, handlers>>
      BY <1>4 DEF Rejoin, Post, vars
    <2> QED
      BY <2>1 DEF LookupInOrder, At, IsFlood
  <1>5. CASE Restart
    BY <1>5 DEF Restart, LookupInOrder, At, Idle
  <1> QED
    BY <1>1, <1>2, <1>3, <1>4, <1>5 DEF Next

\* Where the messages of a user are handled one at a time by a process that
\* lives and a Redis that answers, and the threshold can be reached within the
\* tracked ids, every series at the threshold is answered, however much time
\* passes between two calls and whatever Telegram refuses.
THEOREM SeriesAreNoticed ==
    ASSUME NEW one, Handlers = {one}, Threshold <= MaxTracked, ~MayCrash, ~RedisMayFail
    PROVE  Spec => SeriesIsNoticed
  <1>1. Init => LookupInOrder(one)
    BY DEF Init, LookupInOrder, At, Idle
  <1>2. IInv /\ CountInOrder /\ LookupInOrder(one) /\ [Next]_vars => LookupInOrder(one)'
    BY LookupByNext
  <1>3. IInv /\ LookupInOrder(one) /\ [Next]_vars
          => [\A h \in Handlers :
                  At(h, "lookup") /\ handlers'[h].pc = "idle" => streak < Threshold]_vars
    <2> SUFFICES ASSUME IInv, LookupInOrder(one), Next, At(one, "lookup"),
                        handlers'[one].pc = "idle", IsFlood(handlers[one].ids)
                 PROVE  FALSE
      BY DEF LookupInOrder
    <2>1. Lookup(one)
      BY DEF Next, Handle, Dispatch, Post, Rejoin, Restart, Tick, Record, CheckExempt,
             MarkWarned, MarkGrace, Warn, Relookup, CheckGrace, DeleteSeries, BanFlooder,
             UnbanFlooder, ClearSeries, ClearWarning, ClearGrace, At
    <2>2. \E pc \in {"exempt_first", "exempt_again"} : Goto(one, pc)
      BY <2>1 DEF Lookup, Redis, Outcomes
    <2> QED
      BY <2>2, Arrives DEF IInv
  <1> QED
    BY <1>1, <1>2, <1>3, CountInvariant, InvariantHolds, PTL DEF Spec, SeriesIsNoticed
=============================================================================
