------------------------- MODULE SqliteReplayProofs -------------------------
(***************************************************************************)
(* For every set of calls, database, limit and number of crashes: a worker *)
(* that replays the history reaches the state that was recorded, a query   *)
(* it answers reflects what was answered before, a run stops at its limit, *)
(* and the database is the effect of the recorded calls, the last of which *)
(* is the only one that may have failed.                                   *)
(*                                                                         *)
(* The workflow function is deterministic: what a worker does next depends *)
(* on its state and the next batch alone.  So there is one set of states   *)
(* that every replay of the history goes through, with the recorded state  *)
(* as its only end, and a worker is in one of them or, during a task, on   *)
(* its way from that end through the task's batch.                         *)
(*                                                                         *)
(* The last part is about commands, for every set of them: what an exec    *)
(* was told it did is in what later queries and saves read.  Until         *)
(* somebody asks for a stopped database to be created again, every step of *)
(* the commands is one of SqliteWorkflow or leaves it alone, so its        *)
(* inductive invariants hold.  What has to be added is that an exec's      *)
(* answer is final: no later task issues its response again.               *)
(***************************************************************************)
EXTENDS SqliteWorkflowProofs, SqliteCommands, Induction

\* The state of a worker that was fed n batches.
State(n, at, events, wake, done, d, requests, calls) ==
  [n |-> n, pc |-> at, inbox |-> events, woken |-> wake, ctxDone |-> done,
   db |-> d, count |-> requests, handled |-> calls]

\* LoopContinues, Feed's outcome, Selects, what a selected case leads to and Block, of
\* such a state.
Continues(s) == ~s.ctxDone /\ (s.count < Limit \/ s.inbox # << >>)
FedState(s, b) ==
  State(s.n + 1, IF s.pc = "start" /\ ~Opens(s.db) THEN "failing" ELSE "running", b,
        s.pc = "blocked" /\ b # << >>, s.ctxDone \/ CancelRequest \in Elems(b),
        s.db, s.count, s.handled)
FirstIn(s, i) ==
  /\ i \in DOMAIN s.inbox
  /\ IF s.woken THEN i = 1
     ELSE \A j \in DOMAIN s.inbox :
            \/ Rank(s.inbox[i]) < Rank(s.inbox[j])
            \/ Rank(s.inbox[i]) = Rank(s.inbox[j]) /\ i <= j
IsFatal(s, e) == e.kind = "update" /\ Fails(s.db, e.call) /\ ~IgnoreUpdateErrors
ExecutedState(s, i) ==
  State(s.n, IF IsFatal(s, s.inbox[i]) THEN "failing" ELSE "running", Without(s.inbox, i),
        FALSE, s.ctxDone, Apply(s.db, s.inbox[i].call), Increment(s.count),
        Append(s.handled, s.inbox[i].call))
SkippedState(s, i) ==
  State(s.n, "running", Without(s.inbox, i), FALSE, s.ctxDone, s.db, s.count, s.handled)
HandledState(s, i) == IF IsSignal(s.inbox[i]) THEN ExecutedState(s, i) ELSE SkippedState(s, i)
BlockedState(s) ==
  State(s.n, "blocked", s.inbox, s.woken, s.ctxDone, s.db, s.count, s.handled)

\* With the batches H a worker in state s goes to t.
FeedsTo(H, s, t) ==
  s.pc \in {"start", "blocked"} /\ s.n + 1 \in DOMAIN H /\ t = FedState(s, H[s.n + 1])
HandlesTo(s, t) ==
  /\ s.pc = "running" /\ (s.woken \/ Continues(s))
  /\ \E i \in DOMAIN s.inbox : FirstIn(s, i) /\ t = HandledState(s, i)
BlocksTo(s, t) ==
  s.pc = "running" /\ Continues(s) /\ s.inbox = << >> /\ t = BlockedState(s)
GoesTo(H, s, t) == FeedsTo(H, s, t) \/ HandlesTo(s, t) \/ BlocksTo(s, t)

Ended(s) == s.pc = "failing" \/ (s.pc = "running" /\ ~s.woken /\ ~Continues(s))

\* The batches the service hands to a worker, how many it was fed, and its state.
Consumed == IF task THEN Append(history, batch) ELSE history
Fed == Len(Consumed) - Len(feed)
Current == State(Fed, pc, inbox, woken, ctxDone, db, count, handled)
AtStart == State(0, "start", << >>, FALSE, FALSE, input, 0, << >>)

\* The recorded state: the function waits for more while the chain is running, and
\* has ended otherwise.
Recording(F) ==
  /\ F.n = Len(history) /\ F.db = saved.db /\ F.count = saved.count
  /\ F.handled = saved.handled
  /\ IF status = "running" THEN F.pc \in {"start", "blocked"} ELSE Ended(F)

\* Every state of S but F has a next one in T.
Leads(H, S, T, F) == \A s \in S : s = F \/ \E t \in T : GoesTo(H, s, t)

\* The states R of a replay; those a worker goes through in a task.
IsReplay(R, F) == AtStart \in R /\ F \in R /\ Leads(history, R, R, F)
IsTask(E, F) ==
  /\ task /\ Current \in E /\ \A s \in E : s.n = Len(history) + 1
  /\ Leads(Consumed, E \cup {F}, E, Current)
Determined ==
  \E R, F : /\ IsReplay(R, F) /\ Recording(F)
            /\ up => Current \in R \/ \E E : IsTask(E, F)

\* What a worker will be fed is the rest of what the service hands to it, and only an
\* open chain has tasks.
FeedIsRest ==
  up => /\ Len(feed) <= Len(Consumed)
        /\ \A i \in DOMAIN feed : feed[i] = Consumed[Fed + i]
OpenTask == task => status = "running"

Replay == Determined /\ FeedIsRest /\ OpenTask

-----------------------------------------------------------------------------
(* The workflow function.                                                  *)

\* Select has one case to run, so a worker's next state is determined by its state
\* and the batches.
LEMMA Deterministic ==
  ASSUME NEW H, NEW K, NEW s, NEW t, NEW u, s.inbox \in Seq(Event),
         GoesTo(H, s, t), GoesTo(K, s, u),
         \A i \in DOMAIN H : i \in DOMAIN K /\ H[i] = K[i]
  PROVE  t = u
<1>1. CASE s.pc \in {"start", "blocked"}
  BY <1>1 DEF GoesTo, FeedsTo, HandlesTo, BlocksTo
<1>2. CASE s.pc = "running" /\ s.inbox = << >>
  <2>1. ~HandlesTo(s, t) /\ ~HandlesTo(s, u)
    BY <1>2 DEF HandlesTo
  <2> QED BY <1>2, <2>1 DEF GoesTo, FeedsTo, BlocksTo
<1>3. CASE s.pc = "running" /\ s.inbox # << >>
  <2>1. PICK i \in DOMAIN s.inbox : FirstIn(s, i) /\ t = HandledState(s, i)
    BY <1>3 DEF GoesTo, FeedsTo, BlocksTo, HandlesTo
  <2>2. PICK j \in DOMAIN s.inbox : FirstIn(s, j) /\ u = HandledState(s, j)
    BY <1>3 DEF GoesTo, FeedsTo, BlocksTo, HandlesTo
  <2>3. i = j
    <3>1. i \in Int /\ j \in Int /\ Rank(s.inbox[i]) \in Int /\ Rank(s.inbox[j]) \in Int
      BY DEF Rank
    <3>2. CASE s.woken
      BY <2>1, <2>2, <3>2 DEF FirstIn
    <3>3. CASE ~s.woken
      <4>1. /\ \/ Rank(s.inbox[i]) < Rank(s.inbox[j])
               \/ Rank(s.inbox[i]) = Rank(s.inbox[j]) /\ i <= j
            /\ \/ Rank(s.inbox[j]) < Rank(s.inbox[i])
               \/ Rank(s.inbox[j]) = Rank(s.inbox[i]) /\ j <= i
        BY <2>1, <2>2, <3>3 DEF FirstIn
      <4> QED BY <3>1, <4>1
    <3> QED BY <3>2, <3>3
  <2> QED BY <2>1, <2>2, <2>3
<1> QED BY <1>1, <1>2, <1>3 DEF GoesTo, FeedsTo, HandlesTo, BlocksTo

\* More batches only add ways to go on.
LEMMA GoesFurther ==
  ASSUME NEW H, NEW K, \A i \in DOMAIN H : i \in DOMAIN K /\ H[i] = K[i],
         NEW s, NEW t, GoesTo(H, s, t)
  PROVE  GoesTo(K, s, t)
BY DEF GoesTo, FeedsTo

\* A function that has ended, or that waits and was fed all batches, stays where it is.
LEMMA StaysThere ==
  ASSUME NEW H \in Seq(Seq(Event)), NEW s, NEW t,
         Ended(s) \/ (s.pc \in {"start", "blocked"} /\ s.n \in Int /\ s.n >= Len(H))
  PROVE  ~GoesTo(H, s, t)
<1>1. CASE Ended(s)
  BY <1>1 DEF Ended, GoesTo, FeedsTo, HandlesTo, BlocksTo
<1>2. CASE s.pc \in {"start", "blocked"} /\ s.n \in Int /\ s.n >= Len(H)
  <2>1. s.n + 1 \notin DOMAIN H
    BY <1>2
  <2> QED BY <1>2, <2>1 DEF GoesTo, FeedsTo, HandlesTo, BlocksTo
<1> QED BY <1>1, <1>2

\* What the service hands to a worker, in numbers.
LEMMA ConsumedFacts ==
  ASSUME TypeOK
  PROVE  /\ history \in Seq(Seq(Event)) /\ Consumed \in Seq(Seq(Event))
         /\ Len(history) \in Nat /\ DOMAIN history = 1 .. Len(history)
         /\ Len(Consumed) \in Nat /\ DOMAIN Consumed = 1 .. Len(Consumed)
         /\ Len(Consumed) = IF task THEN Len(history) + 1 ELSE Len(history)
         /\ \A i \in DOMAIN history : i \in DOMAIN Consumed /\ history[i] = Consumed[i]
         /\ task => Consumed[Len(history) + 1] = batch
         /\ feed \in Seq(Seq(Event)) /\ Len(feed) \in Nat /\ DOMAIN feed = 1 .. Len(feed)
<1>1. history \in Seq(Seq(Event)) /\ batch \in Seq(Event) /\ feed \in Seq(Seq(Event))
  BY DEF TypeOK
<1>2. CASE task
  <2>1. Consumed = Append(history, batch)
    BY <1>2 DEF Consumed
  <2>2. /\ Len(history) \in Nat /\ DOMAIN history = 1 .. Len(history)
        /\ Len(Consumed) = Len(history) + 1 /\ DOMAIN Consumed = 1 .. Len(history) + 1
        /\ Consumed[Len(history) + 1] = batch
        /\ \A i \in 1 .. Len(history) : Consumed[i] = history[i]
    BY <1>1, <2>1, AppendFacts
  <2> QED BY <1>1, <1>2, <2>1, <2>2
<1>3. CASE ~task
  BY <1>1, <1>3 DEF Consumed
<1> QED BY <1>2, <1>3

\* The recorded state is the end of every replay of the history.
LEMMA RecordedStays ==
  ASSUME TypeOK, NEW F, Recording(F), NEW t
  PROVE  ~GoesTo(history, F, t)
<1>1. history \in Seq(Seq(Event)) /\ Len(history) \in Nat
  BY ConsumedFacts
<1>2. Ended(F) \/ (F.pc \in {"start", "blocked"} /\ F.n \in Int /\ F.n >= Len(history))
  BY <1>1 DEF Recording
<1> QED BY <1>1, <1>2, StaysThere

\* A worker that a replay does not lead on is in the recorded state.
LEMMA NoNextIsRecorded ==
  ASSUME TypeOK, NEW R, NEW F, IsReplay(R, F), Current \in R,
         \/ pc \in {"start", "blocked"} /\ Fed >= Len(history)
         \/ Ended(Current)
  PROVE  Current = F
<1>1. Current.pc = pc /\ Current.n = Fed /\ Fed \in Int
  <2>1. Len(Consumed) \in Nat /\ Len(feed) \in Nat
    BY ConsumedFacts
  <2> QED BY <2>1 DEF Current, State, Fed
<1>2. \A t : ~GoesTo(history, Current, t)
  BY <1>1, ConsumedFacts, StaysThere
<1> QED BY <1>2 DEF IsReplay, Leads

\* A step of the worker goes along the replay, from its end into the task, or along
\* the task.
LEMMA MoveDetermined ==
  ASSUME TypeOK, Replay, up, GoesTo(Consumed, Current, Current'),
         UNCHANGED <<status, input, history, task, batch, saved>>
  PROVE  Determined'
<1>1. PICK R, F : /\ IsReplay(R, F) /\ Recording(F)
                  /\ Current \in R \/ \E E : IsTask(E, F)
  BY DEF Replay, Determined
<1>2. Consumed' = Consumed /\ IsReplay(R, F)' /\ Recording(F)'
  BY <1>1 DEF Consumed, IsReplay, Recording, AtStart
<1>3. Current.inbox \in Seq(Event)
  BY DEF Current, State, TypeOK
<1>4. CASE Current \in R /\ Current # F
  <2>1. PICK t \in R : GoesTo(history, Current, t)
    BY <1>1, <1>4 DEF IsReplay, Leads
  <2>2. t = Current'
    BY <1>3, <2>1, ConsumedFacts, Deterministic
  <2> QED BY <1>2, <2>1, <2>2 DEF Determined
<1>5. CASE Current = F
  <2>1. task
    BY <1>1, <1>5, RecordedStays DEF Consumed
  <2>2. F.pc \in {"start", "blocked"} /\ F.n = Len(history)
    BY <1>1, <2>1 DEF Recording, Replay, OpenTask
  <2>3. Current'.n = Len(history) + 1
    <3>1. Current' = FedState(F, Consumed[F.n + 1])
      BY <1>5, <2>2 DEF GoesTo, FeedsTo, HandlesTo, BlocksTo
    <3> QED BY <2>2, <3>1 DEF FedState, State
  <2>4. PICK c : c = Current'
    OBVIOUS
  <2>5. GoesTo(Consumed, F, c)
    BY <1>5, <2>4
  <2>6. Leads(Consumed, {c} \cup {F}, {c}, c)
    BY <2>5 DEF Leads
  <2>7. \A s \in {c} : s.n = Len(history) + 1
    BY <2>3, <2>4
  <2>8. IsTask({c}, F)'
    BY <1>2, <2>1, <2>4, <2>6, <2>7 DEF IsTask
  <2> QED BY <1>2, <2>8 DEF Determined
<1>6. ASSUME NEW E, IsTask(E, F) PROVE Determined'
  <2>1. Current.n = Len(history) + 1 /\ task
    BY <1>6 DEF IsTask
  <2>2. Current'.n = Len(history) + 1
    <3>1. ~FeedsTo(Consumed, Current, Current')
      BY <2>1, ConsumedFacts DEF FeedsTo
    <3>2. HandlesTo(Current, Current') \/ BlocksTo(Current, Current')
      BY <3>1 DEF GoesTo
    <3>3. CASE HandlesTo(Current, Current')
      BY <2>1, <3>3 DEF HandlesTo, HandledState, ExecutedState, SkippedState, State
    <3>4. CASE BlocksTo(Current, Current')
      BY <2>1, <3>4 DEF BlocksTo, BlockedState, State
    <3> QED BY <3>2, <3>3, <3>4
  <2>3. PICK c : c = Current'
    OBVIOUS
  <2>4. PICK D : D = E \cup {c}
    OBVIOUS
  <2>5. c \in D /\ \A s \in D : s.n = Len(history) + 1
    BY <1>6, <2>2, <2>3, <2>4 DEF IsTask
  <2>6. Leads(Consumed, D \cup {F}, D, c)
    BY <1>6, <2>3, <2>4 DEF IsTask, Leads
  <2>7. IsTask(D, F)'
    BY <1>2, <2>1, <2>3, <2>5, <2>6 DEF IsTask
  <2> QED BY <1>2, <2>7 DEF Determined
<1> QED BY <1>1, <1>4, <1>5, <1>6

\* Being fed a batch is such a step.
LEMMA FeedMoves ==
  ASSUME TypeOK, Replay, Feed
  PROVE  GoesTo(Consumed, Current, Current') /\ FeedIsRest'
<1> USE DEF service, ghosts
<1>1. /\ up /\ feed # << >> /\ feed' = Tail(feed) /\ inbox' = Head(feed)
      /\ pc \in {"start", "blocked"} /\ Consumed' = Consumed
  BY DEF Feed, Consumed
<1>2. /\ Len(feed) \in Nat \ {0} /\ DOMAIN feed = 1 .. Len(feed) /\ Head(feed) = feed[1]
      /\ Len(feed') = Len(feed) - 1 /\ DOMAIN feed' = 1 .. Len(feed) - 1
      /\ \A i \in 1 .. Len(feed) - 1 : feed'[i] = feed[i + 1]
  <2>1. feed \in Seq(Seq(Event))
    BY DEF TypeOK
  <2> QED BY <1>1, <2>1, TailFacts
<1>3. /\ Len(feed) <= Len(Consumed) /\ Len(Consumed) \in Nat
      /\ \A i \in DOMAIN feed : feed[i] = Consumed[Fed + i]
  <2>1. /\ Len(feed) <= Len(Consumed)
        /\ \A i \in DOMAIN feed : feed[i] = Consumed[Fed + i]
    BY <1>1 DEF Replay, FeedIsRest
  <2>2. Len(Consumed) \in Nat
    BY ConsumedFacts
  <2> QED BY <2>1, <2>2
<1>4. /\ Fed' = Fed + 1 /\ Fed \in Nat /\ Fed + 1 \in DOMAIN Consumed
      /\ inbox' = Consumed[Fed + 1]
  <2>1. Fed = Len(Consumed) - Len(feed) /\ Fed' = Len(Consumed) - Len(feed')
    BY <1>1 DEF Fed
  <2>2. Fed' = Fed + 1 /\ Fed \in Nat /\ Fed + 1 \in 1 .. Len(Consumed)
    BY <1>2, <1>3, <2>1
  <2>3. DOMAIN Consumed = 1 .. Len(Consumed)
    BY ConsumedFacts
  <2>4. 1 \in DOMAIN feed
    BY <1>2
  <2> QED BY <1>1, <1>2, <1>3, <2>2, <2>3, <2>4
<1>5. FeedIsRest'
  <2>1. ASSUME NEW i \in DOMAIN feed' PROVE feed'[i] = Consumed'[Fed' + i]
    <3>1. i \in 1 .. Len(feed) - 1
      BY <1>2
    <3>2. i + 1 \in DOMAIN feed /\ feed'[i] = feed[i + 1]
      BY <1>2, <3>1
    <3>3. Fed' + i = Fed + (i + 1)
      BY <1>2, <1>4, <3>1
    <3> QED BY <1>1, <1>3, <3>2, <3>3
  <2> QED BY <1>1, <1>2, <1>3, <2>1 DEF FeedIsRest
<1>6. Current' = FedState(Current, Consumed[Fed + 1])
  BY <1>1, <1>4 DEF Feed, Current, State, FedState
<1>7. Current.n = Fed /\ Current.pc = pc
  BY DEF Current, State
<1> QED BY <1>1, <1>4, <1>5, <1>6, <1>7 DEF GoesTo, FeedsTo

\* Handling the event that Select chose is a step along the batches fed so far.
LEMMA HandleMoves ==
  ASSUME TypeOK, NEW i \in DOMAIN inbox, HandleExec(i) \/ HandleUpdate(i) \/ HandleOther(i)
  PROVE  /\ up /\ GoesTo(Consumed, Current, Current')
         /\ UNCHANGED <<status, input, history, task, batch, saved, up, feed>>
<1> USE DEF service, local, ghosts
<1>1. /\ up /\ pc = "running" /\ (woken \/ LoopContinues) /\ Selects(i) /\ Take(i)
      /\ UNCHANGED <<status, input, history, task, batch, saved, up, feed>>
  BY DEF HandleExec, HandleUpdate, HandleOther, InSelect
<1>2. /\ Current.n = Fed /\ Current.pc = pc /\ Current.inbox = inbox /\ Current.woken = woken
      /\ Current.ctxDone = ctxDone /\ Current.db = db /\ Current.count = count
      /\ Current.handled = handled
  BY DEF Current, State
<1>3. Fed' = Fed
  BY <1>1 DEF Fed, Consumed
<1>4. FirstIn(Current, i)
  BY <1>1, <1>2 DEF Selects, FirstIn
<1>5. Current' = HandledState(Current, i)
  <2>1. CASE HandleExec(i)
    BY <1>1, <1>2, <1>3, <2>1
    DEF HandleExec, Take, Execute, HandledState, ExecutedState, IsFatal, IsSignal, Current, State
  <2>2. CASE HandleUpdate(i)
    BY <1>1, <1>2, <1>3, <2>2
    DEF HandleUpdate, Take, Execute, HandledState, ExecutedState, IsFatal, IsSignal, Current, State
  <2>3. CASE HandleOther(i)
    BY <1>1, <1>2, <1>3, <2>3
    DEF HandleOther, Take, HandledState, SkippedState, IsSignal, Current, State
  <2> QED BY <2>1, <2>2, <2>3
<1>6. Current.woken \/ Continues(Current)
  BY <1>1, <1>2 DEF LoopContinues, HasPending, Continues
<1> QED BY <1>1, <1>2, <1>4, <1>5, <1>6 DEF GoesTo, HandlesTo

\* Waiting for more is such a step.
LEMMA BlockMoves ==
  ASSUME TypeOK, Block
  PROVE  /\ up /\ GoesTo(Consumed, Current, Current')
         /\ UNCHANGED <<status, input, history, task, batch, saved, up, feed>>
<1> USE DEF service, channels, local, ghosts
<1>1. /\ Current.n = Fed /\ Current.pc = pc /\ Current.inbox = inbox /\ Current.woken = woken
      /\ Current.ctxDone = ctxDone /\ Current.db = db /\ Current.count = count
      /\ Current.handled = handled
  BY DEF Current, State
<1>2. Fed' = Fed
  BY DEF Block, Fed, Consumed
<1>3. Current' = BlockedState(Current)
  BY <1>1, <1>2 DEF Block, BlockedState, Current, State
<1>4. Continues(Current)
  BY <1>1 DEF Block, LoopContinues, HasPending, Continues
<1> QED BY <1>1, <1>3, <1>4 DEF Block, HasPending, GoesTo, BlocksTo

\* The function has ended in the states from which the code returns.
LEMMA ReturnsIsEnded == Returns <=> Ended(Current)
BY DEF Returns, LoopContinues, HasPending, Ended, Continues, Current, State

-----------------------------------------------------------------------------
(* The invariant.                                                          *)

\* It holds when the chain starts.
LEMMA ReplayInit == TypeOK /\ Init => Replay
<1> SUFFICES ASSUME TypeOK, Init PROVE Replay
  OBVIOUS
<1>1. PICK c : c = AtStart
  OBVIOUS
<1>2. IsReplay({c}, c)
  BY <1>1 DEF IsReplay, Leads
<1>3. Recording(c)
  BY <1>1 DEF Recording, AtStart, State, Init
<1> QED BY <1>2, <1>3 DEF Replay, Determined, FeedIsRest, OpenTask, Init

\* Steps of clients, of queries and of responses touch nothing it is about.
LEMMA ReplayFrame ==
  ASSUME Replay, UNCHANGED <<status, input, history, task, batch, up, feed, pc, channels,
                             db, count, handled, saved>>
  PROVE  Replay'
<1>1. Consumed' = Consumed /\ Fed' = Fed /\ Current' = Current /\ AtStart' = AtStart
  BY DEF channels, Consumed, Fed, Current, AtStart
<1>2. FeedIsRest' /\ OpenTask'
  BY <1>1 DEF Replay, FeedIsRest, OpenTask
<1>3. PICK R, F : /\ IsReplay(R, F) /\ Recording(F)
                  /\ up => Current \in R \/ \E E : IsTask(E, F)
  BY DEF Replay, Determined
<1>4. IsReplay(R, F)' /\ Recording(F)'
  BY <1>1, <1>3 DEF IsReplay, Recording
<1>5. ASSUME NEW E, IsTask(E, F) PROVE IsTask(E, F)'
  BY <1>1, <1>5 DEF IsTask
<1>6. Determined'
  BY <1>1, <1>3, <1>4, <1>5 DEF Determined
<1> QED BY <1>2, <1>6 DEF Replay

\* A cached worker goes on with the new task's batch from where it is.
LEMMA ReplayTask ==
  ASSUME TypeOK, TypeOK', Replay, StartTask, up
  PROVE  Replay'
<1> USE DEF service, channels, local, ghosts
<1>1. /\ ~task /\ task' /\ up' /\ feed' = Append(feed, batch')
      /\ UNCHANGED <<status, input, history, pc, channels, db, count, handled, saved>>
  BY DEF StartTask
<1>2. Consumed = history /\ Consumed' = Append(history, batch')
  BY <1>1 DEF Consumed
<1>3. /\ feed \in Seq(Seq(Event)) /\ history \in Seq(Seq(Event)) /\ batch' \in Seq(Event)
  BY DEF TypeOK
<1>4. /\ Len(feed) \in Nat /\ Len(feed') = Len(feed) + 1 /\ feed'[Len(feed) + 1] = batch'
      /\ DOMAIN feed' = 1 .. Len(feed) + 1 /\ DOMAIN feed = 1 .. Len(feed)
      /\ \A i \in 1 .. Len(feed) : feed'[i] = feed[i]
  BY <1>1, <1>3, AppendFacts
<1>5. /\ Len(history) \in Nat /\ Len(Consumed') = Len(history) + 1
      /\ Consumed'[Len(history) + 1] = batch'
      /\ \A i \in 1 .. Len(history) : Consumed'[i] = history[i]
  BY <1>2, <1>3, AppendFacts
<1>6. Fed = Len(history) - Len(feed) /\ Fed' = Fed
  BY <1>2, <1>4, <1>5 DEF Fed
<1>7. FeedIsRest'
  <2>1. Len(feed) <= Len(history) /\ \A i \in DOMAIN feed : feed[i] = history[Fed + i]
    BY <1>2 DEF Replay, FeedIsRest
  <2>2. ASSUME NEW i \in 1 .. Len(feed) + 1 PROVE feed'[i] = Consumed'[Fed' + i]
    <3>1. CASE i = Len(feed) + 1
      <4>1. Fed' + i = Len(history) + 1
        BY <1>4, <1>5, <1>6, <3>1
      <4> QED BY <1>4, <1>5, <3>1, <4>1
    <3>2. CASE i # Len(feed) + 1
      <4>1. i \in 1 .. Len(feed) /\ Fed' + i \in 1 .. Len(history)
        BY <1>4, <1>5, <1>6, <2>1, <3>2
      <4> QED BY <1>4, <1>5, <1>6, <2>1, <4>1
    <3> QED BY <3>1, <3>2
  <2>3. Len(feed') <= Len(Consumed')
    BY <1>4, <1>5, <2>1
  <2> QED BY <1>4, <2>2, <2>3 DEF FeedIsRest
<1>8. PICK R, F : /\ IsReplay(R, F) /\ Recording(F)
                  /\ Current \in R \/ \E E : IsTask(E, F)
  BY DEF Replay, Determined
<1>9. Current \in R /\ Current' = Current
  BY <1>1, <1>6, <1>8 DEF IsTask, Current
<1>10. IsReplay(R, F)' /\ Recording(F)'
  BY <1>1, <1>8 DEF IsReplay, Recording, AtStart
<1>11. Determined'
  BY <1>9, <1>10 DEF Determined
<1>12. OpenTask'
  BY <1>1 DEF StartTask, OpenTask
<1> QED BY <1>7, <1>11, <1>12 DEF Replay

\* A worker that loads the workflow starts where every replay starts.
LEMMA ReplayLoad ==
  ASSUME TypeOK', Replay, NEW bs, Load(bs), bs = Consumed',
         OpenTask', UNCHANGED <<status, input, history, saved>>
  PROVE  Replay'
<1>1. /\ up' /\ feed' = Consumed' /\ pc' = "start" /\ inbox' = << >> /\ woken' = FALSE
      /\ ctxDone' = FALSE /\ db' = input /\ count' = 0 /\ handled' = << >>
  BY DEF Load, Restart
<1>2. Len(feed') \in Nat
  BY DEF TypeOK
<1>3. Fed' = 0
  BY <1>1, <1>2 DEF Fed
<1>4. FeedIsRest'
  <2>1. \A i \in DOMAIN feed' : Fed' + i = i
    BY <1>3 DEF TypeOK
  <2> QED BY <1>1, <1>2, <2>1 DEF FeedIsRest
<1>5. PICK R, F : IsReplay(R, F) /\ Recording(F)
  BY DEF Replay, Determined
<1>6. IsReplay(R, F)' /\ Recording(F)'
  BY <1>5 DEF IsReplay, Recording, AtStart
<1>7. Current' \in R
  BY <1>1, <1>3, <1>5 DEF IsReplay, Current, AtStart
<1> QED BY <1>4, <1>6, <1>7 DEF Replay, Determined

\* A task given up leaves the recorded state as it was.
LEMMA ReplayGiveUp ==
  ASSUME Replay, GiveUpTask, UNCHANGED saved
  PROVE  Replay'
<1>1. /\ up' = FALSE /\ task' = FALSE /\ UNCHANGED <<status, input, history>>
  BY DEF GiveUpTask, Evict
<1>2. PICK R, F : IsReplay(R, F) /\ Recording(F)
  BY DEF Replay, Determined
<1>3. IsReplay(R, F)' /\ Recording(F)'
  BY <1>1, <1>2 DEF IsReplay, Recording, AtStart
<1> QED BY <1>1, <1>3 DEF Replay, Determined, FeedIsRest, OpenTask

\* The step that completes a task makes the states the worker went through in it
\* part of every later replay, and the one it is in the recorded state.
LEMMA ReplayRecord ==
  ASSUME TypeOK, Replay, task, CaughtUp,
         task' = FALSE, history' = Append(history, batch), saved' = Now,
         IF status' = "running" THEN pc = "blocked" ELSE Returns,
         UNCHANGED <<input, up, feed, pc, channels, db, count, handled>>
  PROVE  Replay'
<1> USE DEF channels
<1>1. Consumed = history' /\ Consumed' = history' /\ Fed' = Fed /\ Current' = Current
  BY DEF Consumed, Fed, Current
<1>2. up /\ feed = << >> /\ (pc = "blocked" \/ Returns)
  BY DEF CaughtUp
<1>3. /\ Fed = Len(history) + 1 /\ Len(history) \in Nat /\ Len(history') = Fed
  <2>1. Len(Consumed) = Len(history) + 1 /\ Len(history) \in Nat
    BY ConsumedFacts
  <2> QED BY <1>1, <1>2, <2>1 DEF Fed
<1>4. PICK R, F : /\ IsReplay(R, F) /\ Recording(F)
                  /\ Current \in R \/ \E E : IsTask(E, F)
  BY <1>2 DEF Replay, Determined
<1>5. Current.n = Fed /\ Current.pc = pc /\ Current.db = db /\ Current.count = count
      /\ Current.handled = handled
  BY DEF Current, State
<1>6. Current \notin R
  <2>1. SUFFICES ASSUME Current \in R PROVE FALSE
    OBVIOUS
  <2>2. Current = F
    BY <1>2, <1>3, <1>4, <2>1, NoNextIsRecorded, ReturnsIsEnded
  <2> QED BY <1>3, <1>4, <1>5, <2>2 DEF Recording
<1>7. PICK E : IsTask(E, F)
  BY <1>4, <1>6
<1>8. PICK S, c : S = R \cup E /\ c = Current
  OBVIOUS
<1>9. IsReplay(S, c)'
  <2>1. AtStart' \in S /\ c \in S
    BY <1>4, <1>7, <1>8 DEF IsReplay, IsTask, AtStart
  <2>2. ASSUME NEW s \in S, s # c PROVE \E t \in S : GoesTo(history', s, t)
    <3>1. CASE s \in R /\ s # F
      <4>1. PICK t \in R : GoesTo(history, s, t)
        BY <1>4, <3>1 DEF IsReplay, Leads
      <4>2. GoesTo(Consumed, s, t)
        BY <4>1, ConsumedFacts, GoesFurther
      <4> QED BY <1>1, <1>8, <4>2
    <3>2. CASE s \in E \cup {F}
      <4>1. PICK t \in E : GoesTo(Consumed, s, t)
        BY <1>7, <1>8, <2>2, <3>2 DEF IsTask, Leads
      <4> QED BY <1>1, <1>8, <4>1
    <3> QED BY <1>8, <2>2, <3>1, <3>2
  <2> QED BY <2>1, <2>2 DEF IsReplay, Leads
<1>10. Recording(c)'
  <2>1. IF status' = "running" THEN c.pc \in {"start", "blocked"} ELSE Ended(c)
    BY <1>5, <1>8, ReturnsIsEnded
  <2>2. c.n = Len(history') /\ c.db = saved'.db /\ c.count = saved'.count
        /\ c.handled = saved'.handled
    BY <1>3, <1>5, <1>8 DEF Now
  <2> QED BY <2>1, <2>2 DEF Recording
<1>11. c \in S
  BY <1>7, <1>8 DEF IsTask
<1>12. Determined'
  BY <1>1, <1>8, <1>9, <1>10, <1>11 DEF Determined
<1>13. FeedIsRest' /\ OpenTask'
  <2>1. Len(feed) = 0 /\ DOMAIN feed = {}
    BY <1>2
  <2>2. Len(Consumed) \in Nat
    BY ConsumedFacts
  <2> QED BY <1>1, <2>1, <2>2 DEF FeedIsRest, OpenTask
<1> QED BY <1>12, <1>13 DEF Replay

\* The next run has nothing to replay.
LEMMA ReplayContinue ==
  ASSUME Replay, ContinueAsNew
  PROVE  Replay'
<1>1. /\ up' = FALSE /\ task' = FALSE /\ history' = << >> /\ input' = Image(db)
      /\ saved' = [db |-> Image(db), count |-> 0, handled |-> << >>]
      /\ status' = "running"
  BY DEF ContinueAsNew, Evict, Closes, Replay, OpenTask
<1>2. PICK c : c = AtStart'
  OBVIOUS
<1>3. IsReplay({c}, c)'
  BY <1>2 DEF IsReplay, Leads
<1>4. Recording(c)'
  BY <1>1, <1>2 DEF Recording, AtStart, State
<1> QED BY <1>1, <1>3, <1>4 DEF Replay, Determined, FeedIsRest, OpenTask

\* Every step keeps it.
LEMMA ReplayNext == TypeOK /\ TypeOK' /\ Replay /\ [Next]_vars => Replay'
<1> SUFFICES ASSUME TypeOK, TypeOK', Replay, [Next]_vars PROVE Replay'
  OBVIOUS
<1> USE DEF service, channels, local, ghosts
<1>1. CASE (\E c \in Calls : Send(c)) \/ StopDB
  BY <1>1, ReplayFrame DEF Send, StopDB
<1>2. CASE SendQuery \/ RefuseQuery \/ AnswerQuery \/ UNCHANGED vars
  BY <1>2, ReplayFrame DEF SendQuery, RefuseQuery, AnswerQuery, vars
<1>3. ASSUME NEW c \in Execs, DeliverResponse(c) \/ TimeOutResponse(c) PROVE Replay'
  BY <1>3, ReplayFrame DEF DeliverResponse, TimeOutResponse, EndResponse
<1>4. CASE StartTask
  <2>1. CASE up
    BY <1>4, <2>1, ReplayTask
  <2>2. CASE ~up
    <3>1. /\ Load(Append(history, buffer)) /\ Consumed' = Append(history, buffer)
          /\ OpenTask' /\ UNCHANGED <<status, input, history, saved>>
      BY <1>4, <2>2 DEF StartTask, Consumed, OpenTask
    <3> QED BY <3>1, ReplayLoad
  <2> QED BY <2>1, <2>2
<1>5. CASE LoadForQuery
  <2>1. /\ Load(history) /\ Consumed' = history
        /\ OpenTask' /\ UNCHANGED <<status, input, history, saved>>
    BY <1>5 DEF LoadForQuery, Consumed, OpenTask
  <2> QED BY <2>1, ReplayLoad
<1>6. CASE Feed
  <2>1. up /\ UNCHANGED <<status, input, history, task, batch, saved>>
    BY <1>6 DEF Feed
  <2>2. GoesTo(Consumed, Current, Current') /\ FeedIsRest'
    BY <1>6, FeedMoves
  <2>3. Determined'
    BY <2>1, <2>2, MoveDetermined
  <2> QED BY <2>1, <2>2, <2>3 DEF Replay, OpenTask
<1>7. CASE (\E i \in DOMAIN inbox : HandleExec(i) \/ HandleUpdate(i) \/ HandleOther(i)) \/ Block
  <2>1. /\ up /\ GoesTo(Consumed, Current, Current')
        /\ UNCHANGED <<status, input, history, task, batch, saved, up, feed>>
    BY <1>7, HandleMoves, BlockMoves
  <2>2. Determined'
    BY <2>1, MoveDetermined
  <2>3. Consumed' = Consumed /\ Fed' = Fed
    BY <2>1 DEF Consumed, Fed
  <2> QED BY <2>1, <2>2, <2>3 DEF Replay, OpenTask, FeedIsRest
<1>8. CASE Crash \/ RefuseClose
  BY <1>8, ReplayGiveUp DEF Crash, RefuseClose
<1>9. CASE CompleteTask
  <2>1. status = "running" /\ status' = "running"
    BY <1>9 DEF CompleteTask, Replay, OpenTask
  <2> QED BY <1>9, <2>1, ReplayRecord DEF CompleteTask
<1>10. ASSUME NEW s \in {"failed", "canceled"}, Close(s) PROVE Replay'
  BY <1>10, ReplayRecord DEF Close, Closes
<1>11. CASE ContinueAsNew
  BY <1>11, ReplayContinue
<1> QED
  BY <1>1, <1>2, <1>3, <1>4, <1>5, <1>6, <1>7, <1>8, <1>9, <1>10, <1>11
     DEF Next, Client, Service, Workflow, Outcome, ReturnError, ReturnSerializeError,
         ReturnCanceled

\* It holds always.
LEMMA ReplayAlways == Spec => [](TypeOK /\ Replay)
<1>1. TypeOK /\ Replay /\ TypeOK' /\ [Next]_vars => Replay'
  BY ReplayNext
<1> QED BY <1>1, ReplayInit, TypeCorrect, PTL DEF Spec

-----------------------------------------------------------------------------
(* What follows from it.                                                   *)

\* A worker that waits and was fed what the history has, and no task, is in the
\* recorded state.
LEMMA CaughtUpIsRecorded ==
  ASSUME TypeOK, Replay, up, Fed = Len(history), pc = "blocked" \/ Returns
  PROVE  \E F : Recording(F) /\ Current = F
<1>1. PICK R, F : /\ IsReplay(R, F) /\ Recording(F)
                  /\ Current \in R \/ \E E : IsTask(E, F)
  BY SMTT(30) DEF Replay, Determined
<1>2. Current.n = Fed /\ Len(history) \in Nat
  BY ConsumedFacts DEF Current, State
<1>3. \A E : ~IsTask(E, F)
  BY <1>2 DEF IsTask
<1>4. Current = F
  BY <1>1, <1>2, <1>3, NoNextIsRecorded, ReturnsIsEnded
<1> QED BY <1>1, <1>4

\* A worker that has replayed the consumed batches is in the state that was recorded
\* when they were consumed, whatever crashed in between, and a replay never ends the
\* run: only a task does.
THEOREM ReplaysAreFaithful == Spec => []ReplayIsFaithful
<1>1. TypeOK /\ Replay => ReplayIsFaithful
  <2> SUFFICES ASSUME TypeOK, Replay PROVE ReplayIsFaithful
    OBVIOUS
  <2>1. ASSUME up, pc = "blocked", feed = (IF task THEN <<batch>> ELSE << >>)
        PROVE  Now = saved
    <3>1. Fed = Len(history)
      <4>1. Len(feed) = IF task THEN 1 ELSE 0
        BY <2>1
      <4>2. Len(Consumed) = (IF task THEN Len(history) + 1 ELSE Len(history))
            /\ Len(history) \in Nat
        BY ConsumedFacts
      <4> QED BY <4>1, <4>2 DEF Fed
    <3>2. PICK F : Recording(F) /\ Current = F
      BY <2>1, <3>1, CaughtUpIsRecorded
    <3>3. db = saved.db /\ count = saved.count /\ handled = saved.handled
      BY <3>2 DEF Recording, Current, State
    <3> QED BY <3>3 DEF Now, TypeOK, Saved
  <2>2. ASSUME up, status = "running", Returns PROVE feed = << >> /\ task
    <3>1. PICK R, F : /\ IsReplay(R, F) /\ Recording(F)
                      /\ Current \in R \/ \E E : IsTask(E, F)
      BY <2>2 DEF Replay, Determined
    <3>2. Current \notin R
      <4>1. SUFFICES ASSUME Current \in R PROVE FALSE
        OBVIOUS
      <4>2. Current = F
        BY <2>2, <3>1, <4>1, NoNextIsRecorded, ReturnsIsEnded
      <4> QED BY <2>2, <3>1, <4>2, ReturnsIsEnded DEF Recording, Ended
    <3>3. task /\ Fed = Len(history) + 1
      BY <3>1, <3>2 DEF IsTask, Current, State
    <3>4. Len(feed) = 0
      BY <3>3, ConsumedFacts DEF Fed
    <3>5. feed \in Seq(Seq(Event))
      BY DEF TypeOK
    <3> QED BY <3>3, <3>4, <3>5
  <2> QED BY <2>1, <2>2 DEF ReplayIsFaithful
<1> QED BY <1>1, ReplayAlways, PTL

-----------------------------------------------------------------------------
(* Queries.                                                                *)

\* What a query has to reflect is recorded when it is sent, and stays so.
MustIsRecorded == query.must \subseteq Elems(Log)

\* A step adds to the recorded calls, or leaves them.
LEMMA LogGrows ==
  ASSUME TypeOK, TypeOK', IInv, [Next]_vars
  PROVE  Elems(Log) \subseteq Elems(Log')
<1> USE DEF service, channels, local, ghosts
<1>1. Elems(Log) = Elems(base) \cup Elems(saved.handled)
  BY LogElems
<1>2. Elems(Log') = Elems(base') \cup Elems(saved'.handled)
  <2>1. base' \in Seq(Calls) /\ saved'.handled \in Seq(Calls)
    BY DEF TypeOK, Saved
  <2>2. Elems(base' \o saved'.handled) = Elems(base') \cup Elems(saved'.handled)
    BY <2>1, ElemsConcat
  <2> QED BY <2>2 DEF Log, Elems
<1>3. CASE CompleteTask \/ \E s \in {"failed", "canceled"} : Close(s)
  <2>1. task /\ CaughtUp /\ base' = base /\ saved'.handled = handled
    BY <1>3 DEF CompleteTask, Close, Closes, Now
  <2>2. Elems(saved.handled) \subseteq Elems(handled)
    BY <2>1, AllConsumed, IInvIs
  <2> QED BY <1>1, <1>2, <2>1, <2>2
<1>4. CASE ContinueAsNew
  <2>1. task /\ CaughtUp /\ base' = base \o handled
    BY <1>4 DEF ContinueAsNew, Closes
  <2>2. Elems(saved.handled) \subseteq Elems(handled)
    BY <2>1, AllConsumed, IInvIs
  <2>3. Elems(base') = Elems(base) \cup Elems(handled)
    BY <2>1, ElemsConcat, SMTT(30) DEF TypeOK
  <2> QED BY <1>1, <1>2, <2>2, <2>3
<1>5. CASE UNCHANGED <<base, saved>>
  BY <1>1, <1>2, <1>5
<1> QED
  BY <1>3, <1>4, <1>5
     DEF Next, Client, Service, Workflow, Outcome, Send, StopDB, SendQuery, StartTask,
         LoadForQuery, RefuseQuery, Feed, Crash, DeliverResponse, TimeOutResponse,
         EndResponse, HandleExec, HandleUpdate, HandleOther, Block, RefuseClose,
         ReturnError, ReturnSerializeError, ReturnCanceled, AnswerQuery, vars

\* An idle worker has executed exactly what is recorded, so an answer reflects it.
LEMMA AnswerReflectsLog ==
  ASSUME TypeOK, Replay, AnswerQuery
  PROVE  query'.saw = Elems(Log) /\ query'.must = query.must
<1>1. /\ up /\ ~task /\ feed = << >> /\ (pc = "blocked" \/ Returns)
      /\ query'.saw = Elems(base \o handled) /\ query'.must = query.must
  BY DEF AnswerQuery, CaughtUp, TypeOK
<1>2. Fed = Len(history)
  <2>1. Len(Consumed) = Len(history) /\ Len(history) \in Nat /\ Len(feed) = 0
    BY <1>1, ConsumedFacts
  <2> QED BY <2>1 DEF Fed
<1>3. PICK F : Recording(F) /\ Current = F
  BY <1>1, <1>2, CaughtUpIsRecorded
<1>4. handled = saved.handled
  BY <1>3 DEF Recording, Current, State
<1> QED BY <1>1, <1>4 DEF Log

\* Both facts about queries are kept.
LEMMA NextQuery ==
  TypeOK /\ TypeOK' /\ IInv /\ Replay /\ MustIsRecorded /\ QueryReadsAnswered /\ [Next]_vars
    => MustIsRecorded' /\ QueryReadsAnswered'
<1> SUFFICES ASSUME TypeOK, TypeOK', IInv, Replay, MustIsRecorded, QueryReadsAnswered,
                    [Next]_vars
             PROVE  MustIsRecorded' /\ QueryReadsAnswered'
  OBVIOUS
<1>1. Elems(Log) \subseteq Elems(Log')
  BY LogGrows
<1>2. CASE SendQuery
  <2>1. query'.state = "sent" /\ query'.must = {c \in Execs : response[c] = "delivered"}
    BY <1>2 DEF SendQuery
  <2>2. query'.must \subseteq Elems(Log)
    BY <2>1 DEF IInv, AnsweredIsDurable
  <2> QED BY <1>1, <2>1, <2>2 DEF MustIsRecorded, QueryReadsAnswered
<1>3. CASE RefuseQuery
  <2>1. query'.state = "refused" /\ query'.must = query.must
    BY <1>3 DEF RefuseQuery, TypeOK
  <2> QED BY <1>1, <2>1 DEF MustIsRecorded, QueryReadsAnswered
<1>4. CASE AnswerQuery
  BY <1>1, <1>4, AnswerReflectsLog DEF MustIsRecorded, QueryReadsAnswered
<1>5. CASE UNCHANGED query
  BY <1>1, <1>5 DEF MustIsRecorded, QueryReadsAnswered
<1> QED
  BY <1>2, <1>3, <1>4, <1>5
     DEF Next, Client, Service, Workflow, Outcome, Send, StopDB, StartTask, LoadForQuery,
         Feed, Crash, DeliverResponse, TimeOutResponse, EndResponse, HandleExec,
         HandleUpdate, HandleOther, Block, CompleteTask, RefuseClose, ReturnError,
         ReturnSerializeError, ReturnCanceled, Close, ContinueAsNew, vars

\* A query reflects every Exec that had been answered when it was sent, whatever
\* worker answers it, also one that just replayed a run that had closed.
THEOREM QueriesReadAnswered == Spec => []QueryReadsAnswered
<1>1. Init => MustIsRecorded /\ QueryReadsAnswered
  BY DEF Init, MustIsRecorded, QueryReadsAnswered
<1>2. Spec => []IInv
  BY InitIInv, NextIInv, TypeCorrect, PTL DEF Spec
<1> QED BY <1>1, <1>2, NextQuery, ReplayAlways, PTL DEF Spec

-----------------------------------------------------------------------------
(* The limit on the requests of a run.                                     *)

\* A worker counts what it executed in its run, and waits for more below the limit.
CountsHandled ==
  up => count = Len(handled) /\ (pc = "blocked" => count < Limit)

\* The counter does not wrap below its range.
LEMMA IncrementBelow ==
  ASSUME NEW n \in Nat, n + 1 < UintRange PROVE Increment(n) = n + 1
BY WorkflowAssumption DEF Increment

\* As long as a run executes fewer calls than the counter's range, it counts them.
LEMMA NextCount ==
  TypeOK /\ CountsHandled /\ Len(handled') < UintRange /\ [Next]_vars => CountsHandled'
<1> SUFFICES ASSUME TypeOK, CountsHandled, Len(handled') < UintRange, [Next]_vars
             PROVE  CountsHandled'
  OBVIOUS
<1> USE DEF service, channels, local, ghosts
<1>1. CASE StartTask \/ LoadForQuery
  <2>1. CASE up
    BY <1>1, <2>1 DEF StartTask, LoadForQuery, CountsHandled
  <2>2. CASE ~up
    BY <1>1, <2>2 DEF StartTask, LoadForQuery, Load, Restart, CountsHandled
  <2> QED BY <2>1, <2>2
<1>2. CASE Crash \/ RefuseClose \/ ContinueAsNew
  BY <1>2 DEF Crash, RefuseClose, ContinueAsNew, GiveUpTask, Evict, CountsHandled
<1>3. CASE Feed
  BY <1>3 DEF Feed, CountsHandled
<1>4. ASSUME NEW c, Execute(c), up, UNCHANGED up, pc' # "blocked" PROVE CountsHandled'
  <2>1. handled \in Seq(Calls) /\ count \in Nat /\ count = Len(handled)
    BY <1>4 DEF TypeOK, CountsHandled
  <2>2. Len(handled') = Len(handled) + 1
    BY <1>4, <2>1 DEF Execute
  <2>3. count' = count + 1
    BY <1>4, <2>1, <2>2, IncrementBelow DEF Execute
  <2> QED BY <1>4, <2>1, <2>2, <2>3 DEF CountsHandled
<1>5. ASSUME NEW i \in DOMAIN inbox, HandleExec(i) \/ HandleUpdate(i) PROVE CountsHandled'
  <2>1. Execute(inbox[i].call) /\ up /\ UNCHANGED up /\ pc' # "blocked"
    BY <1>5 DEF HandleExec, HandleUpdate, InSelect
  <2> QED BY <1>4, <2>1
<1>6. ASSUME NEW i \in DOMAIN inbox, HandleOther(i) PROVE CountsHandled'
  BY <1>6 DEF HandleOther, CountsHandled
<1>7. CASE Block
  BY <1>7 DEF Block, LoopContinues, HasPending, CountsHandled
<1>8. CASE UNCHANGED <<up, pc, count, handled>>
  BY <1>8 DEF CountsHandled
<1> QED
  BY <1>1, <1>2, <1>3, <1>5, <1>6, <1>7, <1>8
     DEF Next, Client, Service, Workflow, Outcome, Send, StopDB, SendQuery, RefuseQuery,
         DeliverResponse, TimeOutResponse, EndResponse, CompleteTask, Close,
         ReturnError, ReturnSerializeError, ReturnCanceled, AnswerQuery, vars

\* A run that never executes as many calls as the counter can tell apart waits for
\* more only below its limit.  One that did would start to count from zero and grow
\* past the limit unnoticed.
THEOREM RunsStopAtLimit == Spec /\ [](Len(handled) < UintRange) => []IdleBelowLimit
<1>1. Init => CountsHandled
  BY DEF Init, CountsHandled
<1>2. CountsHandled => IdleBelowLimit
  BY DEF CountsHandled, IdleBelowLimit, CaughtUp
<1> DEFINE Small == Len(handled) < UintRange
<1>3. TypeOK /\ CountsHandled /\ Small' /\ [Next]_vars => CountsHandled'
  BY NextCount
<1> HIDE DEF Small
<1>4. Spec /\ []Small => []IdleBelowLimit
  BY <1>1, <1>2, <1>3, TypeCorrect, PTL DEF Spec
<1> QED BY <1>4 DEF Small

-----------------------------------------------------------------------------
(* Executing a sequence of calls.                                          *)

\* The databases that After goes through.
Executions(d, s) ==
  LET run[i \in 0 .. Len(s)] == IF i = 0 THEN d ELSE Apply(run[i-1], s[i])
  IN  run

\* After is the last of them.
LEMMA AfterIs ==
  ASSUME NEW d, NEW s
  PROVE  After(d, s) = Executions(d, s)[Len(s)]
BY Zenon DEF After, Executions

\* They are what the recursion says.
LEMMA ExecutionsFacts ==
  ASSUME NEW d \in DB, NEW s \in Seq(Calls)
  PROVE  /\ Len(s) \in Nat /\ Executions(d, s) \in [0 .. Len(s) -> DB]
         /\ Executions(d, s)[0] = d
         /\ \A i \in 1 .. Len(s) : Executions(d, s)[i] = Apply(Executions(d, s)[i - 1], s[i])
<1> DEFINE n == Len(s)
           step == [i \in 1 .. n |-> [e \in DB |-> Apply(e, s[i])]]
           Is(f) == f = [i \in 0 .. n |-> IF i = 0 THEN d ELSE Apply(f[i - 1], s[i])]
<1>1. n \in Nat /\ \A i \in 1 .. n : s[i] \in Calls
  OBVIOUS
<1>2. step \in [1 .. n -> [DB -> DB]]
  BY <1>1, WorkflowAssumption
<1> HIDE DEF n
<1>3. PICK f : IsRecursion(f, n, DB, d, step)
  <2> HIDE DEF step
  <2> QED BY <1>1, <1>2, RecursionExists
<1>4. \A i \in 0 .. n : f[i] = IF i = 0 THEN d ELSE Apply(f[i - 1], s[i])
  <2>1. ASSUME NEW i \in 1 .. n PROVE f[i] = Apply(f[i - 1], s[i])
    <3>1. f[i] = step[i][f[i - 1]] /\ f[i - 1] \in DB
      <4> HIDE DEF step
      <4> QED BY <1>1, <1>3 DEF IsRecursion
    <3> QED BY <3>1
  <2>2. f[0] = d
    BY <1>3 DEF IsRecursion
  <2> QED BY <1>1, <2>1, <2>2
<1>5. Is(f)
  <2> HIDE DEF step
  <2> QED BY <1>3, <1>4 DEF IsRecursion
<1>6. Executions(d, s) = CHOOSE g : Is(g)
  BY Zenon DEF Executions, n
<1> DEFINE run == Executions(d, s)
<1>7. Is(run)
  <2> HIDE DEF Is
  <2> QED BY <1>5, <1>6
<1> HIDE DEF run, step
<1>8. run[0] = d /\ \A i \in 1 .. n : run[i] = Apply(run[i - 1], s[i])
  BY <1>1, <1>7
<1>9. \A i \in 0 .. n : run[i] = f[i]
  <2>1. ASSUME NEW i \in 0 .. n - 1, run[i] = f[i] PROVE run[i + 1] = f[i + 1]
    <3>1. i + 1 \in 1 .. n /\ (i + 1) - 1 = i
      BY <1>1
    <3> QED BY <1>4, <1>8, <2>1, <3>1
  <2>2. run[0] = f[0]
    BY <1>1, <1>4, <1>8
  <2> QED BY <1>1, <2>1, <2>2, RecursionUnique
<1>10. run \in [0 .. n -> DB]
  BY <1>3, <1>7, <1>9 DEF IsRecursion
<1> QED BY <1>1, <1>8, <1>10 DEF n, run

\* A sequence leads to a database, the empty one nowhere else.
LEMMA AfterFacts ==
  ASSUME NEW d \in DB, NEW s \in Seq(Calls)
  PROVE  After(d, s) \in DB /\ After(d, << >>) = d
<1>1. After(d, s) \in DB
  BY AfterIs, ExecutionsFacts
<1>2. << >> \in Seq(Calls) /\ Len(<< >>) = 0
  OBVIOUS
<1>3. After(d, << >>) = d
  BY <1>2, AfterIs, ExecutionsFacts
<1> QED BY <1>1, <1>3

\* One more call is executed on what the others led to.
LEMMA AfterAppend ==
  ASSUME NEW d \in DB, NEW s \in Seq(Calls), NEW c \in Calls
  PROVE  After(d, Append(s, c)) = Apply(After(d, s), c)
<1> DEFINE t == Append(s, c)
           short == Executions(d, s)
           long == Executions(d, t)
<1>1. /\ t \in Seq(Calls) /\ Len(s) \in Nat /\ Len(t) = Len(s) + 1 /\ t[Len(s) + 1] = c
      /\ \A i \in 1 .. Len(s) : t[i] = s[i]
  BY AppendFacts
<1> HIDE DEF t
<1>2. /\ short[0] = d /\ \A i \in 1 .. Len(s) : short[i] = Apply(short[i - 1], s[i])
      /\ long[0] = d /\ \A i \in 1 .. Len(t) : long[i] = Apply(long[i - 1], t[i])
  BY <1>1, ExecutionsFacts
<1> HIDE DEF short, long
<1>3. ASSUME NEW i \in 0 .. Len(s) - 1, short[i] = long[i] PROVE short[i + 1] = long[i + 1]
  <2>1. i + 1 \in 1 .. Len(s) /\ i + 1 \in 1 .. Len(t) /\ (i + 1) - 1 = i
    BY <1>1
  <2> QED BY <1>1, <1>2, <1>3, <2>1
<1>4. \A i \in 0 .. Len(s) : short[i] = long[i]
  <2>1. Len(s) \in Nat /\ short[0] = long[0]
    BY <1>1, <1>2
  <2> QED BY <1>3, <2>1, RecursionUnique
<1>5. long[Len(s)] = short[Len(s)]
  BY <1>1, <1>4
<1>6. Len(s) + 1 \in 1 .. Len(t) /\ (Len(s) + 1) - 1 = Len(s)
  BY <1>1
<1>7. long[Len(t)] = Apply(long[Len(s)], c)
  BY <1>1, <1>2, <1>6
<1> QED BY <1>5, <1>7, AfterIs DEF short, long, t

-----------------------------------------------------------------------------
(* The database.                                                           *)

\* The calls of the chain that a worker has executed.
Done == base \o handled

\* Input, recorded state and cached state are the effect of the calls of the chain.
StateIsLog(P) ==
  /\ input \in P /\ input = After(EmptyDB, base)
  /\ saved.db = After(EmptyDB, Log)
  /\ up => db \in P /\ db = After(EmptyDB, Done)

\* A worker that is loaded starts with what the earlier runs did.
LEMMA LoadState ==
  ASSUME TypeOK, NEW P, StateIsLog(P), NEW bs, Load(bs), UNCHANGED <<input, base, saved>>
  PROVE  StateIsLog(P)'
<1>1. /\ up' /\ db' = input /\ handled' = << >> /\ base \in Seq(Calls)
  BY DEF Load, Restart, TypeOK
<1>2. Done' = base
  BY <1>1 DEF Done
<1> QED BY <1>1, <1>2 DEF StateIsLog, Log

\* An executed call is one more of them.
LEMMA ExecuteState ==
  ASSUME TypeOK, NEW P, IsPlain(P), StateIsLog(P), up, NEW c \in Calls, Execute(c),
         UNCHANGED <<input, base, saved>>
  PROVE  StateIsLog(P)' /\ Done' = Append(Done, c) /\ Done \in Seq(Calls)
<1>1. /\ base \in Seq(Calls) /\ handled \in Seq(Calls) /\ EmptyDB \in DB
      /\ db' = Apply(db, c) /\ handled' = Append(handled, c)
  BY WorkflowAssumption DEF Execute, TypeOK
<1>2. Done \in Seq(Calls) /\ Done' = Append(Done, c)
  BY <1>1 DEF Done
<1>3. db' = After(EmptyDB, Done')
  BY <1>1, <1>2, AfterAppend DEF StateIsLog
<1>4. db' \in P
  BY <1>1 DEF StateIsLog, IsPlain
<1> QED BY <1>2, <1>3, <1>4 DEF StateIsLog, Log

\* Every step keeps the database the effect of its calls.
LEMMA NextState ==
  ASSUME TypeOK, NEW P, IsPlain(P), StateIsLog(P), [Next]_vars
  PROVE  StateIsLog(P)'
<1> USE DEF service, channels, local, ghosts
<1>1. CASE StartTask \/ LoadForQuery
  <2>1. CASE StartTask /\ up
    BY <2>1 DEF StartTask, StateIsLog, Log, Done
  <2>2. CASE (StartTask /\ ~up) \/ LoadForQuery
    BY <2>2, LoadState DEF StartTask, LoadForQuery
  <2> QED BY <1>1, <2>1, <2>2
<1>2. CASE Crash \/ RefuseClose
  BY <1>2 DEF Crash, RefuseClose, GiveUpTask, Evict, StateIsLog, Log
<1>3. ASSUME NEW i \in DOMAIN inbox, HandleExec(i) \/ HandleUpdate(i)
      PROVE  StateIsLog(P)'
  <2>1. /\ up /\ inbox[i].call \in Calls /\ Execute(inbox[i].call)
        /\ UNCHANGED <<input, base, saved, up>>
    <3>1. inbox[i] \in Event /\ IsSignal(inbox[i])
      BY <1>3 DEF HandleExec, HandleUpdate, IsSignal, TypeOK
    <3> QED BY <1>3, <3>1, EventKinds DEF HandleExec, HandleUpdate, InSelect
  <2> QED BY <2>1, ExecuteState
<1>4. CASE CompleteTask \/ \E s \in {"failed", "canceled"} : Close(s)
  BY <1>4 DEF CompleteTask, Close, Closes, CaughtUp, Now, StateIsLog, Log, Done
<1>5. CASE ContinueAsNew
  <2>1. /\ up /\ input' = Image(db) /\ base' = base \o handled /\ up' = FALSE
        /\ saved' = [db |-> Image(db), count |-> 0, handled |-> << >>]
        /\ base \in Seq(Calls) /\ handled \in Seq(Calls)
    BY <1>5 DEF ContinueAsNew, Closes, CaughtUp, Evict, TypeOK
  <2>2. Image(db) = db /\ db \in P /\ db = After(EmptyDB, base')
    BY <2>1 DEF StateIsLog, IsPlain, Done
  <2>3. Log' = base'
    BY <2>1 DEF Log
  <2> QED BY <2>1, <2>2, <2>3 DEF StateIsLog
<1>6. CASE UNCHANGED <<input, base, saved, up, db, handled>>
  BY <1>6 DEF StateIsLog, Log, Done
<1> QED
  BY <1>1, <1>2, <1>3, <1>4, <1>5, <1>6
     DEF Next, Client, Service, Workflow, Outcome, Send, StopDB, SendQuery, RefuseQuery,
         Feed, DeliverResponse, TimeOutResponse, EndResponse, HandleOther, Block,
         ReturnError, ReturnSerializeError, ReturnCanceled, AnswerQuery, vars

\* At the start there are no calls, and no effect.
LEMMA InitState == ASSUME Init, NEW P, IsPlain(P) PROVE StateIsLog(P)
<1>1. After(EmptyDB, << >>) = EmptyDB /\ << >> \o << >> = << >>
  <2>1. << >> \in Seq(Calls) /\ << >> \o << >> = << >>
    OBVIOUS
  <2> QED BY <2>1, WorkflowAssumption, AfterFacts
<1> QED BY <1>1 DEF Init, StateIsLog, Log, IsPlain

\* The database that is recorded is the effect of the recorded calls in their order on
\* an empty database, whatever crashes, replays and runs lie between them, for
\* statements that leave nothing on the connection but what the file holds (worker.go).
THEOREM LogIsDatabase == ASSUME KeepsState PROVE Spec => []DatabaseIsLog
<1>1. PICK P : IsPlain(P)
  BY DEF KeepsState
<1>2. Init => StateIsLog(P)
  BY <1>1, InitState
<1>3. TypeOK /\ StateIsLog(P) /\ [Next]_vars => StateIsLog(P)'
  BY <1>1, NextState
<1>4. StateIsLog(P) => DatabaseIsLog
  BY DEF StateIsLog, DatabaseIsLog
<1> QED BY <1>2, <1>3, <1>4, TypeCorrect, PTL DEF Spec

-----------------------------------------------------------------------------
(* Failed updates.                                                         *)

\* The i-th call of l is an update that failed and counts; none of them is.
FailedIn(l, i) ==
  /\ l[i] \in Updates /\ ~IgnoreUpdateErrors
  /\ Fails(After(EmptyDB, SubSeq(l, 1, i - 1)), l[i])
NoFailure(l) == \A i \in DOMAIN l : ~FailedIn(l, i)
LastFailed(l) == l # << >> /\ FailedIn(l, Len(l))

\* Neither earlier runs nor a worker that goes on have a failed update behind them; one
\* that fails has it as its last call, or could not open its database.
FailuresEnd ==
  /\ NoFailure(base)
  /\ up /\ pc = "start" => db = input
  /\ up /\ pc # "failing" => NoFailure(Done)
  /\ up /\ pc = "failing" =>
       /\ \A i \in DOMAIN Done : FailedIn(Done, i) => i = Len(Done)
       /\ ~Opens(input) \/ LastFailed(Done)

\* The property, in these terms.
LEMMA FailsIs ==
  FailsOnFailedUpdate <=>
    /\ \A i \in DOMAIN Log : FailedIn(Log, i) => status = "failed" /\ i = Len(Log)
    /\ status = "failed" => ~Opens(input) \/ ~Serializes(saved.db) \/ LastFailed(Log)
BY DEF FailsOnFailedUpdate, FailedUpdate, FailedIn, LastFailed

\* Whether a call failed does not depend on later ones.
LEMMA FailedAppend ==
  ASSUME NEW s \in Seq(Calls), NEW c \in Calls
  PROVE  /\ \A i \in DOMAIN s : FailedIn(Append(s, c), i) <=> FailedIn(s, i)
         /\ FailedIn(Append(s, c), Len(s) + 1) <=>
              c \in Updates /\ ~IgnoreUpdateErrors /\ Fails(After(EmptyDB, s), c)
<1> DEFINE t == Append(s, c)
<1>1. /\ Len(s) \in Nat /\ DOMAIN s = 1 .. Len(s) /\ t[Len(s) + 1] = c
      /\ \A i \in 1 .. Len(s) : t[i] = s[i]
  BY AppendFacts
<1>2. \A i \in 1 .. Len(s) : SubSeq(t, 1, i - 1) = SubSeq(s, 1, i - 1)
  OBVIOUS
<1>3. SubSeq(t, 1, (Len(s) + 1) - 1) = s
  OBVIOUS
<1> QED BY <1>1, <1>2, <1>3 DEF FailedIn

\* A call that does not fail adds no failure, one that does is the last and only one.
LEMMA FailureAppend ==
  ASSUME NEW s \in Seq(Calls), NoFailure(s), NEW c \in Calls
  PROVE  IF c \in Updates /\ ~IgnoreUpdateErrors /\ Fails(After(EmptyDB, s), c)
           THEN /\ LastFailed(Append(s, c))
                /\ \A i \in DOMAIN Append(s, c) :
                     FailedIn(Append(s, c), i) => i = Len(Append(s, c))
           ELSE NoFailure(Append(s, c))
<1>1. /\ DOMAIN s = 1 .. Len(s) /\ Len(s) \in Nat /\ Len(Append(s, c)) = Len(s) + 1
      /\ DOMAIN Append(s, c) = 1 .. Len(s) + 1 /\ Append(s, c) # << >>
  BY AppendFacts
<1>2. \A i \in DOMAIN Append(s, c) : i \in DOMAIN s \/ i = Len(s) + 1
  BY <1>1
<1> QED BY <1>1, <1>2, FailedAppend DEF NoFailure, LastFailed

\* A worker that is loaded has the calls of earlier runs behind it.
LEMMA LoadFailures ==
  ASSUME TypeOK, FailuresEnd, NEW bs, Load(bs), UNCHANGED <<input, base>>
  PROVE  FailuresEnd'
<1>1. /\ up' /\ db' = input /\ handled' = << >> /\ pc' = "start" /\ base \in Seq(Calls)
  BY DEF Load, Restart, TypeOK
<1>2. Done' = base
  BY <1>1 DEF Done
<1> QED BY <1>1, <1>2 DEF FailuresEnd

\* Only a failing update makes a worker fail that executes a call.
LEMMA HandleFailures ==
  ASSUME TypeOK, NEW P, IsPlain(P), StateIsLog(P), FailuresEnd, NEW i \in DOMAIN inbox,
         HandleExec(i) \/ HandleUpdate(i)
  PROVE  FailuresEnd'
<1> USE DEF service, channels, local, ghosts
<1> DEFINE c == inbox[i].call
           fatal == c \in Updates /\ ~IgnoreUpdateErrors /\ Fails(db, c)
<1>1. /\ up /\ up' /\ pc = "running" /\ Execute(c) /\ UNCHANGED <<input, base, saved>>
  BY DEF HandleExec, HandleUpdate, InSelect
<1>2. c \in Calls /\ (HandleExec(i) => c \notin Updates) /\ (HandleUpdate(i) => c \in Updates)
  <2>1. inbox[i] \in Event
    BY DEF TypeOK
  <2> QED BY <2>1, WorkflowAssumption
          DEF Event, Signal, CancelRequest, Responded, HandleExec, HandleUpdate, Calls
<1>3. pc' = IF fatal THEN "failing" ELSE "running"
  BY <1>1, <1>2 DEF HandleExec, HandleUpdate
<1>4. Done' = Append(Done, c) /\ Done \in Seq(Calls)
  BY <1>1, <1>2, ExecuteState
<1>5. NoFailure(Done) /\ db = After(EmptyDB, Done)
  BY <1>1 DEF FailuresEnd, StateIsLog
<1> HIDE DEF c
<1>6. IF fatal THEN /\ LastFailed(Done')
                    /\ \A k \in DOMAIN Done' : FailedIn(Done', k) => k = Len(Done')
      ELSE NoFailure(Done')
  BY <1>2, <1>4, <1>5, FailureAppend
<1> HIDE DEF fatal
<1> QED BY <1>1, <1>3, <1>6 DEF FailuresEnd

\* A database that cannot be opened fails the run before anything is executed.
LEMMA FeedFailures ==
  ASSUME TypeOK, FailuresEnd, Feed
  PROVE  FailuresEnd'
<1> USE DEF service, channels, local, ghosts
<1>1. /\ up /\ up' /\ pc \in {"start", "blocked"} /\ UNCHANGED <<input, base, handled, db>>
      /\ pc' = IF pc = "start" /\ ~Opens(db) THEN "failing" ELSE "running"
  BY DEF Feed
<1>2. Done' = Done /\ NoFailure(Done)
  BY <1>1 DEF Done, FailuresEnd
<1>3. pc' = "failing" => ~Opens(input)
  BY <1>1 DEF FailuresEnd
<1> QED BY <1>1, <1>2, <1>3 DEF FailuresEnd, NoFailure

\* What a completed task records has no failed update unless it closes the chain.
LEMMA RecordFailures ==
  ASSUME TypeOK, OpenTask, FailuresEnd,
         CompleteTask \/ ReturnError \/ ReturnSerializeError \/ ReturnCanceled
  PROVE  FailuresEnd' /\ FailsOnFailedUpdate'
<1> USE DEF service, channels, local, ghosts
<1>1. /\ up /\ task /\ status = "running" /\ saved' = Now
      /\ UNCHANGED <<up, pc, base, handled, db, input>>
  BY DEF CompleteTask, ReturnError, ReturnSerializeError, ReturnCanceled, Close, Closes,
         CaughtUp, OpenTask
<1>2. Log' = Done /\ Done' = Done /\ saved'.db = db
  BY <1>1 DEF Log, Done, Now
<1>3. FailuresEnd'
  BY <1>1, <1>2 DEF FailuresEnd
<1>4. CASE ReturnError
  <2>1. pc = "failing" /\ status' = "failed"
    BY <1>4 DEF ReturnError, Close
  <2> QED BY <1>1, <1>2, <1>3, <2>1, FailsIs DEF FailuresEnd, FailsOnFailedUpdate,
             FailedUpdate, FailedIn, LastFailed
<1>5. CASE CompleteTask \/ ReturnSerializeError \/ ReturnCanceled
  <2>1. /\ pc # "failing" /\ (status' = "failed" => ~Serializes(db))
    BY <1>1, <1>5 DEF CompleteTask, ReturnSerializeError, ReturnCanceled, Close
  <2>2. NoFailure(Done)
    BY <1>1, <2>1 DEF FailuresEnd
  <2> QED BY <1>1, <1>2, <1>3, <2>1, <2>2
          DEF FailsOnFailedUpdate, FailedUpdate, FailedIn, NoFailure
<1> QED BY <1>4, <1>5

\* The next run begins with no failed update behind it.
LEMMA ContinueFailures ==
  ASSUME TypeOK, OpenTask, FailuresEnd, ContinueAsNew
  PROVE  FailuresEnd' /\ FailsOnFailedUpdate'
<1>1. /\ up /\ pc = "running" /\ status = "running" /\ status' = status /\ up' = FALSE
      /\ base' = Done /\ saved'.handled = << >> /\ Done \in Seq(Calls)
  BY DEF ContinueAsNew, Closes, CaughtUp, Evict, OpenTask, Done, TypeOK
<1>2. NoFailure(Done)
  BY <1>1 DEF FailuresEnd
<1>3. Log' = Done
  BY <1>1 DEF Log
<1> QED BY <1>1, <1>2, <1>3
        DEF FailuresEnd, FailsOnFailedUpdate, FailedUpdate, FailedIn, NoFailure

\* Every step keeps failures the end.
LEMMA NextFailures ==
  ASSUME TypeOK, OpenTask, NEW P, IsPlain(P), StateIsLog(P), FailuresEnd,
         FailsOnFailedUpdate, [Next]_vars
  PROVE  FailuresEnd' /\ FailsOnFailedUpdate'
<1> USE DEF service, channels, local, ghosts
<1>1. CASE CompleteTask \/ ReturnError \/ ReturnSerializeError \/ ReturnCanceled
  BY <1>1, RecordFailures
<1>2. CASE ContinueAsNew
  BY <1>2, ContinueFailures
<1>3. CASE UNCHANGED <<status, input, base, saved>>
  <2>1. FailsOnFailedUpdate'
    BY <1>3 DEF FailsOnFailedUpdate, FailedUpdate, Log
  <2>2. CASE (StartTask /\ ~up) \/ LoadForQuery
    BY <1>3, <2>1, <2>2, LoadFailures DEF StartTask, LoadForQuery
  <2>3. CASE Crash \/ RefuseClose
    BY <1>3, <2>1, <2>3 DEF Crash, RefuseClose, GiveUpTask, Evict, FailuresEnd
  <2>4. CASE Feed
    BY <2>1, <2>4, FeedFailures
  <2>5. CASE \E i \in DOMAIN inbox : HandleExec(i) \/ HandleUpdate(i)
    BY <2>1, <2>5, HandleFailures
  <2>6. CASE Block
    BY <2>1, <2>6 DEF Block, FailuresEnd, Done
  <2>7. CASE UNCHANGED <<input, base, up, pc, db, handled>>
    BY <2>1, <2>7 DEF FailuresEnd, Done
  <2> QED
    BY <1>3, <2>2, <2>3, <2>4, <2>5, <2>6, <2>7, <1>1, <1>2
       DEF Next, Client, Service, Workflow, Outcome, Send, StopDB, SendQuery, StartTask,
           RefuseQuery, DeliverResponse, TimeOutResponse, EndResponse, HandleOther,
           AnswerQuery, vars
<1> QED
  BY <1>1, <1>2, <1>3
     DEF Next, Client, Service, Workflow, Outcome, Send, StopDB, SendQuery, StartTask,
         LoadForQuery, RefuseQuery, Feed, Crash, DeliverResponse, TimeOutResponse,
         EndResponse, HandleExec, HandleUpdate, HandleOther, Block, RefuseClose,
         GiveUpTask, AnswerQuery, vars

\* A failed update that counts is the last call of the chain, which fails with it,
\* through replays and runs, and nothing else makes it fail but a database that cannot
\* be opened or serialised (worker.go).
THEOREM FailedUpdateIsLast == ASSUME KeepsState PROVE Spec => []FailsOnFailedUpdate
<1>1. PICK P : IsPlain(P)
  BY DEF KeepsState
<1>2. Init => StateIsLog(P) /\ FailuresEnd /\ FailsOnFailedUpdate
  <2>1. Init => StateIsLog(P)
    BY <1>1, InitState
  <2>2. Init => base = << >> /\ Log = << >> /\ ~up /\ status = "running"
    BY DEF Init, Log
  <2>3. DOMAIN << >> = {}
    OBVIOUS
  <2> QED BY <2>1, <2>2, <2>3 DEF FailuresEnd, FailsOnFailedUpdate, NoFailure
<1>3. TypeOK /\ StateIsLog(P) /\ [Next]_vars => StateIsLog(P)'
  BY <1>1, NextState
<1>4. TypeOK /\ Replay /\ StateIsLog(P) /\ FailuresEnd /\ FailsOnFailedUpdate /\ [Next]_vars
        => FailuresEnd' /\ FailsOnFailedUpdate'
  BY <1>1, NextFailures DEF Replay
<1> QED BY <1>2, <1>3, <1>4, TypeCorrect, ReplayAlways, PTL DEF Spec

-----------------------------------------------------------------------------
(* Commands.                                                               *)

\* When a worker was fed the batch of the task in progress, the calls it has yet to
\* execute or to respond to are of that batch.
RespondsToBatch ==
  up /\ task /\ feed = << >> => Signalled(inbox) \cup responding \subseteq Signalled(batch)

\* The invariants of the workflow.
Sound ==
  /\ TypeOK /\ IInv /\ ServiceOrder /\ WorkerOrder /\ Replay
  /\ MustIsRecorded /\ QueryReadsAnswered /\ RespondsToBatch

\* An exec that exited with a response has its answer from the worker, and the query
\* has to reflect those that had exited.
Stage == {"idle", "connected", "waiting", "error", "ok"}
ToldIsDelivered ==
  /\ cmd \in [Commands -> Stage]
  /\ \A e \in Execs : cmd[e] = "ok" => response[e] = "delivered"
  /\ asked \subseteq query.must

-----------------------------------------------------------------------------
(* Responses.                                                              *)

\* Every step keeps a worker to its batch.
LEMMA NextResponds == Sound /\ [Next]_vars => RespondsToBatch'
<1> SUFFICES ASSUME Sound, [Next]_vars PROVE RespondsToBatch'
  OBVIOUS
<1> USE DEF service, channels, local, ghosts
<1>1. CASE StartTask
  <2>1. feed' # << >>
    <3>1. feed \in Seq(Seq(Event)) /\ history \in Seq(Seq(Event))
      BY DEF Sound, TypeOK
    <3> QED BY <1>1, <3>1, AppendFacts DEF StartTask, Load, Restart
  <2> QED BY <2>1 DEF RespondsToBatch
<1>2. CASE LoadForQuery
  BY <1>2 DEF LoadForQuery, RespondsToBatch
<1>3. CASE Feed
  <2>1. /\ up /\ feed # << >> /\ feed' = Tail(feed) /\ inbox' = Head(feed)
        /\ responding' = {} /\ task' = task /\ batch' = batch /\ feed \in Seq(Seq(Event))
    BY <1>3 DEF Feed, Sound, TypeOK
  <2>2. /\ Head(feed) = feed[1] /\ (Tail(feed) = << >> => Len(feed) = 1)
    BY <2>1, TailFacts
  <2>3. task => feed[Len(feed)] = batch
    BY <2>1 DEF Sound, IInv, BatchIsTracked
  <2> QED BY <2>1, <2>2, <2>3 DEF RespondsToBatch
<1>4. CASE Crash \/ RefuseClose \/ ContinueAsNew
  BY <1>4 DEF Crash, RefuseClose, ContinueAsNew, GiveUpTask, Evict, RespondsToBatch
<1>5. ASSUME NEW i \in DOMAIN inbox, HandleExec(i) \/ HandleUpdate(i) \/ HandleOther(i)
      PROVE  RespondsToBatch'
  <2>1. /\ inbox' = Without(inbox, i) /\ UNCHANGED <<up, task, feed, batch>>
        /\ \/ responding' = responding
           \/ responding' = responding \cup {inbox[i].call} /\ IsSignal(inbox[i])
    BY <1>5 DEF HandleExec, HandleUpdate, HandleOther, Take, IsSignal
  <2>2. Signalled(inbox)
          = Signalled(inbox') \cup (IF IsSignal(inbox[i]) THEN {inbox[i].call} ELSE {})
    BY <2>1, SignalledWithout DEF Sound, TypeOK
  <2> QED BY <2>1, <2>2 DEF Sound, RespondsToBatch
<1>6. CASE CompleteTask \/ \E s \in {"failed", "canceled"} : Close(s)
  BY <1>6 DEF CompleteTask, Close, RespondsToBatch
<1>7. CASE UNCHANGED <<up, task, feed, inbox, responding, batch>>
  BY <1>7 DEF Sound, RespondsToBatch
<1> QED
  BY <1>1, <1>2, <1>3, <1>4, <1>5, <1>6, <1>7
     DEF Next, Client, Service, Workflow, Outcome, Send, StopDB, SendQuery, RefuseQuery,
         DeliverResponse, TimeOutResponse, EndResponse, Block, ReturnError,
         ReturnSerializeError, ReturnCanceled, AnswerQuery, vars

\* A task issues responses to calls of its batch, and none of them had one: what is
\* recorded was accepted before.
LEMMA IssuedIsNew ==
  ASSUME Sound, task, CaughtUp, NEW c \in Execs, response[c] # "none"
  PROVE  c \notin responding
<1>1. responding \subseteq Signalled(batch)
  BY DEF Sound, CaughtUp, RespondsToBatch
<1>2. c \in Elems(base) \cup Recorded
  <2>1. c \in Elems(Log)
    BY DEF Sound, IInv, AnsweredIsDurable
  <2>2. Elems(Log) = Elems(base) \cup Elems(saved.handled)
    BY LogElems DEF Sound
  <2> QED BY <2>1, <2>2 DEF Sound, IInv, SavedIsRecorded
<1>3. ASSUME c \in Signalled(batch) PROVE Sooner(sent, c, c)
  BY <1>2, <1>3 DEF Sound, ServiceOrder, Before
<1>4. sent \in Seq(Calls) /\ Distinct(sent)
  BY DEF Sound, TypeOK, ServiceOrder
<1> QED BY <1>1, <1>3, <1>4, SoonerOnce

\* A delivered response stays delivered.
LEMMA DeliveredStays ==
  ASSUME Sound, [Next]_vars, NEW c \in Execs, response[c] = "delivered"
  PROVE  response'[c] = "delivered"
<1> USE DEF service, channels, local, ghosts
<1>1. response \in [Execs -> Response]
  BY DEF Sound, TypeOK
<1>2. ASSUME NEW e \in Execs, DeliverResponse(e) \/ TimeOutResponse(e)
      PROVE  response'[c] = "delivered"
  BY <1>1, <1>2 DEF DeliverResponse, TimeOutResponse, EndResponse
<1>3. ASSUME task, CaughtUp, response' \in {Issued, Dropped} PROVE response'[c] = "delivered"
  <2>1. c \notin responding
    BY <1>3, IssuedIsNew
  <2> QED BY <1>3, <2>1 DEF Issued, Dropped
<1>4. CASE CompleteTask \/ ContinueAsNew \/ \E s \in {"failed", "canceled"} : Close(s)
  BY <1>3, <1>4 DEF CompleteTask, ContinueAsNew, Close, Closes
<1>5. CASE UNCHANGED response
  BY <1>5
<1> QED
  BY <1>2, <1>4, <1>5
     DEF Next, Client, Service, Workflow, Outcome, Send, StopDB, SendQuery, StartTask,
         LoadForQuery, RefuseQuery, Feed, Crash, GiveUpTask, HandleExec, HandleUpdate,
         HandleOther, Block, RefuseClose, ReturnError, ReturnSerializeError,
         ReturnCanceled, AnswerQuery, vars

\* The workflow's invariants hold at the start and are kept.
LEMMA InitSound == Init => Sound
<1> SUFFICES ASSUME Init PROVE Sound
  OBVIOUS
<1>1. TypeOK /\ IInv /\ ServiceOrder /\ WorkerOrder /\ Replay
  BY InitTypes, InitIInv, OrderInit, ReplayInit
<1>2. MustIsRecorded /\ QueryReadsAnswered /\ RespondsToBatch
  BY DEF Init, MustIsRecorded, QueryReadsAnswered, RespondsToBatch
<1> QED BY <1>1, <1>2 DEF Sound

\* The same for a step.
LEMMA NextSound == Sound /\ [Next]_vars => Sound'
<1> SUFFICES ASSUME Sound, [Next]_vars PROVE Sound'
  OBVIOUS
<1>1. TypeOK'
  BY NextTypes DEF Sound
<1>2. IInv' /\ ServiceOrder' /\ WorkerOrder'
  BY NextIInv, OrderNext DEF Sound
<1>3. Replay' /\ MustIsRecorded' /\ QueryReadsAnswered'
  BY <1>1, ReplayNext, NextQuery DEF Sound
<1>4. RespondsToBatch'
  BY NextResponds
<1> QED BY <1>1, <1>2, <1>3, <1>4 DEF Sound

-----------------------------------------------------------------------------
(* Commands.                                                               *)

\* Only an exec's answer ends it well: a command is of one kind.
LEMMA ExecIsCall ==
  ASSUME NEW e \in Execs
  PROVE  /\ e \in Commands /\ e \in Calls
         /\ e \notin Queries /\ e \notin Saves /\ e \notin Gets /\ e \notin StopCmds
BY CommandAssumption DEF Calls, Commands

\* Connecting leaves a chain alone that it is not told to replace.
LEMMA ConnectKeeps ==
  ASSUME NEW k, Connect(k), ~recreated'
  PROVE  UNCHANGED vars /\ ~recreated
<1>1. PICK createIfStopped \in BOOLEAN :
        /\ recreated' = (recreated \/ createIfStopped)
        /\ IF exists /\ status \in ReplacedStates(createIfStopped)
             THEN Recreate ELSE UNCHANGED vars
  BY DEF Connect
<1>2. createIfStopped = FALSE /\ ~recreated
  BY <1>1
<1>3. status \notin ReplacedStates(createIfStopped)
  BY <1>2 DEF ReplacedStates
<1> QED BY <1>1, <1>2, <1>3

\* Until somebody asks for a stopped database again, the commands, the service and the
\* worker only do what SqliteWorkflow describes.
LEMMA LifeIsWorkflow ==
  ASSUME [LifeNext]_lifeVars, ~recreated'
  PROVE  [Next]_vars /\ ~recreated
<1>1. ASSUME NEW k \in Commands, Connect(k) PROVE UNCHANGED vars /\ ~recreated
  BY <1>1, ConnectKeeps
<1>2. ASSUME NEW k \in Commands, SendCommand(k) PROVE [Next]_vars /\ ~recreated
  BY <1>2 DEF SendCommand, Next, Client
<1>3. ASSUME NEW k \in Commands, Stop(k) PROVE [Next]_vars /\ ~recreated
  BY <1>3 DEF Stop, Next, Client
<1>4. ASSUME NEW k \in Commands, AskQuery(k) \/ AskSave(k) PROVE [Next]_vars /\ ~recreated
  BY <1>4 DEF AskQuery, AskSave, Ask, Next, Client
<1>5. ASSUME NEW k \in Commands, Misuse(k) \/ Describe(k) \/ GetResult(k)
      PROVE  UNCHANGED vars /\ ~recreated
  <2>1. UNCHANGED <<vars, exists, recreated, asked>>
    BY <1>5 DEF Misuse, Describe, GetResult
  <2> QED BY <2>1
<1>6. ASSUME NEW k \in Commands, Result(k) PROVE [Next]_vars /\ ~recreated
  BY <1>6 DEF Result, Next, Service, Outcome
<1>7. ASSUME NEW c \in Execs, Respond(c) PROVE [Next]_vars /\ ~recreated
  BY <1>7 DEF Respond, Next, Service
<1>8. CASE Background
  BY <1>8 DEF Background, Alone, commandVars, Closing, Next, Service, Outcome
<1>9. CASE UNCHANGED lifeVars
  BY <1>9 DEF lifeVars, commandVars
<1> QED
  BY <1>1, <1>2, <1>3, <1>4, <1>5, <1>6, <1>7, <1>8, <1>9 DEF LifeNext, Command

\* What a step of a command makes of the commands' stages.
LEMMA StageFacts ==
  ASSUME cmd \in [Commands -> Stage], NEW k, NEW stage \in Stage, Goes(k, stage),
         NEW e \in Execs, cmd'[e] = "ok"
  PROVE  cmd[e] = "ok" \/ (e = k /\ stage = "ok")
BY ExecIsCall DEF Goes

\* An exec exits with a response only when its worker has taken it.
LEMMA ExitIsDelivered ==
  ASSUME Sound, ToldIsDelivered, [LifeNext]_lifeVars, ~recreated',
         NEW e \in Execs, cmd'[e] = "ok"
  PROVE  cmd[e] = "ok" \/ response'[e] = "delivered"
<1> USE DEF ToldIsDelivered, Exits, Stage
<1>1. /\ e \in Commands /\ e \notin Queries /\ e \notin Saves /\ e \notin Gets
      /\ e \notin StopCmds
  BY ExecIsCall
<1>2. ASSUME NEW k \in Commands, NEW stage \in Stage, Goes(k, stage), k # e \/ stage # "ok"
      PROVE  cmd[e] = "ok"
  BY <1>2, StageFacts
<1>3. ASSUME NEW k \in Commands, Command(k) PROVE cmd[e] = "ok"
  <2>1. CASE Connect(k)
    BY <1>2, <1>3, <2>1 DEF Connect
  <2>2. CASE Misuse(k)
    BY <1>2, <1>3, <2>2 DEF Misuse
  <2>3. CASE SendCommand(k)
    BY <1>2, <1>3, <2>3 DEF SendCommand
  <2>4. CASE Stop(k)
    BY <1>1, <1>2, <1>3, <2>4 DEF Stop
  <2>5. CASE AskQuery(k) \/ AskSave(k)
    BY <1>2, <1>3, <2>5 DEF AskQuery, AskSave, Ask
  <2>6. CASE Describe(k) \/ GetResult(k)
    BY <1>1, <1>2, <1>3, <2>6 DEF Describe, GetResult
  <2>7. CASE Result(k)
    BY <1>1, <1>2, <1>3, <2>7 DEF Result
  <2> QED BY <1>3, <2>1, <2>2, <2>3, <2>4, <2>5, <2>6, <2>7 DEF Command
<1>4. ASSUME NEW c \in Execs, Respond(c) PROVE cmd[e] = "ok" \/ response'[e] = "delivered"
  <2>1. /\ Goes(c, "ok") /\ response' = [response EXCEPT ![c] = "delivered"]
        /\ response \in [Execs -> Response]
    BY <1>4 DEF Respond, DeliverResponse, EndResponse, Sound, TypeOK
  <2>2. CASE e = c
    BY <2>1, <2>2
  <2>3. CASE e # c
    BY <2>1, <2>3, StageFacts
  <2> QED BY <2>2, <2>3
<1>5. CASE Background \/ UNCHANGED lifeVars
  BY <1>5 DEF Background, Alone, commandVars, lifeVars
<1> QED BY <1>3, <1>4, <1>5 DEF LifeNext

\* Stages stay stages.
LEMMA NextStage ==
  ASSUME cmd \in [Commands -> Stage], [LifeNext]_lifeVars
  PROVE  cmd' \in [Commands -> Stage]
<1>1. ASSUME NEW k, NEW stage \in Stage, Goes(k, stage) PROVE cmd' \in [Commands -> Stage]
  BY <1>1 DEF Goes
<1> USE DEF Exits, Stage
<1>2. ASSUME NEW k \in Commands, Command(k) PROVE cmd' \in [Commands -> Stage]
  <2>1. CASE Connect(k) \/ Misuse(k)
    BY <1>1, <2>1 DEF Connect, Misuse
  <2>2. CASE SendCommand(k) \/ Stop(k)
    BY <1>1, <2>2 DEF SendCommand, Stop
  <2>3. CASE AskQuery(k) \/ AskSave(k)
    BY <1>1, <2>3 DEF AskQuery, AskSave, Ask
  <2>4. CASE Describe(k) \/ GetResult(k) \/ Result(k)
    BY <1>1, <2>4 DEF Describe, GetResult, Result
  <2> QED BY <1>2, <2>1, <2>2, <2>3, <2>4 DEF Command
<1>3. ASSUME NEW c \in Execs, Respond(c) PROVE cmd' \in [Commands -> Stage]
  BY <1>1, <1>3 DEF Respond
<1>4. CASE Background \/ UNCHANGED lifeVars
  BY <1>4 DEF Background, Alone, commandVars, lifeVars
<1> QED BY <1>2, <1>3, <1>4 DEF LifeNext

\* What the query has to reflect is fixed when it is sent, as are the execs that had
\* exited by then.
LEMMA NextAsked ==
  ASSUME Sound, ToldIsDelivered, [LifeNext]_lifeVars, ~recreated'
  PROVE  asked' \subseteq query'.must
<1> USE DEF ToldIsDelivered
<1>1. ASSUME NEW k \in Commands, Ask(k) PROVE asked' \subseteq query'.must
  BY <1>1 DEF Ask, SendQuery
<1>2. query \in [state: {"none", "sent", "answered", "refused"},
                must: SUBSET Execs, saw: SUBSET Calls]
  BY DEF Sound, TypeOK
<1>3. CASE asked' = asked /\ query'.must = query.must
  BY <1>3
<1>4. CASE asked' = asked /\ UNCHANGED query
  BY <1>4
<1>5. CASE asked' = asked /\ (AnswerQuery \/ RefuseQuery)
  BY <1>2, <1>3, <1>5 DEF AnswerQuery, RefuseQuery
<1>6. ASSUME NEW k \in Commands, Command(k) PROVE asked' \subseteq query'.must
  <2>1. CASE Connect(k)
    <3>1. UNCHANGED vars
      BY <2>1, ConnectKeeps
    <3> QED BY <1>4, <2>1, <3>1 DEF Connect, vars
  <2>2. CASE Misuse(k) \/ Describe(k) \/ GetResult(k)
    BY <1>4, <2>2 DEF Misuse, Describe, GetResult, vars
  <2>3. CASE SendCommand(k)
    BY <1>4, <2>3 DEF SendCommand, Send, vars
  <2>4. CASE Stop(k)
    BY <1>4, <2>4 DEF Stop, StopDB, vars
  <2>5. CASE AskQuery(k) \/ AskSave(k)
    BY <1>1, <1>4, <1>6, <2>5 DEF AskQuery, AskSave, vars
  <2>6. CASE Result(k)
    BY <1>5, <2>6 DEF Result
  <2> QED BY <1>6, <2>1, <2>2, <2>3, <2>4, <2>5, <2>6 DEF Command
<1>7. ASSUME NEW c \in Execs, Respond(c) PROVE asked' \subseteq query'.must
  BY <1>4, <1>7 DEF Respond, DeliverResponse, EndResponse
<1>8. CASE Background
  <2>1. asked' = asked
    BY <1>8 DEF Background, Alone, commandVars
  <2>2. UNCHANGED query
    BY <1>8 DEF Background, Alone, StartTask, LoadForQuery, Feed, Crash, Workflow,
         HandleExec, HandleUpdate, HandleOther, Block, Closing, CompleteTask, RefuseClose,
         ReturnError, ReturnSerializeError, ReturnCanceled, Close, ContinueAsNew,
         TimeOutResponse, EndResponse
  <2> QED BY <1>4, <2>1, <2>2
<1>9. CASE UNCHANGED lifeVars
  BY <1>4, <1>9 DEF lifeVars, commandVars, vars
<1> QED BY <1>6, <1>7, <1>8, <1>9 DEF LifeNext

\* The workflow's invariants and the two facts about commands hold until then.
LEMMA NextLife ==
  (recreated \/ (Sound /\ ToldIsDelivered)) /\ [LifeNext]_lifeVars
    => (recreated \/ (Sound /\ ToldIsDelivered))'
<1> SUFFICES ASSUME recreated \/ (Sound /\ ToldIsDelivered), [LifeNext]_lifeVars, ~recreated'
             PROVE  Sound' /\ ToldIsDelivered'
  OBVIOUS
<1>1. [Next]_vars /\ Sound /\ ToldIsDelivered
  BY LifeIsWorkflow
<1>2. Sound'
  BY <1>1, NextSound
<1>3. cmd' \in [Commands -> Stage]
  BY <1>1, NextStage DEF ToldIsDelivered
<1>4. ASSUME NEW e \in Execs, cmd'[e] = "ok" PROVE response'[e] = "delivered"
  <2>1. cmd[e] = "ok" \/ response'[e] = "delivered"
    BY <1>1, <1>4, ExitIsDelivered
  <2>2. CASE cmd[e] = "ok"
    BY <1>1, <2>2, DeliveredStays DEF ToldIsDelivered
  <2> QED BY <2>1, <2>2
<1>5. asked' \subseteq query'.must
  BY <1>1, NextAsked
<1> QED BY <1>2, <1>3, <1>4, <1>5 DEF ToldIsDelivered

\* What an exec command was told it did is in what queries and saves read that are sent
\* after it exited, through crashes, failures, cancellation and whoever connects, until
\* a command is told to create a stopped database again (client.go, worker.go).
THEOREM AnswersLast == LifeSpec => []AnswersSurvive
<1>1. LifeInit => recreated \/ (Sound /\ ToldIsDelivered)
  <2>1. LifeInit => Sound
    BY InitSound DEF LifeInit
  <2>2. LifeInit => ToldIsDelivered
    BY ExecIsCall DEF LifeInit, ToldIsDelivered, Stage
  <2> QED BY <2>1, <2>2
<1>2. recreated \/ (Sound /\ ToldIsDelivered) => AnswersSurvive
  BY DEF Sound, ToldIsDelivered, QueryReadsAnswered, AnswersSurvive
<1> QED BY <1>1, <1>2, NextLife, PTL DEF LifeSpec
=============================================================================
