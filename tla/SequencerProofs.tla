--------------------------- MODULE SequencerProofs --------------------------
(***************************************************************************)
(* For any functions and any durations: functions and workflow take turns, *)
(* and code after a sleep runs exactly the slept duration later.           *)
(***************************************************************************)
EXTENDS Sequencer, Functions, SequenceTheorems, TLAPS

Queued(kind, ch) == <<kind, ch>> \in Range(queue)
Pending(ch) ==
  Queued("delay", ch) \/ Queued("fire", ch) \/ ch \in begun \/ \E t \in timers : t.ch = ch

\* A function that has the turn holds the main loop by an open channel.
Turn ==
  \A f \in Funcs :
    pc[f] \in {"code", "sleep", "close"} =>
      Waits(<<f, last[f]>>) /\ <<f, last[f]>> \notin ended

\* One that sleeps has an open channel, which holds the main loop once its
\* callback is called.
Asleep ==
  \A f \in Funcs :
    pc[f] \in {"assign", "wait"} =>
      /\ Current(f) \notin ended
      /\ Current(f) \in begun => Waits(Current(f)) /\ now = wake[f]

\* Which channel is whose.
NumberedAt(f) ==
  /\ pc[f] = "code" \/ pc[f] = "wait" => last[f] = slept[f]
  /\ pc[f] \in {"sleep", "close", "assign"} => slept[f] = last[f] + 1
  /\ pc[f] \in {"new", "added"} => slept[f] = 0 /\ last[f] = 0
  /\ pc[f] \in {"sleep", "close"} => Current(f) \notin ended
  /\ pc[f] = "close" => Current(f) \notin begun
  /\ \A k \in Nat :
       /\ <<f, k>> \in ended => k <= slept[f] /\ pc[f] \notin {"new", "added"}
       /\ Pending(<<f, k>>) => 1 <= k /\ k <= slept[f] /\ (pc[f] = "sleep" => k <= last[f])
Numbered == \A f \in Funcs : NumberedAt(f)

\* When the callbacks are due.
TimedAt(f) ==
  /\ pc[f] = "code" => now = wake[f]
  /\ pc[f] = "sleep" => now + Plan[f][slept[f]] = wake[f]
  /\ pc[f] = "added" /\ Queued("start", <<f, 0>>) => now = wake[f]
  /\ \A k \in Nat : k = slept[f] =>
       /\ Queued("delay", <<f, k>>) => now + Plan[f][k] = wake[f]
       /\ Queued("fire", <<f, k>>) => now = wake[f]
       /\ \A t \in timers : t.ch = <<f, k>> => t.at = wake[f]
Timed == \A f \in Funcs : TimedAt(f)

IInv == TypeOK /\ Turn /\ Asleep /\ Numbered /\ Timed

-----------------------------------------------------------------------------
\* What a queue holds after a callback is posted, and after one is taken.
LEMMA QueueFacts ==
  ASSUME NEW S, NEW q \in Seq(S)
  PROVE  /\ \A e \in S : Append(q, e) \in Seq(S) /\ Range(Append(q, e)) = Range(q) \cup {e}
         /\ q # << >> => /\ Head(q) \in Range(q) /\ Head(q) \in S
                         /\ Tail(q) \in Seq(S) /\ Range(Tail(q)) \subseteq Range(q)
<1>1. ASSUME NEW e \in S
      PROVE  Append(q, e) \in Seq(S) /\ Range(Append(q, e)) = Range(q) \cup {e}
  <2>1. /\ Append(q, e) \in Seq(S) /\ Len(q) \in Nat /\ DOMAIN q = 1 .. Len(q)
        /\ DOMAIN Append(q, e) = 1 .. Len(q) + 1 /\ Append(q, e)[Len(q) + 1] = e
        /\ \A i \in 1 .. Len(q) : Append(q, e)[i] = q[i]
    OBVIOUS
  <2> QED BY <2>1 DEF Range
<1>2. ASSUME q # << >>
      PROVE  /\ Head(q) \in Range(q) /\ Head(q) \in S
             /\ Tail(q) \in Seq(S) /\ Range(Tail(q)) \subseteq Range(q)
  <2>1. /\ Len(q) \in Nat \ {0} /\ DOMAIN q = 1 .. Len(q) /\ Head(q) = q[1]
        /\ Tail(q) \in Seq(S) /\ Head(q) \in S
    BY <1>2, EmptySeq, LenProperties, HeadTailProperties
  <2>2. /\ DOMAIN Tail(q) = 1 .. Len(q) - 1
        /\ \A i \in 1 .. Len(q) - 1 : Tail(q)[i] = q[i + 1]
    BY <1>2, HeadTailProperties, LenProperties
  <2> QED BY <2>1, <2>2 DEF Range
<1> QED BY <1>1, <1>2

\* The channels of a function.
LEMMA ChanFacts ==
  /\ \A f \in Funcs, k \in Nat : <<f, k>> \in Chan <=> k <= Len(Plan[f])
  /\ \A ch \in Chan : ch = <<ch[1], ch[2]>> /\ ch[1] \in Funcs /\ ch[2] \in Nat
                      /\ ch[2] <= Len(Plan[ch[1]])
  /\ \A f \in Funcs : /\ Len(Plan[f]) \in Nat
                      /\ \A k \in 1 .. Len(Plan[f]) : Plan[f][k] \in Nat
<1>1. \A f \in Funcs : Plan[f] \in Seq(Nat) /\ Len(Plan[f]) \in Nat
  BY PlanAssumption, LenProperties
<1>2. \A f \in Funcs : \A k \in 1 .. Len(Plan[f]) : Plan[f][k] \in Nat
  BY <1>1, ElementOfSeq
<1> QED BY <1>1, <1>2 DEF Chan

\* A callback that the main loop takes was queued; the others stay.
LEMMA TakesFacts ==
  ASSUME TypeOK, NEW kind, NEW ch, Takes(kind, ch)
  PROVE  /\ Queued(kind, ch) /\ ch \in Chan /\ loop = "idle"
         /\ queue' \in Seq(Callback) /\ Range(queue') \subseteq Range(queue)
<1>1. queue \in Seq(Callback) /\ queue # << >> /\ Head(queue) = <<kind, ch>>
  BY DEF TypeOK, Takes
<1>2. /\ <<kind, ch>> \in Range(queue) /\ <<kind, ch>> \in Callback
      /\ Tail(queue) \in Seq(Callback) /\ Range(Tail(queue)) \subseteq Range(queue)
  BY <1>1, QueueFacts
<1>3. ch \in Chan
  BY <1>2 DEF Callback
<1> QED BY <1>2, <1>3 DEF Takes, Queued

\* The invariant holds at the start.
LEMMA InitInv == Init => IInv
<1> SUFFICES ASSUME Init PROVE IInv
  OBVIOUS
<1>1. << >> \in Seq(Callback) /\ Range(<< >>) = {}
  BY DEF Range
<1>2. TypeOK
  BY <1>1, ChanFacts DEF Init, TypeOK
<1>3. Turn /\ Asleep /\ Numbered /\ Timed
  BY <1>1 DEF Init, Turn, Asleep, Numbered, NumberedAt, Timed, TimedAt, Pending, Queued
<1> QED BY <1>2, <1>3 DEF IInv

-----------------------------------------------------------------------------
\* A step that does nothing to a function and its callbacks but take some.
Quiet(g) ==
  /\ now' = now /\ pc'[g] = pc[g] /\ slept'[g] = slept[g]
  /\ last'[g] = last[g] /\ wake'[g] = wake[g]
  /\ \A k \in Nat :
       /\ <<g, k>> \in ended' => <<g, k>> \in ended
       /\ <<g, k>> \in begun' => <<g, k>> \in begun
       /\ Queued("start", <<g, k>>)' => Queued("start", <<g, k>>)
       /\ Queued("delay", <<g, k>>)' => Queued("delay", <<g, k>>)
       /\ Queued("fire", <<g, k>>)' => Queued("fire", <<g, k>>)
       /\ \A t \in timers' : t.ch = <<g, k>> => t \in timers

\* Such a step keeps what the invariant says of the function.
LEMMA QuietKeeps ==
  ASSUME TypeOK, NEW g \in Funcs, Quiet(g), NumberedAt(g), TimedAt(g)
  PROVE  NumberedAt(g)' /\ TimedAt(g)'
<1>1. slept[g] \in Nat
  BY DEF TypeOK
<1>2. \A k \in Nat : Pending(<<g, k>>)' => Pending(<<g, k>>)
  BY DEF Quiet, Pending
<1>3. NumberedAt(g)'
  BY <1>1, <1>2 DEF Quiet, NumberedAt, Current
<1>4. TimedAt(g)'
  BY <1>1 DEF Quiet, TimedAt
<1> QED BY <1>3, <1>4

-----------------------------------------------------------------------------
(* Steps of the main loop.                                                 *)

\* The workflow runs, or the main loop begins: nobody has the turn.
LEMMA LoopSteps ==
  ASSUME IInv, ExecuteWorkflow \/ RunWorkflow
  PROVE  IInv'
<1>0. TypeOK /\ Turn /\ Asleep /\ Numbered /\ Timed
  BY DEF IInv
<1>1. TypeOK'
  BY <1>0 DEF TypeOK, Goto, ExecuteWorkflow, RunWorkflow
<1>2. Turn' /\ Asleep'
  <2>1. Turn'
    BY <1>0 DEF TypeOK, Turn, Asleep, Numbered, NumberedAt, Waits, Current, Goto, ExecuteWorkflow, RunWorkflow
  <2>2. Asleep'
    BY <1>0 DEF TypeOK, Turn, Asleep, Numbered, NumberedAt, Timed, TimedAt, Waits, Current, Goto, ExecuteWorkflow, RunWorkflow
  <2> QED BY <2>1, <2>2
<1>3. ASSUME NEW g \in Funcs PROVE Quiet(g)
  BY <1>0 DEF TypeOK, Quiet, Queued, Goto, ExecuteWorkflow, RunWorkflow
<1>5. ASSUME NEW g \in Funcs PROVE NumberedAt(g)' /\ TimedAt(g)'
  BY <1>0, <1>3, QuietKeeps DEF Numbered, Timed
<1> QED BY <1>1, <1>2, <1>5 DEF IInv, Numbered, Timed

\* Starting a function's goroutine gives it the first turn.
LEMMA StartStep ==
  ASSUME IInv, NEW f \in Funcs, Start(f)
  PROVE  IInv'
<1>0. TypeOK /\ Turn /\ Asleep /\ Numbered /\ Timed
  BY DEF IInv
<1>q. /\ Queued("start", <<f, 0>>) /\ <<f, 0>> \in Chan /\ loop = "idle"
      /\ queue' \in Seq(Callback) /\ Range(queue') \subseteq Range(queue)
  BY <1>0, TakesFacts DEF Start
<1>1. TypeOK'
  BY <1>0, <1>q DEF TypeOK, Goto, Start
<1>2. Turn' /\ Asleep'
  <2>1. Turn'
    BY <1>0, <1>q DEF TypeOK, Turn, Asleep, Numbered, NumberedAt, Waits, Current, Goto, Start
  <2>2. Asleep'
    BY <1>0, <1>q DEF TypeOK, Turn, Asleep, Numbered, NumberedAt, Timed, TimedAt, Waits, Current, Goto, Start
  <2> QED BY <2>1, <2>2
<1>3. ASSUME NEW g \in Funcs, g # f PROVE Quiet(g)
  BY <1>0, <1>3, <1>q DEF TypeOK, Quiet, Queued, Goto, Start
<1>4. NumberedAt(f)' /\ TimedAt(f)'
  <2>1. NumberedAt(f) /\ TimedAt(f)
    BY <1>0 DEF Numbered, Timed
  <2>2. /\ pc[f] = "added" /\ pc'[f] = "code" /\ now = wake[f]
        /\ UNCHANGED <<timers, now, slept, last, begun, ended, wake>>
    BY <1>0, <1>q, <2>1 DEF TypeOK, TimedAt, Start, Goto
  <2>3. \A k \in Nat : Pending(<<f, k>>)' => Pending(<<f, k>>)
    BY <1>q, <2>2 DEF Pending, Queued
  <2>4. NumberedAt(f)'
    BY <2>1, <2>2, <2>3 DEF NumberedAt, Current
  <2>5. TimedAt(f)'
    BY <1>q, <2>1, <2>2 DEF TimedAt, Queued
  <2> QED BY <2>4, <2>5
<1>5. ASSUME NEW g \in Funcs PROVE NumberedAt(g)' /\ TimedAt(g)'
  BY <1>0, <1>3, <1>4, QuietKeeps DEF Numbered, Timed
<1> QED BY <1>1, <1>2, <1>5 DEF IInv, Numbered, Timed

\* Making a timer keeps the invariant: it ends when the sleep does.
LEMMA DelayStep ==
  ASSUME IInv, NEW ch \in Chan, Delay(ch)
  PROVE  IInv'
<1>0. TypeOK /\ Turn /\ Asleep /\ Numbered /\ Timed
  BY DEF IInv
<1>q. /\ Queued("delay", ch) /\ ch \in Chan /\ loop = "idle"
      /\ queue' \in Seq(Callback) /\ Range(queue') \subseteq Range(queue)
  BY <1>0, TakesFacts DEF Delay
<1> DEFINE f == ch[1]
<1>c. f \in Funcs /\ ch = <<f, ch[2]>> /\ ch[2] \in Nat /\ ch[2] <= Len(Plan[f])
  BY ChanFacts
<1>n. NumberedAt(f) /\ TimedAt(f)
  BY <1>0, <1>c DEF Numbered, Timed
<1> HIDE DEF f
<1> DEFINE due == now + Plan[ch[1]][ch[2]]
<1>d. /\ due \in Nat /\ timers' = timers \cup {[at |-> due, ch |-> ch]}
      /\ UNCHANGED <<loop, on, now, pc, slept, last, begun, ended, sent, wake>>
      /\ ch[2] = slept[f] => due = wake[f]
  <2>1. 1 <= ch[2] /\ Pending(ch)
    BY <1>q, <1>c, <1>n DEF NumberedAt, Pending
  <2>2. Plan[ch[1]][ch[2]] \in Nat
    BY <1>c, <2>1, ChanFacts DEF f
  <2>3. now \in Nat
    BY <1>0 DEF TypeOK
  <2>4. ch[2] = slept[f] => now + Plan[f][ch[2]] = wake[f]
    BY <1>q, <1>c, <1>n DEF TimedAt
  <2> QED BY <2>2, <2>3, <2>4 DEF Delay, f
<1> HIDE DEF due
<1>1. TypeOK'
  BY <1>0, <1>q, <1>d DEF TypeOK
<1>2. Turn' /\ Asleep'
  <2>1. Turn'
    BY <1>0, <1>q, <1>d DEF TypeOK, Turn, Asleep, Numbered, NumberedAt, Waits, Current, Goto, Delay
  <2>2. Asleep'
    BY <1>0, <1>q, <1>d DEF TypeOK, Turn, Asleep, Numbered, NumberedAt, Timed, TimedAt, Waits, Current, Goto, Delay
  <2> QED BY <2>1, <2>2
<1>3. ASSUME NEW g \in Funcs, g # f PROVE Quiet(g)
  BY <1>0, <1>3, <1>q, <1>c, <1>d DEF TypeOK, Quiet, Queued, Goto, Delay
<1>4. NumberedAt(f)' /\ TimedAt(f)'
  <2>1. \A k \in Nat : Pending(<<f, k>>)' => Pending(<<f, k>>)
    <3> SUFFICES ASSUME NEW k \in Nat, Pending(<<f, k>>)' PROVE Pending(<<f, k>>)
      OBVIOUS
    <3>1. CASE \E t \in timers' : t.ch = <<f, k>>
      <4>1. PICK t \in timers' : t.ch = <<f, k>>
        BY <3>1
      <4>2. CASE t \in timers
        BY <4>1, <4>2 DEF Pending
      <4>3. CASE t = [at |-> due, ch |-> ch]
        <5>1. ch = <<f, k>>
          BY <4>1, <4>3
        <5> QED BY <5>1, <1>q DEF Pending
      <4> QED BY <1>d, <4>1, <4>2, <4>3
    <3>2. CASE Queued("delay", <<f, k>>)' \/ Queued("fire", <<f, k>>)' \/ <<f, k>> \in begun'
      BY <1>q, <1>d, <3>2 DEF Pending, Queued
    <3> QED BY <3>1, <3>2 DEF Pending
  <2>2. NumberedAt(f)'
    BY <1>n, <1>d, <2>1 DEF NumberedAt, Current
  <2>3. TimedAt(f)'
    BY <1>q, <1>c, <1>n, <1>d DEF TimedAt, Queued
  <2> QED BY <2>2, <2>3
<1>5. ASSUME NEW g \in Funcs PROVE NumberedAt(g)' /\ TimedAt(g)'
  BY <1>0, <1>3, <1>4, QuietKeeps DEF Numbered, Timed
<1> QED BY <1>1, <1>2, <1>5 DEF IInv, Numbered, Timed

\* A callback of Sleep holds the main loop by the function's open channel.
LEMMA FireStep ==
  ASSUME IInv, NEW ch \in Chan, Fire(ch)
  PROVE  IInv'
<1>0. TypeOK /\ Turn /\ Asleep /\ Numbered /\ Timed
  BY DEF IInv
<1>q. /\ Queued("fire", ch) /\ ch \in Chan /\ loop = "idle"
      /\ queue' \in Seq(Callback) /\ Range(queue') \subseteq Range(queue)
  BY <1>0, TakesFacts DEF Fire
<1> DEFINE f == ch[1]
<1>c. f \in Funcs /\ ch = <<f, ch[2]>> /\ ch[2] \in Nat /\ ch[2] <= Len(Plan[f])
  BY ChanFacts
<1>n. NumberedAt(f) /\ TimedAt(f)
  BY <1>0, <1>c DEF Numbered, Timed
<1> HIDE DEF f
<1>d. /\ begun' = begun \cup {ch} /\ loop' = "waits" /\ on' = ch
      /\ UNCHANGED <<timers, now, pc, slept, last, ended, sent, wake>>
      /\ ch[2] = slept[f] => now = wake[f]
  BY <1>q, <1>c, <1>n DEF Fire, TimedAt
<1>l. loop # "waits" /\ \A g \in Funcs : pc[g] \notin {"code", "sleep", "close"}
  BY <1>0, <1>q DEF Turn, Waits
<1>1. TypeOK'
  BY <1>0, <1>q, <1>d DEF TypeOK, Goto, Fire
<1>2. Turn' /\ Asleep'
  <2>1. Turn'
    BY <1>0, <1>q, <1>c, <1>d, <1>l DEF TypeOK, Turn, Asleep, Numbered, NumberedAt, Waits, Current, Goto, Fire
  <2>2. ASSUME NEW g \in Funcs, pc'[g] \in {"assign", "wait"}
        PROVE  /\ Current(g)' \notin ended'
               /\ Current(g)' \in begun' => Waits(Current(g))' /\ now' = wake'[g]
    <3>1. Current(g) \notin ended /\ Current(g) \notin begun
      BY <1>0, <1>d, <1>l, <2>2 DEF Asleep, Waits
    <3>2. Current(g) = ch => g = f /\ ch[2] = slept[f]
      BY <1>c DEF Current
    <3> QED BY <1>d, <3>1, <3>2 DEF Current, Waits
  <2> QED BY <2>1, <2>2 DEF Asleep
<1>3. ASSUME NEW g \in Funcs, g # f PROVE Quiet(g)
  BY <1>0, <1>3, <1>q, <1>c, <1>d DEF TypeOK, Quiet, Queued, Goto, Fire
<1>4. NumberedAt(f)' /\ TimedAt(f)'
  <2>1. \A k \in Nat : Pending(<<f, k>>)' => Pending(<<f, k>>)
    BY <1>q, <1>c, <1>d DEF Pending, Queued
  <2>2. NumberedAt(f)'
    BY <1>c, <1>n, <1>d, <1>l, <2>1 DEF NumberedAt, Current
  <2>3. TimedAt(f)'
    BY <1>q, <1>c, <1>n, <1>d DEF TimedAt, Queued
  <2> QED BY <2>2, <2>3
<1>5. ASSUME NEW g \in Funcs PROVE NumberedAt(g)' /\ TimedAt(g)'
  BY <1>0, <1>3, <1>4, QuietKeeps DEF Numbered, Timed
<1> QED BY <1>1, <1>2, <1>5 DEF IInv, Numbered, Timed

\* Receiving a signal keeps the invariant.
LEMMA SignalledStep ==
  ASSUME IInv, NEW ch \in Chan, Signalled(ch)
  PROVE  IInv'
<1>0. TypeOK /\ Turn /\ Asleep /\ Numbered /\ Timed
  BY DEF IInv
<1>q. /\ Queued("signal", ch) /\ ch \in Chan /\ loop = "idle"
      /\ queue' \in Seq(Callback) /\ Range(queue') \subseteq Range(queue)
  BY <1>0, TakesFacts DEF Signalled
<1>1. TypeOK'
  BY <1>0, <1>q DEF TypeOK, Goto, Signalled
<1>2. Turn' /\ Asleep'
  <2>1. Turn'
    BY <1>0, <1>q DEF TypeOK, Turn, Asleep, Numbered, NumberedAt, Waits, Current, Goto, Signalled
  <2>2. Asleep'
    BY <1>0, <1>q DEF TypeOK, Turn, Asleep, Numbered, NumberedAt, Timed, TimedAt, Waits, Current, Goto, Signalled
  <2> QED BY <2>1, <2>2
<1>3. ASSUME NEW g \in Funcs PROVE Quiet(g)
  BY <1>0, <1>q DEF TypeOK, Quiet, Queued, Goto, Signalled
<1>5. ASSUME NEW g \in Funcs PROVE NumberedAt(g)' /\ TimedAt(g)'
  BY <1>0, <1>3, QuietKeeps DEF Numbered, Timed
<1> QED BY <1>1, <1>2, <1>5 DEF IInv, Numbered, Timed

\* Leaving a callback keeps the invariant: its channel is closed, so no turn holds it.
LEMMA ResumeStep ==
  ASSUME IInv, NEW ch \in Chan, Resume(ch)
  PROVE  IInv'
<1>0. TypeOK /\ Turn /\ Asleep /\ Numbered /\ Timed
  BY DEF IInv
<1>1. TypeOK'
  BY <1>0 DEF TypeOK, Goto, Resume
<1>2. Turn' /\ Asleep'
  <2>1. Turn'
    BY <1>0 DEF TypeOK, Turn, Asleep, Numbered, NumberedAt, Waits, Current, Goto, Resume
  <2>2. Asleep'
    BY <1>0 DEF TypeOK, Turn, Asleep, Numbered, NumberedAt, Timed, TimedAt, Waits, Current, Goto, Resume
  <2> QED BY <2>1, <2>2
<1>3. ASSUME NEW g \in Funcs PROVE Quiet(g)
  BY <1>0 DEF TypeOK, Quiet, Queued, Goto, Resume
<1>5. ASSUME NEW g \in Funcs PROVE NumberedAt(g)' /\ TimedAt(g)'
  BY <1>0, <1>3, QuietKeeps DEF Numbered, Timed
<1> QED BY <1>1, <1>2, <1>5 DEF IInv, Numbered, Timed

\* Moving the clock to the next timer keeps the invariant: nobody has the turn.
LEMMA SkipStep ==
  ASSUME IInv, SkipTime
  PROVE  IInv'
<1>0. TypeOK /\ Turn /\ Asleep /\ Numbered /\ Timed
  BY DEF IInv
<1>1. PICK u \in timers :
        /\ queue' = << <<"fire", u.ch>> >> /\ now' = u.at /\ timers' = timers \ {u}
        /\ loop = "idle" /\ queue = << >>
        /\ UNCHANGED <<loop, on, pc, slept, last, begun, ended, sent, wake>>
  BY DEF SkipTime
<1>2. /\ <<"fire", u.ch>> \in Callback /\ queue' \in Seq(Callback)
      /\ Range(queue) = {} /\ Range(queue') = {<<"fire", u.ch>>}
  <2>1. u.ch \in Chan
    BY <1>0, <1>1 DEF TypeOK
  <2>2. <<"fire", u.ch>> \in Callback
    BY <2>1 DEF Callback
  <2>3. << <<"fire", u.ch>> >> \in Seq(Callback) /\ Range(<< <<"fire", u.ch>> >>) = {<<"fire", u.ch>>}
    <3>1. DOMAIN << <<"fire", u.ch>> >> = {1}
      OBVIOUS
    <3>2. << <<"fire", u.ch>> >>[1] = <<"fire", u.ch>>
      OBVIOUS
    <3> QED BY <2>2, <3>1, <3>2 DEF Range
  <2>4. Range(<< >>) = {}
    BY DEF Range
  <2> QED BY <1>1, <2>2, <2>3, <2>4
<1>3. TypeOK'
  BY <1>0, <1>1, <1>2 DEF TypeOK
<1>4. loop # "waits" /\ \A g \in Funcs : pc[g] \notin {"code", "sleep", "close"}
  BY <1>0, <1>1 DEF Turn, Waits
<1>5. Turn' /\ Asleep'
  BY <1>0, <1>1, <1>4 DEF Turn, Asleep, Waits, Current
<1>6. ASSUME NEW g \in Funcs PROVE NumberedAt(g)' /\ TimedAt(g)'
  <2>1. NumberedAt(g) /\ TimedAt(g) /\ slept[g] \in Nat
    BY <1>0 DEF Numbered, Timed, TypeOK
  <2>2. \A k \in Nat : Pending(<<g, k>>)' => Pending(<<g, k>>)
    BY <1>1, <1>2 DEF Pending, Queued
  <2>3. NumberedAt(g)'
    BY <1>1, <1>4, <2>1, <2>2 DEF NumberedAt, Current
  <2>4. TimedAt(g)'
    BY <1>1, <1>2, <1>4, <2>1 DEF TimedAt, Queued
  <2> QED BY <2>3, <2>4
<1> QED BY <1>3, <1>5, <1>6 DEF IInv, Numbered, Timed

-----------------------------------------------------------------------------
(* Steps of the goroutines.                                                *)

\* Adding a function keeps the invariant.
LEMMA AddStep ==
  ASSUME IInv, NEW f \in Funcs, AddSequence(f)
  PROVE  IInv'
<1>0. TypeOK /\ Turn /\ Asleep /\ Numbered /\ Timed
  BY DEF IInv
<1>n. /\ NumberedAt(f) /\ TimedAt(f) /\ slept[f] \in Nat /\ last[f] \in Nat
      /\ last[f] <= slept[f] /\ slept[f] <= Len(Plan[f])
      /\ Current(f) \in Chan /\ <<f, last[f]>> \in Chan /\ <<f, 0>> \in Chan
  <2>1. /\ slept[f] \in Nat /\ last[f] \in Nat /\ Len(Plan[f]) \in Nat
        /\ last[f] <= slept[f] /\ slept[f] <= Len(Plan[f])
    BY <1>0, ChanFacts DEF TypeOK
  <2> QED BY <1>0, <2>1, ChanFacts DEF Numbered, Timed, Current
<1>q. /\ queue' \in Seq(Callback)
      /\ Range(queue') = Range(queue) \cup {<<"start", <<f, 0>>>>}
  <2>1. queue \in Seq(Callback) /\ <<"start", <<f, 0>>>> \in Callback
    BY <1>0, <1>n DEF TypeOK, Callback
  <2> QED BY <2>1, QueueFacts DEF AddSequence
<1>1. TypeOK'
  BY <1>0, <1>q DEF TypeOK, Goto, AddSequence
<1>2. Turn' /\ Asleep'
  <2>1. Turn'
    BY <1>0, <1>q DEF TypeOK, Turn, Asleep, Numbered, NumberedAt, Waits, Current, Goto, AddSequence
  <2>2. Asleep'
    BY <1>0, <1>q DEF TypeOK, Turn, Asleep, Numbered, NumberedAt, Timed, TimedAt, Waits, Current, Goto, AddSequence
  <2> QED BY <2>1, <2>2
<1>3. ASSUME NEW g \in Funcs, g # f PROVE Quiet(g)
  BY <1>0, <1>3, <1>q DEF TypeOK, Quiet, Queued, Goto, AddSequence
<1>4. NumberedAt(f)' /\ TimedAt(f)'
  <2>1. /\ pc[f] = "new" /\ pc'[f] = "added" /\ wake'[f] = now
        /\ UNCHANGED <<timers, now, slept, last, begun, ended>>
    BY <1>0 DEF TypeOK, AddSequence, Goto
  <2>2. \A k \in Nat : Pending(<<f, k>>)' => Pending(<<f, k>>)
    BY <1>q, <2>1 DEF Pending, Queued
  <2>3. NumberedAt(f)'
    BY <1>n, <2>1, <2>2 DEF NumberedAt, Current
  <2>4. slept[f] = 0 /\ \A k \in Nat : ~(Pending(<<f, k>>)' /\ k = 0)
    BY <1>n, <2>1, <2>2 DEF NumberedAt
  <2>5. TimedAt(f)'
    BY <1>n, <2>1, <2>4 DEF TimedAt, Pending
  <2> QED BY <2>3, <2>5
<1>5. ASSUME NEW g \in Funcs PROVE NumberedAt(g)' /\ TimedAt(g)'
  BY <1>0, <1>3, <1>4, QuietKeeps DEF Numbered, Timed
<1> QED BY <1>1, <1>2, <1>5 DEF IInv, Numbered, Timed

\* A signal keeps the invariant.
LEMMA SignalStep ==
  ASSUME IInv, NEW f \in Funcs, SignalWorkflow(f)
  PROVE  IInv'
<1>0. TypeOK /\ Turn /\ Asleep /\ Numbered /\ Timed
  BY DEF IInv
<1>n. /\ NumberedAt(f) /\ TimedAt(f) /\ slept[f] \in Nat /\ last[f] \in Nat
      /\ last[f] <= slept[f] /\ slept[f] <= Len(Plan[f])
      /\ Current(f) \in Chan /\ <<f, last[f]>> \in Chan /\ <<f, 0>> \in Chan
  <2>1. /\ slept[f] \in Nat /\ last[f] \in Nat /\ Len(Plan[f]) \in Nat
        /\ last[f] <= slept[f] /\ slept[f] <= Len(Plan[f])
    BY <1>0, ChanFacts DEF TypeOK
  <2> QED BY <1>0, <2>1, ChanFacts DEF Numbered, Timed, Current
<1>q. /\ queue' \in Seq(Callback)
      /\ Range(queue') = Range(queue) \cup {<<"signal", Current(f)>>}
  <2>1. queue \in Seq(Callback) /\ <<"signal", Current(f)>> \in Callback
    BY <1>0, <1>n DEF TypeOK, Callback
  <2> QED BY <2>1, QueueFacts DEF SignalWorkflow
<1>1. TypeOK'
  BY <1>0, <1>n, <1>q DEF TypeOK, Goto, SignalWorkflow
<1>2. Turn' /\ Asleep'
  <2>1. Turn'
    BY <1>0, <1>q DEF TypeOK, Turn, Asleep, Numbered, NumberedAt, Waits, Current, Goto, SignalWorkflow
  <2>2. Asleep'
    BY <1>0, <1>q DEF TypeOK, Turn, Asleep, Numbered, NumberedAt, Timed, TimedAt, Waits, Current, Goto, SignalWorkflow
  <2> QED BY <2>1, <2>2
<1>3. ASSUME NEW g \in Funcs PROVE Quiet(g)
  BY <1>0, <1>q DEF TypeOK, Quiet, Queued, Goto, SignalWorkflow
<1>5. ASSUME NEW g \in Funcs PROVE NumberedAt(g)' /\ TimedAt(g)'
  BY <1>0, <1>3, QuietKeeps DEF Numbered, Timed
<1> QED BY <1>1, <1>2, <1>5 DEF IInv, Numbered, Timed

\* Beginning to sleep keeps the turn.
LEMMA CallSleepStep ==
  ASSUME IInv, NEW f \in Funcs, CallSleep(f)
  PROVE  IInv'
<1>0. TypeOK /\ Turn /\ Asleep /\ Numbered /\ Timed
  BY DEF IInv
<1>n. /\ NumberedAt(f) /\ TimedAt(f) /\ slept[f] \in Nat /\ last[f] \in Nat
      /\ last[f] <= slept[f] /\ slept[f] <= Len(Plan[f])
      /\ Current(f) \in Chan /\ <<f, last[f]>> \in Chan /\ <<f, 0>> \in Chan
  <2>1. /\ slept[f] \in Nat /\ last[f] \in Nat /\ Len(Plan[f]) \in Nat
        /\ last[f] <= slept[f] /\ slept[f] <= Len(Plan[f])
    BY <1>0, ChanFacts DEF TypeOK
  <2> QED BY <1>0, <2>1, ChanFacts DEF Numbered, Timed, Current
<1>s. /\ pc[f] = "code" /\ pc'[f] = "sleep" /\ slept[f] + 1 \in 1 .. Len(Plan[f])
      /\ slept' = [slept EXCEPT ![f] = slept[f] + 1] /\ slept'[f] = slept[f] + 1
      /\ Plan[f][slept[f] + 1] \in Nat
      /\ wake' = [wake EXCEPT ![f] = now + Plan[f][slept[f] + 1]]
      /\ wake'[f] = now + Plan[f][slept[f] + 1]
      /\ UNCHANGED <<loop, on, queue, timers, now, last, begun, ended, sent>>
  <2>1. slept[f] + 1 \in 1 .. Len(Plan[f])
    BY <1>n, ChanFacts DEF CallSleep
  <2>2. Plan[f][slept[f] + 1] \in Nat
    BY <2>1, ChanFacts
  <2>3. /\ DOMAIN pc = Funcs /\ DOMAIN slept = Funcs /\ DOMAIN wake = Funcs
    BY <1>0 DEF TypeOK
  <2> QED BY <2>1, <2>2, <2>3 DEF CallSleep, Goto
<1>1. TypeOK'
  BY <1>0, <1>n, <1>s, SMTT(30) DEF TypeOK, Goto, CallSleep
<1>2. Turn' /\ Asleep'
  <2>1. Turn'
    BY <1>0, <1>s DEF TypeOK, Turn, Asleep, Numbered, NumberedAt, Waits, Current, Goto, CallSleep
  <2>2. Asleep'
    BY <1>0, <1>s DEF TypeOK, Turn, Asleep, Numbered, NumberedAt, Timed, TimedAt, Waits, Current, Goto, CallSleep
  <2> QED BY <2>1, <2>2
<1>3. ASSUME NEW g \in Funcs, g # f PROVE Quiet(g)
  BY <1>0, <1>3, <1>s DEF TypeOK, Quiet, Queued, Goto, CallSleep
<1>4. NumberedAt(f)' /\ TimedAt(f)'
  <2>1. \A k \in Nat : Pending(<<f, k>>)' => Pending(<<f, k>>)
    BY <1>s DEF Pending, Queued
  <2>2. NumberedAt(f)'
    BY <1>n, <1>s, <2>1 DEF NumberedAt, Current
  <2>3. \A k \in Nat : Pending(<<f, k>>)' => k # slept'[f]
    BY <1>n, <1>s, <2>1 DEF NumberedAt
  <2>4. TimedAt(f)'
    BY <1>s, <2>3 DEF TimedAt, Pending
  <2> QED BY <2>2, <2>4
<1>5. ASSUME NEW g \in Funcs PROVE NumberedAt(g)' /\ TimedAt(g)'
  BY <1>0, <1>3, <1>4, QuietKeeps DEF Numbered, Timed
<1> QED BY <1>1, <1>2, <1>5 DEF IInv, Numbered, Timed

\* Registering the callback keeps the invariant: it is due when the sleep ends.
LEMMA RegisterStep ==
  ASSUME IInv, NEW f \in Funcs, Register(f)
  PROVE  IInv'
<1>0. TypeOK /\ Turn /\ Asleep /\ Numbered /\ Timed
  BY DEF IInv
<1> DEFINE kind == IF Plan[f][slept[f]] = 0 THEN "fire" ELSE "delay"
<1>k. kind \in {"fire", "delay"}
  OBVIOUS
<1>n. /\ NumberedAt(f) /\ TimedAt(f) /\ slept[f] \in Nat /\ last[f] \in Nat
      /\ last[f] <= slept[f] /\ slept[f] <= Len(Plan[f])
      /\ Current(f) \in Chan /\ <<f, last[f]>> \in Chan /\ <<f, 0>> \in Chan
  <2>1. /\ slept[f] \in Nat /\ last[f] \in Nat /\ Len(Plan[f]) \in Nat
        /\ last[f] <= slept[f] /\ slept[f] <= Len(Plan[f])
    BY <1>0, ChanFacts DEF TypeOK
  <2> QED BY <1>0, <2>1, ChanFacts DEF Numbered, Timed, Current
<1>q. /\ queue' \in Seq(Callback)
      /\ Range(queue') = Range(queue) \cup {<<kind, Current(f)>>}
  <2>1. queue \in Seq(Callback) /\ <<kind, Current(f)>> \in Callback
    BY <1>0, <1>n DEF TypeOK, Callback
  <2> QED BY <2>1, QueueFacts DEF Register
<1>r. /\ pc[f] = "sleep" /\ pc'[f] = "close" /\ now + Plan[f][slept[f]] = wake[f]
      /\ kind = "fire" => Plan[f][slept[f]] = 0
      /\ UNCHANGED <<loop, on, timers, now, slept, last, begun, ended, sent, wake>>
  BY <1>0, <1>n DEF TypeOK, TimedAt, Register, Goto
<1>w. kind = "fire" => now = wake[f]
  <2>1. now \in Nat
    BY <1>0 DEF TypeOK
  <2> QED BY <1>r, <2>1
<1> HIDE DEF kind
<1>1. TypeOK'
  BY <1>0, <1>q DEF TypeOK, Goto, Register
<1>2. Turn' /\ Asleep'
  <2>1. Turn'
    BY <1>0, <1>q DEF TypeOK, Turn, Asleep, Numbered, NumberedAt, Waits, Current, Goto, Register
  <2>2. Asleep'
    BY <1>0, <1>q DEF TypeOK, Turn, Asleep, Numbered, NumberedAt, Timed, TimedAt, Waits, Current, Goto, Register
  <2> QED BY <2>1, <2>2
<1>3. ASSUME NEW g \in Funcs, g # f PROVE Quiet(g)
  <2>1. \A k \in Nat : <<g, k>> # Current(f)
    BY <1>3 DEF Current
  <2>2. pc'[g] = pc[g]
    BY <1>0, <1>3 DEF TypeOK, Goto, Register
  <2> QED BY <1>q, <1>r, <2>1, <2>2 DEF Quiet, Queued
<1>4. NumberedAt(f)' /\ TimedAt(f)'
  <2>1. \A k \in Nat : Pending(<<f, k>>)' => Pending(<<f, k>>) \/ k = slept[f]
    BY <1>q, <1>r DEF Pending, Queued, Current
  <2>2. NumberedAt(f)'
    <3>1. slept[f] = last[f] + 1 /\ Current(f) \notin ended /\ Current(f)' = Current(f)
      BY <1>n, <1>r DEF NumberedAt, Current
    <3>2. ~Pending(Current(f))
      BY <1>n, <1>r, <3>1 DEF NumberedAt, Current
    <3>3. Current(f) \notin begun
      BY <3>2 DEF Pending
    <3>4. ASSUME NEW k \in Nat, Pending(<<f, k>>)' PROVE 1 <= k /\ k <= slept[f]
      BY <1>n, <2>1, <3>1, <3>4 DEF NumberedAt
    <3>5. ASSUME NEW k \in Nat, <<f, k>> \in ended PROVE k <= slept[f]
      BY <1>n, <3>5 DEF NumberedAt
    <3> QED BY <1>r, <3>1, <3>3, <3>4, <3>5 DEF NumberedAt
  <2>3. TimedAt(f)'
    BY <1>k, <1>q, <1>n, <1>r, <1>w DEF TimedAt, Queued
  <2> QED BY <2>2, <2>3
<1>5. ASSUME NEW g \in Funcs PROVE NumberedAt(g)' /\ TimedAt(g)'
  BY <1>0, <1>3, <1>4, QuietKeeps DEF Numbered, Timed
<1> QED BY <1>1, <1>2, <1>5 DEF IInv, Numbered, Timed

\* Letting the main loop go keeps the invariant: the function is asleep.
LEMMA CloseStep ==
  ASSUME IInv, NEW f \in Funcs, CloseLast(f)
  PROVE  IInv'
<1>0. TypeOK /\ Turn /\ Asleep /\ Numbered /\ Timed
  BY DEF IInv
<1>n. /\ NumberedAt(f) /\ TimedAt(f) /\ slept[f] \in Nat /\ last[f] \in Nat
      /\ last[f] <= slept[f] /\ slept[f] <= Len(Plan[f])
      /\ Current(f) \in Chan /\ <<f, last[f]>> \in Chan /\ <<f, 0>> \in Chan
  <2>1. /\ slept[f] \in Nat /\ last[f] \in Nat /\ Len(Plan[f]) \in Nat
        /\ last[f] <= slept[f] /\ slept[f] <= Len(Plan[f])
    BY <1>0, ChanFacts DEF TypeOK
  <2> QED BY <1>0, <2>1, ChanFacts DEF Numbered, Timed, Current
<1>e. /\ pc[f] = "close" /\ pc'[f] = "assign" /\ ended' = ended \cup {<<f, last[f]>>}
      /\ UNCHANGED <<loop, on, queue, timers, now, slept, last, begun, sent, wake>>
  BY <1>0 DEF TypeOK, CloseLast, Goto
<1>1. TypeOK'
  BY <1>0, <1>n, <1>e DEF TypeOK, Goto, CloseLast
<1>2. Turn' /\ Asleep'
  <2>1. Turn'
    BY <1>0, <1>n, <1>e DEF TypeOK, Turn, Asleep, Numbered, NumberedAt, Waits, Current, Goto, CloseLast
  <2>2. Asleep'
    BY <1>0, <1>n, <1>e DEF TypeOK, Turn, Asleep, Numbered, NumberedAt, Timed, TimedAt, Waits, Current, Goto, CloseLast
  <2> QED BY <2>1, <2>2
<1>3. ASSUME NEW g \in Funcs, g # f PROVE Quiet(g)
  BY <1>0, <1>3, <1>e DEF TypeOK, Quiet, Queued, Goto, CloseLast
<1>4. NumberedAt(f)' /\ TimedAt(f)'
  <2>1. \A k \in Nat : Pending(<<f, k>>)' => Pending(<<f, k>>)
    BY <1>e DEF Pending, Queued
  <2>2. NumberedAt(f)'
    BY <1>n, <1>e, <2>1 DEF NumberedAt, Current
  <2>3. TimedAt(f)'
    BY <1>n, <1>e DEF TimedAt, Queued
  <2> QED BY <2>2, <2>3
<1>5. ASSUME NEW g \in Funcs PROVE NumberedAt(g)' /\ TimedAt(g)'
  BY <1>0, <1>3, <1>4, QuietKeeps DEF Numbered, Timed
<1> QED BY <1>1, <1>2, <1>5 DEF IInv, Numbered, Timed

\* Keeping the new channel keeps the invariant.
LEMMA AssignStep ==
  ASSUME IInv, NEW f \in Funcs, Assign(f)
  PROVE  IInv'
<1>0. TypeOK /\ Turn /\ Asleep /\ Numbered /\ Timed
  BY DEF IInv
<1>n. /\ NumberedAt(f) /\ TimedAt(f) /\ slept[f] \in Nat /\ last[f] \in Nat
      /\ last[f] <= slept[f] /\ slept[f] <= Len(Plan[f])
      /\ Current(f) \in Chan /\ <<f, last[f]>> \in Chan /\ <<f, 0>> \in Chan
  <2>1. /\ slept[f] \in Nat /\ last[f] \in Nat /\ Len(Plan[f]) \in Nat
        /\ last[f] <= slept[f] /\ slept[f] <= Len(Plan[f])
    BY <1>0, ChanFacts DEF TypeOK
  <2> QED BY <1>0, <2>1, ChanFacts DEF Numbered, Timed, Current
<1>1. TypeOK'
  BY <1>0 DEF TypeOK, Goto, Assign
<1>2. Turn' /\ Asleep'
  <2>1. Turn'
    BY <1>0 DEF TypeOK, Turn, Asleep, Numbered, NumberedAt, Waits, Current, Goto, Assign
  <2>2. Asleep'
    BY <1>0 DEF TypeOK, Turn, Asleep, Numbered, NumberedAt, Timed, TimedAt, Waits, Current, Goto, Assign
  <2> QED BY <2>1, <2>2
<1>3. ASSUME NEW g \in Funcs, g # f PROVE Quiet(g)
  BY <1>0, <1>3 DEF TypeOK, Quiet, Queued, Goto, Assign
<1>4. NumberedAt(f)' /\ TimedAt(f)'
  <2>1. \A k \in Nat : Pending(<<f, k>>)' => Pending(<<f, k>>)
    BY DEF Pending, Queued, Assign
  <2>2. NumberedAt(f)'
    BY <1>0, <1>n, <2>1 DEF TypeOK, NumberedAt, Current, Goto, Assign
  <2>3. TimedAt(f)'
    BY <1>0, <1>n DEF TypeOK, TimedAt, Queued, Goto, Assign
  <2> QED BY <2>2, <2>3
<1>5. ASSUME NEW g \in Funcs PROVE NumberedAt(g)' /\ TimedAt(g)'
  BY <1>0, <1>3, <1>4, QuietKeeps DEF Numbered, Timed
<1> QED BY <1>1, <1>2, <1>5 DEF IInv, Numbered, Timed

\* Waking up takes the turn: the main loop is held by the function's channel.
LEMMA WakeStep ==
  ASSUME IInv, NEW f \in Funcs, Wake(f)
  PROVE  IInv'
<1>0. TypeOK /\ Turn /\ Asleep /\ Numbered /\ Timed
  BY DEF IInv
<1>n. /\ NumberedAt(f) /\ TimedAt(f) /\ slept[f] \in Nat /\ last[f] \in Nat
      /\ last[f] <= slept[f] /\ slept[f] <= Len(Plan[f])
      /\ Current(f) \in Chan /\ <<f, last[f]>> \in Chan /\ <<f, 0>> \in Chan
  <2>1. /\ slept[f] \in Nat /\ last[f] \in Nat /\ Len(Plan[f]) \in Nat
        /\ last[f] <= slept[f] /\ slept[f] <= Len(Plan[f])
    BY <1>0, ChanFacts DEF TypeOK
  <2> QED BY <1>0, <2>1, ChanFacts DEF Numbered, Timed, Current
<1>w. now = wake[f]
  BY <1>0 DEF Asleep, Wake, Goto
<1>1. TypeOK'
  BY <1>0 DEF TypeOK, Goto, Wake
<1>2. Turn' /\ Asleep'
  <2>1. Turn'
    BY <1>0 DEF TypeOK, Turn, Asleep, Numbered, NumberedAt, Waits, Current, Goto, Wake
  <2>2. Asleep'
    BY <1>0 DEF TypeOK, Turn, Asleep, Numbered, NumberedAt, Timed, TimedAt, Waits, Current, Goto, Wake
  <2> QED BY <2>1, <2>2
<1>3. ASSUME NEW g \in Funcs, g # f PROVE Quiet(g)
  BY <1>0, <1>3 DEF TypeOK, Quiet, Queued, Goto, Wake
<1>4. NumberedAt(f)' /\ TimedAt(f)'
  <2>1. \A k \in Nat : Pending(<<f, k>>)' => Pending(<<f, k>>)
    BY DEF Pending, Queued, Wake
  <2>2. NumberedAt(f)'
    BY <1>0, <1>n, <2>1 DEF TypeOK, NumberedAt, Current, Goto, Wake
  <2>3. TimedAt(f)'
    BY <1>0, <1>n, <1>w DEF TypeOK, TimedAt, Queued, Goto, Wake
  <2> QED BY <2>2, <2>3
<1>5. ASSUME NEW g \in Funcs PROVE NumberedAt(g)' /\ TimedAt(g)'
  BY <1>0, <1>3, <1>4, QuietKeeps DEF Numbered, Timed
<1> QED BY <1>1, <1>2, <1>5 DEF IInv, Numbered, Timed

\* Returning ends the last turn.
LEMMA FinishStep ==
  ASSUME IInv, NEW f \in Funcs, Finish(f)
  PROVE  IInv'
<1>0. TypeOK /\ Turn /\ Asleep /\ Numbered /\ Timed
  BY DEF IInv
<1>n. /\ NumberedAt(f) /\ TimedAt(f) /\ slept[f] \in Nat /\ last[f] \in Nat
      /\ last[f] <= slept[f] /\ slept[f] <= Len(Plan[f])
      /\ Current(f) \in Chan /\ <<f, last[f]>> \in Chan /\ <<f, 0>> \in Chan
  <2>1. /\ slept[f] \in Nat /\ last[f] \in Nat /\ Len(Plan[f]) \in Nat
        /\ last[f] <= slept[f] /\ slept[f] <= Len(Plan[f])
    BY <1>0, ChanFacts DEF TypeOK
  <2> QED BY <1>0, <2>1, ChanFacts DEF Numbered, Timed, Current
<1>e. /\ pc[f] = "code" /\ pc'[f] = "done" /\ ended' = ended \cup {<<f, last[f]>>}
      /\ UNCHANGED <<loop, on, queue, timers, now, slept, last, begun, sent, wake>>
  BY <1>0 DEF TypeOK, Finish, Goto
<1>1. TypeOK'
  BY <1>0, <1>n, <1>e DEF TypeOK, Goto, Finish
<1>2. Turn' /\ Asleep'
  <2>1. Turn'
    BY <1>0, <1>n, <1>e DEF TypeOK, Turn, Asleep, Numbered, NumberedAt, Waits, Current, Goto, Finish
  <2>2. Asleep'
    BY <1>0, <1>n, <1>e DEF TypeOK, Turn, Asleep, Numbered, NumberedAt, Timed, TimedAt, Waits, Current, Goto, Finish
  <2> QED BY <2>1, <2>2
<1>3. ASSUME NEW g \in Funcs, g # f PROVE Quiet(g)
  BY <1>0, <1>3, <1>e DEF TypeOK, Quiet, Queued, Goto, Finish
<1>4. NumberedAt(f)' /\ TimedAt(f)'
  <2>1. \A k \in Nat : Pending(<<f, k>>)' => Pending(<<f, k>>)
    BY <1>e DEF Pending, Queued
  <2>2. NumberedAt(f)'
    BY <1>n, <1>e, <2>1 DEF NumberedAt, Current
  <2>3. TimedAt(f)'
    BY <1>n, <1>e DEF TimedAt, Queued
  <2> QED BY <2>2, <2>3
<1>5. ASSUME NEW g \in Funcs PROVE NumberedAt(g)' /\ TimedAt(g)'
  BY <1>0, <1>3, <1>4, QuietKeeps DEF Numbered, Timed
<1> QED BY <1>1, <1>2, <1>5 DEF IInv, Numbered, Timed

-----------------------------------------------------------------------------
\* Every step keeps the invariant.
LEMMA NextInv == IInv /\ [Next]_vars => IInv'
<1> SUFFICES ASSUME IInv, [Next]_vars PROVE IInv'
  OBVIOUS
<1>1. CASE UNCHANGED vars
  BY <1>1, ZenonT(60) DEF vars, IInv, TypeOK, Turn, Asleep, Numbered, NumberedAt, Timed, TimedAt, Waits, Current, Pending, Queued
<1>2. CASE ExecuteWorkflow
  BY <1>2, LoopSteps
<1>3. CASE MainLoop
  BY <1>3, LoopSteps, StartStep, DelayStep, FireStep, SignalledStep, ResumeStep, SkipStep
  DEF MainLoop
<1>4. CASE \E f \in Funcs : AddSequence(f) \/ SignalWorkflow(f) \/ Goroutine(f)
  BY <1>4, AddStep, SignalStep, CallSleepStep, RegisterStep, CloseStep, AssignStep, WakeStep,
     FinishStep DEF Goroutine
<1> QED BY <1>1, <1>2, <1>3, <1>4 DEF Next

\* The invariant holds in every state of every behaviour.
THEOREM Invariant == Spec => []IInv
BY InitInv, NextInv, PTL DEF Spec

\* Types of environment and goroutines, for any functions and any durations.
THEOREM TypeCorrect == Spec => []TypeOK
<1>1. IInv => TypeOK
  BY DEF IInv
<1> QED BY Invariant, <1>1, PTL

\* The code of a function runs only while the main loop waits for that function:
\* never together with the workflow or with another function.
THEOREM TurnsAreTaken == Spec => []TakeTurns
<1>1. IInv => TakeTurns
  BY DEF IInv, Turn, TakeTurns
<1> QED BY Invariant, <1>1, PTL

\* The code after a sleep runs exactly the slept duration later.
THEOREM SleepsAreExact == Spec => []SleepsExactly
<1>1. IInv => SleepsExactly
  BY DEF IInv, Timed, TimedAt, SleepsExactly
<1> QED BY Invariant, <1>1, PTL

-----------------------------------------------------------------------------
(* Channels are closed once.                                               *)

OfSleep(e) == e[1] \in {"delay", "fire"}

\* Of the callbacks of a sleep at most one is in a queue or a timer, and none once
\* its beginCh is closed.
OnceIn(q, open, ts) ==
  /\ \A i, j \in DOMAIN q : OfSleep(q[i]) /\ OfSleep(q[j]) /\ q[i][2] = q[j][2] => i = j
  /\ \A i \in DOMAIN q : OfSleep(q[i]) => q[i][2] \notin open /\ \A t \in ts : t.ch # q[i][2]
  /\ \A t \in ts : t.ch \notin open /\ \A u \in ts : u.ch = t.ch => u = t

Absent(q, ch) == \A i \in DOMAIN q : ~(OfSleep(q[i]) /\ q[i][2] = ch)

Once == OnceIn(queue, begun, timers)

\* Posting a callback keeps this if there is none of its sleep.
LEMMA PostOnce ==
  ASSUME NEW S, NEW q \in Seq(S), NEW e \in S, NEW open, NEW ts, OnceIn(q, open, ts),
         OfSleep(e) => /\ Absent(q, e[2]) /\ e[2] \notin open
                       /\ \A t \in ts : t.ch # e[2]
  PROVE  OnceIn(Append(q, e), open, ts)
<1>1. /\ Len(q) \in Nat /\ DOMAIN q = 1 .. Len(q)
      /\ DOMAIN Append(q, e) = 1 .. Len(q) + 1 /\ Append(q, e)[Len(q) + 1] = e
      /\ \A i \in 1 .. Len(q) : Append(q, e)[i] = q[i]
  OBVIOUS
<1> DEFINE r == Append(q, e)
<1>3. ASSUME NEW i \in DOMAIN r
      PROVE  (r[i] = e /\ i = Len(q) + 1) \/ (i \in DOMAIN q /\ r[i] = q[i])
  <2>1. i \in 1 .. Len(q) \/ i = Len(q) + 1
    BY <1>1
  <2>2. CASE i \in 1 .. Len(q)
    BY <1>1, <2>2
  <2>3. CASE i = Len(q) + 1
    BY <1>1, <2>3
  <2> QED BY <2>1, <2>2, <2>3
<1> HIDE DEF r
<1>4. /\ \A i, j \in DOMAIN r : OfSleep(r[i]) /\ OfSleep(r[j]) /\ r[i][2] = r[j][2] => i = j
      /\ \A i \in DOMAIN r :
           OfSleep(r[i]) => r[i][2] \notin open /\ \A t \in ts : t.ch # r[i][2]
  BY <1>3 DEF OnceIn, Absent
<1>5. OnceIn(r, open, ts)
  BY <1>4 DEF OnceIn
<1> QED BY <1>5 DEF r

\* Taking one keeps it, and there is no other of the sleep it belongs to.
LEMMA TakeOnce ==
  ASSUME NEW S, NEW q \in Seq(S), q # << >>, NEW open, NEW ts, OnceIn(q, open, ts)
  PROVE  /\ OnceIn(Tail(q), open, ts)
         /\ OfSleep(Head(q)) => /\ Absent(Tail(q), Head(q)[2]) /\ Head(q)[2] \notin open
                                /\ \A t \in ts : t.ch # Head(q)[2]
<1>1. Len(q) \in Nat \ {0} /\ DOMAIN q = 1 .. Len(q) /\ Head(q) = q[1]
  BY EmptySeq, LenProperties, HeadTailProperties
<1>2. /\ DOMAIN Tail(q) = 1 .. Len(q) - 1
      /\ \A i \in 1 .. Len(q) - 1 : Tail(q)[i] = q[i + 1]
  BY HeadTailProperties, LenProperties
<1> DEFINE r == Tail(q)
<1>3. /\ 1 \in DOMAIN q
      /\ \A i \in DOMAIN r : i + 1 \in DOMAIN q /\ i + 1 # 1 /\ r[i] = q[i + 1] /\ i \in Int
  BY <1>1, <1>2
<1> HIDE DEF r
<1>4. /\ \A i, j \in DOMAIN r : OfSleep(r[i]) /\ OfSleep(r[j]) /\ r[i][2] = r[j][2] => i + 1 = j + 1
      /\ \A i \in DOMAIN r : OfSleep(r[i]) => r[i][2] \notin open /\ \A t \in ts : t.ch # r[i][2]
  BY <1>3 DEF OnceIn
<1>5. OnceIn(r, open, ts)
  <2>1. \A i, j \in DOMAIN r : i + 1 = j + 1 => i = j
    BY <1>3
  <2> QED BY <1>4, <2>1 DEF OnceIn
<1>6. OfSleep(q[1]) => /\ Absent(r, q[1][2]) /\ q[1][2] \notin open
                       /\ \A t \in ts : t.ch # q[1][2]
  BY <1>3 DEF OnceIn, Absent
<1> QED BY <1>1, <1>5, <1>6 DEF r

\* A callback of no sleep may be posted at any time.
LEMMA OtherPosted ==
  ASSUME IInv, Once, NEW kind \in {"start", "signal"}, NEW ch \in Chan,
         queue' = Append(queue, <<kind, ch>>), UNCHANGED <<begun, timers>>
  PROVE  Once'
<1>1. queue \in Seq(Callback) /\ <<kind, ch>> \in Callback
  BY DEF IInv, TypeOK, Callback
<1> QED BY <1>1, PostOnce DEF Once, OfSleep

\* Register posts the first callback of its sleep.
LEMMA RegisterOnce ==
  ASSUME IInv, Once, NEW f \in Funcs, Register(f)
  PROVE  Once'
<1> DEFINE kind == IF Plan[f][slept[f]] = 0 THEN "fire" ELSE "delay"
<1>1. queue \in Seq(Callback) /\ slept[f] \in Nat /\ last[f] \in Nat
  BY DEF IInv, TypeOK
<1>2. ~Pending(Current(f))
  BY <1>1 DEF IInv, Numbered, NumberedAt, Register, Goto, Current
<1>3. <<kind, Current(f)>> \in Callback
  BY <1>1, ChanFacts DEF IInv, TypeOK, Callback, Current
<1>4. Absent(queue, Current(f))
  <2>1. \A i \in DOMAIN queue : queue[i] \in Callback /\ queue[i] \in Range(queue)
    BY <1>1, ElementOfSeq, LenProperties DEF Range
  <2>2. \A e \in Callback : e = <<e[1], e[2]>>
    BY DEF Callback
  <2> QED BY <1>2, <2>1, <2>2 DEF Absent, OfSleep, Pending, Queued
<1>5. Current(f) \notin begun /\ \A t \in timers : t.ch # Current(f)
  BY <1>2 DEF Pending
<1>6. queue' = Append(queue, <<kind, Current(f)>>) /\ UNCHANGED <<begun, timers>>
  BY DEF Register
<1> HIDE DEF kind
<1> QED BY <1>1, <1>3, <1>4, <1>5, <1>6, PostOnce DEF Once

\* The main loop's callbacks: one that is taken becomes a timer or closes a beginCh
\* for which there is no other.
LEMMA TakesOnce ==
  ASSUME IInv, Once, NEW ch \in Chan,
         Delay(ch) \/ Fire(ch) \/ Signalled(ch) \/ \E f \in Funcs : Start(f)
  PROVE  Once'
<1>1. /\ queue \in Seq(Callback) /\ queue # << >> /\ queue' = Tail(queue)
      /\ \/ Head(queue) = <<"delay", ch>> /\ Delay(ch)
         \/ Head(queue) = <<"fire", ch>> /\ Fire(ch)
         \/ UNCHANGED <<begun, timers>>
  BY DEF IInv, TypeOK, Takes, Delay, Fire, Signalled, Start
<1>2. OnceIn(queue', begun, timers)
  BY <1>1, TakeOnce DEF Once
<1>3. OfSleep(Head(queue)) =>
        /\ Absent(queue', Head(queue)[2]) /\ Head(queue)[2] \notin begun
        /\ \A t \in timers : t.ch # Head(queue)[2]
  BY <1>1, TakeOnce DEF Once
<1>4. CASE Head(queue) = <<"delay", ch>> /\ Delay(ch)
  <2>1. PICK at : timers' = timers \cup {[at |-> at, ch |-> ch]} /\ begun' = begun
    BY <1>4 DEF Delay
  <2>2. Absent(queue', ch) /\ ch \notin begun /\ \A t \in timers : t.ch # ch
    BY <1>3, <1>4 DEF OfSleep
  <2>3. \A t \in timers' : t.ch = ch => t = [at |-> at, ch |-> ch]
    BY <2>1, <2>2
  <2> QED BY <1>2, <2>1, <2>2, <2>3 DEF Once, OnceIn, Absent
<1>5. CASE Head(queue) = <<"fire", ch>> /\ Fire(ch)
  <2>1. timers' = timers /\ begun' = begun \cup {ch}
    BY <1>5 DEF Fire
  <2>2. Absent(queue', ch) /\ ch \notin begun /\ \A t \in timers : t.ch # ch
    BY <1>3, <1>5 DEF OfSleep
  <2> QED BY <1>2, <2>1, <2>2 DEF Once, OnceIn, Absent
<1> QED BY <1>1, <1>2, <1>4, <1>5 DEF Once

\* A timer becomes the only callback of its sleep.
LEMMA SkipOnce ==
  ASSUME Once, SkipTime
  PROVE  Once'
<1>1. PICK t \in timers : timers' = timers \ {t} /\ queue' = << <<"fire", t.ch>> >>
                          /\ begun' = begun
  BY DEF SkipTime
<1>2. DOMAIN queue' = {1} /\ queue'[1] = <<"fire", t.ch>>
  BY <1>1
<1> QED BY <1>1, <1>2 DEF Once, OnceIn, OfSleep

\* Every step keeps it.
LEMMA NextOnce == IInv /\ Once /\ [Next]_vars => Once'
<1> SUFFICES ASSUME IInv, Once, [Next]_vars PROVE Once'
  OBVIOUS
<1>1. ASSUME UNCHANGED <<queue, begun, timers>> PROVE Once'
  BY <1>1 DEF Once
<1>2. CASE MainLoop
  <2>1. ASSUME NEW f \in Funcs, Start(f) PROVE Once'
    <3>1. <<f, 0>> \in Chan
      BY ChanFacts
    <3> QED BY <2>1, <3>1, TakesOnce
  <2>2. ASSUME NEW ch \in Chan, Delay(ch) \/ Fire(ch) \/ Signalled(ch) PROVE Once'
    BY <2>2, TakesOnce
  <2>3. ASSUME (\E ch \in Chan : Resume(ch)) \/ RunWorkflow PROVE Once'
    BY <1>1, <2>3 DEF Resume, RunWorkflow
  <2> QED BY <1>2, <2>1, <2>2, <2>3, SkipOnce DEF MainLoop
<1>3. ASSUME NEW f \in Funcs, AddSequence(f) \/ SignalWorkflow(f) PROVE Once'
  <2>1. slept[f] \in Nat /\ slept[f] <= Len(Plan[f]) /\ Len(Plan[f]) \in Nat
    BY ChanFacts DEF IInv, TypeOK
  <2>2. <<f, 0>> \in Chan /\ Current(f) \in Chan
    BY <2>1, ChanFacts DEF Current
  <2> QED BY <1>3, <2>2, OtherPosted DEF AddSequence, SignalWorkflow
<1>4. ASSUME NEW f \in Funcs, Goroutine(f) PROVE Once'
  BY <1>1, <1>4, RegisterOnce DEF Goroutine, CallSleep, CloseLast, Assign, Wake, Finish
<1>5. CASE ExecuteWorkflow \/ UNCHANGED vars
  BY <1>1, <1>5 DEF ExecuteWorkflow, vars
<1> QED BY <1>2, <1>3, <1>4, <1>5 DEF Next

\* No channel is closed twice, which would panic: neither a function's endCh by Sleep
\* or its goroutine nor a beginCh by a callback (sequence.go).
THEOREM ChannelsCloseOnce == Spec => []ClosesOnce
<1>1. Init => Once
  BY DEF Init, Once, OnceIn
<1>2. IInv /\ Once => ClosesOnce
  <2> SUFFICES ASSUME IInv, Once PROVE ClosesOnce
    OBVIOUS
  <2>1. \A f \in Funcs : pc[f] = "close" \/ pc[f] = "code" => <<f, last[f]>> \notin ended
    BY DEF IInv, Turn
  <2>2. ASSUME queue # << >>, Head(queue)[1] = "fire" PROVE Head(queue)[2] \notin begun
    <3>1. queue \in Seq(Callback)
      BY DEF IInv, TypeOK
    <3> QED BY <2>2, <3>1, TakeOnce DEF Once, OfSleep
  <2> QED BY <2>1, <2>2 DEF ClosesOnce
<1> QED BY Invariant, <1>1, NextOnce, <1>2, PTL DEF Spec
=============================================================================
